----------------------------- MODULE ScanProofs -----------------------------
(***************************************************************************)
(* Setup, for every parameter insmod may be given: what the kernel's scan  *)
(* finds on the new bus, what pcievdrv_probe takes over from it, and what  *)
(* the dispatcher's interrupts follow afterwards.                          *)
(*                                                                         *)
(* The kernel reads numbers and Setup writes bits, so the first half is    *)
(* about the sums of Number and the binary digits of BitsOf.               *)
(***************************************************************************)
EXTENDS SetupProofs, WellFoundedInduction, FiniteSetTheorems

-----------------------------------------------------------------------------
(* Induction, by way of the least counterexample.                          *)

Below == {p \in Nat \X Nat : p[1] < p[2]}

LEMMA LeastNumber ==
  ASSUME NEW S \in SUBSET Nat, S # {}
  PROVE  \E x \in S : \A y \in S : x <= y
<1>1. IsWellFoundedOn(Below, Nat)
  <2>1. OpToRel(<, Nat) = Below
    BY Zenon DEF OpToRel, Below
  <2>2. IsWellFoundedOn(OpToRel(<, Nat), Nat)
    BY NatLessThanWellFounded
  <2> QED
    BY <2>1, <2>2, Zenon
<1>2. PICK x \in S : \A y \in S : ~(<<y, x>> \in Below)
  BY <1>1, WFMin
<1>3. \A m, n \in Nat : <<m, n>> \in Below <=> m < n
  BY DEF Below
<1>4. ASSUME NEW y \in S PROVE x <= y
  <2>1. ~(y < x)
    BY <1>2, <1>3
  <2> QED
    BY <2>1
<1> QED
  BY <1>4

LEMMA Count ==
  ASSUME NEW K \in SUBSET Nat, 0 \in K, \A k \in K : k + 1 \in K
  PROVE  K = Nat
<1> SUFFICES ASSUME Nat \ K # {} PROVE FALSE
  OBVIOUS
<1>1. PICK n \in Nat \ K : \A m \in Nat \ K : n <= m
  BY LeastNumber
<1>2. n # 0 /\ n - 1 \in Nat
  OBVIOUS
<1>3. n - 1 \in K
  BY <1>1, <1>2
<1> QED
  BY <1>2, <1>3

-----------------------------------------------------------------------------
(* Number is a sum over a set. Its definition takes out the elements in the *)
(* order of CHOOSE; the sum is the same in every order.                    *)

Some(s) == CHOOSE x \in s : TRUE

\* f sums the subsets of bits.
Sums(f, bits, unit) ==
  f = [s \in SUBSET bits |->
         IF s = {} THEN 0 ELSE 2^(Some(s) - unit) + f[s \ {Some(s)}]]

LEMMA NumberChosen ==
  \A bits, unit : Number(bits, unit) = (CHOOSE f : Sums(f, bits, unit))[bits]
  BY Zenon DEF Number, MapThenSumSet, MapThenFoldSet, Sums, Some

Summable(bits, unit) ==
  /\ IsFiniteSet(bits)
  /\ \A b \in bits : 2^(b - unit) \in Int

LEMMA SmallerSet ==
  ASSUME NEW s, s # {}, IsFiniteSet(s)
  PROVE  /\ Some(s) \in s
         /\ \A x \in s : /\ IsFiniteSet(s \ {x}) /\ Cardinality(s) \in Nat
                         /\ Cardinality(s \ {x}) = Cardinality(s) - 1
                         /\ Cardinality(s \ {x}) \in Nat
<1>1. Some(s) \in s
  BY DEF Some
<1> QED
  BY <1>1, FS_RemoveElement, FS_CardinalityType

LEMMA SumExists ==
  ASSUME NEW bits, NEW unit, Summable(bits, unit)
  PROVE  \E f \in [SUBSET bits -> Int] : Sums(f, bits, unit)
<1> DEFINE w(s) == 2^(Some(s) - unit)
<1> DEFINE Up(k) == \E f \in [SUBSET bits -> Int] :
                      /\ f[{}] = 0
                      /\ \A s \in (SUBSET bits) \ {{}} :
                           Cardinality(s) <= k => f[s] = w(s) + f[s \ {Some(s)}]
<1>1. \A s \in SUBSET bits : IsFiniteSet(s) /\ Cardinality(s) \in Nat
  BY FS_Subset, FS_CardinalityType DEF Summable
<1>2. \A s \in (SUBSET bits) \ {{}} :
        /\ Some(s) \in s /\ w(s) \in Int /\ s \ {Some(s)} \in SUBSET bits
        /\ Cardinality(s \ {Some(s)}) = Cardinality(s) - 1
        /\ Cardinality(s) # 0
  <2> TAKE s \in (SUBSET bits) \ {{}}
  <2>1. /\ Some(s) \in s
        /\ Cardinality(s \ {Some(s)}) = Cardinality(s) - 1
        /\ Cardinality(s) \in Nat /\ Cardinality(s \ {Some(s)}) \in Nat
    BY <1>1, SmallerSet
  <2>2. w(s) \in Int
    BY <2>1, Zenon DEF Summable
  <2> HIDE DEF w
  <2> QED
    BY <2>1, <2>2
<1> HIDE DEF w
<1>3. Up(0)
  <2> DEFINE g == [s \in SUBSET bits |-> 0]
  <2>1. g \in [SUBSET bits -> Int] /\ g[{}] = 0
    OBVIOUS
  <2>2. ASSUME NEW s \in (SUBSET bits) \ {{}} PROVE ~(Cardinality(s) <= 0)
    <3>1. Cardinality(s) \in Nat /\ Cardinality(s) # 0
      BY <1>1, <1>2
    <3> QED
      BY <3>1
  <2> HIDE DEF g
  <2> QED
    BY <2>1, <2>2
<1>4. ASSUME NEW k \in Nat, Up(k) PROVE Up(k + 1)
  <2>1. PICK f \in [SUBSET bits -> Int] :
          /\ f[{}] = 0
          /\ \A s \in (SUBSET bits) \ {{}} :
               Cardinality(s) <= k => f[s] = w(s) + f[s \ {Some(s)}]
    BY <1>4
  <2> DEFINE g == [s \in SUBSET bits |->
                     IF s # {} /\ Cardinality(s) = k + 1
                     THEN w(s) + f[s \ {Some(s)}] ELSE f[s]]
  <2>2. g \in [SUBSET bits -> Int] /\ g[{}] = 0
    <3>1. ASSUME NEW s \in (SUBSET bits) \ {{}}
          PROVE  w(s) + f[s \ {Some(s)}] \in Int
      <4>1. w(s) \in Int /\ f[s \ {Some(s)}] \in Int
        BY <1>2
      <4> QED
        BY <4>1
    <3>2. \A s \in SUBSET bits : f[s] \in Int
      OBVIOUS
    <3> QED
      BY <2>1, <3>1, <3>2
  <2>3. ASSUME NEW s \in (SUBSET bits) \ {{}}, Cardinality(s) <= k + 1
        PROVE  g[s] = w(s) + g[s \ {Some(s)}]
    <3>1. g[s \ {Some(s)}] = f[s \ {Some(s)}]
      BY <1>1, <1>2, <2>3
    <3>2. Cardinality(s) = k + 1 \/ Cardinality(s) <= k
      BY <1>1, <2>3
    <3>3. g[s] = w(s) + f[s \ {Some(s)}]
      BY <1>1, <2>1, <2>3, <3>2
    <3> QED
      BY <3>1, <3>3
  <2> HIDE DEF g
  <2> QED
    BY <2>2, <2>3
<1> DEFINE K == {k \in Nat : Up(k)}
<1>5. K = Nat
  <2> HIDE DEF Up
  <2>1. 0 \in K /\ \A k \in K : k + 1 \in K
    BY <1>3, <1>4
  <2> HIDE DEF K
  <2>2. K \in SUBSET Nat
    BY DEF K
  <2> QED
    BY <2>1, <2>2, Count
<1>6. Cardinality(bits) \in Nat /\ \A s \in SUBSET bits : Cardinality(s) <= Cardinality(bits)
  BY FS_Subset, FS_CardinalityType DEF Summable
<1>7. Up(Cardinality(bits))
  <2> HIDE DEF Up
  <2> QED
    BY <1>5, <1>6
<1>8. PICK f \in [SUBSET bits -> Int] :
        /\ f[{}] = 0
        /\ \A s \in (SUBSET bits) \ {{}} : f[s] = w(s) + f[s \ {Some(s)}]
  BY <1>6, <1>7
<1>9. f = [s \in SUBSET bits |-> IF s = {} THEN 0 ELSE w(s) + f[s \ {Some(s)}]]
  BY <1>8
<1>10. Sums(f, bits, unit)
  BY <1>9 DEF Sums, w
<1> QED
  BY <1>10

LEMMA SumsAgree ==
  ASSUME NEW bits, NEW fewer \in SUBSET bits, NEW unit, IsFiniteSet(bits),
         NEW f, Sums(f, bits, unit), NEW g, Sums(g, fewer, unit)
  PROVE  \A s \in SUBSET fewer : f[s] = g[s]
<1> DEFINE w(s) == 2^(Some(s) - unit)
<1> DEFINE Upto(k) == \A s \in SUBSET fewer : Cardinality(s) <= k => f[s] = g[s]
<1>1. \A s \in SUBSET fewer : IsFiniteSet(s) /\ Cardinality(s) \in Nat
  BY FS_Subset, FS_CardinalityType
<1>2. \A s \in (SUBSET fewer) \ {{}} :
        /\ s \ {Some(s)} \in SUBSET fewer
        /\ Cardinality(s) # 0
        /\ Cardinality(s \ {Some(s)}) = Cardinality(s) - 1
  <2> TAKE s \in (SUBSET fewer) \ {{}}
  <2>1. /\ Some(s) \in s
        /\ Cardinality(s \ {Some(s)}) = Cardinality(s) - 1
        /\ Cardinality(s) \in Nat /\ Cardinality(s \ {Some(s)}) \in Nat
    BY <1>1, SmallerSet
  <2> QED
    BY <2>1
<1>3. /\ \A s \in SUBSET bits :
           f[s] = IF s = {} THEN 0 ELSE w(s) + f[s \ {Some(s)}]
      /\ \A s \in SUBSET fewer :
           g[s] = IF s = {} THEN 0 ELSE w(s) + g[s \ {Some(s)}]
  BY Zenon DEF Sums
<1> HIDE DEF w
<1>4. Upto(0)
  <2> SUFFICES ASSUME NEW s \in SUBSET fewer, Cardinality(s) <= 0 PROVE f[s] = g[s]
    OBVIOUS
  <2>1. s = {}
    <3>1. Cardinality(s) = 0
      BY <1>1
    <3> QED
      BY <1>2, <3>1
  <2> QED
    BY <1>3, <2>1
<1>5. ASSUME NEW k \in Nat, Upto(k) PROVE Upto(k + 1)
  <2> SUFFICES ASSUME NEW s \in SUBSET fewer, Cardinality(s) <= k + 1, s # {}
               PROVE  f[s] = g[s]
    BY <1>3
  <2>1. Cardinality(s \ {Some(s)}) <= k /\ s \ {Some(s)} \in SUBSET fewer
    <3>1. /\ s \ {Some(s)} \in SUBSET fewer /\ Cardinality(s) \in Nat
          /\ Cardinality(s \ {Some(s)}) = Cardinality(s) - 1
      BY <1>1, <1>2
    <3> QED
      BY <3>1
  <2>2. f[s \ {Some(s)}] = g[s \ {Some(s)}]
    BY <1>5, <2>1
  <2> QED
    BY <1>3, <2>2
<1> DEFINE K == {k \in Nat : Upto(k)}
<1>6. K = Nat
  <2> HIDE DEF Upto
  <2>1. 0 \in K /\ \A k \in K : k + 1 \in K
    BY <1>4, <1>5
  <2> HIDE DEF K
  <2>2. K \in SUBSET Nat
    BY DEF K
  <2> QED
    BY <2>1, <2>2, Count
<1>7. ASSUME NEW s \in SUBSET fewer PROVE f[s] = g[s]
  <2>1. Upto(Cardinality(s)) /\ Cardinality(s) <= Cardinality(s)
    <3> HIDE DEF Upto
    <3>1. Cardinality(s) \in Nat
      BY <1>1
    <3> QED
      BY <1>6, <3>1
  <2> QED
    BY <2>1
<1> QED
  BY <1>7

OrderFree(f, bits, unit) ==
  \A s \in SUBSET bits : \A x \in s : f[s] = 2^(x - unit) + f[s \ {x}]

LEMMA AnyOrder ==
  ASSUME NEW bits, NEW unit, Summable(bits, unit),
         NEW f \in [SUBSET bits -> Int], Sums(f, bits, unit)
  PROVE  OrderFree(f, bits, unit)
<1> DEFINE w(x) == 2^(x - unit)
<1> DEFINE Upto(k) == \A s \in SUBSET bits : Cardinality(s) <= k =>
                        \A x \in s : f[s] = w(x) + f[s \ {x}]
<1>1. \A s \in SUBSET bits : IsFiniteSet(s) /\ Cardinality(s) \in Nat
  BY FS_Subset, FS_CardinalityType DEF Summable
<1>2. \A s \in SUBSET bits : \A x \in s :
        /\ Some(s) \in s /\ s \ {x} \in SUBSET bits
        /\ Cardinality(s) # 0
        /\ Cardinality(s \ {x}) = Cardinality(s) - 1
  <2> TAKE s \in SUBSET bits
  <2> TAKE x \in s
  <2>1. /\ Some(s) \in s
        /\ Cardinality(s \ {x}) = Cardinality(s) - 1
        /\ Cardinality(s) \in Nat /\ Cardinality(s \ {x}) \in Nat
    BY <1>1, SmallerSet
  <2> QED
    BY <2>1
<1>3. /\ \A s \in SUBSET bits :
           f[s] = IF s = {} THEN 0 ELSE w(Some(s)) + f[s \ {Some(s)}]
      /\ \A x \in bits : w(x) \in Int
  BY Zenon DEF Sums, Summable
<1> HIDE DEF w
<1>4. Upto(0)
  <2> SUFFICES ASSUME NEW s \in SUBSET bits, Cardinality(s) <= 0, NEW x \in s
               PROVE  FALSE
    OBVIOUS
  <2>1. Cardinality(s) \in Nat /\ Cardinality(s) # 0
    BY <1>1, <1>2
  <2> QED
    BY <2>1
<1>5. ASSUME NEW k \in Nat, Upto(k) PROVE Upto(k + 1)
  <2> SUFFICES ASSUME NEW s \in SUBSET bits, Cardinality(s) <= k + 1, NEW x \in s
               PROVE  f[s] = w(x) + f[s \ {x}]
    OBVIOUS
  <2> DEFINE c == Some(s)
  <2>1. c \in s /\ f[s] = w(c) + f[s \ {c}]
    BY <1>2, <1>3
  <2> HIDE DEF c
  <2>2. CASE x = c
    BY <2>1, <2>2
  <2>3. CASE x # c
    <3>1. \A y \in s : Cardinality(s \ {y}) <= k /\ s \ {y} \in SUBSET bits
      <4> TAKE y \in s
      <4>1. /\ s \ {y} \in SUBSET bits /\ Cardinality(s) \in Nat
            /\ Cardinality(s \ {y}) = Cardinality(s) - 1
        BY <1>1, <1>2
      <4> QED
        BY <4>1
    <3>2. x \in s \ {c} /\ c \in s \ {x}
      BY <2>1, <2>3
    <3>3. f[s \ {c}] = w(x) + f[(s \ {c}) \ {x}]
      BY <1>5, <2>1, <3>1, <3>2
    <3>4. f[s \ {x}] = w(c) + f[(s \ {x}) \ {c}]
      BY <1>5, <2>1, <3>1, <3>2
    <3>5. (s \ {c}) \ {x} = (s \ {x}) \ {c}
      OBVIOUS
    <3> DEFINE r == f[(s \ {x}) \ {c}]
    <3>6. w(x) \in Int /\ w(c) \in Int /\ r \in Int
      BY <1>3, <2>1
    <3>7. f[s \ {c}] = w(x) + r /\ f[s \ {x}] = w(c) + r
      BY <3>3, <3>4, <3>5
    <3> HIDE DEF r
    <3> QED
      BY <2>1, <3>6, <3>7
  <2> QED
    BY <2>2, <2>3
<1> DEFINE K == {k \in Nat : Upto(k)}
<1>6. K = Nat
  <2> HIDE DEF Upto
  <2>1. 0 \in K /\ \A k \in K : k + 1 \in K
    BY <1>4, <1>5
  <2> HIDE DEF K
  <2>2. K \in SUBSET Nat
    BY DEF K
  <2> QED
    BY <2>1, <2>2, Count
<1>7. ASSUME NEW s \in SUBSET bits, NEW x \in s PROVE f[s] = w(x) + f[s \ {x}]
  <2>1. Upto(Cardinality(s)) /\ Cardinality(s) <= Cardinality(s)
    <3> HIDE DEF Upto
    <3>1. Cardinality(s) \in Nat
      BY <1>1
    <3> QED
      BY <1>6, <3>1
  <2> QED
    BY <2>1
<1> QED
  BY <1>7, Zenon DEF w, OrderFree

LEMMA NumberIs ==
  ASSUME NEW bits, NEW unit, Summable(bits, unit),
         NEW f, Sums(f, bits, unit), NEW s \in SUBSET bits
  PROVE  Number(s, unit) = f[s]
<1>1. Summable(s, unit) /\ IsFiniteSet(bits)
  BY FS_Subset DEF Summable
<1> DEFINE g == CHOOSE h : Sums(h, s, unit)
<1>2. Sums(g, s, unit)
  <2>1. \E h : Sums(h, s, unit)
    BY <1>1, SumExists
  <2> QED
    BY <2>1, Zenon
<1>3. Number(s, unit) = g[s]
  BY NumberChosen, Zenon
<1> HIDE DEF g
<1>4. s \in SUBSET s
  OBVIOUS
<1> QED
  BY <1>1, <1>2, <1>3, <1>4, SumsAgree

\* A sum without terms, and one without one of its terms.
LEMMA NumberSplit ==
  ASSUME NEW bits, NEW unit, Summable(bits, unit)
  PROVE  /\ Number(bits, unit) \in Int
         /\ bits = {} => Number(bits, unit) = 0
         /\ \A x \in bits :
              /\ Number(bits \ {x}, unit) \in Int
              /\ Number(bits, unit) = 2^(x - unit) + Number(bits \ {x}, unit)
<1>1. PICK f \in [SUBSET bits -> Int] : Sums(f, bits, unit)
  BY SumExists, Zenon
<1>2. \A s \in SUBSET bits : Number(s, unit) = f[s]
  BY <1>1, NumberIs
<1>3. bits \in SUBSET bits /\ \A x \in bits : bits \ {x} \in SUBSET bits
  OBVIOUS
<1>4. \A x \in bits : f[bits] = 2^(x - unit) + f[bits \ {x}]
  <2>1. OrderFree(f, bits, unit)
    BY <1>1, AnyOrder
  <2> QED
    BY <1>3, <2>1, Zenon DEF OrderFree
<1>5. f[bits] \in Int /\ \A x \in bits : f[bits \ {x}] \in Int
  BY <1>3
<1>6. bits = {} => f[bits] = 0
  <2>1. {} \in SUBSET bits
    OBVIOUS
  <2>2. f[{}] = IF {} = {} THEN 0 ELSE 2^(Some({}) - unit) + f[{} \ {Some({})}]
    BY <1>1, <2>1, Zenon DEF Sums
  <2> QED
    BY <2>2, Zenon
<1> QED
  BY <1>2, <1>3, <1>4, <1>5, <1>6, Zenon

\* The same as a sum over the digits, for up to twelve of them.
Value(s, unit) ==
  (IF unit \in s THEN 1 ELSE 0) + (IF unit + 1 \in s THEN 2 ELSE 0)
  + (IF unit + 2 \in s THEN 4 ELSE 0) + (IF unit + 3 \in s THEN 8 ELSE 0)
  + (IF unit + 4 \in s THEN 16 ELSE 0) + (IF unit + 5 \in s THEN 32 ELSE 0)
  + (IF unit + 6 \in s THEN 64 ELSE 0) + (IF unit + 7 \in s THEN 128 ELSE 0)
  + (IF unit + 8 \in s THEN 256 ELSE 0) + (IF unit + 9 \in s THEN 512 ELSE 0)
  + (IF unit + 10 \in s THEN 1024 ELSE 0)
  + (IF unit + 11 \in s THEN 2048 ELSE 0)

LEMMA BitsSummable ==
  ASSUME NEW unit \in Nat, NEW last \in Nat, NEW s \in SUBSET (unit .. last)
  PROVE  Summable(s, unit)
<1>1. IsFiniteSet(s)
  <2>1. unit \in Int /\ last \in Int
    OBVIOUS
  <2>2. IsFiniteSet(unit .. last)
    BY <2>1, FS_Interval, Zenon
  <2> QED
    BY <2>2, FS_Subset
<1>2. ASSUME NEW b \in s PROVE 2^(b - unit) \in Int
  <2>1. b - unit \in Nat
    OBVIOUS
  <2>2. \A n \in Nat : 2^n \in Int
    OBVIOUS
  <2> QED
    BY <2>1, <2>2, Zenon
<1> QED
  BY <1>1, <1>2 DEF Summable

LEMMA NumberValue ==
  ASSUME NEW unit \in Nat, NEW s \in SUBSET (unit .. unit + 11)
  PROVE  Number(s, unit) = Value(s, unit)
<1> DEFINE T(k) == {b \in s : b >= unit + k}
           n(k) == Number(T(k), unit)
           d(k) == IF unit + k \in s THEN 2^k ELSE 0
<1>1. ASSUME NEW k \in 0 .. 11
      PROVE  n(k) = d(k) + n(k + 1) /\ n(k) \in Int /\ n(k + 1) \in Int
  <2>1. /\ T(k) \in SUBSET (unit .. unit + 11)
        /\ unit + k \in T(k) <=> unit + k \in s
        /\ T(k) \ {unit + k} = T(k + 1)
        /\ unit + k \notin s => T(k) = T(k + 1)
        /\ unit + k - unit = k /\ unit + 11 \in Nat
    <3>1. ASSUME NEW b \in s
          PROVE  /\ b >= unit + k <=> b >= unit + (k + 1) \/ b = unit + k
                 /\ ~(unit + k >= unit + (k + 1))
      <4>1. b \in Int
        OBVIOUS
      <4> HIDE DEF T, n, d
      <4> QED
        BY <4>1
    <3>2. /\ T(k) \in SUBSET (unit .. unit + 11)
          /\ unit + k - unit = k /\ unit + 11 \in Nat
          /\ unit + k >= unit + k
      <4>1. T(k) \in SUBSET (unit .. unit + 11)
        BY Zenon
      <4> HIDE DEF T, n, d
      <4>2. k \in Nat /\ unit \in Nat
        OBVIOUS
      <4> QED
        BY <4>1, <4>2
    <3>3. unit + k \in T(k) <=> unit + k \in s
      BY <3>2
    <3>4. T(k) \ {unit + k} = T(k + 1)
      BY <3>1, Zenon
    <3>5. unit + k \notin s => T(k) = T(k + 1)
      BY <3>1, Zenon
    <3> QED
      BY <3>2, <3>3, <3>4, <3>5
  <2> HIDE DEF T
  <2>2. Summable(T(k), unit)
    BY <2>1, BitsSummable
  <2>3. CASE unit + k \in s
    <3>1. unit + k \in T(k)
      BY <2>1, <2>3
    <3>2. /\ Number(T(k), unit) \in Int
          /\ Number(T(k) \ {unit + k}, unit) \in Int
          /\ Number(T(k), unit)
               = 2^(unit + k - unit) + Number(T(k) \ {unit + k}, unit)
      BY <2>2, <3>1, NumberSplit
    <3> QED
      BY <2>1, <2>3, <3>2, Zenon
  <2>4. CASE unit + k \notin s
    <3>1. n(k) \in Int
      BY <2>2, NumberSplit, Zenon
    <3>2. n(k) = n(k + 1) /\ d(k) = 0
      BY <2>1, <2>4
    <3> QED
      BY <3>1, <3>2
  <2> QED
    BY <2>3, <2>4
<1>2. n(0) = Number(s, unit)
  <2>1. \A b \in s : b >= unit + 0
    OBVIOUS
  <2>2. T(0) = s
    BY <2>1, Zenon
  <2> QED
    BY <2>2, Zenon
<1>3. n(12) = 0
  <2>1. \A b \in s : ~(b >= unit + 12)
    OBVIOUS
  <2>2. T(12) = {} /\ {} \in SUBSET (unit .. unit + 11) /\ unit + 11 \in Nat
    <3>1. T(12) = {}
      BY <2>1, Zenon
    <3> QED
      BY <3>1
  <2>3. Summable({}, unit)
    BY <2>2, BitsSummable
  <2>4. Number({}, unit) = 0
    BY <2>3, NumberSplit
  <2> QED
    BY <2>2, <2>4, Zenon
<1> HIDE DEF n
<1>4. /\ 2^0 = 1 /\ 2^1 = 2 /\ 2^2 = 4 /\ 2^3 = 8 /\ 2^4 = 16 /\ 2^5 = 32
      /\ 2^6 = 64 /\ 2^7 = 128 /\ 2^8 = 256 /\ 2^9 = 512 /\ 2^10 = 1024
      /\ 2^11 = 2048
  OBVIOUS
<1>5. /\ n(0) = (IF unit \in s THEN 1 ELSE 0) + n(1)
      /\ n(1) = (IF unit + 1 \in s THEN 2 ELSE 0) + n(2)
      /\ n(2) = (IF unit + 2 \in s THEN 4 ELSE 0) + n(3)
      /\ n(3) = (IF unit + 3 \in s THEN 8 ELSE 0) + n(4)
      /\ n(4) = (IF unit + 4 \in s THEN 16 ELSE 0) + n(5)
      /\ n(5) = (IF unit + 5 \in s THEN 32 ELSE 0) + n(6)
      /\ n(6) = (IF unit + 6 \in s THEN 64 ELSE 0) + n(7)
      /\ n(7) = (IF unit + 7 \in s THEN 128 ELSE 0) + n(8)
      /\ n(8) = (IF unit + 8 \in s THEN 256 ELSE 0) + n(9)
      /\ n(9) = (IF unit + 9 \in s THEN 512 ELSE 0) + n(10)
      /\ n(10) = (IF unit + 10 \in s THEN 1024 ELSE 0) + n(11)
      /\ n(11) = (IF unit + 11 \in s THEN 2048 ELSE 0) + n(12)
  BY <1>1, <1>4
<1>6. \A k \in 0 .. 12 : n(k) \in Int
  <2>1. \A k \in 0 .. 11 : n(k) \in Int
    BY <1>1
  <2> QED
    BY <1>3, <2>1
<1>7. /\ n(1) \in Int /\ n(2) \in Int /\ n(3) \in Int /\ n(4) \in Int
      /\ n(5) \in Int /\ n(6) \in Int /\ n(7) \in Int /\ n(8) \in Int
      /\ n(9) \in Int /\ n(10) \in Int /\ n(11) \in Int
  BY <1>6
<1> QED
  BY <1>2, <1>3, <1>5, <1>7 DEF Value

-----------------------------------------------------------------------------
(* The bits of the numbers that PCIEV_PCI_INIT writes.                     *)

Digit(n, k) ==
  (k = 0 /\ n % 2 = 1) \/ (k = 1 /\ (n \div 2) % 2 = 1)
  \/ (k = 2 /\ (n \div 4) % 2 = 1) \/ (k = 3 /\ (n \div 8) % 2 = 1)
  \/ (k = 4 /\ (n \div 16) % 2 = 1) \/ (k = 5 /\ (n \div 32) % 2 = 1)
  \/ (k = 6 /\ (n \div 64) % 2 = 1) \/ (k = 7 /\ (n \div 128) % 2 = 1)
  \/ (k = 8 /\ (n \div 256) % 2 = 1) \/ (k = 9 /\ (n \div 512) % 2 = 1)
  \/ (k = 10 /\ (n \div 1024) % 2 = 1) \/ (k = 11 /\ (n \div 2048) % 2 = 1)
  \/ (k = 12 /\ (n \div 4096) % 2 = 1) \/ (k = 13 /\ (n \div 8192) % 2 = 1)
  \/ (k = 14 /\ (n \div 16384) % 2 = 1) \/ (k = 15 /\ (n \div 32768) % 2 = 1)

LEMMA Digits ==
  ASSUME NEW n \in Nat, NEW k \in 0 .. 15
  PROVE  k \in BitsOf(n) <=> Digit(n, k)
<1>1. k \in BitsOf(n) <=> (n \div 2^k) % 2 = 1
  BY Zenon DEF BitsOf
<1>2. CASE k = 0
  BY <1>1, <1>2, 2^0 = 1 DEF Digit
<1>3. CASE k = 1
  BY <1>1, <1>3, 2^1 = 2 DEF Digit
<1>4. CASE k = 2
  BY <1>1, <1>4, 2^2 = 4 DEF Digit
<1>5. CASE k = 3
  BY <1>1, <1>5, 2^3 = 8 DEF Digit
<1>6. CASE k = 4
  BY <1>1, <1>6, 2^4 = 16 DEF Digit
<1>7. CASE k = 5
  BY <1>1, <1>7, 2^5 = 32 DEF Digit
<1>8. CASE k = 6
  BY <1>1, <1>8, 2^6 = 64 DEF Digit
<1>9. CASE k = 7
  BY <1>1, <1>9, 2^7 = 128 DEF Digit
<1>10. CASE k = 8
  BY <1>1, <1>10, 2^8 = 256 DEF Digit
<1>11. CASE k = 9
  BY <1>1, <1>11, 2^9 = 512 DEF Digit
<1>12. CASE k = 10
  BY <1>1, <1>12, 2^10 = 1024 DEF Digit
<1>13. CASE k = 11
  BY <1>1, <1>13, 2^11 = 2048 DEF Digit
<1>14. CASE k = 12
  BY <1>1, <1>14, 2^12 = 4096 DEF Digit
<1>15. CASE k = 13
  BY <1>1, <1>15, 2^13 = 8192 DEF Digit
<1>16. CASE k = 14
  BY <1>1, <1>16, 2^14 = 16384 DEF Digit
<1>17. CASE k = 15
  BY <1>1, <1>17, 2^15 = 32768 DEF Digit
<1> QED
  BY <1>2, <1>3, <1>4, <1>5, <1>6, <1>7, <1>8, <1>9, <1>10, <1>11, <1>12, <1>13, <1>14, <1>15, <1>16, <1>17

LEMMA BitsOfNumbers ==
  /\ BitsOf(0) = {}
  /\ BitsOf(1) = {0}
  /\ BitsOf(2) = {1}
  /\ BitsOf(3) = {0, 1}
  /\ BitsOf(4) = {2}
  /\ BitsOf(14) = {1, 2, 3}
  /\ BitsOf(15) = {0, 1, 2, 3}
  /\ BitsOf(16) = {4}
  /\ BitsOf(17) = {0, 4}
  /\ BitsOf(25) = {0, 3, 4}
  /\ BitsOf(64) = {6}
  /\ BitsOf(80) = {4, 6}
  /\ BitsOf(96) = {5, 6}
  /\ BitsOf(272) = {4, 8}
  /\ BitsOf(336) = {4, 6, 8}
  /\ BitsOf(384) = {7, 8}
  /\ BitsOf(400) = {4, 7, 8}
  /\ BitsOf(624) = {4, 5, 6, 9}
  /\ BitsOf(672) = {5, 7, 9}
  /\ BitsOf(3153) = {0, 4, 6, 10, 11}
  /\ BitsOf(14093) = {0, 2, 3, 8, 9, 10, 12, 13}
<1>1. \A n \in Nat : BitsOf(n) \subseteq 0 .. 15
  BY DEF BitsOf
<1>2. BitsOf(0) = {}
  <2>1. \A k \in 0 .. 15 : k \in BitsOf(0) <=> k \in {}
    BY Digits DEF Digit
  <2> QED
    BY <1>1, <2>1
<1>3. BitsOf(1) = {0}
  <2>1. \A k \in 0 .. 15 : k \in BitsOf(1) <=> k \in {0}
    BY Digits DEF Digit
  <2> QED
    BY <1>1, <2>1
<1>4. BitsOf(2) = {1}
  <2>1. \A k \in 0 .. 15 : k \in BitsOf(2) <=> k \in {1}
    BY Digits DEF Digit
  <2> QED
    BY <1>1, <2>1
<1>5. BitsOf(3) = {0, 1}
  <2>1. \A k \in 0 .. 15 : k \in BitsOf(3) <=> k \in {0, 1}
    BY Digits DEF Digit
  <2> QED
    BY <1>1, <2>1
<1>6. BitsOf(4) = {2}
  <2>1. \A k \in 0 .. 15 : k \in BitsOf(4) <=> k \in {2}
    BY Digits DEF Digit
  <2> QED
    BY <1>1, <2>1
<1>7. BitsOf(14) = {1, 2, 3}
  <2>1. \A k \in 0 .. 15 : k \in BitsOf(14) <=> k \in {1, 2, 3}
    BY Digits DEF Digit
  <2> QED
    BY <1>1, <2>1
<1>8. BitsOf(15) = {0, 1, 2, 3}
  <2>1. \A k \in 0 .. 15 : k \in BitsOf(15) <=> k \in {0, 1, 2, 3}
    BY Digits DEF Digit
  <2> QED
    BY <1>1, <2>1
<1>9. BitsOf(16) = {4}
  <2>1. \A k \in 0 .. 15 : k \in BitsOf(16) <=> k \in {4}
    BY Digits DEF Digit
  <2> QED
    BY <1>1, <2>1
<1>10. BitsOf(17) = {0, 4}
  <2>1. \A k \in 0 .. 15 : k \in BitsOf(17) <=> k \in {0, 4}
    BY Digits DEF Digit
  <2> QED
    BY <1>1, <2>1
<1>11. BitsOf(25) = {0, 3, 4}
  <2>1. \A k \in 0 .. 15 : k \in BitsOf(25) <=> k \in {0, 3, 4}
    BY Digits DEF Digit
  <2> QED
    BY <1>1, <2>1
<1>12. BitsOf(64) = {6}
  <2>1. \A k \in 0 .. 15 : k \in BitsOf(64) <=> k \in {6}
    BY Digits DEF Digit
  <2> QED
    BY <1>1, <2>1
<1>13. BitsOf(80) = {4, 6}
  <2>1. \A k \in 0 .. 15 : k \in BitsOf(80) <=> k \in {4, 6}
    BY Digits DEF Digit
  <2> QED
    BY <1>1, <2>1
<1>14. BitsOf(96) = {5, 6}
  <2>1. \A k \in 0 .. 15 : k \in BitsOf(96) <=> k \in {5, 6}
    BY Digits DEF Digit
  <2> QED
    BY <1>1, <2>1
<1>15. BitsOf(272) = {4, 8}
  <2>1. \A k \in 0 .. 15 : k \in BitsOf(272) <=> k \in {4, 8}
    BY Digits DEF Digit
  <2> QED
    BY <1>1, <2>1
<1>16. BitsOf(336) = {4, 6, 8}
  <2>1. \A k \in 0 .. 15 : k \in BitsOf(336) <=> k \in {4, 6, 8}
    BY Digits DEF Digit
  <2> QED
    BY <1>1, <2>1
<1>17. BitsOf(384) = {7, 8}
  <2>1. \A k \in 0 .. 15 : k \in BitsOf(384) <=> k \in {7, 8}
    BY Digits DEF Digit
  <2> QED
    BY <1>1, <2>1
<1>18. BitsOf(400) = {4, 7, 8}
  <2>1. \A k \in 0 .. 15 : k \in BitsOf(400) <=> k \in {4, 7, 8}
    BY Digits DEF Digit
  <2> QED
    BY <1>1, <2>1
<1>19. BitsOf(624) = {4, 5, 6, 9}
  <2>1. \A k \in 0 .. 15 : k \in BitsOf(624) <=> k \in {4, 5, 6, 9}
    BY Digits DEF Digit
  <2> QED
    BY <1>1, <2>1
<1>20. BitsOf(672) = {5, 7, 9}
  <2>1. \A k \in 0 .. 15 : k \in BitsOf(672) <=> k \in {5, 7, 9}
    BY Digits DEF Digit
  <2> QED
    BY <1>1, <2>1
<1>21. BitsOf(3153) = {0, 4, 6, 10, 11}
  <2>1. \A k \in 0 .. 15 : k \in BitsOf(3153) <=> k \in {0, 4, 6, 10, 11}
    BY Digits DEF Digit
  <2> QED
    BY <1>1, <2>1
<1>22. BitsOf(14093) = {0, 2, 3, 8, 9, 10, 12, 13}
  <2>1. \A k \in 0 .. 15 : k \in BitsOf(14093) <=> k \in {0, 2, 3, 8, 9, 10, 12, 13}
    BY Digits DEF Digit
  <2> QED
    BY <1>1, <2>1
<1> QED
  BY <1>2, <1>3, <1>4, <1>5, <1>6, <1>7, <1>8, <1>9, <1>10, <1>11, <1>12, <1>13, <1>14, <1>15, <1>16, <1>17, <1>18, <1>19, <1>20, <1>21, <1>22

-----------------------------------------------------------------------------
(* The configuration space after PCIEV_PCI_INIT, bit by bit.               *)

HeaderBits == {0, 4, 6, 10, 11, 20, 24, 33, 52, 64, 352, 356, 358, 362, 363,
              368, 370, 371, 376, 377, 378, 380, 381, 422, 480, 481, 482,
              483}
PmBits     == {512, 524, 526, 528, 529}
MsixBits   == {640, 644, 653, 654, 656, 657, 658, 659, 660, 661, 662, 671,
              685, 719}
PcieBits   == {772, 785, 800, 805, 807, 808, 810, 815, 828}
ExtBits    == {2048, 2064, 2072, 2074, 2076, 2689, 2704, 2715, 2716, 3074,
              3088, 3096, 3099, 3100, 3201, 3202, 3203, 3216, 3224, 3225,
              3226, 3229, 4992, 4993, 5008, 5017, 5019, 5021, 5376, 5379,
              5380, 5392}

SetBits == HeaderBits \cup PmBits \cup MsixBits \cup PcieBits \cup ExtBits

LEMMA Registers ==
  /\ Reg(0, 3153) = {0, 4, 6, 10, 11}
  /\ Reg(2, 272) = {20, 24}
  /\ Reg(8, 1) = {64}
  /\ Reg(44, 3153) = {352, 356, 358, 362, 363}
  /\ Reg(46, 14093) = {368, 370, 371, 376, 377, 378, 380, 381}
  /\ Reg(52, 64) = {422}
  /\ Reg(60, 15) = {480, 481, 482, 483}
  /\ Reg(64, 1) = {512}
  /\ Reg(65, 80) = {524, 526}
  /\ Reg(66, 3) = {528, 529}
  /\ Reg(80, 17) = {640, 644}
  /\ Reg(81, 96) = {653, 654}
  /\ Reg(96, 16) = {772}
  /\ Reg(97, 0) = {}
  /\ Reg(98, 2) = {785}
  /\ Reg(256, 1) = {2048}
  /\ Reg(336, 2) = {2689}
  /\ Reg(384, 4) = {3074}
  /\ Reg(400, 14) = {3201, 3202, 3203}
  /\ Reg(624, 3) = {4992, 4993}
  /\ Reg(672, 25) = {5376, 5379, 5380}
<1>1. Reg(0, 3153) = {0, 4, 6, 10, 11}
  BY BitsOfNumbers DEF Reg, At
<1>2. Reg(2, 272) = {20, 24}
  BY BitsOfNumbers DEF Reg, At
<1>3. Reg(8, 1) = {64}
  BY BitsOfNumbers DEF Reg, At
<1>4. Reg(44, 3153) = {352, 356, 358, 362, 363}
  BY BitsOfNumbers DEF Reg, At
<1>5. Reg(46, 14093) = {368, 370, 371, 376, 377, 378, 380, 381}
  BY BitsOfNumbers DEF Reg, At
<1>6. Reg(52, 64) = {422}
  BY BitsOfNumbers DEF Reg, At
<1>7. Reg(60, 15) = {480, 481, 482, 483}
  BY BitsOfNumbers DEF Reg, At
<1>8. Reg(64, 1) = {512}
  BY BitsOfNumbers DEF Reg, At
<1>9. Reg(65, 80) = {524, 526}
  BY BitsOfNumbers DEF Reg, At
<1>10. Reg(66, 3) = {528, 529}
  BY BitsOfNumbers DEF Reg, At
<1>11. Reg(80, 17) = {640, 644}
  BY BitsOfNumbers DEF Reg, At
<1>12. Reg(81, 96) = {653, 654}
  BY BitsOfNumbers DEF Reg, At
<1>13. Reg(96, 16) = {772}
  BY BitsOfNumbers DEF Reg, At
<1>14. Reg(97, 0) = {}
  BY BitsOfNumbers DEF Reg, At
<1>15. Reg(98, 2) = {785}
  BY BitsOfNumbers DEF Reg, At
<1>16. Reg(256, 1) = {2048}
  BY BitsOfNumbers DEF Reg, At
<1>17. Reg(336, 2) = {2689}
  BY BitsOfNumbers DEF Reg, At
<1>18. Reg(384, 4) = {3074}
  BY BitsOfNumbers DEF Reg, At
<1>19. Reg(400, 14) = {3201, 3202, 3203}
  BY BitsOfNumbers DEF Reg, At
<1>20. Reg(624, 3) = {4992, 4993}
  BY BitsOfNumbers DEF Reg, At
<1>21. Reg(672, 25) = {5376, 5379, 5380}
  BY BitsOfNumbers DEF Reg, At
<1> QED
  BY <1>1, <1>2, <1>3, <1>4, <1>5, <1>6, <1>7, <1>8, <1>9, <1>10, <1>11, <1>12, <1>13, <1>14, <1>15, <1>16, <1>17, <1>18, <1>19, <1>20, <1>21

LEMMA HeaderIs == HeaderConstants = HeaderBits
  BY Registers
     DEF HeaderConstants, HeaderBits, PCIEV_VENDOR_ID, PCIEV_DEVICE_ID,
         PCIEV_SUBSYSTEM_ID, PCIEV_INTX_IRQ, PCI_COMMAND, MemorySpace, CapList,
         PCI_STATUS, PCI_CAPABILITY_LIST, PCI_INTERRUPT_LINE, OFFS_PCI_PM_CAP

LEMMA CapabilitiesAre ==
  /\ PCI_PMCAP_SETTINGS = PmBits
  /\ PCI_MSIXCAP_SETTINGS = MsixBits
  /\ PCI_PCIECAP_SETTINGS = PcieBits
<1> USE DEF Capability, OFFS_PCI_PM_CAP, OFFS_PCI_MSIX_CAP, OFFS_PCIE_CAP
<1>1. PCI_PMCAP_SETTINGS = PmBits
  BY Registers DEF PCI_PMCAP_SETTINGS, PmBits
<1>2. PCI_MSIXCAP_SETTINGS = MsixBits
  <2>1. /\ At(82, 0 .. 6 \cup {15}) = 656 .. 662 \cup {671}
        /\ At(84, {13}) = {685} /\ At(88, {15}) = {719}
    BY DEF At
  <2> QED
    BY <2>1, Registers
       DEF PCI_MSIXCAP_SETTINGS, MsixBits, MsixNext, PCI_MSIX_FLAGS, MsixEnable
<1>3. PCI_PCIECAP_SETTINGS = PcieBits
  <2>1. At(100, {0, 5, 7, 8, 10, 15, 28})
          = {800, 805, 807, 808, 810, 815, 828}
    BY DEF At
  <2> QED
    BY <2>1, Registers DEF PCI_PCIECAP_SETTINGS, PcieBits
<1> QED
  BY <1>1, <1>2, <1>3

LEMMA ExtendedAre == PCI_EXTCAP_SETTINGS = ExtBits
<1> DEFINE c(k) == ExtCapability(OFFS_PCI_EXT_CAP + ExtCaps[k].at, ExtCaps[k].id,
                     IF k = 6 THEN 0 ELSE OFFS_PCI_EXT_CAP + ExtCaps[k + 1].at)
<1>1. PCI_EXTCAP_SETTINGS = c(1) \cup c(2) \cup c(3) \cup c(4) \cup c(5) \cup c(6)
  <2>1. PCI_EXTCAP_SETTINGS = UNION {c(k) : k \in 1 .. 6}
    BY DEF PCI_EXTCAP_SETTINGS
  <2>2. 1 .. 6 = {1, 2, 3, 4, 5, 6}
    OBVIOUS
  <2> HIDE DEF c
  <2> QED
    BY <2>1, <2>2
<1>2. c(1) = {2048, 2064, 2072, 2074, 2076}
  <2>1. c(1) = ExtCapability(256, 1, 336)
    BY DEF ExtCaps, OFFS_PCI_EXT_CAP
  <2>2. {0} \cup {j + 4 : j \in BitsOf(336)} = {0, 8, 10, 12}
    BY BitsOfNumbers
  <2>3. At(258, {0, 8, 10, 12})
          = {2064, 2072, 2074, 2076}
    BY DEF At
  <2>4. ExtCapability(256, 1, 336) = Reg(256, 1) \cup At(258, {0, 8, 10, 12})
    BY <2>2 DEF ExtCapability
  <2> QED
    BY <2>1, <2>3, <2>4, Registers
<1>3. c(2) = {2689, 2704, 2715, 2716}
  <2>1. c(2) = ExtCapability(336, 2, 384)
    BY DEF ExtCaps, OFFS_PCI_EXT_CAP
  <2>2. {0} \cup {j + 4 : j \in BitsOf(384)} = {0, 11, 12}
    BY BitsOfNumbers
  <2>3. At(338, {0, 11, 12})
          = {2704, 2715, 2716}
    BY DEF At
  <2>4. ExtCapability(336, 2, 384) = Reg(336, 2) \cup At(338, {0, 11, 12})
    BY <2>2 DEF ExtCapability
  <2> QED
    BY <2>1, <2>3, <2>4, Registers
<1>4. c(3) = {3074, 3088, 3096, 3099, 3100}
  <2>1. c(3) = ExtCapability(384, 4, 400)
    BY DEF ExtCaps, OFFS_PCI_EXT_CAP
  <2>2. {0} \cup {j + 4 : j \in BitsOf(400)} = {0, 8, 11, 12}
    BY BitsOfNumbers
  <2>3. At(386, {0, 8, 11, 12})
          = {3088, 3096, 3099, 3100}
    BY DEF At
  <2>4. ExtCapability(384, 4, 400) = Reg(384, 4) \cup At(386, {0, 8, 11, 12})
    BY <2>2 DEF ExtCapability
  <2> QED
    BY <2>1, <2>3, <2>4, Registers
<1>5. c(4) = {3201, 3202, 3203, 3216, 3224, 3225, 3226, 3229}
  <2>1. c(4) = ExtCapability(400, 14, 624)
    BY DEF ExtCaps, OFFS_PCI_EXT_CAP
  <2>2. {0} \cup {j + 4 : j \in BitsOf(624)} = {0, 8, 9, 10, 13}
    BY BitsOfNumbers
  <2>3. At(402, {0, 8, 9, 10, 13})
          = {3216, 3224, 3225, 3226, 3229}
    BY DEF At
  <2>4. ExtCapability(400, 14, 624) = Reg(400, 14) \cup At(402, {0, 8, 9, 10, 13})
    BY <2>2 DEF ExtCapability
  <2> QED
    BY <2>1, <2>3, <2>4, Registers
<1>6. c(5) = {4992, 4993, 5008, 5017, 5019, 5021}
  <2>1. c(5) = ExtCapability(624, 3, 672)
    BY DEF ExtCaps, OFFS_PCI_EXT_CAP
  <2>2. {0} \cup {j + 4 : j \in BitsOf(672)} = {0, 9, 11, 13}
    BY BitsOfNumbers
  <2>3. At(626, {0, 9, 11, 13})
          = {5008, 5017, 5019, 5021}
    BY DEF At
  <2>4. ExtCapability(624, 3, 672) = Reg(624, 3) \cup At(626, {0, 9, 11, 13})
    BY <2>2 DEF ExtCapability
  <2> QED
    BY <2>1, <2>3, <2>4, Registers
<1>7. c(6) = {5376, 5379, 5380, 5392}
  <2>1. c(6) = ExtCapability(672, 25, 0)
    BY DEF ExtCaps, OFFS_PCI_EXT_CAP
  <2>2. {0} \cup {j + 4 : j \in BitsOf(0)} = {0}
    BY BitsOfNumbers
  <2>3. At(674, {0})
          = {5392}
    BY DEF At
  <2>4. ExtCapability(672, 25, 0) = Reg(672, 25) \cup At(674, {0})
    BY <2>2 DEF ExtCapability
  <2> QED
    BY <2>1, <2>3, <2>4, Registers
<1> HIDE DEF c
<1> QED
  BY <1>1, <1>2, <1>3, <1>4, <1>5, <1>6, <1>7 DEF ExtBits

\* With the address in the BAR, whose lower 14 bits are not there.
LEMMA SettingsAre ==
  ASSUME NEW base \in SUBSET (12 .. 41)
  PROVE  Settings(base) = SetBits \cup {130} \cup {128 + b : b \in base \ {12, 13}}
<1>1. At(PCI_BASE_ADDRESS_0, {2} \cup MlbarBits(base))
        = {130} \cup {128 + b : b \in base \cap 14 .. 31}
  BY DEF At, PCI_BASE_ADDRESS_0, MlbarBits
<1>2. At(PCI_BASE_ADDRESS_1, {b - 32 : b \in base \cap 32 .. 63})
        = {128 + b : b \in base \cap 32 .. 63}
  <2> DEFINE hi == base \cap 32 .. 63
  <2>1. \A b \in hi : 8 * 20 + (b - 32) = 128 + b
    OBVIOUS
  <2> HIDE DEF hi
  <2>2. At(20, {b - 32 : b \in hi}) = {8 * 20 + (b - 32) : b \in hi}
    BY Zenon DEF At
  <2>3. {8 * 20 + (b - 32) : b \in hi} = {128 + b : b \in hi}
    BY <2>1
  <2> QED
    BY <2>2, <2>3, Zenon DEF PCI_BASE_ADDRESS_1, hi
<1>3. base \ {12, 13} = (base \cap 14 .. 31) \cup (base \cap 32 .. 63)
  <2>1. \A b \in base : b \notin {12, 13} <=> b \in 14 .. 31 \/ b \in 32 .. 63
    <3> TAKE b \in base
    <3>1. b \in 12 .. 41
      OBVIOUS
    <3> QED
      BY <3>1
  <2> QED
    BY <2>1, Zenon
<1>4. PCI_HEADER_SETTINGS(base)
        = HeaderBits \cup {130} \cup {128 + b : b \in base \ {12, 13}}
  <2> DEFINE low  == {128 + b : b \in base \cap 14 .. 31}
             high == {128 + b : b \in base \cap 32 .. 63}
             all  == {128 + b : b \in base \ {12, 13}}
  <2>1. all = low \cup high
    BY <1>3, Zenon
  <2>2. PCI_HEADER_SETTINGS(base) = HeaderBits \cup ({130} \cup low) \cup high
    BY <1>1, <1>2, HeaderIs, Zenon DEF PCI_HEADER_SETTINGS
  <2> HIDE DEF low, high, all
  <2>3. HeaderBits \cup ({130} \cup low) \cup high = HeaderBits \cup {130} \cup all
    BY <2>1, Zenon
  <2> QED
    BY <2>2, <2>3, Zenon DEF all
<1> QED
  BY <1>4, CapabilitiesAre, ExtendedAre DEF Settings, SetBits

-----------------------------------------------------------------------------
(* The kernel's walks. Walk is a recursive function, of which a proof needs *)
(* to know that it exists and what it is at every step.                    *)

LEMMA WalkReaches ==
  ASSUME NEW hop, NEW start, NEW k \in 0 .. 48, NEW p,
         p[0] = start, \A n \in 0 .. k - 1 : hop[p[n]] = p[n + 1],
         hop[p[k]] = p[k]
  PROVE  Walk(hop, start) = p[k]
<1> DEFINE IsWalk(f) ==
             f = [n \in 0 .. Ttl |-> IF n = 0 THEN start ELSE hop[f[n - 1]]]
           last(n) == IF n < k THEN n ELSE k
           q == [n \in 0 .. 48 |-> p[last(n)]]
           at == CHOOSE f : IsWalk(f)
<1>1. Walk(hop, start) = at[48]
  BY Zenon DEF Walk, Ttl
<1>2. \A n \in 1 .. 48 : n - 1 \in 0 .. 48 /\ n \in 0 .. 48 /\ n # 0
  OBVIOUS
<1>3. \A n \in 1 .. 48 : q[n] = hop[q[n - 1]]
  <2> TAKE n \in 1 .. 48
  <2>1. q[n] = p[last(n)] /\ q[n - 1] = p[last(n - 1)]
    BY <1>2
  <2>2. CASE n <= k
    <3>1. last(n) = (n - 1) + 1 /\ last(n - 1) = n - 1 /\ n - 1 \in 0 .. k - 1
      BY <2>2
    <3> QED
      BY <2>1, <3>1
  <2>3. CASE n > k
    <3>1. last(n) = k /\ last(n - 1) = k
      BY <2>3
    <3> QED
      BY <2>1, <3>1
  <2> QED
    BY <2>2, <2>3
<1>4. q[0] = start /\ q[48] = p[k]
  BY DEF q
<1>5. q = [n \in 0 .. 48 |-> IF n = 0 THEN start ELSE hop[q[n - 1]]]
  <2>1. \A n \in 0 .. 48 : n = 0 \/ n \in 1 .. 48
    OBVIOUS
  <2>2. \A n \in 0 .. 48 : q[n] = IF n = 0 THEN start ELSE hop[q[n - 1]]
    BY <1>2, <1>3, <1>4, <2>1
  <2>3. q = [n \in 0 .. 48 |-> q[n]]
    OBVIOUS
  <2> HIDE DEF q
  <2> QED
    BY <2>2, <2>3
<1> HIDE DEF q, last
<1>6. IsWalk(at)
  <2>1. IsWalk(q)
    BY <1>5 DEF Ttl
  <2> QED
    BY <2>1, Zenon
<1>7. at[0] = start /\ \A n \in 1 .. 48 : at[n] = hop[at[n - 1]]
  <2> HIDE DEF at
  <2>1. at = [n \in 0 .. 48 |-> IF n = 0 THEN start ELSE hop[at[n - 1]]]
    BY <1>6 DEF Ttl
  <2>2. \A n \in 0 .. 48 : at[n] = IF n = 0 THEN start ELSE hop[at[n - 1]]
    BY <2>1, Zenon
  <2> QED
    BY <1>2, <2>2
<1> HIDE DEF at
<1> DEFINE K == {n \in Nat : n <= 48 => at[n] = q[n]}
<1>8. K = Nat
  <2>1. 0 \in K
    BY <1>4, <1>7
  <2>2. ASSUME NEW n \in K PROVE n + 1 \in K
    <3> SUFFICES ASSUME n + 1 <= 48 PROVE at[n + 1] = q[n + 1]
      OBVIOUS
    <3>1. n \in Nat /\ n + 1 \in 1 .. 48 /\ (n + 1) - 1 = n /\ at[n] = q[n]
      OBVIOUS
    <3> QED
      BY <1>3, <1>7, <3>1
  <2>3. K \in SUBSET Nat
    OBVIOUS
  <2> HIDE DEF K
  <2> QED
    BY <2>1, <2>2, <2>3, Count
<1>9. at[48] = q[48]
  <2>1. 48 \in K
    <3> HIDE DEF K
    <3> QED
      BY <1>8
  <2> QED
    BY <2>1
<1> QED
  BY <1>1, <1>4, <1>9

\* The bits of the heads of the capabilities: the start of the list, and each
\* identifier and pointer to the next one.
CapHeads == 416 .. 423 \cup 512 .. 527 \cup 640 .. 655 \cup 768 .. 783
ExtHeads == 2048 .. 2079 \cup 2688 .. 2719 \cup 3072 .. 3103
              \cup 3200 .. 3231 \cup 4992 .. 5023 \cup 5376 .. 5407

HeadsKept == \A f \in CapHeads \cup ExtHeads : f \in cfg <=> f \in SetBits

\* The bits of a head.
LEMMA HeadBits ==
  /\ \A b \in 0 .. 7 : 416 + b \in SetBits <=> b \in {6}
  /\ \A b \in 0 .. 7 : 512 + b \in SetBits <=> b \in {0}
  /\ \A b \in 0 .. 7 : 520 + b \in SetBits <=> b \in {4, 6}
  /\ \A b \in 0 .. 7 : 640 + b \in SetBits <=> b \in {0, 4}
  /\ \A b \in 0 .. 7 : 648 + b \in SetBits <=> b \in {5, 6}
  /\ \A b \in 0 .. 7 : 768 + b \in SetBits <=> b \in {4}
  /\ \A b \in 0 .. 7 : 776 + b \in SetBits <=> b \in {}
  /\ \A b \in 0 .. 31 : 2048 + b \in SetBits <=> b \in {0, 16, 24, 26, 28}
  /\ \A b \in 0 .. 31 : 2688 + b \in SetBits <=> b \in {1, 16, 27, 28}
  /\ \A b \in 0 .. 31 : 3072 + b \in SetBits <=> b \in {2, 16, 24, 27, 28}
  /\ \A b \in 0 .. 31 : 3200 + b \in SetBits <=> b \in {1, 2, 3, 16, 24, 25, 26, 29}
  /\ \A b \in 0 .. 31 : 4992 + b \in SetBits <=> b \in {0, 1, 16, 25, 27, 29}
  /\ \A b \in 0 .. 31 : 5376 + b \in SetBits <=> b \in {0, 3, 4, 16}
<1> USE DEF SetBits, HeaderBits, PmBits, MsixBits, PcieBits, ExtBits
<1>1. \A b \in 0 .. 7 : 416 + b \in SetBits <=> b \in {6}
  OBVIOUS
<1>2. \A b \in 0 .. 7 : 512 + b \in SetBits <=> b \in {0}
  OBVIOUS
<1>3. \A b \in 0 .. 7 : 520 + b \in SetBits <=> b \in {4, 6}
  OBVIOUS
<1>4. \A b \in 0 .. 7 : 640 + b \in SetBits <=> b \in {0, 4}
  OBVIOUS
<1>5. \A b \in 0 .. 7 : 648 + b \in SetBits <=> b \in {5, 6}
  OBVIOUS
<1>6. \A b \in 0 .. 7 : 768 + b \in SetBits <=> b \in {4}
  OBVIOUS
<1>7. \A b \in 0 .. 7 : 776 + b \in SetBits <=> b \in {}
  OBVIOUS
<1>8. \A b \in 0 .. 31 : 2048 + b \in SetBits <=> b \in {0, 16, 24, 26, 28}
  OBVIOUS
<1>9. \A b \in 0 .. 31 : 2688 + b \in SetBits <=> b \in {1, 16, 27, 28}
  OBVIOUS
<1>10. \A b \in 0 .. 31 : 3072 + b \in SetBits <=> b \in {2, 16, 24, 27, 28}
  OBVIOUS
<1>11. \A b \in 0 .. 31 : 3200 + b \in SetBits <=> b \in {1, 2, 3, 16, 24, 25, 26, 29}
  OBVIOUS
<1>12. \A b \in 0 .. 31 : 4992 + b \in SetBits <=> b \in {0, 1, 16, 25, 27, 29}
  OBVIOUS
<1>13. \A b \in 0 .. 31 : 5376 + b \in SetBits <=> b \in {0, 3, 4, 16}
  OBVIOUS
<1> HIDE DEF SetBits
<1> QED
  BY <1>1, <1>2, <1>3, <1>4, <1>5, <1>6, <1>7, <1>8, <1>9, <1>10, <1>11, <1>12, <1>13

LEMMA ByteValue ==
  ASSUME NEW where, NEW s \in SUBSET (0 .. 7), ConfigRead(where, 1) = s
  PROVE  Byte(where) = Value(s, 0)
<1>1. 0 \in Nat /\ s \in SUBSET (0 .. 0 + 11)
  OBVIOUS
<1> QED
  BY <1>1, NumberValue DEF Byte

LEMMA HeadBytes ==
  ASSUME HeadsKept
  PROVE  /\ Byte(52) = 64
         /\ Byte(64) = 1
         /\ Byte(65) = 80
         /\ Byte(80) = 17
         /\ Byte(81) = 96
         /\ Byte(96) = 16
         /\ Byte(97) = 0
<1>1. Byte(52) = 64
  <2>1. \A b \in 0 .. 7 : 416 + b \in cfg <=> b \in {6}
    BY HeadBits DEF HeadsKept, CapHeads
  <2>2. ConfigRead(52, 1) = {6}
    BY <2>1 DEF ConfigRead
  <2>3. {6} \in SUBSET (0 .. 7) /\ Value({6}, 0) = 64
    BY DEF Value
  <2> QED
    BY <2>2, <2>3, ByteValue
<1>2. Byte(64) = 1
  <2>1. \A b \in 0 .. 7 : 512 + b \in cfg <=> b \in {0}
    BY HeadBits DEF HeadsKept, CapHeads
  <2>2. ConfigRead(64, 1) = {0}
    BY <2>1 DEF ConfigRead
  <2>3. {0} \in SUBSET (0 .. 7) /\ Value({0}, 0) = 1
    BY DEF Value
  <2> QED
    BY <2>2, <2>3, ByteValue
<1>3. Byte(65) = 80
  <2>1. \A b \in 0 .. 7 : 520 + b \in cfg <=> b \in {4, 6}
    BY HeadBits DEF HeadsKept, CapHeads
  <2>2. ConfigRead(65, 1) = {4, 6}
    BY <2>1 DEF ConfigRead
  <2>3. {4, 6} \in SUBSET (0 .. 7) /\ Value({4, 6}, 0) = 80
    BY DEF Value
  <2> QED
    BY <2>2, <2>3, ByteValue
<1>4. Byte(80) = 17
  <2>1. \A b \in 0 .. 7 : 640 + b \in cfg <=> b \in {0, 4}
    BY HeadBits DEF HeadsKept, CapHeads
  <2>2. ConfigRead(80, 1) = {0, 4}
    BY <2>1 DEF ConfigRead
  <2>3. {0, 4} \in SUBSET (0 .. 7) /\ Value({0, 4}, 0) = 17
    BY DEF Value
  <2> QED
    BY <2>2, <2>3, ByteValue
<1>5. Byte(81) = 96
  <2>1. \A b \in 0 .. 7 : 648 + b \in cfg <=> b \in {5, 6}
    BY HeadBits DEF HeadsKept, CapHeads
  <2>2. ConfigRead(81, 1) = {5, 6}
    BY <2>1 DEF ConfigRead
  <2>3. {5, 6} \in SUBSET (0 .. 7) /\ Value({5, 6}, 0) = 96
    BY DEF Value
  <2> QED
    BY <2>2, <2>3, ByteValue
<1>6. Byte(96) = 16
  <2>1. \A b \in 0 .. 7 : 768 + b \in cfg <=> b \in {4}
    BY HeadBits DEF HeadsKept, CapHeads
  <2>2. ConfigRead(96, 1) = {4}
    BY <2>1 DEF ConfigRead
  <2>3. {4} \in SUBSET (0 .. 7) /\ Value({4}, 0) = 16
    BY DEF Value
  <2> QED
    BY <2>2, <2>3, ByteValue
<1>7. Byte(97) = 0
  <2>1. \A b \in 0 .. 7 : 776 + b \in cfg <=> b \in {}
    BY HeadBits DEF HeadsKept, CapHeads
  <2>2. ConfigRead(97, 1) = {}
    BY <2>1 DEF ConfigRead
  <2>3. {} \in SUBSET (0 .. 7) /\ Value({}, 0) = 0
    BY DEF Value
  <2> QED
    BY <2>2, <2>3, ByteValue
<1> QED
  BY <1>1, <1>2, <1>3, <1>4, <1>5, <1>6, <1>7

LEMMA HeadExts ==
  ASSUME HeadsKept
  PROVE  /\ ExtId(256) = 1 /\ ExtNext(256) = 336
         /\ ExtId(336) = 2 /\ ExtNext(336) = 384
         /\ ExtId(384) = 4 /\ ExtNext(384) = 400
         /\ ExtId(400) = 14 /\ ExtNext(400) = 624
         /\ ExtId(624) = 3 /\ ExtNext(624) = 672
         /\ ExtId(672) = 25 /\ ExtNext(672) = 0
<1>1. ExtId(256) = 1 /\ ExtNext(256) = 336
  <2>1. \A b \in 0 .. 31 : 2048 + b \in cfg <=> b \in {0, 16, 24, 26, 28}
    BY HeadBits DEF HeadsKept, ExtHeads
  <2>2. ConfigRead(256, 2) = {0}
    BY <2>1 DEF ConfigRead
  <2>3. {b \in ConfigRead(256, 4) : b > 21} = {24, 26, 28}
    BY <2>1 DEF ConfigRead
  <2>4. /\ {0} \in SUBSET (0 .. 0 + 11) /\ 0 \in Nat
        /\ Value({0}, 0) = 1
        /\ {24, 26, 28} \in SUBSET (20 .. 20 + 11) /\ 20 \in Nat
        /\ Value({24, 26, 28}, 20) = 336
    BY DEF Value
  <2>5. Number({0}, 0) = 1 /\ Number({24, 26, 28}, 20) = 336
    BY <2>4, NumberValue
  <2> QED
    BY <2>2, <2>3, <2>5, Zenon DEF ExtId, ExtNext
<1>2. ExtId(336) = 2 /\ ExtNext(336) = 384
  <2>1. \A b \in 0 .. 31 : 2688 + b \in cfg <=> b \in {1, 16, 27, 28}
    BY HeadBits DEF HeadsKept, ExtHeads
  <2>2. ConfigRead(336, 2) = {1}
    BY <2>1 DEF ConfigRead
  <2>3. {b \in ConfigRead(336, 4) : b > 21} = {27, 28}
    BY <2>1 DEF ConfigRead
  <2>4. /\ {1} \in SUBSET (0 .. 0 + 11) /\ 0 \in Nat
        /\ Value({1}, 0) = 2
        /\ {27, 28} \in SUBSET (20 .. 20 + 11) /\ 20 \in Nat
        /\ Value({27, 28}, 20) = 384
    BY DEF Value
  <2>5. Number({1}, 0) = 2 /\ Number({27, 28}, 20) = 384
    BY <2>4, NumberValue
  <2> QED
    BY <2>2, <2>3, <2>5, Zenon DEF ExtId, ExtNext
<1>3. ExtId(384) = 4 /\ ExtNext(384) = 400
  <2>1. \A b \in 0 .. 31 : 3072 + b \in cfg <=> b \in {2, 16, 24, 27, 28}
    BY HeadBits DEF HeadsKept, ExtHeads
  <2>2. ConfigRead(384, 2) = {2}
    BY <2>1 DEF ConfigRead
  <2>3. {b \in ConfigRead(384, 4) : b > 21} = {24, 27, 28}
    BY <2>1 DEF ConfigRead
  <2>4. /\ {2} \in SUBSET (0 .. 0 + 11) /\ 0 \in Nat
        /\ Value({2}, 0) = 4
        /\ {24, 27, 28} \in SUBSET (20 .. 20 + 11) /\ 20 \in Nat
        /\ Value({24, 27, 28}, 20) = 400
    BY DEF Value
  <2>5. Number({2}, 0) = 4 /\ Number({24, 27, 28}, 20) = 400
    BY <2>4, NumberValue
  <2> QED
    BY <2>2, <2>3, <2>5, Zenon DEF ExtId, ExtNext
<1>4. ExtId(400) = 14 /\ ExtNext(400) = 624
  <2>1. \A b \in 0 .. 31 : 3200 + b \in cfg <=> b \in {1, 2, 3, 16, 24, 25, 26, 29}
    BY HeadBits DEF HeadsKept, ExtHeads
  <2>2. ConfigRead(400, 2) = {1, 2, 3}
    BY <2>1 DEF ConfigRead
  <2>3. {b \in ConfigRead(400, 4) : b > 21} = {24, 25, 26, 29}
    BY <2>1 DEF ConfigRead
  <2>4. /\ {1, 2, 3} \in SUBSET (0 .. 0 + 11) /\ 0 \in Nat
        /\ Value({1, 2, 3}, 0) = 14
        /\ {24, 25, 26, 29} \in SUBSET (20 .. 20 + 11) /\ 20 \in Nat
        /\ Value({24, 25, 26, 29}, 20) = 624
    BY DEF Value
  <2>5. Number({1, 2, 3}, 0) = 14 /\ Number({24, 25, 26, 29}, 20) = 624
    BY <2>4, NumberValue
  <2> QED
    BY <2>2, <2>3, <2>5, Zenon DEF ExtId, ExtNext
<1>5. ExtId(624) = 3 /\ ExtNext(624) = 672
  <2>1. \A b \in 0 .. 31 : 4992 + b \in cfg <=> b \in {0, 1, 16, 25, 27, 29}
    BY HeadBits DEF HeadsKept, ExtHeads
  <2>2. ConfigRead(624, 2) = {0, 1}
    BY <2>1 DEF ConfigRead
  <2>3. {b \in ConfigRead(624, 4) : b > 21} = {25, 27, 29}
    BY <2>1 DEF ConfigRead
  <2>4. /\ {0, 1} \in SUBSET (0 .. 0 + 11) /\ 0 \in Nat
        /\ Value({0, 1}, 0) = 3
        /\ {25, 27, 29} \in SUBSET (20 .. 20 + 11) /\ 20 \in Nat
        /\ Value({25, 27, 29}, 20) = 672
    BY DEF Value
  <2>5. Number({0, 1}, 0) = 3 /\ Number({25, 27, 29}, 20) = 672
    BY <2>4, NumberValue
  <2> QED
    BY <2>2, <2>3, <2>5, Zenon DEF ExtId, ExtNext
<1>6. ExtId(672) = 25 /\ ExtNext(672) = 0
  <2>1. \A b \in 0 .. 31 : 5376 + b \in cfg <=> b \in {0, 3, 4, 16}
    BY HeadBits DEF HeadsKept, ExtHeads
  <2>2. ConfigRead(672, 2) = {0, 3, 4}
    BY <2>1 DEF ConfigRead
  <2>3. {b \in ConfigRead(672, 4) : b > 21} = {}
    BY <2>1 DEF ConfigRead
  <2>4. /\ {0, 3, 4} \in SUBSET (0 .. 0 + 11) /\ 0 \in Nat
        /\ Value({0, 3, 4}, 0) = 25
        /\ {} \in SUBSET (20 .. 20 + 11) /\ 20 \in Nat
        /\ Value({}, 20) = 0
    BY DEF Value
  <2>5. Number({0, 3, 4}, 0) = 25 /\ Number({}, 20) = 0
    BY <2>4, NumberValue
  <2> QED
    BY <2>2, <2>3, <2>5, Zenon DEF ExtId, ExtNext
<1> QED
  BY <1>1, <1>2, <1>3, <1>4, <1>5, <1>6

\* The walk of the capability list, while the heads are what they were.
LEMMA FindsCap ==
  ASSUME HeadsKept
  PROVE  /\ FindCap(1) = 64 /\ FindCap(17) = 80 /\ FindCap(16) = 96
         /\ FindCap(0) = 0
<1> DEFINE p == [n \in 0 .. 3 |-> IF n = 0 THEN 64 ELSE IF n = 1 THEN 80
                                  ELSE IF n = 2 THEN 96 ELSE 0]
<1>1. /\ Byte(52) = 64 /\ Byte(64) = 1 /\ Byte(65) = 80 /\ Byte(80) = 17
      /\ Byte(81) = 96 /\ Byte(96) = 16 /\ Byte(97) = 0
  BY HeadBytes
<1>2. p[0] = 64 /\ p[1] = 80 /\ p[2] = 96 /\ p[3] = 0
  OBVIOUS
<1> HIDE DEF p
<1>3. \A id : /\ CapHop(id)[64] = IF 1 = id THEN 64 ELSE 80
              /\ CapHop(id)[80] = IF 17 = id THEN 80 ELSE 96
              /\ CapHop(id)[96] = IF 16 = id THEN 96 ELSE 0
              /\ CapHop(id)[0] = 0
  BY <1>1 DEF CapHop, OFFS_PCI_PM_CAP
<1>4. \A k \in 0 .. 3 : \A n \in 0 .. k - 1 : n = 0 \/ n = 1 \/ n = 2
  OBVIOUS
<1>5. FindCap(1) = 64
  <2>1. \A n \in 0 .. 0 - 1 : CapHop(1)[p[n]] = p[n + 1]
    BY <1>2, <1>3
  <2>2. CapHop(1)[p[0]] = p[0] /\ 0 \in 0 .. 48
    BY <1>2, <1>3
  <2>3. Walk(CapHop(1), 64) = p[0]
    BY <1>2, <2>1, <2>2, WalkReaches
  <2> QED
    BY <1>1, <1>2, <2>3 DEF FindCap, PCI_CAPABILITY_LIST, OFFS_PCI_PM_CAP
<1>6. FindCap(17) = 80
  <2>1. \A n \in 0 .. 1 - 1 : CapHop(17)[p[n]] = p[n + 1]
    BY <1>2, <1>3
  <2>2. CapHop(17)[p[1]] = p[1] /\ 1 \in 0 .. 48
    BY <1>2, <1>3
  <2>3. Walk(CapHop(17), 64) = p[1]
    BY <1>2, <2>1, <2>2, WalkReaches
  <2> QED
    BY <1>1, <1>2, <2>3 DEF FindCap, PCI_CAPABILITY_LIST, OFFS_PCI_PM_CAP
<1>7. FindCap(16) = 96
  <2>1. \A n \in 0 .. 2 - 1 : CapHop(16)[p[n]] = p[n + 1]
    BY <1>2, <1>3
  <2>2. CapHop(16)[p[2]] = p[2] /\ 2 \in 0 .. 48
    BY <1>2, <1>3
  <2>3. Walk(CapHop(16), 64) = p[2]
    BY <1>2, <2>1, <2>2, WalkReaches
  <2> QED
    BY <1>1, <1>2, <2>3 DEF FindCap, PCI_CAPABILITY_LIST, OFFS_PCI_PM_CAP
<1>8. FindCap(0) = 0
  <2>1. \A n \in 0 .. 3 - 1 : CapHop(0)[p[n]] = p[n + 1]
    BY <1>2, <1>3
  <2>2. CapHop(0)[p[3]] = p[3] /\ 3 \in 0 .. 48
    BY <1>2, <1>3
  <2>3. Walk(CapHop(0), 64) = p[3]
    BY <1>2, <2>1, <2>2, WalkReaches
  <2> QED
    BY <1>1, <1>2, <2>3 DEF FindCap, PCI_CAPABILITY_LIST, OFFS_PCI_PM_CAP
<1> QED
  BY <1>5, <1>6, <1>7, <1>8

\* The walk of the list of the extended ones.
LEMMA FindsExtCap ==
  ASSUME HeadsKept
  PROVE  /\ \A k \in 1 .. 6 :
              FindExtCap(ExtCaps[k].id) = OFFS_PCI_EXT_CAP + ExtCaps[k].at
         /\ FindExtCap(0) = 0
<1> DEFINE p == [n \in 0 .. 6 |->
                   IF n = 0 THEN 256 ELSE IF n = 1 THEN 336 ELSE IF n = 2 THEN 384
                   ELSE IF n = 3 THEN 400 ELSE IF n = 4 THEN 624
                   ELSE IF n = 5 THEN 672 ELSE 0]
<1>1. /\ ExtId(256) = 1 /\ ExtNext(256) = 336
      /\ ExtId(336) = 2 /\ ExtNext(336) = 384
      /\ ExtId(384) = 4 /\ ExtNext(384) = 400
      /\ ExtId(400) = 14 /\ ExtNext(400) = 624
      /\ ExtId(624) = 3 /\ ExtNext(624) = 672
      /\ ExtId(672) = 25 /\ ExtNext(672) = 0
  BY HeadExts
<1>2. p[0] = 256 /\ p[1] = 336 /\ p[2] = 384 /\ p[3] = 400
      /\ p[4] = 624 /\ p[5] = 672 /\ p[6] = 0
  OBVIOUS
<1> HIDE DEF p
<1>3. \A id : /\ ExtCapHop(id)[256] = IF 1 = id THEN 256 ELSE 336
              /\ ExtCapHop(id)[336] = IF 2 = id THEN 336 ELSE 384
              /\ ExtCapHop(id)[384] = IF 4 = id THEN 384 ELSE 400
              /\ ExtCapHop(id)[400] = IF 14 = id THEN 400 ELSE 624
              /\ ExtCapHop(id)[624] = IF 3 = id THEN 624 ELSE 672
              /\ ExtCapHop(id)[672] = IF 25 = id THEN 672 ELSE 0
              /\ ExtCapHop(id)[0] = 0
  BY <1>1 DEF ExtCapHop, OFFS_PCI_EXT_CAP, ConfigSize
<1>4. FindExtCap(1) = 256
  <2>1. \A n \in 0 .. 0 - 1 : ExtCapHop(1)[p[n]] = p[n + 1]
    BY <1>2, <1>3
  <2>2. ExtCapHop(1)[p[0]] = p[0] /\ 0 \in 0 .. 48
    BY <1>2, <1>3
  <2>3. Walk(ExtCapHop(1), 256) = p[0]
    BY <1>2, <2>1, <2>2, WalkReaches
  <2> QED
    BY <1>1, <1>2, <2>3 DEF FindExtCap, OFFS_PCI_EXT_CAP
<1>5. FindExtCap(2) = 336
  <2>1. \A n \in 0 .. 1 - 1 : ExtCapHop(2)[p[n]] = p[n + 1]
    BY <1>2, <1>3
  <2>2. ExtCapHop(2)[p[1]] = p[1] /\ 1 \in 0 .. 48
    BY <1>2, <1>3
  <2>3. Walk(ExtCapHop(2), 256) = p[1]
    BY <1>2, <2>1, <2>2, WalkReaches
  <2> QED
    BY <1>1, <1>2, <2>3 DEF FindExtCap, OFFS_PCI_EXT_CAP
<1>6. FindExtCap(4) = 384
  <2>1. \A n \in 0 .. 2 - 1 : ExtCapHop(4)[p[n]] = p[n + 1]
    BY <1>2, <1>3
  <2>2. ExtCapHop(4)[p[2]] = p[2] /\ 2 \in 0 .. 48
    BY <1>2, <1>3
  <2>3. Walk(ExtCapHop(4), 256) = p[2]
    BY <1>2, <2>1, <2>2, WalkReaches
  <2> QED
    BY <1>1, <1>2, <2>3 DEF FindExtCap, OFFS_PCI_EXT_CAP
<1>7. FindExtCap(14) = 400
  <2>1. \A n \in 0 .. 3 - 1 : ExtCapHop(14)[p[n]] = p[n + 1]
    BY <1>2, <1>3
  <2>2. ExtCapHop(14)[p[3]] = p[3] /\ 3 \in 0 .. 48
    BY <1>2, <1>3
  <2>3. Walk(ExtCapHop(14), 256) = p[3]
    BY <1>2, <2>1, <2>2, WalkReaches
  <2> QED
    BY <1>1, <1>2, <2>3 DEF FindExtCap, OFFS_PCI_EXT_CAP
<1>8. FindExtCap(3) = 624
  <2>1. \A n \in 0 .. 4 - 1 : ExtCapHop(3)[p[n]] = p[n + 1]
    BY <1>2, <1>3
  <2>2. ExtCapHop(3)[p[4]] = p[4] /\ 4 \in 0 .. 48
    BY <1>2, <1>3
  <2>3. Walk(ExtCapHop(3), 256) = p[4]
    BY <1>2, <2>1, <2>2, WalkReaches
  <2> QED
    BY <1>1, <1>2, <2>3 DEF FindExtCap, OFFS_PCI_EXT_CAP
<1>9. FindExtCap(25) = 672
  <2>1. \A n \in 0 .. 5 - 1 : ExtCapHop(25)[p[n]] = p[n + 1]
    BY <1>2, <1>3
  <2>2. ExtCapHop(25)[p[5]] = p[5] /\ 5 \in 0 .. 48
    BY <1>2, <1>3
  <2>3. Walk(ExtCapHop(25), 256) = p[5]
    BY <1>2, <2>1, <2>2, WalkReaches
  <2> QED
    BY <1>1, <1>2, <2>3 DEF FindExtCap, OFFS_PCI_EXT_CAP
<1>10. FindExtCap(0) = 0
  <2>1. \A n \in 0 .. 6 - 1 : ExtCapHop(0)[p[n]] = p[n + 1]
    BY <1>2, <1>3
  <2>2. ExtCapHop(0)[p[6]] = p[6] /\ 6 \in 0 .. 48
    BY <1>2, <1>3
  <2>3. Walk(ExtCapHop(0), 256) = p[6]
    BY <1>2, <2>1, <2>2, WalkReaches
  <2> QED
    BY <1>1, <1>2, <2>3 DEF FindExtCap, OFFS_PCI_EXT_CAP
<1>11. ASSUME NEW k \in 1 .. 6
       PROVE  FindExtCap(ExtCaps[k].id) = OFFS_PCI_EXT_CAP + ExtCaps[k].at
  <2>1. CASE k = 1
    BY <1>4, <2>1 DEF ExtCaps, OFFS_PCI_EXT_CAP
  <2>2. CASE k = 2
    BY <1>5, <2>2 DEF ExtCaps, OFFS_PCI_EXT_CAP
  <2>3. CASE k = 3
    BY <1>6, <2>3 DEF ExtCaps, OFFS_PCI_EXT_CAP
  <2>4. CASE k = 4
    BY <1>7, <2>4 DEF ExtCaps, OFFS_PCI_EXT_CAP
  <2>5. CASE k = 5
    BY <1>8, <2>5 DEF ExtCaps, OFFS_PCI_EXT_CAP
  <2>6. CASE k = 6
    BY <1>9, <2>6 DEF ExtCaps, OFFS_PCI_EXT_CAP
  <2> QED
    BY <2>1, <2>2, <2>3, <2>4, <2>5, <2>6
<1> QED
  BY <1>10, <1>11

-----------------------------------------------------------------------------
(* The space during the scan: what PCIEV_PCI_INIT has set, but for the      *)
(* address in the lower BAR register and the switch of MSI-X.               *)

Conf(base, lo, on) ==
  (SetBits \ {671}) \cup (IF on THEN {671} ELSE {})
  \cup {130} \cup {128 + b : b \in lo \cup (base \cap 32 .. 41)}

LowBits(base)  == base \cap 14 .. 31
HighBits(base) == {b \in 0 .. 31 : b + 32 \in base}

LEMMA SetPlaces ==
  /\ SetBits \subseteq Nat /\ 671 \in SetBits
  /\ \A f \in SetBits : /\ f < 6000 /\ f # 42 /\ f # 51 /\ f # 670
                        /\ ~(128 <= f /\ f <= 191)
  BY DEF SetBits, HeaderBits, PmBits, MsixBits, PcieBits, ExtBits

LEMMA ConfBits ==
  ASSUME NEW base \in SUBSET (12 .. 41), NEW lo \in SUBSET (14 .. 31),
         NEW on \in BOOLEAN, NEW f \in Nat
  PROVE  /\ f \in 142 .. 159 => (f \in Conf(base, lo, on) <=> f - 128 \in lo)
         /\ f \in 160 .. 191 => (f \in Conf(base, lo, on) <=> f - 128 \in base)
         /\ f = 671 => (f \in Conf(base, lo, on) <=> on)
         /\ f \notin 142 .. 191 \cup {671} =>
              (f \in Conf(base, lo, on) <=> f = 130 \/ f \in SetBits)
<1> DEFINE hi == {128 + b : b \in lo \cup (base \cap 32 .. 41)}
<1>1. f \in hi <=> f - 128 \in lo \cup (base \cap 32 .. 41)
  <2>1. \A b \in lo \cup (base \cap 32 .. 41) : b \in Int
    OBVIOUS
  <2>2. f \in hi => f - 128 \in lo \cup (base \cap 32 .. 41)
    BY <2>1
  <2>3. f - 128 \in lo \cup (base \cap 32 .. 41) => f = 128 + (f - 128)
    OBVIOUS
  <2>4. f - 128 \in lo \cup (base \cap 32 .. 41) => f \in hi
    BY <2>3, Zenon
  <2> QED
    BY <2>2, <2>4
<1>2. f - 128 \in lo => f \in 142 .. 159
  <2>1. \A b \in lo : b \in 14 .. 31
    OBVIOUS
  <2> QED
    BY <2>1
<1>3. f - 128 \in base => f \in 140 .. 169
  <2>1. \A b \in base : b \in 12 .. 41
    OBVIOUS
  <2> QED
    BY <2>1
<1>4. f \in Conf(base, lo, on) <=>
        \/ f \in SetBits /\ f # 671
        \/ f = 671 /\ on
        \/ f = 130
        \/ f \in hi
  BY DEF Conf
<1> HIDE DEF hi
<1>5. CASE f \in 142 .. 159
  <2>1. f \notin SetBits /\ f # 671 /\ f # 130
    BY <1>5, SetPlaces
  <2>2. f - 128 \in 14 .. 31 /\ f - 128 \notin 32 .. 41
    BY <1>5
  <2> QED
    BY <1>1, <1>4, <1>5, <2>1, <2>2
<1>6. CASE f \in 160 .. 191
  <2>1. f \notin SetBits /\ f # 671 /\ f # 130
    BY <1>6, SetPlaces
  <2>2. f - 128 \notin lo /\ (f - 128 \in base => f - 128 \in 32 .. 41)
    BY <1>2, <1>3, <1>6
  <2> QED
    BY <1>1, <1>4, <1>6, <2>1, <2>2
<1>7. CASE f \notin 142 .. 191
  <2>1. f - 128 \notin lo /\ f - 128 \notin base \cap 32 .. 41
    BY <1>2, <1>7
  <2> QED
    BY <1>1, <1>4, <1>7, <2>1
<1>8. f \in 142 .. 191 <=> f \in 142 .. 159 \/ f \in 160 .. 191
  OBVIOUS
<1> QED
  BY <1>5, <1>6, <1>7, <1>8

LEMMA ConfRange ==
  ASSUME NEW base \in SUBSET (12 .. 41), NEW lo \in SUBSET (14 .. 31),
         NEW on \in BOOLEAN
  PROVE  \A f \in Conf(base, lo, on) : f \in Nat /\ f < 6000
<1>1. \A b \in lo \cup (base \cap 32 .. 41) : 128 + b \in Nat /\ 128 + b < 6000
  OBVIOUS
<1>2. \A f \in SetBits : f \in Nat /\ f < 6000
  BY SetPlaces
<1>3. \A f \in Conf(base, lo, on) :
        \/ f \in SetBits
        \/ f = 671
        \/ f = 130
        \/ \E b \in lo \cup (base \cap 32 .. 41) : f = 128 + b
  BY DEF Conf
<1> QED
  BY <1>1, <1>2, <1>3

LEMMA SameInNat ==
  ASSUME NEW a \in SUBSET Nat, NEW b \in SUBSET Nat,
         \A f \in Nat : f \in a <=> f \in b
  PROVE  a = b
<1>1. \A f : f \in a <=> f \in b
  OBVIOUS
<1> QED
  BY <1>1

\* The space is determined by its bits.
LEMMA ConfBitByBit ==
  ASSUME NEW base \in SUBSET (12 .. 41), NEW lo \in SUBSET (14 .. 31),
         NEW on \in BOOLEAN, NEW c,
         \A f \in 142 .. 159 : f \in c <=> f - 128 \in lo,
         \A f \in 160 .. 191 : f \in c <=> f - 128 \in base,
         671 \in c <=> on,
         \A f \in Nat : f \notin 142 .. 191 \cup {671} =>
                          (f \in c <=> f = 130 \/ f \in SetBits)
  PROVE  \A f \in Nat : f \in c <=> f \in Conf(base, lo, on)
<1> TAKE f \in Nat
<1>1. CASE f \in 142 .. 159
  BY <1>1, ConfBits
<1>2. CASE f \in 160 .. 191
  BY <1>2, ConfBits
<1>3. CASE f = 671
  BY <1>3, ConfBits
<1>4. CASE f \notin 142 .. 191 \cup {671}
  BY <1>4, ConfBits
<1>5. \/ f \in 142 .. 159 \/ f \in 160 .. 191
      \/ f = 671 \/ f \notin 142 .. 191 \cup {671}
  OBVIOUS
<1> QED
  BY <1>1, <1>2, <1>3, <1>4, <1>5, Zenon

LEMMA ConfIs ==
  ASSUME NEW base \in SUBSET (12 .. 41), NEW lo \in SUBSET (14 .. 31),
         NEW on \in BOOLEAN, NEW c \in SUBSET Nat,
         \A f \in 142 .. 159 : f \in c <=> f - 128 \in lo,
         \A f \in 160 .. 191 : f \in c <=> f - 128 \in base,
         671 \in c <=> on,
         \A f \in Nat : f \notin 142 .. 191 \cup {671} =>
                          (f \in c <=> f = 130 \/ f \in SetBits)
  PROVE  c = Conf(base, lo, on)
<1>1. Conf(base, lo, on) \in SUBSET Nat
  BY ConfRange
<1>2. \A f \in Nat : f \in c <=> f \in Conf(base, lo, on)
  BY ConfBitByBit
<1>3. \A d \in SUBSET Nat : (\A f \in Nat : f \in c <=> f \in d) => c = d
  BY SameInNat
<1> QED
  BY <1>1, <1>2, <1>3, Zenon

LEMMA FirstConf ==
  ASSUME NEW base \in SUBSET (12 .. 41)
  PROVE  Settings(base) = Conf(base, LowBits(base), TRUE)
<1>1. base \ {12, 13} = LowBits(base) \cup (base \cap 32 .. 41)
  <2>1. \A b \in base : b \notin {12, 13} <=> b \in 14 .. 31 \/ b \in 32 .. 41
    <3> TAKE b \in base
    <3>1. b \in 12 .. 41
      OBVIOUS
    <3> QED
      BY <3>1
  <2> QED
    BY <2>1, Zenon DEF LowBits
<1>2. SetBits = (SetBits \ {671}) \cup {671}
  BY SetPlaces
<1>3. Settings(base) = SetBits \cup {130} \cup {128 + b : b \in base \ {12, 13}}
  BY SettingsAre
<1> QED
  BY <1>1, <1>2, <1>3, Zenon DEF Conf

\* What the kernel reads.
LEMMA ConfReads ==
  ASSUME NEW base \in SUBSET (12 .. 41), NEW lo \in SUBSET (14 .. 31),
         NEW on \in BOOLEAN, cfg = Conf(base, lo, on)
  PROVE  /\ ConfigRead(16, 4) = {2} \cup lo
         /\ ConfigRead(20, 4) = HighBits(base)
         /\ ConfigRead(4, 2) = {1}
         /\ ConfigRead(82, 2) = 0 .. 6 \cup (IF on THEN {15} ELSE {})
         /\ Byte(60) = 15
         /\ HeadsKept
         /\ 42 \notin cfg /\ \A f \in cfg : f \in Nat /\ f < 6000
<1>1. ASSUME NEW f \in Nat
      PROVE  /\ f \in 142 .. 159 => (f \in cfg <=> f - 128 \in lo)
             /\ f \in 160 .. 191 => (f \in cfg <=> f - 128 \in base)
             /\ f = 671 => (f \in cfg <=> on)
             /\ f \notin 142 .. 191 \cup {671} =>
                  (f \in cfg <=> f = 130 \/ f \in SetBits)
  BY ConfBits
<1>2. ConfigRead(16, 4) = {2} \cup lo
  <2>1. ASSUME NEW b \in 0 .. 31 PROVE 128 + b \in cfg <=> b = 2 \/ b \in lo
    <3>1. CASE b < 14
      <4>1. /\ 128 + b \in Nat /\ 128 + b \notin 142 .. 191 \cup {671}
            /\ 128 <= 128 + b /\ 128 + b <= 191 /\ b \notin lo
        BY <3>1
      <4> QED
        BY <1>1, <4>1, SetPlaces
    <3>2. CASE b >= 14
      <4>1. 128 + b \in 142 .. 159 /\ 128 + b - 128 = b /\ 128 + b \in Nat /\ b # 2
        BY <3>2
      <4> QED
        BY <1>1, <4>1
    <3> QED
      BY <3>1, <3>2
  <2>2. ConfigRead(16, 4) = {b \in 0 .. 31 : 128 + b \in cfg}
    BY DEF ConfigRead
  <2>3. \A b \in {2} \cup lo : b \in 0 .. 31
    OBVIOUS
  <2> QED
    BY <2>1, <2>2, <2>3
<1>3. ConfigRead(20, 4) = HighBits(base)
  <2>1. ASSUME NEW b \in 0 .. 31 PROVE 160 + b \in cfg <=> b + 32 \in base
    <3>1. 160 + b \in 160 .. 191 /\ 160 + b - 128 = b + 32 /\ 160 + b \in Nat
      OBVIOUS
    <3> QED
      BY <1>1, <3>1
  <2> QED
    BY <2>1 DEF ConfigRead, HighBits
<1>4. ConfigRead(4, 2) = {1}
  <2>1. ASSUME NEW b \in 0 .. 15 PROVE 32 + b \in cfg <=> b = 1
    <3>1. 32 + b \in Nat /\ 32 + b \notin 142 .. 191 \cup {671} /\ 32 + b # 130
      OBVIOUS
    <3>2. 32 + b \in SetBits <=> b = 1
      BY DEF SetBits, HeaderBits, PmBits, MsixBits, PcieBits, ExtBits
    <3> QED
      BY <1>1, <3>1, <3>2
  <2> QED
    BY <2>1 DEF ConfigRead
<1>5. ConfigRead(82, 2) = 0 .. 6 \cup (IF on THEN {15} ELSE {})
  <2>1. ASSUME NEW b \in 0 .. 15
        PROVE  656 + b \in cfg <=> b \in 0 .. 6 \/ (b = 15 /\ on)
    <3>1. CASE b = 15
      BY <1>1, <3>1
    <3>2. CASE b # 15
      <4>1. 656 + b \in Nat /\ 656 + b \notin 142 .. 191 \cup {671} /\ 656 + b # 130
        BY <3>2
      <4>2. 656 + b \in SetBits <=> b \in 0 .. 6
        BY <3>2 DEF SetBits, HeaderBits, PmBits, MsixBits, PcieBits, ExtBits
      <4> QED
        BY <1>1, <3>2, <4>1, <4>2
    <3> QED
      BY <3>1, <3>2
  <2> QED
    BY <2>1 DEF ConfigRead
<1>6. Byte(60) = 15
  <2>1. ASSUME NEW b \in 0 .. 7 PROVE 480 + b \in cfg <=> b \in {0, 1, 2, 3}
    <3>1. 480 + b \in Nat /\ 480 + b \notin 142 .. 191 \cup {671} /\ 480 + b # 130
      OBVIOUS
    <3>2. 480 + b \in SetBits <=> b \in {0, 1, 2, 3}
      BY DEF SetBits, HeaderBits, PmBits, MsixBits, PcieBits, ExtBits
    <3> QED
      BY <1>1, <3>1, <3>2
  <2>2. ConfigRead(60, 1) = {0, 1, 2, 3}
    BY <2>1 DEF ConfigRead
  <2>3. {0, 1, 2, 3} \in SUBSET (0 .. 7) /\ Value({0, 1, 2, 3}, 0) = 15
    BY DEF Value
  <2> QED
    BY <2>2, <2>3, ByteValue
<1>7. HeadsKept
  <2>1. \A f \in CapHeads \cup ExtHeads :
          f \in Nat /\ f # 130 /\ f \notin 142 .. 191 \cup {671}
    BY DEF CapHeads, ExtHeads
  <2> QED
    BY <1>1, <2>1 DEF HeadsKept
<1>8. 42 \notin cfg /\ \A f \in cfg : f \in Nat /\ f < 6000
  <2>1. 42 \notin cfg
    BY <1>1, SetPlaces
  <2> QED
    BY <2>1, ConfRange
<1> QED
  BY <1>2, <1>3, <1>4, <1>5, <1>6, <1>7, <1>8

-----------------------------------------------------------------------------
(* A write of the scan. Nothing else changes the space while it is under   *)
(* way, so what it has read is what the space still holds.                 *)

Pending(where, size, val) ==
  access = [where |-> where, size |-> size, val |-> val,
            old |-> ConfigRead(where, size)]

LEMMA PendingEnds ==
  ASSUME NEW where \in Nat, NEW size \in {1, 2, 4},
         NEW val \in SUBSET (0 .. 8 * size - 1),
         Pending(where, size, val), EndStep, AccessInv,
         cfg \subseteq Nat, 42 \notin cfg, pdev = NoPdev
  PROVE  /\ access' = NoAccess /\ pc' = pc /\ pdev' = NoPdev
         /\ memmap_start' = memmap_start /\ cfg' \subseteq Nat
         /\ \A f \in Nat :
              LET b == f - 8 * where IN
              f \in cfg' <=> IF b \in 0 .. 8 * size - 1 /\ b \in Mask(where)
                             THEN b \in val ELSE f \in cfg
<1>1. /\ access.where = where /\ access.size = size /\ access.val = val
      /\ access.old = ConfigRead(where, size)
  BY DEF Pending
<1>2. WriteEnd /\ pc' = pc
  BY DEF EndStep
<1>3. Span(access) = 0 .. 8 * size - 1
  BY <1>1 DEF Span
<1>4. ClearsStatus(access) = {}
  <2>1. ~EnablesIntx(access)
    <3>1. access.where = 4 => 10 \notin access.old
      BY <1>1 DEF ConfigRead
    <3> QED
      BY <3>1 DEF EnablesIntx, Switches, PCI_COMMAND, IntxDisable
  <2> QED
    BY <2>1 DEF ClearsStatus
<1>5. ASSUME NEW f \in Nat
      PROVE  LET b == f - 8 * where IN
             f \in cfg' <=> IF b \in 0 .. 8 * size - 1 /\ b \in Mask(where)
                            THEN b \in val ELSE f \in cfg
  <2> DEFINE b == f - 8 * where
  <2>1. IF b \in Span(access)
        THEN f \in cfg' <=> IF b \in Mask(where) THEN b \in val
                                                ELSE b \in access.old
        ELSE f \in cfg' <=> f \in cfg \ ClearsStatus(access)
    BY <1>1, <1>2, EndBits
  <2>2. b \in Span(access) => (b \in access.old <=> f \in cfg)
    <3>1. 8 * where + b = f
      OBVIOUS
    <3> HIDE DEF b
    <3> QED
      BY <1>1, <1>3, <3>1 DEF ConfigRead
  <2> HIDE DEF b
  <2>3. f \in cfg' <=> IF b \in 0 .. 8 * size - 1 /\ b \in Mask(where)
                       THEN b \in val ELSE f \in cfg
    BY <1>3, <1>4, <2>1, <2>2
  <2> QED
    BY <2>3 DEF b
<1>6. cfg' \subseteq Nat
  <2>1. cfg' = ((cfg \ ClearsStatus(access)) \ At(where, 0 .. 8 * size - 1))
                 \cup At(where, Merged(access))
    BY <1>1, <1>2, Zenon DEF WriteEnd
  <2>2. Merged(access) \subseteq 0 .. 8 * size - 1
    BY <1>1 DEF Merged, ConfigRead
  <2>3. \A b \in 0 .. 8 * size - 1 : 8 * where + b \in Nat
    OBVIOUS
  <2>4. At(where, Merged(access)) \subseteq Nat
    BY <2>2, <2>3 DEF At
  <2> QED
    BY <2>1, <2>4
<1>7. access' = NoAccess /\ memmap_start' = memmap_start /\ pdev' = NoPdev
  BY <1>2 DEF WriteEnd
<1> QED
  BY <1>2, <1>5, <1>6, <1>7

\* A write without effect, one to the address, and the one that turns MSI-X off.
LEMMA ConfAfter ==
  ASSUME NEW base \in SUBSET (12 .. 41), NEW lo \in SUBSET (14 .. 31),
         NEW on \in BOOLEAN, cfg = Conf(base, lo, on),
         EndStep, AccessInv, pdev = NoPdev
  PROVE  /\ \A val \in SUBSET (0 .. 15) : 10 \notin val /\ Pending(4, 2, val) =>
              cfg' = Conf(base, lo, on)
         /\ \A val \in SUBSET (0 .. 31) : Pending(16, 4, val) =>
              cfg' = Conf(base, val \cap 14 .. 31, on)
         /\ \A val \in SUBSET (0 .. 31) : Pending(20, 4, val) =>
              cfg' = Conf(base, lo, on)
         /\ \A val \in SUBSET (0 .. 15) :
              14 \notin val /\ 15 \notin val /\ Pending(82, 2, val) =>
              cfg' = Conf(base, lo, FALSE)
<1>1. cfg \subseteq Nat /\ 42 \notin cfg
  BY ConfReads
<1>2. ASSUME NEW f \in Nat
      PROVE  /\ f \in 142 .. 159 => (f \in cfg <=> f - 128 \in lo)
             /\ f \in 160 .. 191 => (f \in cfg <=> f - 128 \in base)
             /\ f = 671 => (f \in cfg <=> on)
             /\ f \notin 142 .. 191 \cup {671} =>
                  (f \in cfg <=> f = 130 \/ f \in SetBits)
  BY ConfBits
<1>3. /\ Mask(4) = {10} /\ Mask(16) = 14 .. 31 /\ Mask(20) = {}
      /\ Mask(82) = {14, 15}
  BY DEF Mask, HeaderMask, MsixMask, OFFS_PCI_PM_CAP, OFFS_PCI_MSIX_CAP,
         OFFS_PCIE_CAP, PCI_MSIX_FLAGS, PCI_COMMAND, PCI_STATUS, PCI_BIST,
         PCI_BASE_ADDRESS_0, PCI_INTERRUPT_LINE, IntxDisable, MsixMaskAll,
         MsixEnable
<1>4. ASSUME NEW val \in SUBSET (0 .. 15), 10 \notin val, Pending(4, 2, val)
      PROVE  cfg' = Conf(base, lo, on)
  <2>1. val \in SUBSET (0 .. 8 * 2 - 1)
    OBVIOUS
  <2>2. /\ cfg' \subseteq Nat
        /\ \A f \in Nat :
             f \in cfg' <=> IF f - 8 * 4 \in 0 .. 8 * 2 - 1 /\ f - 8 * 4 \in {10}
                            THEN f - 8 * 4 \in val ELSE f \in cfg
    BY <1>1, <1>3, <1>4, <2>1, PendingEnds
  <2>3. \A f \in Nat : f \in cfg' <=> f \in cfg
    BY <1>1, <1>4, <2>2
  <2> QED
    BY <1>1, <2>2, <2>3
<1>5. ASSUME NEW val \in SUBSET (0 .. 31), Pending(16, 4, val)
      PROVE  cfg' = Conf(base, val \cap 14 .. 31, on)
  <2>1. val \in SUBSET (0 .. 8 * 4 - 1)
    OBVIOUS
  <2>2. /\ cfg' \subseteq Nat
        /\ \A f \in Nat :
             f \in cfg' <=> IF f - 8 * 16 \in 0 .. 8 * 4 - 1 /\ f - 8 * 16 \in 14 .. 31
                            THEN f - 8 * 16 \in val ELSE f \in cfg
    BY <1>1, <1>3, <1>5, <2>1, PendingEnds
  <2>3. \A f \in 142 .. 159 : f \in cfg' <=> f - 128 \in val \cap 14 .. 31
    BY <2>2
  <2>4. \A f \in Nat : f \notin 142 .. 159 => (f \in cfg' <=> f \in cfg)
    BY <2>2
  <2>5. /\ \A f \in 160 .. 191 : f \in cfg' <=> f - 128 \in base
        /\ 671 \in cfg' <=> on
        /\ \A f \in Nat : f \notin 142 .. 191 \cup {671} =>
                            (f \in cfg' <=> f = 130 \/ f \in SetBits)
    BY <1>2, <2>4
  <2>6. val \cap 14 .. 31 \in SUBSET (14 .. 31)
    OBVIOUS
  <2> QED
    BY <2>2, <2>3, <2>5, <2>6, ConfIs
<1>6. ASSUME NEW val \in SUBSET (0 .. 31), Pending(20, 4, val)
      PROVE  cfg' = Conf(base, lo, on)
  <2>1. val \in SUBSET (0 .. 8 * 4 - 1)
    OBVIOUS
  <2>2. /\ cfg' \subseteq Nat
        /\ \A f \in Nat :
             f \in cfg' <=> IF f - 8 * 20 \in 0 .. 8 * 4 - 1 /\ f - 8 * 20 \in {}
                            THEN f - 8 * 20 \in val ELSE f \in cfg
    BY <1>1, <1>3, <1>6, <2>1, PendingEnds
  <2>3. \A f \in Nat : f \in cfg' <=> f \in cfg
    BY <2>2
  <2> QED
    BY <1>1, <2>2, <2>3
<1>7. ASSUME NEW val \in SUBSET (0 .. 15), 14 \notin val, 15 \notin val,
             Pending(82, 2, val)
      PROVE  cfg' = Conf(base, lo, FALSE)
  <2>1. val \in SUBSET (0 .. 8 * 2 - 1)
    OBVIOUS
  <2>2. /\ cfg' \subseteq Nat
        /\ \A f \in Nat :
             f \in cfg' <=> IF f - 8 * 82 \in 0 .. 8 * 2 - 1 /\ f - 8 * 82 \in {14, 15}
                            THEN f - 8 * 82 \in val ELSE f \in cfg
    BY <1>1, <1>3, <1>7, <2>1, PendingEnds
  <2>3. 670 \notin cfg /\ 670 \notin cfg' /\ 671 \notin cfg'
    BY <1>2, <1>7, <2>2, SetPlaces
  <2>4. \A f \in Nat : f # 671 => (f \in cfg' <=> f \in cfg)
    BY <2>2, <2>3
  <2>5. /\ \A f \in 142 .. 159 : f \in cfg' <=> f - 128 \in lo
        /\ \A f \in 160 .. 191 : f \in cfg' <=> f - 128 \in base
        /\ \A f \in Nat : f \notin 142 .. 191 \cup {671} =>
                            (f \in cfg' <=> f = 130 \/ f \in SetBits)
    BY <1>2, <2>4
  <2>6. PICK off \in BOOLEAN : off = FALSE
    OBVIOUS
  <2>7. 671 \in cfg' <=> off
    BY <2>3, <2>6
  <2>8. cfg' = Conf(base, lo, off)
    BY <2>2, <2>5, <2>7, ConfIs
  <2> QED
    BY <2>6, <2>8
<1> QED
  BY <1>4, <1>5, <1>6, <1>7

-----------------------------------------------------------------------------
(* The scan, line by line: what it has written, what it has read, and what  *)
(* the space is like at each of its lines.                                 *)

ParamInv ==
  /\ param \in Params \cup {NoParam}
  /\ pc # "unloaded" => param \in Params

BeforeBus == {"scan", "lo_ones", "lo_back", "hi_ones", "hi_back", "decode",
              "msix", "create_bus"}
OnBus     == {"enable", "probe", "running"}

Is(lo, on) == cfg = Conf(memmap_start, lo, on)
Quiet      == access = NoAccess
Low        == LowBits(memmap_start)
High       == HighBits(memmap_start)

SeenType == [lo : SUBSET Word, lo_size : SUBSET Word, hi : SUBSET Word,
             hi_size : SUBSET Word, cmd : SUBSET Word]

SeenInv ==
  /\ seen \in SeenType
  /\ pc \in BeforeBus \ {"scan"} => seen.cmd = {1}
  /\ pc \in BeforeBus \ {"scan", "lo_ones"} => seen.lo = {2} \cup Low
  /\ pc \in BeforeBus \ {"scan", "lo_ones", "lo_back"} =>
       seen.lo_size = {2} \cup 14 .. 31
  /\ pc \in {"hi_back", "decode", "msix", "create_bus"} => seen.hi = High
  /\ pc \in {"decode", "msix", "create_bus"} => seen.hi_size = High

SpaceInv ==
  /\ pc = "scan" => Is(Low, TRUE) /\ Quiet
  /\ pc = "lo_ones" => Is(Low, TRUE) /\ (Quiet \/ Pending(4, 2, {}))
  /\ pc = "lo_back" => \/ Is(Low, TRUE) /\ Pending(16, 4, 0 .. 31)
                       \/ Is(14 .. 31, TRUE) /\ Quiet
  /\ pc = "hi_ones" => \/ Is(14 .. 31, TRUE) /\ Pending(16, 4, {2} \cup Low)
                       \/ Is(Low, TRUE) /\ Quiet
  /\ pc = "hi_back" => Is(Low, TRUE) /\ (Quiet \/ Pending(20, 4, 0 .. 31))
  /\ pc = "decode"  => Is(Low, TRUE) /\ (Quiet \/ Pending(20, 4, High))
  /\ pc = "msix"    => Is(Low, TRUE) /\ (Quiet \/ Pending(4, 2, {1}))
  /\ pc = "create_bus" => \/ Is(Low, TRUE) /\ Pending(82, 2, 0 .. 6)
                          \/ Is(Low, FALSE) /\ Quiet
  /\ pc \in {"enable", "probe"} => Is(Low, FALSE) /\ Quiet

\* The driver and the dispatcher have what the scan has found, and the copy of
\* the switch is the switch.
BusInv ==
  /\ pc \notin OnBus => pdev = NoPdev
  /\ pc \in OnBus =>
       pdev = [start |-> memmap_start \ 0 .. 13, log |-> 14, irq |-> 15,
               msix_enabled |-> (671 \in cfg)]
  /\ pc = "running" => drv = [irq |-> 15, mem_sta |-> memmap_start \ 0 .. 13]
  /\ pc # "running" => drv = NoDrv

\* A write that covers the switch of MSI-X has read what it still is.
SwitchInv ==
  access # NoAccess =>
    \A b \in Span(access) : 8 * access.where + b = 671 =>
      (b \in access.old <=> 671 \in cfg)

LineInv == /\ memmap_start \in SUBSET (12 .. 41)
           /\ SeenInv /\ SpaceInv /\ BusInv

ScanInv == ParamInv /\ LineInv /\ SwitchInv

LEMMA ParamStarts ==
  ASSUME ParamInv
  PROVE  /\ param.memmap_start \in SUBSET (12 .. 41)
         /\ pc # "unloaded" => param \in Param
  BY SetupAssumption DEF ParamInv, Param, NoParam

LEMMA BitsTyped ==
  ASSUME NEW base \in SUBSET (12 .. 41)
  PROVE  LowBits(base) \in SUBSET (14 .. 31) /\ HighBits(base) \in SUBSET (0 .. 31)
  BY DEF LowBits, HighBits

LEMMA WritingStarts ==
  ASSUME NEW at, NEW next, NEW where, NEW size, NEW val,
         Writing(at, next, where, size, val)
  PROVE  /\ pc = at /\ pc' = next /\ access = NoAccess
         /\ Pending(where, size, val)'
         /\ UNCHANGED <<cfg, memmap_start, pdev, drv, param>>
<1>1. /\ Step(at, next) /\ drv' = drv
      /\ WriteStart([where |-> where, size |-> size, val |-> val])
  BY DEF Writing
<1>2. /\ pc = at /\ pc' = next /\ access = NoAccess /\ param' = param
  BY <1>1 DEF Step
<1>3. /\ access' = [where |-> where, size |-> size, val |-> val,
                    old |-> ConfigRead(where, size)]
      /\ UNCHANGED <<cfg, memmap_start, pdev>>
  BY <1>1 DEF WriteStart
<1>4. Pending(where, size, val)'
  BY <1>3 DEF Pending, ConfigRead
<1> QED
  BY <1>1, <1>2, <1>3, <1>4

\* The switch, whatever is under way.
LEMMA SwitchStep ==
  ASSUME CfgInv, SwitchInv, [Next]_vars
  PROVE  SwitchInv'
<1>1. CASE NoCfgStep
  BY <1>1 DEF NoCfgStep, SwitchInv, Span, cfgVars
<1>2. CASE FillStep
  BY <1>2 DEF FillStep, FillConfig, SwitchInv
<1>3. CASE LateStep
  <2>1. ASSUME NEW w \in ConfigWrite, WriteStart(w) PROVE SwitchInv'
    <3>1. \A b \in Span(access') :
            b \in access'.old <=> 8 * access'.where + b \in cfg
      BY <2>1, StartRead
    <3>2. cfg' = cfg
      BY <2>1 DEF WriteStart
    <3> QED
      BY <3>1, <3>2 DEF SwitchInv, Span
  <2>2. CASE SignalIrq
    <3>1. access' = access /\ (671 \in cfg' <=> 671 \in cfg)
      BY <2>2 DEF SignalIrq, InterruptStatus, PCI_STATUS
    <3> QED
      BY <3>1 DEF SwitchInv, Span
  <2>3. CASE UNCHANGED <<cfg, memmap_start, access, owed, overlapped>>
    BY <2>3 DEF SwitchInv, Span
  <2> QED
    BY <1>3, <2>1, <2>2, <2>3 DEF LateStep
<1>4. CASE EndStep
  BY <1>4 DEF EndStep, WriteEnd, SwitchInv
<1> QED
  BY <1>1, <1>2, <1>3, <1>4, CfgSteps

LEMMA ParamStep ==
  ASSUME ParamInv, [Next]_vars
  PROVE  ParamInv'
<1> USE DEF ParamInv, Step, Writing
<1>1. ASSUME NEW p \in Params, Insmod(p) PROVE ParamInv'
  BY <1>1 DEF Insmod
<1>2. CASE Validate \/ Strsep \/ MinorsParsed
  BY <1>2 DEF Validate, Strsep, MinorsParsed
<1>3. CASE OpenDisk \/ PutBack \/ PciInit
  BY <1>3 DEF OpenDisk, PutBack, PciInit
<1>4. CASE ScanId \/ SizeLo \/ RestoreLo \/ SizeHi \/ RestoreHi \/ DecodeOn
  BY <1>4 DEF ScanId, SizeLo, RestoreLo, SizeHi, RestoreHi, DecodeOn
<1>5. CASE MsixOff
  BY <1>5 DEF MsixOff
<1>6. CASE CreatePciBus \/ EnableDevice \/ Probe
  BY <1>6 DEF CreatePciBus, EnableDevice, Probe
<1>7. CASE (\E w \in Writes : LaterWrite(w)) \/ DispatcherSignals \/ Interrupt
           \/ EndWrite \/ UNCHANGED vars
  BY <1>7 DEF LaterWrite, DispatcherSignals, Interrupt, EndWrite, setupVars, vars
<1> QED
  BY <1>1, <1>2, <1>3, <1>4, <1>5, <1>6, <1>7 DEF Next, Scan

\* What is read at a line of the scan, and what the space is after the write
\* under way there.
LEMMA LineReads ==
  ASSUME memmap_start \in SUBSET (12 .. 41), NEW lo \in SUBSET (14 .. 31),
         NEW on \in BOOLEAN, Is(lo, on)
  PROVE  /\ ConfigRead(16, 4) = {2} \cup lo /\ ConfigRead(20, 4) = High
         /\ ConfigRead(4, 2) = {1} /\ Byte(60) = 15 /\ HeadsKept
         /\ on => ConfigRead(82, 2) = 0 .. 6 \cup {15} /\ 671 \in cfg
         /\ ~on => ConfigRead(82, 2) = 0 .. 6 /\ 671 \notin cfg
<1>1. cfg = Conf(memmap_start, lo, on)
  BY DEF Is
<1>2. /\ ConfigRead(16, 4) = {2} \cup lo
      /\ ConfigRead(20, 4) = HighBits(memmap_start)
      /\ ConfigRead(4, 2) = {1}
      /\ ConfigRead(82, 2) = 0 .. 6 \cup (IF on THEN {15} ELSE {})
      /\ Byte(60) = 15 /\ HeadsKept
  <2>1. ConfigRead(16, 4) = {2} \cup lo
    <3>1. \A b : b \in ConfigRead(16, 4) <=> b = 2 \/ b \in lo
      BY <1>1, ConfReads
    <3> QED
      BY <3>1, Zenon
  <2>2. ConfigRead(82, 2) = 0 .. 6 \cup (IF on THEN {15} ELSE {})
    BY <1>1, ConfReads
  <2>3. ConfigRead(20, 4) = HighBits(memmap_start) /\ ConfigRead(4, 2) = {1}
    BY <1>1, ConfReads
  <2>4. Byte(60) = 15 /\ HeadsKept
    BY <1>1, ConfReads
  <2> QED
    BY <2>1, <2>2, <2>3, <2>4
<1>3. 671 \in cfg <=> on
  BY <1>1, ConfBits
<1> QED
  BY <1>2, <1>3 DEF High

LEMMA LineEnds ==
  ASSUME memmap_start \in SUBSET (12 .. 41), NEW lo \in SUBSET (14 .. 31),
         NEW on \in BOOLEAN, Is(lo, on), EndStep, AccessInv, pdev = NoPdev
  PROVE  LET after(l, o) == cfg' = Conf(memmap_start, l, o) IN
         /\ pc' = pc /\ access' = NoAccess /\ access # NoAccess
         /\ memmap_start' = memmap_start /\ pdev' = NoPdev
         /\ Pending(4, 2, {}) \/ Pending(4, 2, {1}) => after(lo, on)
         /\ Pending(16, 4, 0 .. 31) => after(14 .. 31, on)
         /\ Pending(16, 4, {2} \cup Low) => after(Low, on)
         /\ Pending(20, 4, 0 .. 31) \/ Pending(20, 4, High) => after(lo, on)
         /\ Pending(82, 2, 0 .. 6) => after(lo, FALSE)
<1>1. cfg = Conf(memmap_start, lo, on)
  BY DEF Is
<1>2. /\ pc' = pc /\ access' = NoAccess /\ access # NoAccess
      /\ memmap_start' = memmap_start /\ pdev' = NoPdev
  BY DEF EndStep, WriteEnd
<1>3. \A val \in SUBSET (0 .. 15) : 10 \notin val /\ Pending(4, 2, val) =>
        cfg' = Conf(memmap_start, lo, on)
  BY <1>1, ConfAfter
<1>4. \A val \in SUBSET (0 .. 31) : Pending(16, 4, val) =>
        cfg' = Conf(memmap_start, val \cap 14 .. 31, on)
  BY <1>1, ConfAfter
<1>5. \A val \in SUBSET (0 .. 31) : Pending(20, 4, val) =>
        cfg' = Conf(memmap_start, lo, on)
  BY <1>1, ConfAfter
<1>6. \A val \in SUBSET (0 .. 15) :
        14 \notin val /\ 15 \notin val /\ Pending(82, 2, val) =>
        cfg' = Conf(memmap_start, lo, FALSE)
  BY <1>1, ConfAfter
<1>7. /\ {} \in SUBSET (0 .. 15) /\ {1} \in SUBSET (0 .. 15)
      /\ 0 .. 6 \in SUBSET (0 .. 15) /\ 0 .. 31 \in SUBSET (0 .. 31)
      /\ High \in SUBSET (0 .. 31) /\ {2} \cup Low \in SUBSET (0 .. 31)
      /\ (0 .. 31) \cap 14 .. 31 = 14 .. 31
      /\ ({2} \cup Low) \cap 14 .. 31 = Low
  <2>1. High \in SUBSET (0 .. 31) /\ Low \in SUBSET (14 .. 31)
    BY BitsTyped DEF High, Low
  <2>2. /\ {} \in SUBSET (0 .. 15) /\ {1} \in SUBSET (0 .. 15)
        /\ 0 .. 6 \in SUBSET (0 .. 15) /\ 0 .. 31 \in SUBSET (0 .. 31)
    OBVIOUS
  <2>3. (0 .. 31) \cap 14 .. 31 = 14 .. 31
    OBVIOUS
  <2>4. \A b \in Low : b \in 14 .. 31 /\ b \in 0 .. 31
    BY <2>1
  <2>5. 2 \in 0 .. 31 /\ 2 \notin 14 .. 31
    OBVIOUS
  <2>6. {2} \cup Low \in SUBSET (0 .. 31)
    BY <2>4, <2>5, Zenon
  <2>7. ({2} \cup Low) \cap 14 .. 31 = Low
    BY <2>4, <2>5, Zenon
  <2> QED
    BY <2>1, <2>2, <2>3, <2>6, <2>7
<1>8. Pending(4, 2, {}) \/ Pending(4, 2, {1}) => cfg' = Conf(memmap_start, lo, on)
  BY <1>3, <1>7
<1>9. Pending(16, 4, 0 .. 31) => cfg' = Conf(memmap_start, 14 .. 31, on)
  BY <1>4, <1>7
<1>10. Pending(16, 4, {2} \cup Low) => cfg' = Conf(memmap_start, Low, on)
  BY <1>4, <1>7
<1>11. Pending(20, 4, 0 .. 31) \/ Pending(20, 4, High) =>
         cfg' = Conf(memmap_start, lo, on)
  BY <1>5, <1>7
<1>12. Pending(82, 2, 0 .. 6) => cfg' = Conf(memmap_start, lo, FALSE)
  <2>1. 14 \notin 0 .. 6 /\ 15 \notin 0 .. 6
    OBVIOUS
  <2> QED
    BY <1>6, <1>7, <2>1
<1> QED
  BY <1>2, <1>8, <1>9, <1>10, <1>11, <1>12

\* The steps, seen from the scan.
LoadStep  == pc \in Early /\ pc' \in Early /\ UNCHANGED <<cfgVars, seen, drv>>
RunStep   == /\ pc = "running" /\ pc' = pc /\ UNCHANGED <<seen, drv>>
             /\ \/ \E w \in Writes : WriteStart(w)
                \/ SignalIrq
                \/ UNCHANGED <<cfg, memmap_start, pdev, access>>

LEMMA ScanSteps ==
  [Next]_vars =>
    \/ UNCHANGED <<pc, cfgVars, seen, drv>>
    \/ LoadStep
    \/ FillStep /\ UNCHANGED <<seen, drv>>
    \/ Scan \/ CreatePciBus \/ EnableDevice \/ Probe
    \/ RunStep
    \/ EndStep /\ UNCHANGED <<seen, drv>>
<1> SUFFICES ASSUME [Next]_vars, ~Scan, ~CreatePciBus, ~EnableDevice, ~Probe
             PROVE  \/ UNCHANGED <<pc, cfgVars, seen, drv>>
                    \/ LoadStep
                    \/ FillStep /\ UNCHANGED <<seen, drv>>
                    \/ RunStep
                    \/ EndStep /\ UNCHANGED <<seen, drv>>
  OBVIOUS
<1> USE DEF LoadStep, Early
<1>1. CASE UNCHANGED vars
  BY <1>1 DEF vars, setupVars
<1>2. ASSUME NEW p \in Params, Insmod(p) PROVE LoadStep
  BY <1>2 DEF Insmod
<1>3. CASE Validate \/ Strsep \/ MinorsParsed
  BY <1>3 DEF Validate, Strsep, MinorsParsed
<1>4. CASE OpenDisk \/ PutBack
  BY <1>4 DEF OpenDisk, PutBack
<1>5. CASE PciInit
  BY <1>5 DEF PciInit, FillStep
<1>6. ASSUME NEW w \in Writes, LaterWrite(w) PROVE RunStep
  BY <1>6 DEF LaterWrite, setupVars, RunStep
<1>7. CASE DispatcherSignals \/ Interrupt
  BY <1>7 DEF DispatcherSignals, Interrupt, setupVars, RunStep
<1>8. CASE EndWrite
  BY <1>8 DEF EndWrite, EndStep, setupVars
<1> QED
  BY <1>1, <1>2, <1>3, <1>4, <1>5, <1>6, <1>7, <1>8 DEF Next

LEMMA ScanLine ==
  ASSUME LineInv, Scan
  PROVE  LineInv'
<1> USE DEF LineInv
<1>a. memmap_start \in SUBSET (12 .. 41) /\ SeenInv /\ SpaceInv /\ BusInv
  OBVIOUS
<1>b. Low \in SUBSET (14 .. 31) /\ High \in SUBSET (0 .. 31)
  BY BitsTyped DEF Low, High
<1>c. ASSUME pc \in {"scan", "lo_ones", "decode", "msix", "hi_ones", "hi_back"},
             access = NoAccess
      PROVE  /\ Is(Low, TRUE)
             /\ ConfigRead(16, 4) = {2} \cup Low /\ ConfigRead(20, 4) = High
             /\ ConfigRead(4, 2) = {1} /\ HeadsKept
             /\ ConfigRead(82, 2) = 0 .. 6 \cup {15}
  <2>1. Is(Low, TRUE)
    BY <1>c DEF SpaceInv, Pending, NoAccess
  <2>2. PICK on \in BOOLEAN : on = TRUE
    OBVIOUS
  <2> QED
    BY <1>b, <2>1, <2>2, LineReads
<1>d. pc \notin OnBus => pdev = NoPdev
  BY DEF BusInv
<1> USE DEF BeforeBus, OnBus
<1>1. CASE ScanId
  <2>1. /\ seen' = [seen EXCEPT !.cmd = ConfigRead(4, 2)]
        /\ Writing("scan", "lo_ones", 4, 2, seen'.cmd \ {0, 1})
    BY <1>1 DEF ScanId, PCI_COMMAND, MemorySpace
  <2>2. pc = "scan" /\ access = NoAccess
    BY <2>1 DEF Writing, Step
  <2>3. ConfigRead(4, 2) = {1} /\ Is(Low, TRUE)
    BY <1>c, <2>2
  <2>4. seen' \in SeenType /\ seen'.cmd = {1}
    BY <2>1, <2>3 DEF SeenInv, SeenType, Word
  <2>5. seen'.cmd \ {0, 1} = {}
    BY <2>4
  <2>6. /\ pc' = "lo_ones" /\ Pending(4, 2, {})'
        /\ UNCHANGED <<cfg, memmap_start, pdev, drv, param>>
    BY <2>1, <2>5, WritingStarts
  <2>7. Is(Low, TRUE)'
    BY <2>3, <2>6 DEF Is, Low
  <2>8. SeenInv'
    BY <2>4, <2>6 DEF SeenInv
  <2>9. SpaceInv'
    BY <2>6, <2>7 DEF SpaceInv
  <2>10. BusInv'
    BY <2>2, <2>6 DEF BusInv
  <2> QED
    BY <2>6, <2>8, <2>9, <2>10
<1>2. CASE SizeLo
  <2>1. /\ seen' = [seen EXCEPT !.lo = ConfigRead(16, 4)]
        /\ Writing("lo_ones", "lo_back", 16, 4, 0 .. 31)
    BY <1>2 DEF SizeLo, PCI_BASE_ADDRESS_0, Word
  <2>2. /\ pc = "lo_ones" /\ pc' = "lo_back" /\ access = NoAccess
        /\ Pending(16, 4, 0 .. 31)'
        /\ UNCHANGED <<cfg, memmap_start, pdev, drv, param>>
    BY <2>1, WritingStarts
  <2>3. ConfigRead(16, 4) = {2} \cup Low /\ Is(Low, TRUE)
    BY <1>c, <2>2
  <2>4. seen' \in SeenType /\ seen'.cmd = seen.cmd /\ seen'.lo = {2} \cup Low
    BY <1>b, <2>1, <2>3 DEF SeenInv, SeenType, Word
  <2>5. Is(Low, TRUE)' /\ Low' = Low
    BY <2>2, <2>3 DEF Is, Low
  <2>6. SeenInv'
    BY <2>2, <2>4, <2>5 DEF SeenInv
  <2>7. SpaceInv'
    BY <2>2, <2>5 DEF SpaceInv
  <2>8. BusInv'
    BY <2>2 DEF BusInv
  <2> QED
    BY <2>2, <2>6, <2>7, <2>8
<1>3. CASE RestoreLo
  <2>1. /\ seen' = [seen EXCEPT !.lo_size = ConfigRead(16, 4)]
        /\ Writing("lo_back", IF 2 \in seen.lo THEN "hi_ones" ELSE "decode",
                   16, 4, seen.lo)
    BY <1>3 DEF RestoreLo, PCI_BASE_ADDRESS_0
  <2>2. pc = "lo_back" /\ access = NoAccess
    BY <2>1 DEF Writing, Step
  <2>3. seen.lo = {2} \cup Low
    BY <2>2 DEF SeenInv
  <2>4. Writing("lo_back", "hi_ones", 16, 4, {2} \cup Low)
    BY <2>1, <2>3
  <2>5. /\ pc' = "hi_ones" /\ Pending(16, 4, {2} \cup Low)'
        /\ UNCHANGED <<cfg, memmap_start, pdev, drv, param>>
    <3>1. PICK val : val = {2} \cup Low
      OBVIOUS
    <3>2. Low' = Low
      BY <2>4 DEF Writing, WriteStart, Low
    <3>3. /\ pc' = "hi_ones" /\ Pending(16, 4, val)'
          /\ UNCHANGED <<cfg, memmap_start, pdev, drv, param>>
      BY <2>4, <3>1, WritingStarts
    <3> QED
      BY <3>1, <3>2, <3>3 DEF Pending
  <2>6. Is(14 .. 31, TRUE)
    BY <2>2 DEF SpaceInv, Pending, NoAccess
  <2>7. ConfigRead(16, 4) = {2} \cup 14 .. 31
    <3>1. PICK on \in BOOLEAN : on = TRUE
      OBVIOUS
    <3>2. 14 .. 31 \in SUBSET (14 .. 31)
      OBVIOUS
    <3> QED
      BY <2>6, <3>1, <3>2, LineReads
  <2>8. /\ seen' \in SeenType /\ seen'.cmd = seen.cmd /\ seen'.lo = seen.lo
        /\ seen'.lo_size = {2} \cup 14 .. 31
    BY <2>1, <2>7 DEF SeenInv, SeenType, Word
  <2>9. Is(14 .. 31, TRUE)' /\ Low' = Low
    BY <2>5, <2>6 DEF Is, Low
  <2>10. SeenInv'
    BY <2>2, <2>3, <2>5, <2>8, <2>9 DEF SeenInv
  <2>11. SpaceInv'
    BY <2>5, <2>9 DEF SpaceInv
  <2>12. BusInv'
    BY <2>2, <2>5 DEF BusInv
  <2> QED
    BY <2>5, <2>10, <2>11, <2>12
<1>4. CASE SizeHi
  <2>1. /\ seen' = [seen EXCEPT !.hi = ConfigRead(20, 4)]
        /\ Writing("hi_ones", "hi_back", 20, 4, 0 .. 31)
    BY <1>4 DEF SizeHi, PCI_BASE_ADDRESS_1, Word
  <2>2. /\ pc = "hi_ones" /\ pc' = "hi_back" /\ access = NoAccess
        /\ Pending(20, 4, 0 .. 31)'
        /\ UNCHANGED <<cfg, memmap_start, pdev, drv, param>>
    BY <2>1, WritingStarts
  <2>3. ConfigRead(20, 4) = High /\ Is(Low, TRUE)
    BY <1>c, <2>2
  <2>4. /\ seen' \in SeenType /\ seen'.cmd = seen.cmd /\ seen'.lo = seen.lo
        /\ seen'.lo_size = seen.lo_size /\ seen'.hi = High
    BY <1>b, <2>1, <2>3 DEF SeenInv, SeenType, Word
  <2>5. Is(Low, TRUE)' /\ Low' = Low /\ High' = High
    BY <2>2, <2>3 DEF Is, Low, High
  <2>6. SeenInv'
    BY <2>2, <2>4, <2>5 DEF SeenInv
  <2>7. SpaceInv'
    BY <2>2, <2>5 DEF SpaceInv
  <2>8. BusInv'
    BY <2>2 DEF BusInv
  <2> QED
    BY <2>2, <2>6, <2>7, <2>8
<1>5. CASE RestoreHi
  <2>1. /\ seen' = [seen EXCEPT !.hi_size = ConfigRead(20, 4)]
        /\ Writing("hi_back", "decode", 20, 4, seen.hi)
    BY <1>5 DEF RestoreHi, PCI_BASE_ADDRESS_1
  <2>2. pc = "hi_back" /\ access = NoAccess
    BY <2>1 DEF Writing, Step
  <2>3. ConfigRead(20, 4) = High /\ Is(Low, TRUE) /\ seen.hi = High
    BY <1>c, <2>2 DEF SeenInv
  <2>4. High' = High /\ Low' = Low
    BY <2>1 DEF Writing, WriteStart, High, Low
  <2>5. /\ pc' = "decode" /\ Pending(20, 4, High)'
        /\ UNCHANGED <<cfg, memmap_start, pdev, drv, param>>
    <3>1. PICK val : val = High
      OBVIOUS
    <3>2. /\ pc' = "decode" /\ Pending(20, 4, val)'
          /\ UNCHANGED <<cfg, memmap_start, pdev, drv, param>>
      BY <2>1, <2>3, <3>1, WritingStarts
    <3> QED
      BY <2>4, <3>1, <3>2 DEF Pending
  <2>6. /\ seen' \in SeenType /\ seen'.cmd = seen.cmd /\ seen'.lo = seen.lo
        /\ seen'.lo_size = seen.lo_size /\ seen'.hi = High /\ seen'.hi_size = High
    BY <1>b, <2>1, <2>3 DEF SeenInv, SeenType, Word
  <2>7. Is(Low, TRUE)'
    BY <2>3, <2>5 DEF Is, Low
  <2>8. SeenInv'
    BY <2>2, <2>4, <2>5, <2>6 DEF SeenInv
  <2>9. SpaceInv'
    BY <2>5, <2>7 DEF SpaceInv
  <2>10. BusInv'
    BY <2>2, <2>5 DEF BusInv
  <2> QED
    BY <2>5, <2>8, <2>9, <2>10
<1>6. CASE DecodeOn
  <2>1. Writing("decode", "msix", 4, 2, seen.cmd) /\ seen' = seen
    BY <1>6 DEF DecodeOn, PCI_COMMAND
  <2>2. pc = "decode" /\ access = NoAccess
    BY <2>1 DEF Writing, Step
  <2>3. Is(Low, TRUE) /\ seen.cmd = {1}
    BY <1>c, <2>2 DEF SeenInv
  <2>4. /\ pc' = "msix" /\ Pending(4, 2, {1})'
        /\ UNCHANGED <<cfg, memmap_start, pdev, drv, param>>
    BY <2>1, <2>3, WritingStarts
  <2>5. Is(Low, TRUE)' /\ Low' = Low /\ High' = High
    BY <2>3, <2>4 DEF Is, Low, High
  <2>6. SeenInv'
    BY <2>1, <2>2, <2>4, <2>5 DEF SeenInv
  <2>7. SpaceInv'
    BY <2>4, <2>5 DEF SpaceInv
  <2>8. BusInv'
    BY <2>2, <2>4 DEF BusInv
  <2> QED
    BY <2>4, <2>6, <2>7, <2>8
<1>7. CASE MsixOff
  <2>1. pc = "msix" /\ access = NoAccess
    BY <1>7 DEF MsixOff, Writing, Step
  <2>2. /\ Is(Low, TRUE) /\ HeadsKept
        /\ ConfigRead(82, 2) = 0 .. 6 \cup {15}
    BY <1>c, <2>1
  <2>3. FindCap(17) + PCI_MSIX_FLAGS = 82
    BY <2>2, FindsCap DEF PCI_MSIX_FLAGS
  <2>4. 15 \in 0 .. 6 \cup {15} /\ (0 .. 6 \cup {15}) \ {15} = 0 .. 6
    OBVIOUS
  <2>5. Writing("msix", "create_bus", 82, 2, 0 .. 6) /\ seen' = seen
    BY <1>7, <2>2, <2>3, <2>4 DEF MsixOff, MsixEnable
  <2>6. /\ pc' = "create_bus" /\ Pending(82, 2, 0 .. 6)'
        /\ UNCHANGED <<cfg, memmap_start, pdev, drv, param>>
    BY <2>5, WritingStarts
  <2>7. Is(Low, TRUE)' /\ Low' = Low /\ High' = High
    BY <2>2, <2>6 DEF Is, Low, High
  <2>8. SeenInv'
    BY <2>1, <2>5, <2>6, <2>7 DEF SeenInv
  <2>9. SpaceInv'
    BY <2>6, <2>7 DEF SpaceInv
  <2>10. BusInv'
    BY <2>1, <2>6 DEF BusInv
  <2> QED
    BY <2>6, <2>8, <2>9, <2>10
<1> QED
  BY <1>1, <1>2, <1>3, <1>4, <1>5, <1>6, <1>7 DEF Scan

\* The one write that reaches the switch of MSI-X is the one that is taken for
\* it when the copy is kept.
LEMMA SwitchEnds ==
  ASSUME AccessInv, SwitchInv, WriteEnd
  PROVE  671 \in cfg' <=> IF Switches(access, 82, 15) THEN 15 \in access.val
                                                      ELSE 671 \in cfg
<1> DEFINE b == 671 - 8 * access.where
<1>1. /\ access # NoAccess /\ access.where \in Nat
      /\ access.val \subseteq Span(access) /\ access.old \subseteq Span(access)
      /\ \/ access.size = 1
         \/ access.size = 2 /\ access.where % 2 = 0
         \/ access.size = 4 /\ access.where % 4 = 0
  BY DEF WriteEnd, AccessInv
<1>2. IF b \in Span(access)
      THEN 671 \in cfg' <=> IF b \in Mask(access.where) THEN b \in access.val
                                                        ELSE b \in access.old
      ELSE 671 \in cfg' <=> 671 \in cfg \ ClearsStatus(access)
  BY <1>1, EndBits
<1>3. b \in Span(access) => (b \in access.old <=> 671 \in cfg)
  BY <1>1 DEF SwitchInv
<1>4. 671 \notin ClearsStatus(access)
  BY DEF ClearsStatus, InterruptStatus, PCI_STATUS
<1>5. CASE access.where = 82 /\ access.size # 1
  <2>1. b = 15 /\ b \in Span(access) /\ b \in Mask(access.where)
    BY <1>1, <1>5 DEF Span, Mask, MsixMask, OFFS_PCI_PM_CAP, OFFS_PCI_MSIX_CAP,
                      OFFS_PCIE_CAP, PCI_MSIX_FLAGS, MsixMaskAll, MsixEnable
  <2> QED
    BY <1>2, <1>3, <1>5, <2>1 DEF Switches
<1>6. CASE access.where = 82 /\ access.size = 1
  <2>1. b \notin Span(access) /\ 15 \notin Span(access)
    BY <1>6 DEF Span
  <2>2. ~Switches(access, 82, 15)
    BY <1>1, <2>1 DEF Switches
  <2> QED
    BY <1>2, <1>4, <2>1, <2>2
<1>7. CASE access.where # 82
  <2>1. b \in Span(access) => b \notin Mask(access.where)
    <3>1. b \in Span(access) => access.where \in {80, 83}
      BY <1>1, <1>7 DEF Span
    <3> QED
      BY <3>1 DEF Mask, MsixMask, OFFS_PCI_PM_CAP, OFFS_PCI_MSIX_CAP,
                  OFFS_PCIE_CAP, PCI_MSIX_FLAGS
  <2>2. ~Switches(access, 82, 15)
    BY <1>7 DEF Switches
  <2> HIDE DEF b
  <2> QED
    BY <1>2, <1>3, <1>4, <2>1, <2>2
<1> QED
  BY <1>5, <1>6, <1>7

\* What the kernel takes for the BAR.
LEMMA BarIs ==
  ASSUME memmap_start \in SUBSET (12 .. 41), seen.lo = {2} \cup Low,
         seen.lo_size = {2} \cup 14 .. 31, seen.hi = High, seen.hi_size = High
  PROVE  ResourceStart = memmap_start \ 0 .. 13 /\ ResourceLog = 14
<1>1. ASSUME NEW x PROVE x \in {b + 32 : b \in High} <=>
                           x \in 32 .. 41 /\ x \in memmap_start
  <2>1. \A b \in High : b \in 0 .. 31 /\ b + 32 \in memmap_start /\ b + 32 \in 32 .. 41
    BY DEF High, HighBits
  <2>2. x \in 32 .. 41 /\ x \in memmap_start => x - 32 \in High /\ x = (x - 32) + 32
    BY DEF High, HighBits
  <2>3. x \in {b + 32 : b \in High} => \E b \in High : x = b + 32
    OBVIOUS
  <2>4. x \in 32 .. 41 /\ x \in memmap_start => x \in {b + 32 : b \in High}
    BY <2>2, Zenon
  <2> QED
    BY <2>1, <2>3, <2>4
<1>2. ResourceStart = memmap_start \ 0 .. 13
  <2>1. ASSUME NEW x PROVE x \in ResourceStart <=> x \in memmap_start \ 0 .. 13
    <3>1. x \in ResourceStart <=> \/ x \in ({2} \cup Low) \ 0 .. 3
                                  \/ x \in {b + 32 : b \in High}
      BY Zenon DEF ResourceStart
    <3>2. x \in ({2} \cup Low) \ 0 .. 3 <=> x \in memmap_start /\ x \in 14 .. 31
      BY DEF Low, LowBits
    <3>3. x \in memmap_start \ 0 .. 13 <=>
            x \in memmap_start /\ (x \in 14 .. 31 \/ x \in 32 .. 41)
      <4>1. x \in memmap_start => x \in 12 .. 41
        OBVIOUS
      <4> QED
        BY <4>1
    <3> QED
      BY <1>1, <3>1, <3>2, <3>3, Zenon
  <2> QED
    BY <2>1, Zenon
<1>3. ResourceLog = 14
  <2> DEFINE S == (seen.lo_size \ 0 .. 3) \cup {b + 32 : b \in seen.hi_size}
  <2>1. \A x : x \in S <=> \/ x \in ({2} \cup 14 .. 31) \ 0 .. 3
                           \/ x \in {b + 32 : b \in High}
    BY Zenon
  <2>2. 14 \in S /\ \A x \in S : x \in Int /\ 14 <= x
    BY <1>1, <2>1
  <2> HIDE DEF S
  <2>3. Min(S) = 14
    BY <2>2 DEF Min
  <2> QED
    BY <2>3 DEF ResourceLog, S
<1> QED
  BY <1>2, <1>3

LEMMA ScanInit == Init => ScanInv
<1> SUFFICES ASSUME Init PROVE ScanInv
  OBVIOUS
<1>1. ParamInv /\ SwitchInv
  BY DEF Init, ConfigInit, ParamInv, SwitchInv
<1>2. LineInv
  BY DEF Init, ConfigInit, LineInv, SeenInv, SeenType, Unseen, SpaceInv, BusInv,
         BeforeBus, OnBus
<1> QED
  BY <1>1, <1>2 DEF ScanInv

LEMMA OnBusLine ==
  ASSUME LineInv, CreatePciBus \/ EnableDevice \/ Probe
  PROVE  LineInv'
<1> USE DEF LineInv, BeforeBus, OnBus
<1>1. CASE CreatePciBus
  <2>1. /\ pc = "create_bus" /\ pc' = "enable" /\ access = NoAccess
        /\ pdev' = [start |-> ResourceStart, log |-> ResourceLog,
                    irq |-> IrqOfLine, msix_enabled |-> FALSE]
        /\ UNCHANGED <<cfg, memmap_start, access, seen, drv>>
    BY <1>1 DEF CreatePciBus, Step
  <2>2. Is(Low, FALSE)
    BY <2>1 DEF SpaceInv, Pending, NoAccess
  <2>3. Byte(60) = 15 /\ 671 \notin cfg
    <3>1. PICK on \in BOOLEAN : on = FALSE
      OBVIOUS
    <3>2. Low \in SUBSET (14 .. 31)
      BY BitsTyped DEF Low
    <3> QED
      BY <2>2, <3>1, <3>2, LineReads
  <2>4. ResourceStart = memmap_start \ 0 .. 13 /\ ResourceLog = 14
    BY <2>1, BarIs DEF SeenInv
  <2>5. Is(Low, FALSE)' /\ Quiet'
    BY <2>1, <2>2 DEF Is, Low, Quiet
  <2>6. SpaceInv'
    BY <2>1, <2>5 DEF SpaceInv
  <2>7. pdev' = [start |-> memmap_start \ 0 .. 13, log |-> 14, irq |-> 15,
                 msix_enabled |-> FALSE]
    BY <2>1, <2>3, <2>4 DEF IrqOfLine, PCI_INTERRUPT_LINE
  <2>8. BusInv'
    <3>1. (671 \in cfg') = FALSE
      BY <2>1, <2>3
    <3>2. memmap_start' = memmap_start /\ pc' = "enable" /\ drv' = NoDrv
      BY <2>1 DEF BusInv
    <3> QED
      BY <2>7, <3>1, <3>2 DEF BusInv
  <2>9. SeenInv'
    BY <2>1 DEF SeenInv
  <2> QED
    BY <2>1, <2>6, <2>8, <2>9
<1>2. CASE EnableDevice
  <2>1. pc = "enable" /\ pc' = "probe" /\ UNCHANGED <<cfgVars, seen, drv>>
    BY <1>2 DEF EnableDevice, Step
  <2> QED
    BY <2>1 DEF SeenInv, SpaceInv, BusInv, cfgVars, Is, Low, Quiet
<1>3. CASE Probe
  <2>1. /\ pc = "probe" /\ pc' = "running" /\ UNCHANGED <<cfgVars, seen>>
        /\ drv' = [irq |-> pdev.irq, mem_sta |-> pdev.start]
    BY <1>3 DEF Probe, Step
  <2>2. drv' = [irq |-> 15, mem_sta |-> memmap_start \ 0 .. 13]
    BY <2>1 DEF BusInv
  <2> QED
    BY <2>1, <2>2 DEF SeenInv, SpaceInv, BusInv, cfgVars
<1> QED
  BY <1>1, <1>2, <1>3

LEMMA EndLine ==
  ASSUME LineInv, SwitchInv, AccessInv, EndStep, UNCHANGED <<seen, drv>>
  PROVE  LineInv'
<1> USE DEF LineInv, BeforeBus, OnBus
<1>1. /\ WriteEnd /\ pc' = pc /\ access # NoAccess /\ access' = NoAccess
      /\ memmap_start' = memmap_start /\ Low' = Low /\ High' = High
  BY DEF EndStep, WriteEnd, Low, High
<1>2. SeenInv'
  BY <1>1 DEF SeenInv
<1>3. SpaceInv'
  <2>1. CASE pc \in {"lo_ones", "hi_back", "decode", "msix"}
    <3>1. /\ pdev = NoPdev /\ Is(Low, TRUE)
          /\ \/ Pending(4, 2, {}) \/ Pending(4, 2, {1})
             \/ Pending(20, 4, 0 .. 31) \/ Pending(20, 4, High)
      <4>1. pdev = NoPdev
        BY <2>1 DEF BusInv
      <4>2. ~Quiet
        BY <1>1 DEF Quiet
      <4> QED
        BY <2>1, <4>1, <4>2 DEF SpaceInv
    <3>2. PICK on \in BOOLEAN : on = TRUE
      OBVIOUS
    <3>3. Low \in SUBSET (14 .. 31)
      BY BitsTyped DEF Low
    <3>4. cfg' = Conf(memmap_start, Low, on)
      BY <3>1, <3>2, <3>3, LineEnds
    <3>5. Is(Low, TRUE)' /\ Quiet'
      BY <1>1, <3>2, <3>4 DEF Is, Quiet
    <3> QED
      BY <1>1, <2>1, <3>5 DEF SpaceInv
  <2>2. CASE pc = "lo_back"
    <3>1. pdev = NoPdev /\ Is(Low, TRUE) /\ Pending(16, 4, 0 .. 31)
      BY <1>1, <2>2 DEF BusInv, SpaceInv, Quiet
    <3>2. PICK on \in BOOLEAN : on = TRUE
      OBVIOUS
    <3>3. Low \in SUBSET (14 .. 31)
      BY BitsTyped DEF Low
    <3>4. cfg' = Conf(memmap_start, 14 .. 31, on)
      BY <3>1, <3>2, <3>3, LineEnds
    <3>5. Is(14 .. 31, TRUE)' /\ Quiet'
      BY <1>1, <3>2, <3>4 DEF Is, Quiet
    <3> QED
      BY <1>1, <2>2, <3>5 DEF SpaceInv
  <2>3. CASE pc = "hi_ones"
    <3>1. pdev = NoPdev /\ Is(14 .. 31, TRUE) /\ Pending(16, 4, {2} \cup Low)
      BY <1>1, <2>3 DEF BusInv, SpaceInv, Quiet
    <3>2. PICK on \in BOOLEAN : on = TRUE
      OBVIOUS
    <3>3. 14 .. 31 \in SUBSET (14 .. 31)
      OBVIOUS
    <3>4. cfg' = Conf(memmap_start, Low, on)
      BY <3>1, <3>2, <3>3, LineEnds
    <3>5. Is(Low, TRUE)' /\ Quiet'
      BY <1>1, <3>2, <3>4 DEF Is, Quiet
    <3> QED
      BY <1>1, <2>3, <3>5 DEF SpaceInv
  <2>4. CASE pc = "create_bus"
    <3>1. pdev = NoPdev /\ Is(Low, TRUE) /\ Pending(82, 2, 0 .. 6)
      BY <1>1, <2>4 DEF BusInv, SpaceInv, Quiet
    <3>2. PICK on \in BOOLEAN : on = TRUE
      OBVIOUS
    <3>3. Low \in SUBSET (14 .. 31)
      BY BitsTyped DEF Low
    <3>4. cfg' = Conf(memmap_start, Low, FALSE)
      BY <3>1, <3>2, <3>3, LineEnds
    <3>5. Is(Low, FALSE)' /\ Quiet'
      BY <1>1, <3>4 DEF Is, Quiet
    <3> QED
      BY <1>1, <2>4, <3>5 DEF SpaceInv
  <2>5. CASE pc \in {"scan", "enable", "probe"}
    BY <1>1, <2>5 DEF SpaceInv, Quiet
  <2>6. CASE pc \notin BeforeBus \cup {"enable", "probe"}
    BY <1>1, <2>6 DEF SpaceInv
  <2> QED
    BY <2>1, <2>2, <2>3, <2>4, <2>5, <2>6
<1>4. BusInv'
  <2>1. CASE pc \notin OnBus
    <3>1. pdev' = NoPdev
      BY <2>1, <1>1 DEF BusInv, WriteEnd
    <3> QED
      BY <1>1, <2>1, <3>1 DEF BusInv
  <2>2. CASE pc \in OnBus
    <3> DEFINE rest(on) == [start |-> memmap_start \ 0 .. 13, log |-> 14, irq |-> 15,
                            msix_enabled |-> on]
    <3>1. pdev = rest(671 \in cfg) /\ pdev # NoPdev
      BY <2>2 DEF BusInv, NoPdev
    <3>2. pdev' = IF Switches(access, 82, 15)
                  THEN [pdev EXCEPT !.msix_enabled = 15 \in access.val] ELSE pdev
      BY <1>1, <3>1 DEF WriteEnd, OFFS_PCI_MSIX_CAP, PCI_MSIX_FLAGS, MsixEnable
    <3>3. 671 \in cfg' <=> IF Switches(access, 82, 15) THEN 15 \in access.val
                                                      ELSE 671 \in cfg
      BY <1>1, SwitchEnds
    <3>4. pdev' = rest(671 \in cfg')
      <4>1. CASE Switches(access, 82, 15)
        <5>1. pdev' = rest(15 \in access.val)
          BY <3>1, <3>2, <4>1
        <5>2. (671 \in cfg') = (15 \in access.val)
          BY <3>3, <4>1
        <5> QED
          BY <5>1, <5>2
      <4>2. CASE ~Switches(access, 82, 15)
        <5>1. (671 \in cfg') = (671 \in cfg)
          BY <3>3, <4>2
        <5> QED
          BY <3>1, <3>2, <4>2, <5>1
      <4> QED
        BY <4>1, <4>2
    <3> QED
      BY <1>1, <2>2, <3>4 DEF BusInv
  <2> QED
    BY <2>1, <2>2
<1> QED
  BY <1>1, <1>2, <1>3, <1>4

LEMMA LineStep ==
  ASSUME ParamInv, CfgInv, LineInv, SwitchInv, [Next]_vars
  PROVE  LineInv'
<1> USE DEF LineInv, BeforeBus, OnBus, Early
<1>1. CASE UNCHANGED <<pc, cfgVars, seen, drv>>
  <2>1. UNCHANGED <<pc, cfg, memmap_start, access, pdev, seen, drv>>
    BY <1>1 DEF cfgVars
  <2>2. Low' = Low /\ High' = High /\ Quiet' = Quiet
    BY <2>1 DEF Low, High, Quiet
  <2>3. SpaceInv'
    BY <2>1, <2>2 DEF SpaceInv, Is, Pending, ConfigRead
  <2>4. SeenInv' /\ BusInv'
    BY <2>1, <2>2 DEF SeenInv, BusInv
  <2> QED
    BY <2>1, <2>3, <2>4
<1>2. CASE LoadStep
  <2>1. /\ pc \in Early /\ pc' \in Early
        /\ UNCHANGED <<memmap_start, pdev, seen, drv>>
    BY <1>2 DEF LoadStep, cfgVars
  <2>2. SeenInv' /\ SpaceInv'
    BY <2>1 DEF SeenInv, SpaceInv
  <2>3. BusInv'
    BY <2>1 DEF BusInv
  <2> QED
    BY <2>1, <2>2, <2>3
<1>3. CASE FillStep /\ UNCHANGED <<seen, drv>>
  <2>1. /\ pc = "pci_init" /\ pc' = "scan" /\ access' = NoAccess /\ pdev' = NoPdev
        /\ cfg' = Settings(param.memmap_start)
        /\ memmap_start' = param.memmap_start /\ UNCHANGED <<seen, drv>>
    BY <1>3 DEF FillStep, FillConfig
  <2>2. memmap_start' \in SUBSET (12 .. 41)
    BY <2>1, ParamStarts
  <2>3. cfg' = Conf(memmap_start', LowBits(memmap_start'), TRUE)
    BY <2>1, <2>2, FirstConf
  <2>4. Is(Low, TRUE)' /\ Quiet'
    BY <2>1, <2>3 DEF Is, Low, Quiet
  <2>5. SeenInv' /\ SpaceInv' /\ BusInv'
    BY <2>1, <2>4 DEF SeenInv, SpaceInv, BusInv
  <2> QED
    BY <2>2, <2>5
<1>4. CASE Scan
  BY <1>4, ScanLine
<1>5. CASE CreatePciBus \/ EnableDevice \/ Probe
  BY <1>5, OnBusLine
<1>6. CASE RunStep
  <2>1. /\ pc = "running" /\ pc' = pc /\ UNCHANGED <<seen, drv>>
        /\ \/ \E w \in Writes : WriteStart(w)
           \/ SignalIrq
           \/ UNCHANGED <<cfg, memmap_start, pdev, access>>
    BY <1>6 DEF RunStep
  <2>2. memmap_start' = memmap_start /\ pdev' = pdev /\ (671 \in cfg' <=> 671 \in cfg)
    BY <2>1 DEF WriteStart, SignalIrq, InterruptStatus, PCI_STATUS
  <2>3. (671 \in cfg') = (671 \in cfg)
    BY <2>2
  <2>4. BusInv'
    BY <2>1, <2>2, <2>3 DEF BusInv
  <2> QED
    BY <2>1, <2>2, <2>4 DEF SeenInv, SpaceInv
<1>7. CASE EndStep /\ UNCHANGED <<seen, drv>>
  BY <1>7, EndLine DEF CfgInv
<1> QED
  BY <1>1, <1>2, <1>3, <1>4, <1>5, <1>6, <1>7, ScanSteps

LEMMA ScanStep == CfgInv /\ ScanInv /\ [Next]_vars => ScanInv'
  BY ParamStep, LineStep, SwitchStep DEF ScanInv

-----------------------------------------------------------------------------
(* Interrupts.                                                             *)

\* The steps, seen from what the interrupts are about.
LEMMA FlagSteps ==
  [Next]_vars =>
    \/ UNCHANGED <<intx_disabled, raised, owed, overlapped>>
    \/ raised' = NoIrq /\ UNCHANGED <<intx_disabled, owed, overlapped>>
    \/ FillStep \/ WriteEnd
    \/ pc = "running" /\ SignalIrq
<1> SUFFICES ASSUME [Next]_vars
             PROVE  \/ UNCHANGED <<intx_disabled, raised, owed, overlapped>>
                    \/ raised' = NoIrq
                       /\ UNCHANGED <<intx_disabled, owed, overlapped>>
                    \/ FillStep \/ WriteEnd
                    \/ pc = "running" /\ SignalIrq
  OBVIOUS
<1> USE DEF cfgVars, Step, Writing, WriteStart
<1>1. CASE UNCHANGED vars
  BY <1>1 DEF vars
<1>2. CASE \E p \in Params : Insmod(p)
  BY <1>2 DEF Insmod
<1>3. CASE Validate \/ Strsep \/ MinorsParsed \/ OpenDisk
  BY <1>3 DEF Validate, Strsep, MinorsParsed, OpenDisk
<1>4. CASE PutBack
  BY <1>4 DEF PutBack
<1>5. CASE PciInit
  BY <1>5 DEF PciInit, FillStep
<1>6. CASE ScanId \/ SizeLo \/ SizeHi
  BY <1>6 DEF ScanId, SizeLo, SizeHi
<1>7. CASE RestoreLo
  BY <1>7 DEF RestoreLo
<1>8. CASE RestoreHi \/ DecodeOn
  BY <1>8 DEF RestoreHi, DecodeOn
<1>9. CASE MsixOff
  BY <1>9 DEF MsixOff
<1>10. CASE CreatePciBus \/ EnableDevice \/ Probe
  BY <1>10 DEF CreatePciBus, EnableDevice, Probe
<1>11. CASE \E w \in Writes : LaterWrite(w)
  BY <1>11 DEF LaterWrite
<1>12. CASE DispatcherSignals \/ Interrupt \/ EndWrite
  BY <1>12 DEF DispatcherSignals, Interrupt, EndWrite
<1> QED
  BY <1>1, <1>2, <1>3, <1>4, <1>5, <1>6, <1>7, <1>8, <1>9, <1>10, <1>11, <1>12
     DEF Next, Scan

LEMMA IrqStep ==
  ASSUME ScanInv, [Next]_vars, pc = "running", raised' \notin {NoIrq, raised}
  PROVE  raised' = IF MsixEnable \in ConfigRead(82, 2) THEN Msi ELSE drv.irq
<1>1. SignalIrq
  BY FlagSteps DEF FillStep, WriteEnd
<1>2. pdev.irq = 15 /\ drv.irq = 15 /\ (pdev.msix_enabled <=> 671 \in cfg)
  <2>1. /\ pdev = [start |-> memmap_start \ 0 .. 13, log |-> 14, irq |-> 15,
                   msix_enabled |-> (671 \in cfg)]
        /\ drv = [irq |-> 15, mem_sta |-> memmap_start \ 0 .. 13]
    BY DEF ScanInv, LineInv, BusInv, OnBus
  <2>2. pdev.irq = 15 /\ drv.irq = 15
    BY <2>1
  <2>3. pdev.msix_enabled = (671 \in cfg)
    BY <2>1, Zenon
  <2> QED
    BY <2>2, <2>3
<1>3. MsixEnable \in ConfigRead(82, 2) <=> 671 \in cfg
  BY DEF MsixEnable, ConfigRead
<1>4. raised' = IF pdev.msix_enabled THEN Msi ELSE pdev.irq
  BY <1>1 DEF SignalIrq
<1> QED
  BY <1>2, <1>3, <1>4

\* An interrupt takes the way the register of MSI-X says at that moment, over
\* the line that request_irq was given, whatever the kernel writes meanwhile
\* and however its writes overlap with the dispatcher (pci.c:53, 274, 370).
THEOREM IrqWay == Spec => IrqFollowsRegister
<1>1. CfgInv /\ ScanInv /\ [Next]_vars =>
        [pc = "running" /\ raised' \notin {NoIrq, raised} =>
           raised' = IF MsixEnable \in ConfigRead(82, 2) THEN Msi
                     ELSE drv.irq]_vars
  BY IrqStep
<1> QED
  BY <1>1, CfgInit, CfgStep, ScanInit, ScanStep, PTL DEF Spec, IrqFollowsRegister

-----------------------------------------------------------------------------
(* Places in memory. What __validate_configs has accepted is what the      *)
(* parameters still are, and what PCIEV_PCI_INIT has put in the BAR.       *)

PlaceInv ==
  /\ pc \notin {"unloaded", "validate"} =>
       ~MappedAny("ram") /\ param.memmap_size > MB1
  /\ pc \notin Early => memmap_start = param.memmap_start

LEMMA PlaceInit == Init => PlaceInv
  BY DEF Init, PlaceInv, Early

LEMMA PlaceStep == PlaceInv /\ [Next]_vars => PlaceInv'
<1> SUFFICES ASSUME PlaceInv, [Next]_vars PROVE PlaceInv'
  OBVIOUS
<1>1. CASE \E p \in Params : Insmod(p)
  BY <1>1 DEF Insmod, PlaceInv, Early
<1>2. CASE Validate
  <2>1. /\ pc' \in {"strsep", "unloaded"} /\ param' = param
        /\ pc' = "strsep" => ~MappedAny("ram") /\ param.memmap_size > MB1
    BY <1>2 DEF Validate, ReservedOnly
  <2>2. MappedAny("ram")' <=> MappedAny("ram")
    BY <2>1 DEF MappedAny
  <2> QED
    BY <2>1, <2>2 DEF PlaceInv, Early
<1>3. ASSUME param' = param,
             \/ pc' = "unloaded"
             \/ pc \notin {"unloaded", "validate"} \/ pc' = pc,
             \/ pc' \in Early
             \/ pc \notin Early /\ memmap_start' = memmap_start
             \/ memmap_start' = param.memmap_start
      PROVE  PlaceInv'
  <2>1. MappedAny("ram")' <=> MappedAny("ram")
    BY <1>3 DEF MappedAny
  <2> QED
    BY <1>3, <2>1 DEF PlaceInv, Early
<1> USE DEF Step, Writing, WriteStart, cfgVars, Early
<1>4. CASE Strsep \/ MinorsParsed
  BY <1>3, <1>4 DEF Strsep, MinorsParsed
<1>5. CASE OpenDisk \/ PutBack
  BY <1>3, <1>5 DEF OpenDisk, PutBack
<1>6. CASE PciInit
  BY <1>3, <1>6 DEF PciInit, FillConfig
<1>7. CASE ScanId \/ SizeLo \/ SizeHi
  BY <1>3, <1>7 DEF ScanId, SizeLo, SizeHi
<1>8. CASE RestoreLo \/ RestoreHi \/ DecodeOn
  BY <1>3, <1>8 DEF RestoreLo, RestoreHi, DecodeOn
<1>9. CASE MsixOff
  BY <1>3, <1>9 DEF MsixOff
<1>10. CASE CreatePciBus \/ EnableDevice \/ Probe
  BY <1>3, <1>10 DEF CreatePciBus, EnableDevice, Probe
<1>11. CASE \E w \in Writes : LaterWrite(w)
  BY <1>3, <1>11 DEF LaterWrite, setupVars
<1>12. CASE DispatcherSignals \/ Interrupt \/ EndWrite
  <2>1. pc' = pc /\ param' = param /\ memmap_start' = memmap_start
    BY <1>12 DEF DispatcherSignals, Interrupt, EndWrite, SignalIrq, WriteEnd,
                 setupVars
  <2> QED
    BY <2>1, <1>3 DEF PlaceInv
<1>13. CASE UNCHANGED vars
  BY <1>13, <1>3 DEF vars, setupVars
<1> QED
  BY <1>1, <1>2, <1>4, <1>5, <1>6, <1>7, <1>8, <1>9, <1>10, <1>11, <1>12, <1>13
     DEF Next, Scan

LEMMA PageIs == ASSUME NEW base \in SUBSET (12 .. 41) PROVE Page(base) \in Int
<1>1. 12 \in Nat /\ 41 \in Nat
  OBVIOUS
<1>2. Summable(base, 12)
  BY <1>1, BitsSummable
<1> QED
  BY <1>2, NumberSplit DEF Page

\* With memmap_start a multiple of 16 KiB and room for three pages above the
\* first MiB, wherever the reserved memory is and whatever the kernel writes:
\* the driver's chunks are the device's, and no page of theirs or of the BAR is
\* outside of that memory or in RAM (main.c:63-161, device.c:31-41,
\* pciedrv.c:239).
THEOREM Reserved == Spec => []InsideReserved
<1>1. ScanInv /\ PlaceInv => InsideReserved
  <2> SUFFICES ASSUME ScanInv, PlaceInv, pc = "running",
                      memmap_start \cap {12, 13} = {},
                      param.memmap_size >= MB1 + 3
               PROVE  /\ drv.mem_sta = pdev.start
                      /\ Chunks[1] = Storage[1] /\ Chunks[2] <= Storage[2]
                      /\ \A m \in {Chunks, Storage, BarPages} :
                           /\ Page(memmap_start) <= m[1]
                           /\ m[2] < Page(memmap_start) + param.memmap_size
                           /\ \A r \in Regions : r.type = "ram" =>
                                m[2] < r.sta \/ r.end <= m[1]
    BY DEF InsideReserved
  <2>1. memmap_start \in SUBSET (12 .. 41) /\ param \in Param
    BY ParamStarts DEF ScanInv, LineInv
  <2>2. memmap_start \ 0 .. 13 = memmap_start
    <3>1. \A b \in memmap_start : b \in 12 .. 41 /\ b # 12 /\ b # 13
      BY <2>1
    <3>2. \A b \in memmap_start : b \notin 0 .. 13
      BY <3>1
    <3> QED
      BY <3>2, Zenon
  <2>3. pdev.start = memmap_start /\ drv.mem_sta = memmap_start
    <3>1. /\ pdev.start = memmap_start \ 0 .. 13
          /\ drv.mem_sta = memmap_start \ 0 .. 13
      BY DEF ScanInv, LineInv, BusInv, OnBus
    <3> QED
      BY <2>2, <3>1
  <2> DEFINE p == Page(memmap_start)
             n == param.memmap_size
  <2>4. p \in Int /\ n \in Nat /\ n >= 259
    BY <2>1, PageIs DEF Param, MB1
  <2>5. /\ Chunks = <<p + 256, p + 258>> /\ Storage = <<p + 256, p + n - 1>>
        /\ BarPages = <<p, p + 2>>
    <3>1. p + 256 + 2 = p + 258
      BY <2>4
    <3> QED
      BY <2>3, <3>1 DEF Chunks, Storage, BarPages, MB1
  <2>6. ASSUME NEW r \in Regions, r.type = "ram"
        PROVE  /\ r.sta \in Nat /\ r.end \in Nat
               /\ p + n <= r.sta \/ r.end <= p
    <3>1. r.sta \in Nat /\ r.end \in Nat
      BY SetupAssumption DEF Region
    <3>2. ~(r.sta < p + n /\ r.end > p)
      <4>1. ~MappedAny("ram") /\ memmap_start = param.memmap_start
        BY DEF PlaceInv, Early
      <4> QED
        BY <2>6, <4>1, Zenon DEF MappedAny
    <3> QED
      BY <2>4, <3>1, <3>2
  <2> HIDE DEF p, n
  <2>7. ASSUME NEW m \in {Chunks, Storage, BarPages}
        PROVE  m[1] \in Int /\ m[2] \in Int /\ p <= m[1] /\ m[2] < p + n
    BY <2>4, <2>5
  <2>8. \A m \in {Chunks, Storage, BarPages} : \A r \in Regions :
          r.type = "ram" => m[2] < r.sta \/ r.end <= m[1]
    BY <2>4, <2>6, <2>7
  <2>9. Chunks[1] = Storage[1] /\ Chunks[2] <= Storage[2]
    BY <2>4, <2>5
  <2> QED
    BY <2>3, <2>7, <2>8, <2>9 DEF p, n
<1> QED
  BY <1>1, CfgInit, CfgStep, ScanInit, ScanStep, PlaceInit, PlaceStep, PTL DEF Spec

-----------------------------------------------------------------------------
(* Bits that no write of the running system may change stay what they were *)
(* when the scan was over.                                                 *)

Spares(K) ==
  \A w \in Writes : \A b \in 0 .. 8 * w.size - 1 :
    8 * w.where + b \in K => b \notin Mask(w.where)

KeptInv(K) ==
  pc \in OnBus =>
    /\ \A f \in K : f \in cfg <=> f \in Conf(memmap_start, Low, FALSE)
    /\ access # NoAccess =>
         \A b \in Span(access) : 8 * access.where + b \in K =>
           /\ b \notin Mask(access.where)
           /\ b \in access.old <=> 8 * access.where + b \in cfg

LEMMA RunningSteps ==
  ASSUME [Next]_vars, pc' = "running"
  PROVE  UNCHANGED <<pc, cfgVars>> \/ Probe \/ RunStep \/ EndStep
<1>1. ~LoadStep /\ ~FillStep
  BY DEF LoadStep, FillStep, Early
<1>2. ~CreatePciBus /\ ~EnableDevice
  BY DEF CreatePciBus, EnableDevice, Step
<1>3. ~ScanId /\ ~SizeLo /\ ~SizeHi
  BY DEF ScanId, SizeLo, SizeHi, Writing, Step
<1>4. ~RestoreLo /\ ~RestoreHi /\ ~DecodeOn
  BY DEF RestoreLo, RestoreHi, DecodeOn, Writing, Step
<1>5. ~MsixOff
  BY DEF MsixOff, Writing, Step
<1> QED
  BY <1>1, <1>2, <1>3, <1>4, <1>5, ScanSteps DEF Scan

LEMMA KeptStep ==
  ASSUME NEW K \in SUBSET Nat, 51 \notin K, Spares(K)
  PROVE  CfgInv /\ ScanInv /\ KeptInv(K) /\ [Next]_vars => KeptInv(K)'
<1> SUFFICES ASSUME CfgInv, ScanInv, KeptInv(K), [Next]_vars PROVE KeptInv(K)'
  OBVIOUS
<1>1. ScanInv'
  BY ScanStep
<1>2. CASE pc' \notin OnBus
  BY <1>2 DEF KeptInv
<1>3. CASE pc' \in {"enable", "probe"}
  <2>1. Is(Low, FALSE)' /\ Quiet'
    BY <1>1, <1>3 DEF ScanInv, LineInv, SpaceInv
  <2> QED
    BY <2>1 DEF KeptInv, Is, Quiet
<1>4. CASE pc' = "running"
  <2>1. CASE UNCHANGED <<pc, cfgVars>>
    BY <2>1 DEF KeptInv, cfgVars, Low, Span
  <2>2. CASE Probe
    <3>1. pc = "probe" /\ UNCHANGED <<cfg, memmap_start, access>>
      BY <2>2 DEF Probe, Step, cfgVars
    <3> QED
      BY <3>1 DEF KeptInv, OnBus, Low, Span
  <2>3. CASE RunStep
    <3>1. /\ pc = "running"
          /\ \A f \in K : f \in cfg <=> f \in Conf(memmap_start, Low, FALSE)
      BY <2>3 DEF RunStep, KeptInv, OnBus
    <3>2. ASSUME NEW w \in Writes, WriteStart(w) PROVE KeptInv(K)'
      <4>1. w \in ConfigWrite
        BY SetupAssumption
      <4>2. /\ cfg' = cfg /\ memmap_start' = memmap_start /\ Low' = Low
            /\ access'.where = w.where /\ access'.size = w.size
        BY <3>2 DEF WriteStart, Low
      <4>3. \A b \in Span(access') :
              b \in access'.old <=> 8 * access'.where + b \in cfg
        BY <3>2, <4>1, StartRead
      <4>4. \A b \in Span(access') : 8 * access'.where + b \in K =>
              b \notin Mask(access'.where)
        BY <4>2 DEF Spares, Span
      <4> QED
        BY <3>1, <4>2, <4>3, <4>4 DEF KeptInv, Span, Mask, HeaderMask, MsixMask
    <3>3. CASE SignalIrq
      <4>1. /\ memmap_start' = memmap_start /\ Low' = Low /\ access' = access
            /\ \A f \in K : f \in cfg' <=> f \in cfg
        BY <3>3 DEF SignalIrq, Low, InterruptStatus, PCI_STATUS
      <4> QED
        BY <3>1, <4>1 DEF KeptInv, OnBus, Span
    <3>4. CASE UNCHANGED <<cfg, memmap_start, pdev, access>>
      BY <3>1, <3>4 DEF KeptInv, OnBus, Low, Span
    <3> QED
      BY <2>3, <3>2, <3>3, <3>4 DEF RunStep
  <2>4. CASE EndStep
    <3>1. /\ WriteEnd /\ pc = "running" /\ access # NoAccess /\ AccessInv
          /\ access' = NoAccess /\ memmap_start' = memmap_start /\ Low' = Low
      BY <1>4, <2>4 DEF EndStep, WriteEnd, Low, CfgInv
    <3>2. ASSUME NEW f \in K PROVE f \in cfg' <=> f \in cfg
      <4> DEFINE b == f - 8 * access.where
      <4>1. f \in Nat /\ access.where \in Nat /\ f # 51
        BY <3>1 DEF AccessInv
      <4>2. IF b \in Span(access)
            THEN f \in cfg' <=> IF b \in Mask(access.where) THEN b \in access.val
                                                            ELSE b \in access.old
            ELSE f \in cfg' <=> f \in cfg \ ClearsStatus(access)
        BY <3>1, <4>1, EndBits
      <4>3. 8 * access.where + b = f
        BY <4>1
      <4>4. f \notin ClearsStatus(access)
        BY <4>1 DEF ClearsStatus, InterruptStatus, PCI_STATUS
      <4> HIDE DEF b
      <4>5. b \in Span(access) => /\ b \notin Mask(access.where)
                                  /\ b \in access.old <=> f \in cfg
        BY <3>1, <4>3 DEF KeptInv, OnBus
      <4> QED
        BY <4>2, <4>4, <4>5
    <3> QED
      BY <3>1, <3>2 DEF KeptInv, OnBus
  <2> QED
    BY <1>4, <2>1, <2>2, <2>3, <2>4, RunningSteps
<1> QED
  BY <1>2, <1>3, <1>4 DEF OnBus, KeptInv

LEMMA KeptInit == ASSUME NEW K PROVE Init => KeptInv(K)
  BY DEF Init, KeptInv, OnBus

\* The address in the BAR, and the heads of the capabilities.
AddressBits == 142 .. 159
Headers     == CapHeads \cup ExtHeads

LEMMA WritesTyped ==
  ASSUME NEW w \in Writes
  PROVE  /\ w.where \in Nat
         /\ \/ w.size = 1
            \/ w.size = 2 /\ w.where % 2 = 0
            \/ w.size = 4 /\ w.where % 4 = 0
<1>1. w \in ConfigWrite
  BY SetupAssumption
<1>2. w.where \in Nat /\ w.size \in {1, 2, 4} /\ w.where % w.size = 0
  BY <1>1 DEF ConfigWrite
<1> QED
  BY <1>2

LEMMA AddressSpared == BarSpared => Spares(AddressBits)
<1> SUFFICES ASSUME BarSpared, NEW w \in Writes, NEW b \in 0 .. 8 * w.size - 1,
                    8 * w.where + b \in AddressBits
             PROVE  b \notin Mask(w.where)
  BY DEF Spares
<1>1. /\ w.where \in Nat
      /\ \/ w.size = 1
         \/ w.size = 2 /\ w.where % 2 = 0
         \/ w.size = 4 /\ w.where % 4 = 0
  BY WritesTyped
<1>2. w.where # 16
  <2>1. w.where = 16 => w.size = 1
    BY DEF BarSpared, PCI_BASE_ADDRESS_0
  <2> QED
    BY <1>1, <2>1 DEF AddressBits
<1>3. w.where \in {17, 18, 19}
  BY <1>1, <1>2 DEF AddressBits
<1>4. Mask(17) = {} /\ Mask(18) = {} /\ Mask(19) = {}
  BY DEF Mask, HeaderMask, OFFS_PCI_PM_CAP, PCI_COMMAND, PCI_STATUS, PCI_BIST,
         PCI_BASE_ADDRESS_0, PCI_INTERRUPT_LINE
<1> QED
  BY <1>3, <1>4

LEMMA HeadersSpared == HeadsSpared => Spares(Headers)
<1> SUFFICES ASSUME HeadsSpared, NEW w \in Writes, NEW b \in 0 .. 8 * w.size - 1,
                    8 * w.where + b \in Headers
             PROVE  b \notin Mask(w.where)
  BY DEF Spares
<1>1. /\ w.where \in Nat
      /\ \/ w.size = 1
         \/ w.size = 2 /\ w.where % 2 = 0
         \/ w.size = 4 /\ w.where % 4 = 0
  BY WritesTyped
<1>2. PICK o \in 0 .. w.size - 1 : 8 * o <= b /\ b < 8 * o + 8
  BY <1>1
<1> DEFINE f == 8 * w.where + b
           byte == w.where + o
<1>3. byte \in Nat /\ f \in Nat /\ 8 * byte <= f /\ f < 8 * byte + 8
  BY <1>1, <1>2
<1>4. byte \notin Heads
  BY <1>2 DEF HeadsSpared
<1> HIDE DEF byte
<1>5. byte \notin {64, 65, 96, 97}
  BY <1>4 DEF Heads, OFFS_PCI_PM_CAP, OFFS_PCIE_CAP
<1>6. \A k \in 1 .. 6 : \A e \in 0 .. 3 : byte # 256 + ExtCaps[k].at + e
  <2>1. \A k \in 1 .. 6 : \A e \in 0 .. 3 : 256 + ExtCaps[k].at + e \in Heads
    BY DEF Heads, OFFS_PCI_EXT_CAP
  <2> QED
    BY <1>4, <2>1
<1>7. /\ ExtCaps[1].at = 0 /\ ExtCaps[2].at = 80 /\ ExtCaps[3].at = 128
      /\ ExtCaps[4].at = 144 /\ ExtCaps[5].at = 368 /\ ExtCaps[6].at = 416
  BY DEF ExtCaps
<1>8. /\ byte \notin 256 .. 259 /\ byte \notin 336 .. 339
      /\ byte \notin 384 .. 387 /\ byte \notin 400 .. 403
      /\ byte \notin 624 .. 627 /\ byte \notin 672 .. 675
  <2>1. \A e \in 0 .. 3 :
          /\ byte # 256 + 0 + e /\ byte # 256 + 80 + e /\ byte # 256 + 128 + e
          /\ byte # 256 + 144 + e /\ byte # 256 + 368 + e /\ byte # 256 + 416 + e
    BY <1>6, <1>7
  <2> QED
    BY <1>3, <2>1
<1>9. f \in 416 .. 423 \/ f \in 640 .. 655
  <2>1. f \in Headers
    OBVIOUS
  <2> HIDE DEF f
  <2> QED
    BY <1>3, <1>5, <1>8, <2>1 DEF Headers, CapHeads, ExtHeads
<1>10. w.where \in {52, 80, 81}
  BY <1>1, <1>9
<1>11. Mask(52) = {} /\ Mask(80) = {} /\ Mask(81) = {}
  BY DEF Mask, HeaderMask, MsixMask, OFFS_PCI_PM_CAP, OFFS_PCI_MSIX_CAP,
         OFFS_PCIE_CAP, PCI_MSIX_FLAGS, PCI_COMMAND, PCI_STATUS, PCI_BIST,
         PCI_BASE_ADDRESS_0, PCI_INTERRUPT_LINE
<1> QED
  BY <1>10, <1>11

LEMMA AddressKept ==
  ASSUME CfgInv, ScanInv, KeptInv(AddressBits), pc \in OnBus
  PROVE  /\ \A b \in 0 .. 31 : 128 + b \in cfg <=> b = 2 \/ b \in Low
         /\ \A b \in 0 .. 31 : 160 + b \in cfg <=> b + 32 \in memmap_start
<1>1. memmap_start \in SUBSET (12 .. 41) /\ Low \in SUBSET (14 .. 31)
  BY BitsTyped DEF ScanInv, LineInv, Low
<1>2. PICK on \in BOOLEAN : on = TRUE
  OBVIOUS
<1>3. PICK off \in BOOLEAN : off = FALSE
  OBVIOUS
<1>4. \A f \in FixedBits : f \in cfg <=> f \in Conf(memmap_start, Low, on)
  <2>1. cfg \cap FixedBits = Settings(memmap_start) \cap FixedBits
    BY DEF CfgInv, Early, OnBus
  <2>2. Settings(memmap_start) = Conf(memmap_start, Low, on)
    BY <1>1, <1>2, FirstConf DEF Low
  <2> QED
    BY <2>1, <2>2
<1>5. \A f \in Nat : f \in 128 .. 141 \/ f \in 160 .. 191 => f \in FixedBits
  BY DEF FixedBits, OFFS_PCI_PM_CAP, OFFS_PCI_MSIX_CAP, OFFS_PCIE_CAP
<1>6. \A f \in 142 .. 159 : f \in cfg <=> f \in Conf(memmap_start, Low, off)
  BY <1>3 DEF KeptInv, AddressBits
<1>7. ASSUME NEW f \in Nat, NEW o \in BOOLEAN
      PROVE  /\ f \in 142 .. 159 => (f \in Conf(memmap_start, Low, o) <=> f - 128 \in Low)
             /\ f \in 160 .. 191 => (f \in Conf(memmap_start, Low, o)
                                       <=> f - 128 \in memmap_start)
             /\ f \notin 142 .. 191 \cup {671} =>
                  (f \in Conf(memmap_start, Low, o) <=> f = 130 \/ f \in SetBits)
  BY <1>1, ConfBits
<1>8. ASSUME NEW b \in 0 .. 31 PROVE 128 + b \in cfg <=> b = 2 \/ b \in Low
  <2>1. CASE b < 14
    <3>1. 128 + b \in Nat /\ 128 + b \in 128 .. 141
      BY <2>1
    <3>2. 128 + b \in cfg <=> 128 + b \in Conf(memmap_start, Low, on)
      BY <1>4, <1>5, <3>1
    <3>3. 128 + b \notin SetBits /\ 128 + b \notin 142 .. 191 \cup {671}
          /\ b \notin Low
      BY <1>1, <2>1, SetPlaces
    <3>4. 128 + b \in Conf(memmap_start, Low, on) <=> 128 + b = 130
      BY <1>7, <3>1, <3>3
    <3> QED
      BY <3>2, <3>3, <3>4
  <2>2. CASE b >= 14
    <3>1. 128 + b \in Nat /\ 128 + b \in 142 .. 159 /\ 128 + b - 128 = b /\ b # 2
      BY <2>2
    <3>2. 128 + b \in cfg <=> 128 + b \in Conf(memmap_start, Low, off)
      BY <1>6, <3>1
    <3> QED
      BY <1>7, <3>1, <3>2
  <2> QED
    BY <2>1, <2>2
<1>9. ASSUME NEW b \in 0 .. 31 PROVE 160 + b \in cfg <=> b + 32 \in memmap_start
  <2>1. 160 + b \in Nat /\ 160 + b \in 160 .. 191 /\ 160 + b - 128 = b + 32
    OBVIOUS
  <2>2. 160 + b \in cfg <=> 160 + b \in Conf(memmap_start, Low, on)
    BY <1>4, <1>5, <2>1
  <2> QED
    BY <1>7, <2>1, <2>2
<1> QED
  BY <1>8, <1>9

LEMMA HeadersKept ==
  ASSUME ScanInv, KeptInv(Headers), pc \in OnBus
  PROVE  HeadsKept
<1>1. memmap_start \in SUBSET (12 .. 41) /\ Low \in SUBSET (14 .. 31)
  BY BitsTyped DEF ScanInv, LineInv, Low
<1>2. PICK off \in BOOLEAN : off = FALSE
  OBVIOUS
<1>3. \A f \in Headers : f \in cfg <=> f \in Conf(memmap_start, Low, off)
  BY <1>2 DEF KeptInv
<1>4. \A f \in Headers : f \in Nat /\ f # 130 /\ f \notin 142 .. 191 \cup {671}
  BY DEF Headers, CapHeads, ExtHeads
<1>5. \A f \in Headers : f \in Conf(memmap_start, Low, off) <=> f \in SetBits
  BY <1>1, <1>4, ConfBits
<1> QED
  BY <1>3, <1>5 DEF HeadsKept, Headers

LEMMA KeptPlaces ==
  /\ AddressBits \in SUBSET Nat /\ 51 \notin AddressBits
  /\ Headers \in SUBSET Nat /\ 51 \notin Headers
  BY DEF AddressBits, Headers, CapHeads, ExtHeads

LEMMA BarHolds ==
  ASSUME CfgInv, ScanInv, KeptInv(AddressBits)
  PROVE  BarFound
<1> SUFFICES ASSUME pdev # NoPdev PROVE
      /\ pdev.start = memmap_start \ 0 .. 13 /\ pdev.log = 14
      /\ access = NoAccess =>
           /\ ConfigRead(PCI_BASE_ADDRESS_0, 4) \ {2} = pdev.start \cap Word
           /\ ConfigRead(PCI_BASE_ADDRESS_1, 4)
                = {b - 32 : b \in pdev.start \ Word}
  BY DEF BarFound
<1>1. pc \in OnBus
  BY DEF ScanInv, LineInv, BusInv
<1>2. pdev.start = memmap_start \ 0 .. 13 /\ pdev.log = 14
  BY <1>1 DEF ScanInv, LineInv, BusInv
<1>3. \A b \in memmap_start : b \in 12 .. 41
  BY DEF ScanInv, LineInv
<1>4. \A b : b \in Low <=> b \in memmap_start /\ b \in 14 .. 31
  BY DEF Low, LowBits
<1>5. ConfigRead(PCI_BASE_ADDRESS_0, 4) \ {2} = pdev.start \cap Word
  <2>1. \A b : b \in ConfigRead(16, 4) <=> b \in 0 .. 31 /\ 128 + b \in cfg
    BY DEF ConfigRead
  <2>2. \A b : b \in ConfigRead(16, 4) <=> b = 2 \/ b \in Low
    BY <1>1, <1>3, <1>4, <2>1, AddressKept
  <2>3. \A b : b \in ConfigRead(16, 4) \ {2} <=> b \in pdev.start \cap Word
    BY <1>2, <1>3, <1>4, <2>2 DEF Word
  <2> QED
    BY <2>3, Zenon DEF PCI_BASE_ADDRESS_0
<1>6. ConfigRead(PCI_BASE_ADDRESS_1, 4) = {b - 32 : b \in pdev.start \ Word}
  <2>1. \A b : b \in ConfigRead(20, 4) <=> b \in 0 .. 31 /\ 160 + b \in cfg
    BY DEF ConfigRead
  <2>2. \A b : b \in ConfigRead(20, 4) <=> b \in 0 .. 31 /\ b + 32 \in memmap_start
    BY <1>1, <2>1, AddressKept
  <2>3. ASSUME NEW x PROVE x \in {b - 32 : b \in pdev.start \ Word} <=>
                             x \in 0 .. 31 /\ x + 32 \in memmap_start
    <3>1. \A b \in pdev.start \ Word : b \in memmap_start /\ b \in 32 .. 41
                                       /\ b - 32 \in 0 .. 31 /\ (b - 32) + 32 = b
      BY <1>2, <1>3 DEF Word
    <3>2. x \in 0 .. 31 /\ x + 32 \in memmap_start =>
            x + 32 \in pdev.start \ Word /\ x = (x + 32) - 32
      BY <1>2 DEF Word
    <3>3. x \in {b - 32 : b \in pdev.start \ Word} <=>
            \E b \in pdev.start \ Word : x = b - 32
      BY Zenon
    <3> QED
      BY <3>1, <3>2, <3>3
  <2> QED
    BY <2>2, <2>3, Zenon DEF PCI_BASE_ADDRESS_1
<1> QED
  BY <1>2, <1>5, <1>6

LEMMA CapabilitiesHold ==
  ASSUME ScanInv, KeptInv(Headers)
  PROVE  CapabilitiesFound
<1> SUFFICES ASSUME pdev # NoPdev PROVE
      /\ FindCap(1) = OFFS_PCI_PM_CAP /\ FindCap(17) = OFFS_PCI_MSIX_CAP
      /\ FindCap(16) = OFFS_PCIE_CAP
      /\ \A k \in 1 .. 6 :
           FindExtCap(ExtCaps[k].id) = OFFS_PCI_EXT_CAP + ExtCaps[k].at
      /\ FindCap(0) = 0 /\ FindExtCap(0) = 0
  BY DEF CapabilitiesFound
<1>1. pc \in OnBus
  BY DEF ScanInv, LineInv, BusInv
<1>2. HeadsKept
  BY <1>1, HeadersKept
<1> QED
  BY <1>2, FindsCap, FindsExtCap DEF OFFS_PCI_PM_CAP, OFFS_PCI_MSIX_CAP,
                                     OFFS_PCIE_CAP

\* The scan sizes the BAR right, for every memmap_start, and leaves it where it
\* was; and there it stays as long as the kernel does not move it, whatever
\* else it writes (pci.c:262, 457-460).
THEOREM Bar == ASSUME BarSpared PROVE Spec => []BarFound
<1>1. CfgInv /\ ScanInv /\ KeptInv(AddressBits) => BarFound
  BY BarHolds
<1>2. CfgInv /\ ScanInv /\ KeptInv(AddressBits) /\ [Next]_vars =>
        KeptInv(AddressBits)'
  BY KeptPlaces, AddressSpared, KeptStep
<1>3. Init => KeptInv(AddressBits)
  BY KeptInit
<1> QED
  BY <1>1, <1>2, <1>3, CfgInit, CfgStep, ScanInit, ScanStep, PTL DEF Spec

\* The walks of both lists of capabilities find what PCIEV_PCI_INIT has put
\* there and come to an end, for as long as the kernel writes beside the heads
\* of the capabilities. Only those of the header and of MSI-X are protected by
\* the module itself (pci.c:471-545).
THEOREM Capabilities == ASSUME HeadsSpared PROVE Spec => []CapabilitiesFound
<1>1. ScanInv /\ KeptInv(Headers) => CapabilitiesFound
  BY CapabilitiesHold
<1>2. CfgInv /\ ScanInv /\ KeptInv(Headers) /\ [Next]_vars => KeptInv(Headers)'
  BY KeptPlaces, HeadersSpared, KeptStep
<1>3. Init => KeptInv(Headers)
  BY KeptInit
<1> QED
  BY <1>1, <1>2, <1>3, CfgInit, CfgStep, ScanInit, ScanStep, PTL DEF Spec

-----------------------------------------------------------------------------
(* Types.                                                                  *)

AccessType == [where : 0 .. ConfigSize - 1, size : {1, 2, 4},
               val : SUBSET Word, old : SUBSET Word]

StoreInv ==
  /\ \A f \in cfg : f \in Nat /\ f < 8 * ConfigSize
  /\ access # NoAccess => /\ access \in AccessType
                          /\ access.where + access.size <= ConfigSize

FlagInv ==
  /\ intx_disabled \in BOOLEAN /\ owed \in BOOLEAN /\ overlapped \in BOOLEAN
  /\ raised \in {Msi} \cup 0 .. 255

CountInv ==
  /\ tokens \in Nat /\ first \in BOOLEAN
  /\ nr \in 0 .. 32 /\ i \in -1 .. 32

LEMMA StoreStep ==
  CfgInv /\ ParamInv /\ StoreInv /\ [Next]_vars => StoreInv'
<1> SUFFICES ASSUME CfgInv, ParamInv, StoreInv, [Next]_vars PROVE StoreInv'
  OBVIOUS
<1>a. ConfigSize = 4096
  BY DEF ConfigSize
<1>1. CASE NoCfgStep
  BY <1>1 DEF NoCfgStep, StoreInv, cfgVars
<1>2. CASE FillStep
  <2>1. /\ access' = NoAccess /\ cfg' = Settings(param.memmap_start)
        /\ param.memmap_start \in SUBSET (12 .. 41)
    BY <1>2, ParamStarts DEF FillStep, FillConfig
  <2> DEFINE base == param.memmap_start
  <2>2. PICK on \in BOOLEAN : on = TRUE
    OBVIOUS
  <2>3. cfg' = Conf(base, LowBits(base), on) /\ LowBits(base) \in SUBSET (14 .. 31)
    BY <2>1, <2>2, FirstConf, BitsTyped
  <2>4. \A f \in cfg' : f \in Nat /\ f < 6000
    BY <2>1, <2>3, ConfRange
  <2> QED
    BY <1>a, <2>1, <2>4 DEF StoreInv
<1>3. CASE LateStep
  <2>1. ASSUME NEW w \in ConfigWrite, WriteStart(w) PROVE StoreInv'
    <3>1. /\ w.where \in 0 .. ConfigSize - 1 /\ w.size \in {1, 2, 4}
          /\ w.val \in SUBSET Word /\ w.where % w.size = 0
      BY DEF ConfigWrite
    <3>2. /\ cfg' = cfg
          /\ access' = [where |-> w.where, size |-> w.size, val |-> w.val,
                        old |-> ConfigRead(w.where, w.size)]
      BY <2>1 DEF WriteStart
    <3>3. ConfigRead(w.where, w.size) \in SUBSET Word
      BY <3>1 DEF ConfigRead, Word
    <3>4. access' \in AccessType
      BY <3>1, <3>2, <3>3 DEF AccessType
    <3>5. w.where + w.size <= ConfigSize
      <4>1. \/ w.size = 1
            \/ w.size = 2 /\ w.where % 2 = 0
            \/ w.size = 4 /\ w.where % 4 = 0
        BY <3>1
      <4>2. w.where \in Int /\ w.where <= ConfigSize - 1
        <5>1. ConfigSize \in Int
          BY DEF ConfigSize
        <5> QED
          BY <3>1, <5>1
      <4> QED
        BY <1>a, <4>1, <4>2
    <3> QED
      BY <3>2, <3>4, <3>5 DEF StoreInv
  <2>2. CASE SignalIrq
    <3>1. access' = access /\ \A f \in cfg' : f \in cfg \/ f = 51
      BY <2>2 DEF SignalIrq, InterruptStatus, PCI_STATUS
    <3> QED
      BY <1>a, <3>1 DEF StoreInv
  <2>3. CASE UNCHANGED <<cfg, memmap_start, access, owed, overlapped>>
    BY <2>3 DEF StoreInv
  <2> QED
    BY <1>3, <2>1, <2>2, <2>3 DEF LateStep
<1>4. CASE EndStep
  <2>1. /\ WriteEnd /\ access # NoAccess /\ access' = NoAccess
        /\ access.where \in Nat /\ access.size \in {1, 2, 4}
        /\ access.where + access.size <= ConfigSize
        /\ access.old \subseteq Span(access) /\ access.val \subseteq Span(access)
    BY <1>4 DEF EndStep, WriteEnd, CfgInv, AccessInv, StoreInv
  <2>2. \A f \in cfg' : f \in cfg \/ \E b \in Span(access) : f = 8 * access.where + b
    <3>1. Merged(access) \subseteq Span(access)
      BY <2>1 DEF Merged
    <3>2. \A f \in cfg' : f \in cfg \/ f \in At(access.where, Merged(access))
      BY <2>1, Zenon DEF WriteEnd
    <3> QED
      BY <3>1, <3>2 DEF At
  <2>3. \A b \in Span(access) : /\ 8 * access.where + b \in Nat
                                /\ 8 * access.where + b < 8 * ConfigSize
    BY <1>a, <2>1 DEF Span
  <2> QED
    BY <2>1, <2>2, <2>3 DEF StoreInv
<1> QED
  BY <1>1, <1>2, <1>3, <1>4, CfgSteps

LEMMA FlagStep == ScanInv /\ FlagInv /\ [Next]_vars => FlagInv'
<1> SUFFICES ASSUME ScanInv, FlagInv, [Next]_vars PROVE FlagInv'
  OBVIOUS
<1>1. CASE UNCHANGED <<intx_disabled, raised, owed, overlapped>>
  BY <1>1 DEF FlagInv
<1>2. CASE raised' = NoIrq /\ UNCHANGED <<intx_disabled, owed, overlapped>>
  BY <1>2 DEF FlagInv, NoIrq
<1>3. CASE FillStep
  <2>1. /\ intx_disabled' = FALSE /\ owed' = FALSE /\ overlapped' = FALSE
        /\ raised' = 0
    BY <1>3, Zenon DEF FillStep, FillConfig, NoIrq
  <2>2. /\ intx_disabled' \in BOOLEAN /\ owed' \in BOOLEAN
        /\ overlapped' \in BOOLEAN
    BY <2>1, Zenon
  <2> QED
    BY <2>1, <2>2 DEF FlagInv
<1>4. CASE WriteEnd
  <2>1. /\ intx_disabled' = IF Switches(access, PCI_COMMAND, IntxDisable)
                            THEN IntxDisable \in access.val ELSE intx_disabled
        /\ owed' = (owed /\ ~EnablesIntx(access)) /\ raised' = raised
        /\ overlapped' = (overlapped \/ (EnablesIntx(access) /\ CoversStatus(access)))
    BY <1>4 DEF WriteEnd
  <2>2. owed' \in BOOLEAN /\ overlapped' \in BOOLEAN
    BY <2>1
  <2>3. intx_disabled' \in BOOLEAN
    <3>1. intx_disabled = TRUE \/ intx_disabled = FALSE
      BY DEF FlagInv
    <3>2. intx_disabled' = TRUE \/ intx_disabled' = FALSE
      BY <2>1, <3>1
    <3> QED
      BY <3>2, Zenon
  <2> QED
    BY <2>1, <2>2, <2>3 DEF FlagInv
<1>5. CASE pc = "running" /\ SignalIrq
  <2>1. pdev.irq = 15
    BY <1>5 DEF ScanInv, LineInv, BusInv, OnBus
  <2>2. raised' \in {Msi, pdev.irq} /\ intx_disabled' = intx_disabled
    BY <1>5 DEF SignalIrq
  <2>3. owed' \in BOOLEAN /\ overlapped' \in BOOLEAN
    BY <1>5 DEF SignalIrq, FlagInv
  <2> QED
    BY <2>1, <2>2, <2>3 DEF FlagInv
<1> QED
  BY <1>1, <1>2, <1>3, <1>4, <1>5, FlagSteps

LEMMA CountStep == DisksInv /\ CountInv /\ [Next]_vars => CountInv'
<1> SUFFICES ASSUME DisksInv, CountInv, [Next]_vars PROVE CountInv'
  OBVIOUS
<1>1. ASSUME NEW p \in Params, Insmod(p) PROVE CountInv'
  <2>1. p.minors \in Nat
    BY SetupAssumption DEF Param
  <2> QED
    BY <1>1, <2>1 DEF Insmod, CountInv
<1>2. CASE Validate \/ MinorsParsed
  BY <1>2 DEF Validate, MinorsParsed, CountInv
<1>3. CASE Strsep
  <2>1. /\ tokens \in Nat /\ tokens > 0 /\ tokens' = tokens - 1
        /\ nr \in 0 .. 31 /\ nr' \in {nr, nr + 1} /\ i' = i /\ i \in -1 .. 32
    BY <1>3 DEF Strsep, CountInv, DisksInv
  <2>2. first' \in BOOLEAN
    <3>1. first' = FALSE
      BY <1>3, Zenon DEF Strsep
    <3> QED
      BY <3>1, Zenon
  <2> QED
    BY <2>1, <2>2 DEF CountInv
<1>4. CASE OpenDisk
  BY <1>4 DEF OpenDisk, CountInv, DisksInv, BackFrom
<1>5. CASE PutBack
  BY <1>5 DEF PutBack, CountInv, DisksInv
<1>6. CASE UNCHANGED <<tokens, first, nr, i>>
  BY <1>6 DEF CountInv
<1> USE DEF Step, Writing
<1>7. CASE PciInit \/ ScanId \/ SizeLo \/ SizeHi
  BY <1>6, <1>7 DEF PciInit, ScanId, SizeLo, SizeHi
<1>8. CASE RestoreLo \/ RestoreHi \/ DecodeOn \/ MsixOff
  BY <1>6, <1>8 DEF RestoreLo, RestoreHi, DecodeOn, MsixOff
<1>9. CASE CreatePciBus \/ EnableDevice \/ Probe
  BY <1>6, <1>9 DEF CreatePciBus, EnableDevice, Probe
<1>10. CASE (\E w \in Writes : LaterWrite(w)) \/ DispatcherSignals \/ Interrupt
            \/ EndWrite \/ UNCHANGED vars
  BY <1>6, <1>10 DEF LaterWrite, DispatcherSignals, Interrupt, EndWrite, vars,
                     setupVars
<1> QED
  BY <1>1, <1>2, <1>3, <1>4, <1>5, <1>7, <1>8, <1>9, <1>10 DEF Next, Scan

LEMMA TypesInit == Init => StoreInv /\ FlagInv /\ CountInv
<1> SUFFICES ASSUME Init PROVE StoreInv /\ FlagInv /\ CountInv
  OBVIOUS
<1>1. /\ intx_disabled \in BOOLEAN /\ owed \in BOOLEAN /\ overlapped \in BOOLEAN
      /\ first \in BOOLEAN
  BY Zenon DEF Init, ConfigInit
<1>2. StoreInv
  BY DEF Init, ConfigInit, StoreInv
<1>3. /\ raised \in {Msi} \cup 0 .. 255 /\ tokens \in Nat
      /\ nr \in 0 .. 32 /\ i \in -1 .. 32
  BY DEF Init, ConfigInit, NoIrq
<1> QED
  BY <1>1, <1>2, <1>3 DEF FlagInv, CountInv

LEMMA TypesHold ==
  ASSUME ScanInv, DisksInv, StoreInv, FlagInv, CountInv
  PROVE  TypeOK
<1>1. memmap_start \subseteq 12 .. 41
  BY DEF ScanInv, LineInv
<1>2. cfg \subseteq 0 .. 8 * ConfigSize - 1
  <2>1. ConfigSize \in Int
    BY DEF ConfigSize
  <2>2. ASSUME NEW f \in cfg PROVE f \in 0 .. 8 * ConfigSize - 1
    <3>1. f \in Nat /\ f < 8 * ConfigSize
      BY Zenon DEF StoreInv
    <3> QED
      BY <2>1, <3>1
  <2> QED
    BY <2>2, Zenon
<1>3. memmap_start \ 0 .. 13 \in SUBSET (0 .. 63)
  BY <1>1
<1>4. pdev = NoPdev \/ pdev \in [start : SUBSET (0 .. 63), log : 0 .. 63,
                               irq : 0 .. 255, msix_enabled : BOOLEAN]
  <2>1. CASE pc \in OnBus
    <3>1. PICK on \in BOOLEAN : on = (671 \in cfg)
      <4>1. (671 \in cfg) = TRUE \/ (671 \in cfg) = FALSE
        OBVIOUS
      <4> QED
        BY <4>1, Zenon
    <3>2. pdev = [start |-> memmap_start \ 0 .. 13, log |-> 14, irq |-> 15,
                  msix_enabled |-> on]
      BY <2>1, <3>1 DEF ScanInv, LineInv, BusInv
    <3> QED
      BY <1>3, <3>2
  <2>2. CASE pc \notin OnBus
    BY <2>2 DEF ScanInv, LineInv, BusInv
  <2> QED
    BY <2>1, <2>2
<1>5. drv = NoDrv \/ drv \in [irq : 0 .. 255, mem_sta : SUBSET (0 .. 63)]
  <2>1. drv = NoDrv \/ drv = [irq |-> 15, mem_sta |-> memmap_start \ 0 .. 13]
    BY DEF ScanInv, LineInv, BusInv
  <2> QED
    BY <1>3, <2>1
<1>6. access = NoAccess
      \/ access \in [where : 0 .. ConfigSize - 1, size : {1, 2, 4},
                    val : SUBSET Word, old : SUBSET Word]
  BY DEF StoreInv, AccessType
<1>7. opened \in [0 .. Verify -> Int] /\ stored \subseteq 0 .. MaxMinors - 1
  BY DEF DisksInv, Verify, MaxMinors
<1>8. param \in Params \cup {NoParam}
  BY DEF ScanInv, ParamInv
<1>9. /\ intx_disabled \in BOOLEAN /\ owed \in BOOLEAN /\ overlapped \in BOOLEAN
      /\ raised \in {Msi} \cup 0 .. 255
      /\ tokens \in Nat /\ first \in BOOLEAN
      /\ nr \in 0 .. MaxMinors /\ i \in -1 .. MaxMinors
  BY DEF FlagInv, CountInv, MaxMinors
<1> QED
  BY <1>1, <1>2, <1>4, <1>5, <1>6, <1>7, <1>8, <1>9, Zenon DEF TypeOK

\* Types: no write reaches beyond the page of the configuration space, however
\* many minors there are the counters stay where the arrays end, and what the
\* driver and the dispatcher keep of the device is a BAR and a line.
THEOREM Types == Spec => []TypeOK
<1>1. ScanInv /\ DisksInv /\ StoreInv /\ FlagInv /\ CountInv => TypeOK
  BY TypesHold
<1>2. ScanInv => ParamInv
  BY DEF ScanInv
<1> QED
  BY <1>1, <1>2, CfgInit, CfgStep, ScanInit, ScanStep, DisksInit, DisksStep,
     TypesInit, StoreStep, FlagStep, CountStep, PTL DEF Spec
=============================================================================
