-------------------------- MODULE SubagentTailProofs --------------------------
(***************************************************************************)
(* Theorems about SubagentTail for every value of its constants.           *)
(*                                                                         *)
(*  TailInvariance    the invariant the others follow from;                *)
(*  TailTypes         TypeOK;                                              *)
(*  LoggedOnce        LoggedOnceInOrder, for any number of truncations and *)
(*                    replacements of the transcript;                      *)
(*  LogComplete       LogMatchesOffset.                                    *)
(***************************************************************************)
EXTENDS SubagentTail, SequenceTheorems, FiniteSetTheorems, TLAPS

LEMMA LeastElement ==
    ASSUME NEW T, T \subseteq Nat, T # {}
    PROVE  \E x \in T : \A y \in T : x <= y
<1>1. PICK x \in T : \A y \in T : ~ (<<y, x>> \in OpToRel(<, Nat))
  BY NatLessThanWellFounded, WFMin
<1>2. \A y \in T : ~ (y < x)
  BY <1>1 DEF OpToRel
<1>3. QED
  BY <1>2

LEMMA MaxIs ==
    ASSUME NEW T, T \subseteq Int, NEW x \in T, \A y \in T : x >= y
    PROVE  Max(T) = x
<1>1. PICK m \in T : m = Max(T) /\ \A y \in T : m >= y
  BY DEF Max
<1>2. m \in Int /\ x \in Int /\ m >= x /\ x >= m
  BY <1>1
<1>3. QED
  BY <1>1, <1>2

LEMMA MinIs ==
    ASSUME NEW T, T \subseteq Int, NEW x \in T, \A y \in T : x <= y
    PROVE  Min(T) = x
<1>1. PICK m \in T : m = Min(T) /\ \A y \in T : m <= y
  BY DEF Min
<1>2. m \in Int /\ x \in Int /\ m <= x /\ x <= m
  BY <1>1
<1>3. QED
  BY <1>1, <1>2

LEMMA MaxOfBounded ==
    ASSUME NEW n \in Nat, NEW T, T \subseteq 0..n, T # {}
    PROVE  Max(T) \in T /\ \A y \in T : Max(T) >= y
<1> DEFINE U == {n - t : t \in T}
<1>1. U \subseteq Nat /\ U # {}
  <2>1. \A t \in T : t \in 0..n /\ n - t \in Nat
    OBVIOUS
  <2>2. QED
    BY <2>1
<1>2. PICK u \in U : \A v \in U : u <= v
  BY <1>1, LeastElement
<1>3. PICK x \in T : u = n - x
  BY <1>2
<1>4. ASSUME NEW y \in T
      PROVE  x >= y
  <2>1. n - x <= n - y
    BY <1>2, <1>3
  <2>2. QED
    BY <2>1
<1>5. T \subseteq Int
  OBVIOUS
<1>6. Max(T) = x
  BY <1>4, <1>5, MaxIs
<1>7. QED
  BY <1>4, <1>6

-----------------------------------------------------------------------------
(* Ascending: the enumeration of a finite set of numbers *)

Ascends(s) == \A i, j \in 1..Len(s) : i < j => s[i] < s[j]

(* s enumerates T from the least element to the greatest.                    *)
Enumerates(s, T) ==
    /\ s \in Seq(T) /\ Ascends(s)
    /\ \A x \in T : \E i \in 1..Len(s) : s[i] = x

LEMMA AscendingOnto ==
    ASSUME NEW T, T \subseteq Nat, IsFiniteSet(T),
           NEW s \in [1..Cardinality(T) -> T],
           \A i, j \in 1..Cardinality(T) : i < j => s[i] < s[j]
    PROVE  Enumerates(s, T)
<1> DEFINE n == Cardinality(T)
<1>1. n \in Nat
  BY FS_CardinalityType
<1>2. s \in Seq(T) /\ Len(s) = n
  BY <1>1
<1>3. \A i, j \in 1..n : s[i] = s[j] => i = j
  <2>1. \A i \in 1..n : s[i] \in Nat
    OBVIOUS
  <2>2. QED
    BY <1>1, <2>1
<1>4. s \in Injection(1..n, T)
  BY <1>3 DEF Injection, IsInjective
<1>5. IsFiniteSet(1..n) /\ Cardinality(1..n) = n
  BY <1>1, FS_Interval
<1>6. s \in Surjection(1..n, T)
  BY <1>4, <1>5, FS_Injection
<1>7. \A x \in T : \E i \in 1..n : s[i] = x
  BY <1>6 DEF Surjection
<1>8. QED
  BY <1>2, <1>7 DEF Enumerates, Ascends

LEMMA AscendingExists ==
    ASSUME NEW T0, T0 \subseteq Nat, IsFiniteSet(T0)
    PROVE  \E s \in [1..Cardinality(T0) -> T0] :
              \A i, j \in 1..Cardinality(T0) : i < j => s[i] < s[j]
<1> DEFINE Enum(T) == \E s \in [1..Cardinality(T) -> T] :
                         \A i, j \in 1..Cardinality(T) : i < j => s[i] < s[j]
           Bad == {m \in Nat : \E T \in SUBSET Nat :
                      IsFiniteSet(T) /\ Cardinality(T) = m /\ ~ Enum(T)}
<1>1. SUFFICES Bad = {}
  BY FS_CardinalityType
<1>2. SUFFICES ASSUME Bad # {}
               PROVE  FALSE
  OBVIOUS
<1>3. PICK m \in Bad : \A k \in Bad : m <= k
  BY <1>2, LeastElement
<1>4. PICK T \in SUBSET Nat : IsFiniteSet(T) /\ Cardinality(T) = m /\ ~ Enum(T)
  BY <1>3
<1>5. m \in Nat
  BY <1>3
<1>6. CASE T = {}
  <2>1. Cardinality(T) = 0 /\ 1..0 = {}
    BY <1>6, FS_EmptySet
  <2>2. Enum(T)
    <3>1. [i \in 1..0 |-> 0] \in [1..Cardinality(T) -> T]
      BY <2>1
    <3>2. QED
      BY <2>1, <3>1
  <2>3. QED
    BY <1>4, <2>2
<1>7. CASE T # {}
  <2>1. PICK x \in T : \A y \in T : x <= y
    BY <1>4, <1>7, LeastElement
  <2>2. PICK U : U = T \ {x}
    OBVIOUS
  <2>3. IsFiniteSet(U) /\ Cardinality(U) = m - 1 /\ U \subseteq Nat
    BY <1>4, <2>1, <2>2, FS_RemoveElement
  <2>4. m - 1 \in Nat
    BY <2>3, FS_CardinalityType
  <2>5. Enum(U)
    <3>1. m - 1 \notin Bad
      BY <1>3, <1>5
    <3>2. QED
      BY <2>3, <2>4, <3>1
  <2>6. PICK u \in [1..(m - 1) -> U] : \A i, j \in 1..(m - 1) : i < j => u[i] < u[j]
    BY <2>3, <2>5
  <2>7. PICK s : s = [i \in 1..m |-> IF i = 1 THEN x ELSE u[i - 1]]
    OBVIOUS
  <2>8. \A i \in 1..m : i # 1 => i - 1 \in 1..(m - 1)
    BY <1>5
  <2>9. s \in [1..m -> T]
    BY <2>2, <2>6, <2>7, <2>8
  <2>10. \A y \in U : x < y
    BY <2>1, <2>2
  <2>11. ASSUME NEW i \in 1..m, NEW j \in 1..m, i < j
         PROVE  s[i] < s[j]
    <3>1. j # 1 /\ j - 1 \in 1..(m - 1) /\ s[j] = u[j - 1]
      BY <2>7, <2>8, <2>11
    <3>2. CASE i = 1
      BY <2>6, <2>7, <2>10, <3>1, <3>2
    <3>3. CASE i # 1
      <4>1. i - 1 \in 1..(m - 1) /\ s[i] = u[i - 1] /\ i - 1 < j - 1
        BY <2>7, <2>8, <2>11, <3>3
      <4>2. QED
        BY <2>6, <3>1, <4>1
    <3>4. QED
      BY <3>2, <3>3
  <2>12. QED
    BY <1>4, <2>9, <2>11
<1>8. QED
  BY <1>6, <1>7

LEMMA AscendingEnumerates ==
    ASSUME NEW T, T \subseteq Nat, IsFiniteSet(T)
    PROVE  Enumerates(Ascending(T), T)
<1>1. PICK n : n = Cardinality(T)
  OBVIOUS
<1>2. \E s \in [1..n -> T] : \A i, j \in 1..n : i < j => s[i] < s[j]
  BY <1>1, AscendingExists
<1>3. \E s \in [1..n -> T] : \A i, j \in DOMAIN s : i < j => s[i] < s[j]
  BY <1>2
<1>4. /\ Ascending(T) \in [1..n -> T]
      /\ \A i, j \in DOMAIN Ascending(T) : i < j => Ascending(T)[i] < Ascending(T)[j]
  BY <1>1, <1>3 DEF Ascending
<1>5. QED
  BY <1>1, <1>4, AscendingOnto

LEMMA EnumerationLength ==
    ASSUME NEW T, T \subseteq Nat, NEW s, Enumerates(s, T)
    PROVE  Len(s) \in Nat /\ Cardinality(T) = Len(s) /\ s \in [1..Len(s) -> T]
<1>1. s \in Seq(T) /\ Len(s) \in Nat /\ s \in [1..Len(s) -> T]
  BY DEF Enumerates
<1>2. \A i, j \in 1..Len(s) : s[i] = s[j] => i = j
  <2>1. \A i \in 1..Len(s) : s[i] \in Nat
    BY <1>1
  <2>2. \A i, j \in 1..Len(s) : i < j => s[i] < s[j]
    BY DEF Enumerates, Ascends
  <2>3. QED
    BY <1>1, <2>1, <2>2
<1>3. s \in Injection(1..Len(s), T)
  BY <1>1, <1>2 DEF Injection, IsInjective
<1>4. s \in Surjection(1..Len(s), T)
  BY <1>1 DEF Surjection, Enumerates
<1>5. ExistsBijection(1..Len(s), T)
  BY <1>3, <1>4 DEF ExistsBijection, Bijection
<1>6. QED
  BY <1>1, <1>5, FS_CountingElements

LEMMA NextEnumerated ==
    ASSUME NEW T, T \subseteq Nat, NEW s, NEW t, Enumerates(s, T), Enumerates(t, T),
           NEW i \in 1..Len(s), i \in 1..Len(t),
           \A j \in 1..(i - 1) : s[j] = t[j]
    PROVE  t[i] <= s[i]
<1>1. Len(s) \in Nat /\ Len(t) \in Nat /\ s \in [1..Len(s) -> T] /\ t \in [1..Len(t) -> T]
  BY EnumerationLength
<1>2. PICK k \in 1..Len(t) : t[k] = s[i]
  <2>1. s[i] \in T
    BY <1>1
  <2>2. QED
    BY <2>1 DEF Enumerates
<1>3. s[i] \in Nat /\ t[i] \in Nat
  BY <1>1
<1>4. CASE k < i
  <2>1. k \in 1..(i - 1) /\ k \in 1..Len(s)
    BY <1>1, <1>4
  <2>2. s[k] < s[i] /\ s[k] = t[k]
    BY <1>4, <2>1 DEF Enumerates, Ascends
  <2>3. QED
    BY <1>2, <1>3, <2>2
<1>5. CASE k = i
  BY <1>2, <1>3, <1>5
<1>6. CASE k > i
  <2>1. t[i] < t[k]
    BY <1>6 DEF Enumerates, Ascends
  <2>2. QED
    BY <1>2, <1>3, <2>1
<1>7. QED
  BY <1>4, <1>5, <1>6

(* A set of numbers has one enumeration.                                     *)
LEMMA EnumerationUnique ==
    ASSUME NEW T, T \subseteq Nat, NEW s, NEW t, Enumerates(s, T), Enumerates(t, T)
    PROVE  s = t
<1>1. /\ Len(s) \in Nat /\ Len(s) = Len(t)
      /\ s \in [1..Len(s) -> T] /\ t \in [1..Len(s) -> T]
  BY EnumerationLength
<1> DEFINE D == {i \in 1..Len(s) : s[i] # t[i]}
<1>2. ASSUME D # {}
      PROVE  FALSE
  <2>1. D \subseteq Nat
    BY <1>1
  <2>2. PICK i \in D : \A j \in D : i <= j
    BY <1>2, <2>1, LeastElement
  <2>3. i \in 1..Len(s) /\ \A j \in 1..(i - 1) : s[j] = t[j]
    <3>1. ASSUME NEW j \in 1..(i - 1)
          PROVE  s[j] = t[j]
      <4>1. j \in 1..Len(s) /\ ~ (i <= j)
        BY <1>1, <2>2
      <4>2. QED
        BY <2>2, <4>1
    <3>2. QED
      BY <2>2, <3>1
  <2>4. t[i] <= s[i] /\ s[i] <= t[i]
    <3>1. i \in 1..Len(t) /\ \A j \in 1..(i - 1) : t[j] = s[j]
      BY <1>1, <2>3
    <3>2. t[i] <= s[i]
      BY <2>3, <3>1, NextEnumerated
    <3>3. s[i] <= t[i]
      BY <2>3, <3>1, NextEnumerated
    <3>4. QED
      BY <3>2, <3>3
  <2>5. s[i] \in Nat /\ t[i] \in Nat
    BY <1>1, <2>3
  <2>6. QED
    BY <2>2, <2>4, <2>5
<1>3. \A i \in 1..Len(s) : s[i] = t[i]
  BY <1>2
<1>4. QED
  BY <1>1, <1>3

(* Enumerating a set and then a set of greater numbers.                      *)
LEMMA EnumerationJoins ==
    ASSUME NEW T, T \subseteq Nat, NEW U, U \subseteq Nat,
           \A x \in T : \A y \in U : x < y,
           NEW s, NEW t, Enumerates(s, T), Enumerates(t, U)
    PROVE  Enumerates(s \o t, T \cup U)
<1> DEFINE V == T \cup U
           w == s \o t
<1>1. s \in Seq(V) /\ t \in Seq(V) /\ s \in Seq(T) /\ t \in Seq(U)
  BY DEF Enumerates
<1>2. /\ w \in Seq(V) /\ Len(w) = Len(s) + Len(t)
      /\ \A i \in 1..(Len(s) + Len(t)) :
            w[i] = IF i <= Len(s) THEN s[i] ELSE t[i - Len(s)]
  BY <1>1, ConcatProperties
<1>3. Len(s) \in Nat /\ Len(t) \in Nat
  BY <1>1
<1>4. /\ \A i \in 1..Len(s) : s[i] \in T
      /\ \A i \in 1..Len(t) : t[i] \in U
  BY <1>1
<1> HIDE DEF w
<1>5. ASSUME NEW i \in 1..Len(w), NEW j \in 1..Len(w), i < j
      PROVE  w[i] < w[j]
  <2>1. CASE j <= Len(s)
    <3>1. i \in 1..Len(s) /\ j \in 1..Len(s) /\ w[i] = s[i] /\ w[j] = s[j]
      BY <1>2, <1>3, <1>5, <2>1
    <3>2. QED
      BY <1>5, <3>1 DEF Enumerates, Ascends
  <2>2. CASE j > Len(s) /\ i <= Len(s)
    <3>1. i \in 1..Len(s) /\ j - Len(s) \in 1..Len(t) /\ w[i] = s[i] /\ w[j] = t[j - Len(s)]
      BY <1>2, <1>3, <1>5, <2>2
    <3>2. QED
      BY <1>4, <3>1
  <2>3. CASE i > Len(s)
    <3>1. /\ i - Len(s) \in 1..Len(t) /\ j - Len(s) \in 1..Len(t)
          /\ w[i] = t[i - Len(s)] /\ w[j] = t[j - Len(s)] /\ i - Len(s) < j - Len(s)
      BY <1>2, <1>3, <1>5, <2>3
    <3>2. QED
      BY <3>1 DEF Enumerates, Ascends
  <2>4. QED
    BY <1>2, <1>3, <1>5, <2>1, <2>2, <2>3
<1>6. ASSUME NEW x \in V
      PROVE  \E i \in 1..Len(w) : w[i] = x
  <2>1. CASE x \in T
    <3>1. PICK i \in 1..Len(s) : s[i] = x
      BY <2>1 DEF Enumerates
    <3>2. i \in 1..Len(w) /\ w[i] = x
      BY <1>2, <1>3, <3>1
    <3>3. QED
      BY <3>2
  <2>2. CASE x \in U
    <3>1. PICK i \in 1..Len(t) : t[i] = x
      BY <2>2 DEF Enumerates
    <3>2. Len(s) + i \in 1..Len(w) /\ ~ (Len(s) + i <= Len(s)) /\ (Len(s) + i) - Len(s) = i
      BY <1>2, <1>3
    <3>3. w[Len(s) + i] = x
      BY <1>2, <3>1, <3>2
    <3>4. QED
      BY <3>2, <3>3
  <2>3. QED
    BY <2>1, <2>2
<1>7. QED
  BY <1>2, <1>5, <1>6 DEF Enumerates, Ascends, w

(* The lines in two runs of bytes, those in the second being newer.          *)
LEMMA AscendingJoins ==
    ASSUME NEW T, T \subseteq Nat, NEW U, U \subseteq Nat, IsFiniteSet(T), IsFiniteSet(U),
           \A x \in T : \A y \in U : x < y
    PROVE  Ascending(T \cup U) = Ascending(T) \o Ascending(U)
<1>1. T \cup U \subseteq Nat /\ IsFiniteSet(T \cup U)
  BY FS_Union
<1>2. /\ Enumerates(Ascending(T), T) /\ Enumerates(Ascending(U), U)
      /\ Enumerates(Ascending(T \cup U), T \cup U)
  BY <1>1, AscendingEnumerates
<1>3. Enumerates(Ascending(T) \o Ascending(U), T \cup U)
  BY <1>2, EnumerationJoins
<1>4. QED
  BY <1>1, <1>2, <1>3, EnumerationUnique
-----------------------------------------------------------------------------
(* The limit of the log *)

(* What append_log leaves of a sequence: its last MaxLog entries.            *)
Latest(s) == SubSeq(s, Max({1, Len(s) - MaxLog + 1}), Len(s))

LEMMA LatestFacts ==
    ASSUME NEW S, NEW s \in Seq(S)
    PROVE  /\ Latest(s) \in Seq(S)
           /\ Len(s) <= MaxLog => Len(Latest(s)) = Len(s)
           /\ Len(s) > MaxLog => Len(Latest(s)) = MaxLog
           /\ \A i \in 1..Len(Latest(s)) :
                 /\ i + (Len(s) - Len(Latest(s))) \in 1..Len(s)
                 /\ Latest(s)[i] = s[i + (Len(s) - Len(Latest(s)))]
<1>1. MaxLog \in Nat \ {0}
  BY TailAssumption
<1>2. PICK n \in Nat : n = Len(s)
  OBVIOUS
<1>3. PICK m \in Int : /\ m = 1 \/ m = n - MaxLog + 1
                       /\ m >= 1 /\ m >= n - MaxLog + 1
  <2>1. CASE n <= MaxLog
    <3>1. 1 >= n - MaxLog + 1
      BY <1>1, <2>1
    <3>2. QED
      BY <3>1
  <2>2. CASE n > MaxLog
    <3>1. n - MaxLog + 1 \in Int /\ n - MaxLog + 1 >= 1
      BY <1>1, <2>2
    <3>2. QED
      BY <3>1
  <2>3. QED
    BY <1>1, <2>1, <2>2
<1>4. Max({1, n - MaxLog + 1}) = m
  <2>1. {1, n - MaxLog + 1} \subseteq Int
    BY <1>1
  <2>2. m \in {1, n - MaxLog + 1} /\ \A y \in {1, n - MaxLog + 1} : m >= y
    BY <1>3
  <2>3. QED
    BY <2>1, <2>2, MaxIs
<1>5. Latest(s) = SubSeq(s, m, n)
  BY <1>2, <1>4 DEF Latest
<1>6. m >= 1 /\ m <= n + 1
  BY <1>1, <1>3
<1>7. PICK l : l = SubSeq(s, m, n)
  OBVIOUS
<1>8. /\ l \in Seq(S) /\ Len(l) = n - m + 1
      /\ \A i \in 1..(n - m + 1) : l[i] = s[m + i - 1]
  BY <1>2, <1>6, <1>7, SubSeqProperties
<1>9. ASSUME NEW i \in 1..Len(l)
      PROVE  i + (n - Len(l)) \in 1..n /\ l[i] = s[i + (n - Len(l))]
  <2>1. i \in 1..(n - m + 1) /\ i + (n - Len(l)) = m + i - 1 /\ m + i - 1 \in 1..n
    BY <1>6, <1>8
  <2>2. QED
    BY <1>8, <2>1
<1>10. (n <= MaxLog => Len(l) = n) /\ (n > MaxLog => Len(l) = MaxLog)
  BY <1>1, <1>3, <1>6, <1>8
<1>11. QED
  BY <1>2, <1>5, <1>7, <1>8, <1>9, <1>10

(* Entries that were dropped before would be dropped now.                    *)
LEMMA LatestOfLatest ==
    ASSUME NEW S, NEW s \in Seq(S), NEW t \in Seq(S)
    PROVE  Latest(Latest(s) \o t) = Latest(s \o t)
<1>1. PICK l : l = Latest(s)
  OBVIOUS
<1>2. l \in Seq(S)
  BY <1>1, LatestFacts
<1>3. PICK p \in Nat, q \in Nat, r \in Nat : p = Len(s) /\ q = Len(l) /\ r = Len(t)
  BY <1>2
<1>4. /\ p <= MaxLog => q = p
      /\ p > MaxLog => q = MaxLog
      /\ \A i \in 1..q : i + (p - q) \in 1..p /\ l[i] = s[i + (p - q)]
  BY <1>1, <1>3, LatestFacts
<1>5. MaxLog \in Nat \ {0}
  BY TailAssumption
<1>6. PICK d \in Nat : d = p - q
  BY <1>4, <1>5
<1>7. PICK u, v : u = l \o t /\ v = s \o t
  OBVIOUS
<1>8. /\ u \in Seq(S) /\ Len(u) = q + r
      /\ \A i \in 1..(q + r) : u[i] = IF i <= q THEN l[i] ELSE t[i - q]
  BY <1>2, <1>3, <1>7, ConcatProperties
<1>9. /\ v \in Seq(S) /\ Len(v) = p + r
      /\ \A i \in 1..(p + r) : v[i] = IF i <= p THEN s[i] ELSE t[i - p]
  BY <1>3, <1>7, ConcatProperties
<1>10. ASSUME NEW i \in 1..(q + r)
       PROVE  i + d \in 1..(p + r) /\ u[i] = v[i + d]
  <2>1. i + d \in 1..(p + r)
    BY <1>6
  <2>2. CASE i <= q
    <3>1. i \in 1..q /\ i + d <= p /\ i + (p - q) = i + d
      BY <1>6, <2>2
    <3>2. u[i] = l[i] /\ v[i + d] = s[i + d]
      BY <1>8, <1>9, <2>1, <2>2, <3>1
    <3>3. QED
      BY <1>4, <2>1, <3>1, <3>2
  <2>3. CASE ~ (i <= q)
    <3>1. ~ (i + d <= p) /\ (i + d) - p = i - q
      BY <1>6, <2>3
    <3>2. u[i] = t[i - q] /\ v[i + d] = t[i - q]
      BY <1>8, <1>9, <2>1, <2>3, <3>1
    <3>3. QED
      BY <2>1, <3>2
  <2>4. QED
    BY <2>2, <2>3
<1>11. PICK a, b : a = Latest(u) /\ b = Latest(v)
  OBVIOUS
<1>12. a \in Seq(S) /\ b \in Seq(S)
  BY <1>8, <1>9, <1>11, LatestFacts
<1>13. PICK n \in Nat, m \in Nat : n = Len(a) /\ m = Len(b)
  BY <1>12
<1>14. /\ q + r <= MaxLog => n = q + r
       /\ q + r > MaxLog => n = MaxLog
       /\ \A i \in 1..n : i + (q + r - n) \in 1..(q + r) /\ a[i] = u[i + (q + r - n)]
  <2>1. /\ Len(u) <= MaxLog => Len(Latest(u)) = Len(u)
        /\ Len(u) > MaxLog => Len(Latest(u)) = MaxLog
        /\ \A i \in 1..Len(Latest(u)) :
              /\ i + (Len(u) - Len(Latest(u))) \in 1..Len(u)
              /\ Latest(u)[i] = u[i + (Len(u) - Len(Latest(u)))]
    BY <1>8, LatestFacts
  <2>2. Latest(u) = a /\ Len(u) = q + r /\ Len(a) = n
    BY <1>8, <1>11, <1>13
  <2>3. QED
    BY <2>1, <2>2
<1>15. /\ p + r <= MaxLog => m = p + r
       /\ p + r > MaxLog => m = MaxLog
       /\ \A i \in 1..m : i + (p + r - m) \in 1..(p + r) /\ b[i] = v[i + (p + r - m)]
  <2>1. /\ Len(v) <= MaxLog => Len(Latest(v)) = Len(v)
        /\ Len(v) > MaxLog => Len(Latest(v)) = MaxLog
        /\ \A i \in 1..Len(Latest(v)) :
              /\ i + (Len(v) - Len(Latest(v))) \in 1..Len(v)
              /\ Latest(v)[i] = v[i + (Len(v) - Len(Latest(v)))]
    BY <1>9, LatestFacts
  <2>2. Latest(v) = b /\ Len(v) = p + r /\ Len(b) = m
    BY <1>9, <1>11, <1>13
  <2>3. QED
    BY <2>1, <2>2
<1>16. n = m /\ (q + r - n) + d = p + r - m
  BY <1>4, <1>5, <1>6, <1>14, <1>15
<1>17. ASSUME NEW i \in 1..n
       PROVE  a[i] = b[i]
  <2>1. PICK j \in 1..(q + r) : j = i + (q + r - n)
    BY <1>14
  <2>2. a[i] = u[j] /\ u[j] = v[j + d]
    BY <1>10, <1>14, <2>1
  <2>3. j + d = i + (p + r - m)
    BY <1>16, <2>1
  <2>4. b[i] = v[j + d]
    BY <1>15, <1>16, <2>3
  <2>5. QED
    BY <2>2, <2>4
<1>18. a = b
  BY <1>12, <1>13, <1>16, <1>17, SeqEqual
<1>19. QED
  BY <1>1, <1>7, <1>11, <1>18
-----------------------------------------------------------------------------
(* The lines in a run of bytes *)

(* The lines that are whole in bytes a to b of t.                            *)
LinesAt(t, a, b) ==
    {n \in Mine : \E i \in a..(b - 2) : t[i] = n /\ t[i + 1] = n /\ t[i + 2] = Newline}

(* Lines on both sides of a newline are in order.                            *)
Ordered(s) ==
    \A i, k, j \in 1..Len(s) :
        i < k /\ k < j /\ s[k] = Newline /\ s[i] # Newline /\ s[j] # Newline => s[i] < s[j]

LEMMA LinesFinite ==
    ASSUME NEW T, T \subseteq Mine
    PROVE  T \subseteq Nat \ {Newline} /\ IsFiniteSet(T)
<1>1. T \subseteq 1..MaxLines /\ MaxLines \in Nat
  BY TailAssumption
<1>2. IsFiniteSet(1..MaxLines)
  BY <1>1, FS_Interval
<1>3. IsFiniteSet(T)
  BY <1>1, <1>2, FS_Subset
<1>4. QED
  BY <1>1, <1>3 DEF Newline

LEMMA LinesOfPart ==
    ASSUME NEW S, NEW t \in Seq(S), NEW a \in Nat, NEW b \in Nat,
           a >= 1, a <= b + 1, b <= Len(t)
    PROVE  WholeLines(SubSeq(t, a, b)) = Ascending(LinesAt(t, a, b))
<1>1. PICK s : s = SubSeq(t, a, b)
  OBVIOUS
<1>2. Len(s) = b - a + 1 /\ \A i \in 1..(b - a + 1) : s[i] = t[a + i - 1]
  <2>1. Len(t) \in Nat /\ \A i \in a..b : t[i] \in S
    BY SMT
  <2>2. QED
    BY <1>1, <2>1, SubSeqProperties
<1>3. ASSUME NEW n, NEW i \in 1..(Len(s) - 2),
             s[i] = n /\ s[i + 1] = n /\ s[i + 2] = Newline
      PROVE  \E j \in a..(b - 2) : t[j] = n /\ t[j + 1] = n /\ t[j + 2] = Newline
  <2>1. PICK j \in Int : j = a + i - 1
    OBVIOUS
  <2>2. /\ j \in a..(b - 2)
        /\ i \in 1..(b - a + 1) /\ i + 1 \in 1..(b - a + 1) /\ i + 2 \in 1..(b - a + 1)
        /\ a + (i + 1) - 1 = j + 1 /\ a + (i + 2) - 1 = j + 2
    BY <1>2, <2>1
  <2>3. s[i] = t[j] /\ s[i + 1] = t[j + 1] /\ s[i + 2] = t[j + 2]
    BY <1>2, <2>1, <2>2
  <2>4. QED
    BY <1>3, <2>2, <2>3
<1>4. ASSUME NEW n, NEW j \in a..(b - 2),
             t[j] = n /\ t[j + 1] = n /\ t[j + 2] = Newline
      PROVE  \E i \in 1..(Len(s) - 2) : s[i] = n /\ s[i + 1] = n /\ s[i + 2] = Newline
  <2>1. PICK i \in Int : i = j - a + 1
    OBVIOUS
  <2>2. /\ i \in 1..(Len(s) - 2)
        /\ i \in 1..(b - a + 1) /\ i + 1 \in 1..(b - a + 1) /\ i + 2 \in 1..(b - a + 1)
        /\ a + i - 1 = j /\ a + (i + 1) - 1 = j + 1 /\ a + (i + 2) - 1 = j + 2
    BY <1>2, <2>1
  <2>3. s[i] = t[j] /\ s[i + 1] = t[j + 1] /\ s[i + 2] = t[j + 2]
    BY <1>2, <2>2
  <2>4. QED
    BY <1>4, <2>2, <2>3
<1>5. {n \in Mine : \E i \in 1..(Len(s) - 2) :
          s[i] = n /\ s[i + 1] = n /\ s[i + 2] = Newline} = LinesAt(t, a, b)
  BY <1>3, <1>4 DEF LinesAt
<1>6. WholeLines(s) = Ascending(LinesAt(t, a, b))
  BY <1>5 DEF WholeLines
<1>7. QED
  BY <1>1, <1>6

LEMMA LinesEnumerated ==
    ASSUME NEW t, NEW a, NEW b
    PROVE  /\ Enumerates(Ascending(LinesAt(t, a, b)), LinesAt(t, a, b))
           /\ Ascending(LinesAt(t, a, b)) \in Seq(Mine)
<1>1. LinesAt(t, a, b) \subseteq Mine
  BY DEF LinesAt
<1>2. LinesAt(t, a, b) \subseteq Nat /\ IsFiniteSet(LinesAt(t, a, b))
  BY <1>1, LinesFinite
<1>3. Enumerates(Ascending(LinesAt(t, a, b)), LinesAt(t, a, b))
  BY <1>2, AscendingEnumerates
<1>4. Ascending(LinesAt(t, a, b)) \in Seq(LinesAt(t, a, b))
  BY <1>3 DEF Enumerates
<1>5. QED
  BY <1>1, <1>3, <1>4

(* Cutting a run of bytes after a newline cuts no line.                      *)
LEMMA LinesOfTwoParts ==
    ASSUME NEW t \in Seq(Nat), Ordered(t), NEW a \in Nat, NEW p \in Nat, a + p <= Len(t),
           a > 0 => t[a] = Newline
    PROVE  Ascending(LinesAt(t, 1, a + p)) =
              Ascending(LinesAt(t, 1, a)) \o Ascending(LinesAt(t, a + 1, a + p))
<1> DEFINE T == LinesAt(t, 1, a)
           U == LinesAt(t, a + 1, a + p)
           V == LinesAt(t, 1, a + p)
<1>0. Newline \notin Mine
  BY TailAssumption DEF Newline
<1>1. T \cup U \subseteq V
  <2>1. 1..(a - 2) \subseteq 1..(a + p - 2) /\ (a + 1)..(a + p - 2) \subseteq 1..(a + p - 2)
    OBVIOUS
  <2>2. QED
    BY <2>1 DEF LinesAt
<1>2. ASSUME NEW n \in V
      PROVE  n \in T \cup U
  <2>1. PICK i \in 1..(a + p - 2) : t[i] = n /\ t[i + 1] = n /\ t[i + 2] = Newline
    BY <1>2 DEF LinesAt
  <2>2. n \in Mine /\ n # Newline
    BY <1>0, <1>2 DEF LinesAt
  <2>3. i # a /\ i + 1 # a
    BY <2>1, <2>2
  <2>4. CASE i + 2 <= a
    <3>1. i \in 1..(a - 2)
      BY <2>4
    <3>2. QED
      BY <2>1, <2>2, <3>1 DEF LinesAt
  <2>5. CASE i > a
    <3>1. i \in (a + 1)..(a + p - 2)
      BY <2>5
    <3>2. QED
      BY <2>1, <2>2, <3>1 DEF LinesAt
  <2>6. QED
    BY <2>3, <2>4, <2>5
<1>3. ASSUME NEW m \in T, NEW n \in U
      PROVE  m < n
  <2>1. PICK i \in 1..(a - 2) : t[i] = m /\ t[i + 2] = Newline
    BY <1>3 DEF LinesAt
  <2>2. PICK j \in (a + 1)..(a + p - 2) : t[j] = n
    BY <1>3 DEF LinesAt
  <2>3. m # Newline /\ n # Newline
    BY <1>0, <1>3 DEF LinesAt
  <2>4. /\ i \in 1..Len(t) /\ i + 2 \in 1..Len(t) /\ j \in 1..Len(t)
        /\ i < i + 2 /\ i + 2 < j
    OBVIOUS
  <2>5. QED
    BY <2>1, <2>2, <2>3, <2>4 DEF Ordered
<1>4. V = T \cup U
  BY <1>1, <1>2
<1>5. /\ T \subseteq Nat /\ U \subseteq Nat /\ IsFiniteSet(T) /\ IsFiniteSet(U)
  <2>1. T \subseteq Mine /\ U \subseteq Mine
    BY DEF LinesAt
  <2>2. QED
    BY <2>1, LinesFinite
<1> HIDE DEF T, U, V
<1>6. Ascending(T \cup U) = Ascending(T) \o Ascending(U)
  BY <1>3, <1>5, AscendingJoins
<1>7. QED
  BY <1>4, <1>6 DEF T, U, V
-----------------------------------------------------------------------------
(* The invariant *)

(* Byte i of file f is part of a line.                                       *)
Line(f, i) == i \in 1..Len(transcript[f]) /\ transcript[f][i] # Newline

(* The files are written one after another, and in each the lines one after  *)
(* another; a line of which only the first byte is there is the last of all. *)
FilesInOrder ==
    /\ path <= resets + 1
    /\ \A f \in File : f > path => transcript[f] = <<>>
    /\ \A f \in File : Ordered(transcript[f])
    /\ \A f \in File : \A i \in Nat : Line(f, i) => transcript[f][i] <= nLines
    /\ \A f, g \in File : \A i, j \in Nat :
          f < g /\ Line(f, i) /\ Line(g, j) => transcript[f][i] < transcript[g][j]

PartialIsLast ==
    partial =>
        /\ path # NoFile /\ Line(path, Len(transcript[path]))
        /\ \A f \in File : \A i \in Nat :
              Line(f, i) => \/ transcript[f][i] < nLines
                            \/ f = path /\ i = Len(transcript[path])

(* Where the task may be: it is started once, reads from an open file, and   *)
(* never from one that does not have the path yet.                           *)
PositionInv ==
    /\ tail = "none" <=> ~ tailSpawned
    /\ ~ tailSpawned => log = <<>>
    /\ tail = "read" => handle # NoFile
    /\ handle <= path
    /\ resets = 0 => offset <= Len(transcript[1])

(* The file the next read will be of, unless an error comes first.           *)
ReadFrom == IF handle = NoFile THEN path ELSE handle

LoggedAreWritten ==
    \A n \in 1..Len(log) : log[n] <= nLines /\ (partial => log[n] < nLines)

(* What may still be logged is newer than all that was: the rest of the file *)
(* that is read, all of it if it got shorter than the offset, and the files  *)
(* that come later.                                                          *)
RestIsNewer ==
    \A n \in 1..Len(log) : \A i \in Nat :
        /\ \A f \in File : f > ReadFrom /\ Line(f, i) => log[n] < transcript[f][i]
        /\ /\ ReadFrom # NoFile /\ Line(ReadFrom, i)
           /\ i > offset \/ Len(transcript[ReadFrom]) < offset
           => log[n] < transcript[ReadFrom][i]

OrderInv ==
    /\ FilesInOrder /\ PartialIsLast /\ PositionInv
    /\ LoggedOnceInOrder /\ LoggedAreWritten /\ RestIsNewer

TailInv == TypeOK /\ OrderInv

-----------------------------------------------------------------------------
(* The writer *)

(* What Flush appends: the number of the line being written, which is newer  *)
(* than all but its own first byte, and at the end perhaps a newline.        *)
LEMMA FlushAppends ==
    ASSUME TailInv, Flush
    PROVE  \E bs \in Seq(0..MaxLines) :
              /\ transcript' = [transcript EXCEPT ![path] = @ \o bs]
              /\ \A x \in 1..Len(bs) : bs[x] \in {nLines', Newline}
              /\ \A x, y \in 1..Len(bs) : x < y /\ bs[y] # Newline => bs[x] # Newline
              /\ nLines' \in 1..MaxLines /\ nLines <= nLines'
              /\ partial' => bs = <<nLines'>> /\ nLines < nLines'
              /\ \A f \in File : \A i \in Nat :
                    Line(f, i) => \/ transcript[f][i] < nLines'
                                  \/ f = path /\ i = Len(transcript[path])
              /\ \A n \in 1..Len(log) : log[n] < nLines'
<1>1. /\ nLines \in 0..MaxLines /\ MaxLines \in Nat /\ path \in {NoFile} \cup File
      /\ log \in Seq(Mine) /\ Mine \subseteq Nat
  BY TailAssumption DEF TailInv, TypeOK
<1>2. /\ \A f \in File : \A i \in Nat : Line(f, i) => transcript[f][i] <= nLines
      /\ PartialIsLast /\ LoggedAreWritten
  BY DEF TailInv, OrderInv, FilesInOrder
<1>3. \A f \in File : \A i \in Nat : Line(f, i) => transcript[f][i] \in Nat
  BY <1>1 DEF TailInv, TypeOK, Line
<1>4. \A n \in 1..Len(log) : log[n] \in Nat
  <2>1. \A n \in 1..Len(log) : log[n] \in Mine
    BY <1>1
  <2>2. QED
    BY <1>1, <2>1
<1>5. CASE partial
  <2>1. PICK N : N = nLines
    OBVIOUS
  <2>2. transcript' = [transcript EXCEPT ![path] = @ \o <<N, Newline>>]
        /\ nLines' = N /\ ~ partial' /\ path # NoFile
    BY <1>5, <2>1 DEF Flush, Append1
  <2>3. N \in 1..MaxLines
    <3>1. Line(path, Len(transcript[path])) /\ path \in File
      BY <1>1, <1>2, <1>5, <2>2 DEF PartialIsLast
    <3>2. transcript[path][Len(transcript[path])] \in Nat
          /\ transcript[path][Len(transcript[path])] <= N
          /\ transcript[path][Len(transcript[path])] # Newline
      BY <1>2, <1>3, <2>1, <3>1 DEF Line
    <3>3. QED
      BY <1>1, <2>1, <3>2 DEF Newline
  <2>4. /\ <<N, Newline>> \in Seq(0..MaxLines) /\ Len(<<N, Newline>>) = 2
        /\ <<N, Newline>>[1] = N /\ <<N, Newline>>[2] = Newline
    BY <1>1, <2>3 DEF Newline
  <2>5. \A f \in File : \A i \in Nat :
           Line(f, i) => transcript[f][i] < N \/ (f = path /\ i = Len(transcript[path]))
    BY <1>2, <1>5, <2>1 DEF PartialIsLast
  <2>6. \A n \in 1..Len(log) : log[n] < N
    BY <1>2, <1>5, <2>1 DEF LoggedAreWritten
  <2>7. nLines <= N
    BY <1>1, <2>1
  <2>8. PICK bs \in Seq(0..MaxLines) : bs = <<N, Newline>>
    BY <2>4
  <2>9. /\ \A x \in 1..Len(bs) : bs[x] \in {N, Newline}
        /\ \A x, y \in 1..Len(bs) : x < y /\ bs[y] # Newline => bs[x] # Newline
    BY <2>3, <2>4, <2>8 DEF Newline
  <2>10. QED
    BY <2>2, <2>3, <2>5, <2>6, <2>7, <2>8, <2>9
<1>6. CASE ~ partial
  <2>1. PICK N : N = nLines + 1
    OBVIOUS
  <2>2. /\ nLines' = N /\ nLines < MaxLines
        /\ \/ /\ transcript' = [transcript EXCEPT ![path] = @ \o <<N, N, Newline>>]
              /\ ~ partial'
           \/ transcript' = [transcript EXCEPT ![path] = @ \o <<N>>]
    BY <1>6, <2>1 DEF Flush, Append1
  <2>3. N \in 1..MaxLines /\ nLines <= N /\ nLines < N
    BY <1>1, <2>1, <2>2
  <2>4. \A f \in File : \A i \in Nat : Line(f, i) => transcript[f][i] < N
    BY <1>1, <1>2, <1>3, <2>1
  <2>5. \A n \in 1..Len(log) : log[n] < N
    BY <1>1, <1>2, <1>4, <2>1 DEF LoggedAreWritten
  <2>6. CASE /\ transcript' = [transcript EXCEPT ![path] = @ \o <<N, N, Newline>>]
             /\ ~ partial'
    <3>1. /\ <<N, N, Newline>> \in Seq(0..MaxLines) /\ Len(<<N, N, Newline>>) = 3
          /\ <<N, N, Newline>>[1] = N /\ <<N, N, Newline>>[2] = N
          /\ <<N, N, Newline>>[3] = Newline
      BY <1>1, <2>3 DEF Newline
    <3>2. \A x \in 1..3 : <<N, N, Newline>>[x] \in {N, Newline}
      BY <3>1
    <3>3. \A x, y \in 1..3 :
             x < y /\ <<N, N, Newline>>[y] # Newline => <<N, N, Newline>>[x] # Newline
      BY <2>3, <3>1 DEF Newline
    <3>4. QED
      BY <2>2, <2>3, <2>4, <2>5, <2>6, <3>1, <3>2, <3>3
  <2>7. CASE transcript' = [transcript EXCEPT ![path] = @ \o <<N>>]
    <3>1. <<N>> \in Seq(0..MaxLines) /\ Len(<<N>>) = 1 /\ <<N>>[1] = N
      BY <1>1, <2>3
    <3>2. PICK bs \in Seq(0..MaxLines) : bs = <<N>>
      BY <3>1
    <3>3. /\ \A x \in 1..Len(bs) : bs[x] \in {N, Newline}
          /\ \A x, y \in 1..Len(bs) : x < y /\ bs[y] # Newline => bs[x] # Newline
      BY <2>3, <3>1, <3>2 DEF Newline
    <3>4. QED
      BY <2>2, <2>3, <2>4, <2>5, <2>7, <3>2, <3>3
  <2>8. QED
    BY <2>2, <2>6, <2>7
<1>7. QED
  BY <1>5, <1>6

LEMMA FlushKeepsInv ==
    ASSUME TailInv, Flush
    PROVE  TailInv'
<1>1. PICK bs \in Seq(0..MaxLines) :
          /\ transcript' = [transcript EXCEPT ![path] = @ \o bs]
          /\ \A x \in 1..Len(bs) : bs[x] \in {nLines', Newline}
          /\ \A x, y \in 1..Len(bs) : x < y /\ bs[y] # Newline => bs[x] # Newline
          /\ nLines' \in 1..MaxLines /\ nLines <= nLines'
          /\ partial' => bs = <<nLines'>> /\ nLines < nLines'
          /\ \A f \in File : \A i \in Nat :
                Line(f, i) => \/ transcript[f][i] < nLines'
                              \/ f = path /\ i = Len(transcript[path])
          /\ \A n \in 1..Len(log) : log[n] < nLines'
  BY FlushAppends
<1>2. /\ path # NoFile /\ partial' \in BOOLEAN
      /\ UNCHANGED <<store, hooks, path, resets, tailing>>
  BY DEF Flush, TailInv, TypeOK
<1>3. /\ path \in File /\ transcript \in [File -> Seq(0..MaxLines)] /\ nLines \in 0..MaxLines
      /\ MaxLines \in Nat /\ File \subseteq Nat /\ handle \in {NoFile} \cup File
      /\ offset \in Nat /\ log \in Seq(Mine)
  BY <1>2, TailAssumption DEF TailInv, TypeOK, File
<1>4. PICK old \in Seq(0..MaxLines) : old = transcript[path]
  BY <1>3
<1>5. PICK new : new = old \o bs
  OBVIOUS
<1>6. PICK L \in Nat, B \in Nat : L = Len(old) /\ B = Len(bs)
  OBVIOUS
<1>7. /\ new \in Seq(0..MaxLines) /\ Len(new) = L + B
      /\ \A i \in 1..(L + B) : new[i] = IF i <= L THEN old[i] ELSE bs[i - L]
  BY <1>5, <1>6, ConcatProperties
<1>8. transcript'[path] = new /\ \A f \in File \ {path} : transcript'[f] = transcript[f]
  BY <1>1, <1>3, <1>4, <1>5
<1>9. transcript' \in [File -> Seq(0..MaxLines)]
  BY <1>1, <1>3, <1>4, <1>5, <1>7
<1>10. PICK N \in 1..MaxLines : N = nLines'
  BY <1>1
<1>11. /\ path' = path /\ resets' = resets /\ handle' = handle /\ offset' = offset
       /\ log' = log /\ tail' = tail /\ tailSpawned' = tailSpawned
  BY <1>2 DEF store, tailing
<1>12. TypeOK'
  BY <1>2, <1>9, <1>10 DEF TailInv, TypeOK, store, hooks, tailing
<1>13. ASSUME NEW f \in File, NEW i \in Nat, Line(f, i)'
       PROVE  \/ /\ Line(f, i) /\ transcript'[f][i] = transcript[f][i]
                 /\ f = path => i <= L
              \/ /\ f = path /\ i > L /\ i - L \in 1..B /\ transcript'[f][i] = N
                 /\ bs[i - L] # Newline
  <2>1. CASE f # path
    BY <1>8, <1>13, <2>1 DEF Line
  <2>2. CASE f = path
    <3>1. i \in 1..(L + B) /\ transcript'[f][i] = new[i] /\ new[i] # Newline
      BY <1>7, <1>8, <1>13, <2>2 DEF Line
    <3>2. CASE i <= L
      <4>1. i \in 1..L /\ new[i] = old[i]
        BY <1>7, <3>1, <3>2
      <4>2. QED
        BY <1>4, <1>6, <2>2, <3>1, <3>2, <4>1 DEF Line
    <3>3. CASE ~ (i <= L)
      <4>1. i - L \in 1..B /\ new[i] = bs[i - L] /\ i > L
        BY <1>7, <3>1, <3>3
      <4>2. bs[i - L] \in {N, Newline}
        BY <1>1, <1>6, <1>10, <4>1
      <4>3. QED
        BY <2>2, <3>1, <4>1, <4>2
    <3>4. QED
      BY <3>2, <3>3
  <2>3. QED
    BY <2>1, <2>2
<1>14. /\ \A f \in File : \A i \in Nat : Line(f, i) => transcript[f][i] \in Nat
       /\ \A f \in File : \A i \in Nat :
             Line(f, i) => transcript[f][i] < N \/ (f = path /\ i = L)
       /\ \A f \in File : \A i \in Nat : Line(f, i) => transcript[f][i] <= N
  <2>1. \A f \in File : \A i \in Nat : Line(f, i) => transcript[f][i] \in 0..MaxLines
    BY <1>3 DEF Line
  <2>2. \A f \in File : \A i \in Nat : Line(f, i) => transcript[f][i] <= nLines
    BY DEF TailInv, OrderInv, FilesInOrder
  <2>3. \A f \in File : \A i \in Nat :
             Line(f, i) => transcript[f][i] < N \/ (f = path /\ i = L)
    BY <1>1, <1>4, <1>6, <1>10
  <2>4. nLines <= N
    BY <1>1, <1>10
  <2>5. \A f \in File : \A i \in Nat : Line(f, i) => transcript[f][i] <= N
    BY <1>3, <2>1, <2>2, <2>4
  <2>6. QED
    BY <2>1, <2>3, <2>5
<1>15. FilesInOrder'
  <2>0. /\ path <= resets + 1
        /\ \A f \in File : f > path => transcript[f] = <<>>
        /\ \A f \in File : Ordered(transcript[f])
        /\ \A f, g \in File : \A i, j \in Nat :
              f < g /\ Line(f, i) /\ Line(g, j) => transcript[f][i] < transcript[g][j]
    BY DEF TailInv, OrderInv, FilesInOrder
  <2>1. path' <= resets' + 1
    BY <1>11, <2>0
  <2>2. \A f \in File : f > path' => transcript'[f] = <<>>
    BY <1>3, <1>8, <1>11, <2>0
  <2>3. ASSUME NEW f \in File
        PROVE  Ordered(transcript'[f])
    <3>1. CASE f # path
      BY <1>8, <2>0, <3>1
    <3>2. CASE f = path
      <4>1. SUFFICES ASSUME NEW i \in 1..(L + B), NEW k \in 1..(L + B), NEW j \in 1..(L + B),
                            i < k, k < j, new[k] = Newline, new[i] # Newline, new[j] # Newline
                     PROVE  new[i] < new[j]
        BY <1>7, <1>8, <3>2 DEF Ordered
      <4>2. Line(path, i)' /\ Line(path, j)' /\ i \in Nat /\ j \in Nat
        <5>1. i \in 1..Len(transcript'[path']) /\ j \in 1..Len(transcript'[path'])
          BY <1>7, <1>8, <1>11
        <5>2. transcript'[path'][i] # Newline /\ transcript'[path'][j] # Newline
          BY <1>8, <1>11, <4>1
        <5>3. i \in Nat /\ j \in Nat
          OBVIOUS
        <5>4. QED
          BY <5>1, <5>2, <5>3 DEF Line
      <4>3. CASE j <= L
        <5>1. /\ i \in 1..L /\ k \in 1..L /\ j \in 1..L
              /\ new[i] = old[i] /\ new[k] = old[k] /\ new[j] = old[j]
          BY <1>7, <4>1, <4>3
        <5>2. Ordered(old)
          BY <1>3, <1>4, <2>0
        <5>3. QED
          BY <1>6, <4>1, <5>1, <5>2 DEF Ordered
      <4>4. CASE ~ (j <= L)
        <5>1. new[j] = N /\ j - L \in 1..B /\ bs[j - L] # Newline
          <6>1. Line(path, j)' /\ j \in Nat /\ path \in File /\ transcript'[path] = new
            BY <1>3, <1>8, <4>2
          <6>2. \/ path = path => j <= L
                \/ j - L \in 1..B /\ transcript'[path][j] = N /\ bs[j - L] # Newline
            BY <1>11, <1>13, <6>1
          <6>3. QED
            BY <4>4, <6>1, <6>2
        <5>2. k <= L
          <6>1. SUFFICES ASSUME ~ (k <= L)
                         PROVE  FALSE
            OBVIOUS
          <6>2. k - L \in 1..B /\ k - L < j - L /\ new[k] = bs[k - L]
            BY <1>7, <4>1, <6>1
          <6>3. bs[k - L] # Newline
            BY <1>1, <1>6, <5>1, <6>2
          <6>4. QED
            BY <4>1, <6>2, <6>3
        <5>3. i < L /\ Line(path, i) /\ new[i] = transcript[path][i]
          <6>1. Line(path, i)' /\ i \in Nat /\ path \in File /\ transcript'[path] = new
            BY <1>3, <1>8, <4>2
          <6>2. i < L
            BY <4>1, <5>2
          <6>3. Line(path, i) /\ transcript'[path][i] = transcript[path][i]
            BY <1>11, <1>13, <6>1, <6>2
          <6>4. QED
            BY <6>1, <6>2, <6>3
        <5>4. transcript[path][i] < N
          BY <1>3, <1>14, <4>1, <5>3
        <5>5. QED
          BY <5>1, <5>3, <5>4
      <4>5. QED
        BY <4>3, <4>4
    <3>3. QED
      BY <3>1, <3>2
  <2>4. ASSUME NEW f \in File, NEW i \in Nat, Line(f, i)'
        PROVE  transcript'[f][i] <= nLines'
    BY <1>10, <1>13, <1>14, <2>4
  <2>5. ASSUME NEW f \in File, NEW g \in File, NEW i \in Nat, NEW j \in Nat,
               f < g, Line(f, i)', Line(g, j)'
        PROVE  transcript'[f][i] < transcript'[g][j]
    <3>1. f # path
      <4>1. SUFFICES ASSUME f = path
                     PROVE  FALSE
        OBVIOUS
      <4>2. transcript'[g] = <<>>
        BY <1>11, <2>2, <2>5, <4>1
      <4>3. QED
        BY <2>5, <4>2 DEF Line
    <3>2. Line(f, i) /\ transcript'[f][i] = transcript[f][i]
      BY <1>13, <2>5, <3>1
    <3>3. CASE Line(g, j) /\ transcript'[g][j] = transcript[g][j]
      BY <2>0, <2>5, <3>2, <3>3
    <3>4. CASE transcript'[g][j] = N
      BY <1>14, <3>1, <3>2, <3>4
    <3>5. QED
      BY <1>13, <2>5, <3>3, <3>4
  <2>6. QED
    BY <2>1, <2>2, <2>3, <2>4, <2>5 DEF FilesInOrder
<1>16. PartialIsLast'
  <2>1. SUFFICES ASSUME partial'
                 PROVE  /\ Line(path, Len(transcript[path]))'
                        /\ \A f \in File : \A i \in Nat :
                              Line(f, i)' => \/ transcript'[f][i] < N
                                             \/ f = path /\ i = Len(transcript'[path])
    BY <1>2, <1>10, <1>11 DEF PartialIsLast
  <2>2. B = 1 /\ bs[1] = N
    BY <1>1, <1>6, <1>10, <2>1
  <2>3. Len(new) = L + 1 /\ new[L + 1] = N
    <3>1. L + 1 \in 1..(L + B) /\ ~ (L + 1 <= L) /\ (L + 1) - L = 1
      BY <2>2
    <3>2. QED
      BY <1>7, <2>2, <3>1
  <2>4. Line(path, Len(transcript[path]))'
    BY <1>8, <1>11, <2>3 DEF Line, Newline
  <2>5. ASSUME NEW f \in File, NEW i \in Nat, Line(f, i)',
               ~ (f = path /\ i = Len(transcript'[path]))
        PROVE  transcript'[f][i] < N
    <3>1. ~ (f = path /\ i > L /\ i - L \in 1..B)
      BY <1>8, <2>2, <2>3, <2>5
    <3>2. Line(f, i) /\ transcript'[f][i] = transcript[f][i]
      BY <1>13, <2>5, <3>1
    <3>3. transcript[f][i] <= nLines /\ nLines < N
      BY <1>1, <1>10, <2>1, <3>2 DEF TailInv, OrderInv, FilesInOrder
    <3>4. QED
      BY <1>3, <1>14, <3>2, <3>3
  <2>6. QED
    BY <2>4, <2>5
<1>17. PositionInv'
  <2>1. resets' = 0 => offset' <= Len(transcript'[1])
    <3>1. SUFFICES ASSUME resets = 0
                   PROVE  offset <= Len(transcript'[1])
      BY <1>11
    <3>2. path <= 1 /\ offset <= Len(transcript[1])
      BY <3>1 DEF TailInv, OrderInv, FilesInOrder, PositionInv
    <3>3. path = 1
      BY <1>3, <3>2 DEF File
    <3>4. transcript'[1] = new /\ L = Len(transcript[1])
      BY <1>4, <1>6, <1>8, <3>3
    <3>5. QED
      BY <1>3, <1>7, <3>2, <3>4
  <2>2. QED
    BY <1>11, <2>1 DEF TailInv, OrderInv, PositionInv
<1>18. LoggedOnceInOrder' /\ LoggedAreWritten'
  <2>1. \A n \in 1..Len(log) : log[n] < N /\ log[n] <= N
    <3>1. \A n \in 1..Len(log) : log[n] \in Mine
      BY <1>3
    <3>2. Mine \subseteq Nat
      BY TailAssumption
    <3>3. \A n \in 1..Len(log) : log[n] \in Nat /\ log[n] < N
      BY <1>1, <1>10, <3>1, <3>2
    <3>4. N \in Nat
      BY <1>3
    <3>5. QED
      BY <3>3, <3>4
  <2>2. LoggedOnceInOrder'
    BY <1>11 DEF TailInv, OrderInv, LoggedOnceInOrder
  <2>3. QED
    BY <1>10, <1>11, <2>1, <2>2 DEF LoggedAreWritten
<1>19. RestIsNewer'
  <2>1. ReadFrom' = ReadFrom /\ (ReadFrom # NoFile => ReadFrom \in File)
    BY <1>3, <1>11 DEF ReadFrom
  <2>2. ASSUME NEW n \in 1..Len(log), NEW i \in Nat, NEW f \in File, f > ReadFrom, Line(f, i)'
        PROVE  log[n] < transcript'[f][i]
    <3>1. CASE Line(f, i) /\ transcript'[f][i] = transcript[f][i]
      BY <2>2, <3>1 DEF TailInv, OrderInv, RestIsNewer
    <3>2. CASE transcript'[f][i] = N
      BY <1>1, <1>10, <3>2
    <3>3. QED
      BY <1>13, <2>2, <3>1, <3>2
  <2>3. ASSUME NEW n \in 1..Len(log), NEW i \in Nat, ReadFrom # NoFile, Line(ReadFrom, i)',
               i > offset \/ Len(transcript'[ReadFrom]) < offset
        PROVE  log[n] < transcript'[ReadFrom][i]
    <3>1. CASE Line(ReadFrom, i) /\ transcript'[ReadFrom][i] = transcript[ReadFrom][i]
      <4>1. i > offset \/ Len(transcript[ReadFrom]) < offset
        <5>1. CASE ReadFrom = path
          <6>1. L + B < offset => L < offset
            BY <1>3
          <6>2. QED
            BY <1>4, <1>6, <1>7, <1>8, <2>3, <5>1, <6>1
        <5>2. CASE ReadFrom # path
          BY <1>8, <2>1, <2>3, <5>2
        <5>3. QED
          BY <5>1, <5>2
      <4>2. QED
        BY <2>3, <3>1, <4>1 DEF TailInv, OrderInv, RestIsNewer
    <3>2. CASE transcript'[ReadFrom][i] = N
      BY <1>1, <1>10, <3>2
    <3>3. QED
      BY <1>13, <2>1, <2>3, <3>1, <3>2
  <2>4. QED
    BY <1>11, <2>1, <2>2, <2>3 DEF RestIsNewer
<1>20. QED
  BY <1>12, <1>15, <1>16, <1>17, <1>18, <1>19 DEF TailInv, OrderInv
LEMMA CreateKeepsInv ==
    ASSUME TailInv, CreateTranscript
    PROVE  TailInv'
<1>1. /\ path = NoFile /\ path' = 1 /\ handle' = handle /\ transcript' = transcript
      /\ resets' = resets /\ nLines' = nLines /\ partial' = partial /\ log' = log
      /\ offset' = offset /\ tail' = tail /\ tailSpawned' = tailSpawned
  BY DEF CreateTranscript, store, tailing
<1>2. /\ handle = NoFile /\ ~ partial /\ 1 \in File /\ resets \in Nat
      /\ File \subseteq Nat /\ ReadFrom = NoFile /\ ReadFrom' = 1
  <2>1. handle \in {NoFile} \cup File /\ handle <= NoFile
    BY <1>1 DEF TailInv, TypeOK, OrderInv, PositionInv
  <2>2. File \subseteq Nat /\ 1 \in File /\ \A f \in File : f > NoFile
    BY TailAssumption DEF File, NoFile
  <2>3. handle = NoFile
    BY <2>1, <2>2 DEF NoFile
  <2>4. ~ partial /\ resets \in Nat
    BY <1>1, TailAssumption DEF TailInv, TypeOK, OrderInv, PartialIsLast
  <2>5. QED
    BY <1>1, <2>2, <2>3, <2>4 DEF ReadFrom
<1>3. TypeOK'
  BY <1>1, <1>2 DEF CreateTranscript, TailInv, TypeOK, store, hooks, tailing
<1>4. FilesInOrder' /\ PartialIsLast'
  <2>1. \A f \in File : \A i \in Nat : Line(f, i)' <=> Line(f, i)
    BY <1>1 DEF Line
  <2>2. path' <= resets' + 1 /\ \A f \in File : f > path' => transcript'[f] = <<>>
    BY <1>1, <1>2 DEF NoFile, TailInv, OrderInv, FilesInOrder
  <2>3. QED
    BY <1>1, <1>2, <2>1, <2>2 DEF TailInv, OrderInv, FilesInOrder, PartialIsLast
<1>5. PositionInv'
  BY <1>1, <1>2 DEF NoFile, TailInv, OrderInv, PositionInv
<1>6. LoggedOnceInOrder' /\ LoggedAreWritten'
  BY <1>1 DEF TailInv, OrderInv, LoggedOnceInOrder, LoggedAreWritten
<1>7. RestIsNewer'
  <2>1. ASSUME NEW n \in 1..Len(log), NEW i \in Nat, NEW f \in File, Line(f, i)
        PROVE  log[n] < transcript[f][i]
    <3>1. f > ReadFrom
      BY <1>2 DEF File, NoFile
    <3>2. QED
      BY <2>1, <3>1 DEF TailInv, OrderInv, RestIsNewer
  <2>2. QED
    BY <1>1, <1>2, <2>1 DEF RestIsNewer, Line
<1>8. QED
  BY <1>3, <1>4, <1>5, <1>6, <1>7 DEF TailInv, OrderInv

(* What a truncation takes away cannot be logged any more.                   *)
LEMMA TruncateKeepsInv ==
    ASSUME TailInv, Truncate
    PROVE  TailInv'
<1>1. /\ path # NoFile /\ ~ partial /\ resets < MaxResets
      /\ transcript' = [transcript EXCEPT ![path] = <<>>] /\ resets' = resets + 1
      /\ path' = path /\ handle' = handle /\ nLines' = nLines /\ partial' = partial
      /\ log' = log /\ offset' = offset /\ tail' = tail /\ tailSpawned' = tailSpawned
  BY DEF Truncate, store, tailing
<1>2. /\ path \in File /\ File \subseteq Nat /\ resets \in 0..MaxResets /\ MaxResets \in Nat
      /\ transcript \in [File -> Seq(0..MaxLines)] /\ handle \in {NoFile} \cup File
  BY <1>1, TailAssumption DEF TailInv, TypeOK, File
<1>3. transcript'[path] = <<>> /\ \A f \in File \ {path} : transcript'[f] = transcript[f]
  BY <1>1, <1>2
<1>4. /\ transcript' \in [File -> Seq(0..MaxLines)] /\ resets' \in 0..MaxResets
      /\ resets' # 0
  <2>1. <<>> \in Seq(0..MaxLines)
    OBVIOUS
  <2>2. QED
    BY <1>1, <1>2, <2>1
<1>5. TypeOK'
  BY <1>1, <1>4 DEF Truncate, TailInv, TypeOK, store, hooks, tailing
<1>6. \A f \in File : \A i \in Nat :
         Line(f, i)' => f # path /\ Line(f, i) /\ transcript'[f][i] = transcript[f][i]
  <2>1. \A i \in Nat : i \notin 1..Len(<<>>)
    OBVIOUS
  <2>2. QED
    BY <1>3, <2>1 DEF Line
<1>7. FilesInOrder'
  <2>1. path' <= resets' + 1 /\ \A f \in File : f > path' => transcript'[f] = <<>>
    <3>1. path <= resets + 1 /\ \A f \in File : f > path => transcript[f] = <<>>
      BY DEF TailInv, OrderInv, FilesInOrder
    <3>2. path' <= resets' + 1
      BY <1>1, <1>2, <3>1
    <3>3. QED
      BY <1>1, <1>3, <3>1, <3>2
  <2>2. \A f \in File : Ordered(transcript'[f])
    <3>1. \A i, j \in 1..Len(<<>>) : FALSE
      OBVIOUS
    <3>2. Ordered(<<>>)
      BY <3>1 DEF Ordered
    <3>3. QED
      BY <1>3, <3>2 DEF TailInv, OrderInv, FilesInOrder
  <2>3. QED
    BY <1>1, <1>6, <2>1, <2>2 DEF TailInv, OrderInv, FilesInOrder
<1>8. PartialIsLast'
  BY <1>1 DEF PartialIsLast
<1>9. PositionInv'
  BY <1>1, <1>4 DEF TailInv, OrderInv, PositionInv
<1>10. LoggedOnceInOrder' /\ LoggedAreWritten'
  BY <1>1 DEF TailInv, OrderInv, LoggedOnceInOrder, LoggedAreWritten
<1>11. RestIsNewer'
  <2>1. ReadFrom' = ReadFrom /\ (ReadFrom # NoFile => ReadFrom \in File)
    BY <1>1, <1>2 DEF ReadFrom
  <2>2. ASSUME NEW n \in 1..Len(log), NEW i \in Nat, NEW f \in File, f > ReadFrom, Line(f, i)'
        PROVE  log[n] < transcript'[f][i]
    BY <1>6, <2>2 DEF TailInv, OrderInv, RestIsNewer
  <2>3. ASSUME NEW n \in 1..Len(log), NEW i \in Nat, ReadFrom # NoFile, Line(ReadFrom, i)',
               i > offset \/ Len(transcript'[ReadFrom]) < offset
        PROVE  log[n] < transcript'[ReadFrom][i]
    <3>1. ReadFrom # path /\ Line(ReadFrom, i) /\ ReadFrom \in File
      BY <1>6, <2>1, <2>3
    <3>2. transcript'[ReadFrom] = transcript[ReadFrom]
      BY <1>3, <3>1
    <3>3. QED
      BY <2>3, <3>1, <3>2 DEF TailInv, OrderInv, RestIsNewer
  <2>4. QED
    BY <1>1, <2>1, <2>2, <2>3 DEF RestIsNewer
<1>12. QED
  BY <1>5, <1>7, <1>8, <1>9, <1>10, <1>11 DEF TailInv, OrderInv

LEMMA RotateKeepsInv ==
    ASSUME TailInv, Rotate
    PROVE  TailInv'
<1>1. /\ path # NoFile /\ ~ partial /\ resets < MaxResets
      /\ transcript' = transcript /\ resets' = resets + 1 /\ path' = path + 1
      /\ handle' = handle /\ nLines' = nLines /\ partial' = partial
      /\ log' = log /\ offset' = offset /\ tail' = tail /\ tailSpawned' = tailSpawned
  BY DEF Rotate, store, tailing
<1>2. /\ path \in File /\ File \subseteq Nat /\ resets \in 0..MaxResets /\ MaxResets \in Nat
      /\ handle \in {NoFile} \cup File /\ path <= resets + 1 /\ handle <= path
  BY <1>1, TailAssumption DEF TailInv, TypeOK, File, OrderInv, FilesInOrder, PositionInv
<1>3. path' \in File /\ path < path' /\ resets' \in 0..MaxResets /\ resets' # 0
  BY <1>1, <1>2 DEF File
<1>4. TypeOK'
  BY <1>1, <1>3 DEF Rotate, TailInv, TypeOK, store, hooks, tailing
<1>5. \A f \in File : \A i \in Nat : Line(f, i)' <=> Line(f, i)
  BY <1>1 DEF Line
<1>6. FilesInOrder'
  <2>1. path' <= resets' + 1
    BY <1>1, <1>2
  <2>2. \A f \in File : f > path' => f > path
    BY <1>2, <1>3
  <2>3. QED
    BY <1>1, <1>5, <2>1, <2>2 DEF TailInv, OrderInv, FilesInOrder
<1>7. PartialIsLast'
  BY <1>1 DEF PartialIsLast
<1>8. PositionInv'
  <2>1. handle' <= path'
    BY <1>1, <1>2, <1>3 DEF NoFile
  <2>2. QED
    BY <1>1, <1>3, <2>1 DEF TailInv, OrderInv, PositionInv
<1>9. LoggedOnceInOrder' /\ LoggedAreWritten'
  BY <1>1 DEF TailInv, OrderInv, LoggedOnceInOrder, LoggedAreWritten
<1>10. RestIsNewer'
  <2>1. CASE handle = NoFile
    <3>1. ReadFrom = path /\ ReadFrom' = path'
      BY <1>1, <2>1 DEF ReadFrom
    <3>2. \A f \in File : f > path' => f > path
      BY <1>2, <1>3
    <3>3. path' > path
      BY <1>2, <1>3
    <3>4. QED
      BY <1>1, <1>3, <1>5, <3>1, <3>2, <3>3 DEF TailInv, OrderInv, RestIsNewer
  <2>2. CASE handle # NoFile
    <3>1. ReadFrom = handle /\ ReadFrom' = handle
      BY <1>1, <2>2 DEF ReadFrom
    <3>2. QED
      BY <1>1, <1>2, <1>5, <2>2, <3>1 DEF TailInv, OrderInv, RestIsNewer
  <2>3. QED
    BY <2>1, <2>2
<1>11. QED
  BY <1>4, <1>6, <1>7, <1>8, <1>9, <1>10 DEF TailInv, OrderInv

-----------------------------------------------------------------------------
(* What a step of the task or of a hook may leave alone *)

LEMMA FilesKept ==
    ASSUME TailInv, UNCHANGED writer
    PROVE  /\ FilesInOrder' /\ PartialIsLast'
           /\ \A f \in File : \A i \in Nat : Line(f, i)' <=> Line(f, i)
<1>1. /\ transcript' = transcript /\ path' = path /\ resets' = resets /\ nLines' = nLines
      /\ partial' = partial
  BY DEF writer
<1>2. \A f \in File : \A i \in Nat : Line(f, i)' <=> Line(f, i)
  BY <1>1 DEF Line
<1>3. FilesInOrder'
  BY <1>1, <1>2 DEF TailInv, OrderInv, FilesInOrder
<1>4. PartialIsLast'
  <2>1. (path # NoFile /\ Line(path, Len(transcript[path])))' <=>
            (path # NoFile /\ Line(path, Len(transcript[path])))
    BY <1>1 DEF Line
  <2>2. QED
    BY <1>1, <1>2, <2>1 DEF TailInv, OrderInv, PartialIsLast
<1>5. QED
  BY <1>2, <1>3, <1>4

(* The log is safe when the task goes on in a file that is not older, and    *)
(* when it is the same file, from no earlier place.                          *)
LEMMA LogKept ==
    ASSUME TailInv, UNCHANGED <<writer, log>>, ReadFrom \in Nat, ReadFrom' \in Nat,
           ReadFrom' # NoFile => ReadFrom' \in File,
           ReadFrom' >= ReadFrom,
           \/ ReadFrom' > ReadFrom
           \/ offset' = offset
           \/ Len(transcript[ReadFrom]) < offset
    PROVE  LoggedOnceInOrder' /\ LoggedAreWritten' /\ RestIsNewer'
<1>1. /\ transcript' = transcript /\ path' = path /\ nLines' = nLines
      /\ partial' = partial /\ log' = log
  BY DEF writer
<1>2. \A f \in File : \A i \in Nat : Line(f, i)' <=> Line(f, i)
  BY FilesKept
<1>3. LoggedOnceInOrder' /\ LoggedAreWritten'
  BY <1>1 DEF TailInv, OrderInv, LoggedOnceInOrder, LoggedAreWritten
<1>4. PICK g \in Nat : g = ReadFrom'
  OBVIOUS
<1>5. File \subseteq Nat
  BY TailAssumption DEF File
<1>6. RestIsNewer
  BY DEF TailInv, OrderInv
<1>7. ASSUME NEW n \in 1..Len(log), NEW i \in Nat, NEW f \in File, f > g, Line(f, i)
      PROVE  log[n] < transcript[f][i]
  <2>1. f > ReadFrom
    BY <1>4, <1>5, <1>7
  <2>2. QED
    BY <1>6, <1>7, <2>1 DEF RestIsNewer
<1>8. ASSUME NEW n \in 1..Len(log), NEW i \in Nat, g # NoFile, Line(g, i)',
             i > offset' \/ Len(transcript[g]) < offset'
      PROVE  log[n] < transcript[g][i]
  <2>1. g \in File /\ Line(g, i)
    BY <1>2, <1>4, <1>8
  <2>2. CASE g > ReadFrom
    BY <1>6, <2>1, <2>2 DEF RestIsNewer
  <2>3. CASE g = ReadFrom
    <3>1. i > offset \/ Len(transcript[ReadFrom]) < offset
      BY <1>4, <1>8, <2>3
    <3>2. QED
      BY <1>6, <1>8, <2>1, <2>3, <3>1 DEF RestIsNewer
  <2>4. QED
    BY <1>4, <2>2, <2>3
<1>9. RestIsNewer'
  BY <1>1, <1>2, <1>4, <1>7, <1>8 DEF RestIsNewer
<1>10. QED
  BY <1>3, <1>9
LEMMA PlacesTyped ==
    ASSUME TailInv
    PROVE  /\ File \subseteq Nat /\ NoFile \in Nat /\ NoFile \notin File
           /\ ReadFrom \in Nat /\ (ReadFrom # NoFile => ReadFrom \in File)
           /\ ReadFrom <= path /\ path \in Nat /\ (path # NoFile => path \in File)
<1>1. File \subseteq Nat /\ NoFile \in Nat /\ NoFile \notin File
  BY TailAssumption DEF File, NoFile
<1>2. path \in {NoFile} \cup File /\ handle \in {NoFile} \cup File /\ handle <= path
  BY DEF TailInv, TypeOK, OrderInv, PositionInv
<1>3. QED
  BY <1>1, <1>2 DEF ReadFrom

LEMMA SteadyKeepsOrder ==
    ASSUME TailInv, UNCHANGED <<writer, log, handle, offset, tailSpawned>>,
           tail' = "none" <=> tail = "none", tail' = "read" => handle # NoFile
    PROVE  OrderInv'
<1>1. FilesInOrder' /\ PartialIsLast'
  BY FilesKept
<1>2. path' = path /\ resets' = resets /\ transcript' = transcript
  BY DEF writer
<1>3. ReadFrom' = ReadFrom
  BY <1>2 DEF ReadFrom
<1>4. ReadFrom \in Nat /\ (ReadFrom # NoFile => ReadFrom \in File) /\ ReadFrom >= ReadFrom
  BY PlacesTyped
<1>5. LoggedOnceInOrder' /\ LoggedAreWritten' /\ RestIsNewer'
  BY <1>3, <1>4, LogKept
<1>6. PositionInv'
  BY <1>2 DEF TailInv, OrderInv, PositionInv
<1>7. QED
  BY <1>1, <1>5, <1>6 DEF OrderInv

-----------------------------------------------------------------------------
(* The hooks and the handlers of their requests *)

LEMMA HooksKeepInv ==
    ASSUME TailInv, SendStart \/ SendStop \/ \E r \in requests : LoseRequest(r)
    PROVE  TailInv'
<1>1. UNCHANGED <<store, writer, tailing>>
  BY DEF SendStart, SendStop, LoseRequest
<1>2. OrderInv'
  BY <1>1, SteadyKeepsOrder DEF store, tailing, TailInv, OrderInv, PositionInv
<1>3. /\ requests \subseteq Request /\ nStarts \in 0..MaxRequests /\ nStops \in 0..MaxRequests
      /\ MaxRequests \in Nat
  BY TailAssumption DEF TailInv, TypeOK
<1>4. /\ requests' \subseteq Request /\ nStarts' \in 0..MaxRequests /\ nStops' \in 0..MaxRequests
  <2>1. CASE SendStart
    <3>1. nStarts' = nStarts + 1 /\ nStarts < MaxRequests /\ nStops' = nStops
      BY <2>1 DEF SendStart
    <3>2. PICK withPath \in BOOLEAN :
             requests' = requests \cup {[kind |-> "Start", no |-> nStarts', path |-> withPath]}
      BY <2>1 DEF SendStart
    <3>3. nStarts' \in 1..MaxRequests
      BY <1>3, <3>1
    <3>4. [kind |-> "Start", no |-> nStarts', path |-> withPath] \in Request
      BY <3>3 DEF Request
    <3>5. QED
      BY <1>3, <3>1, <3>2, <3>3, <3>4
  <2>2. CASE SendStop
    <3>1. /\ nStops' = nStops + 1 /\ nStops < MaxRequests /\ nStarts' = nStarts
          /\ requests' = requests \cup {[kind |-> "Stop", no |-> nStops', path |-> FALSE]}
      BY <2>2 DEF SendStop
    <3>2. nStops' \in 1..MaxRequests
      BY <1>3, <3>1
    <3>3. [kind |-> "Stop", no |-> nStops', path |-> FALSE] \in Request
      BY <3>2 DEF Request
    <3>4. requests' \subseteq Request
      BY <1>3, <3>1, <3>3
    <3>5. nStops' \in 0..MaxRequests /\ nStarts' \in 0..MaxRequests
      BY <1>3, <3>1, <3>2
    <3>6. QED
      BY <3>4, <3>5
  <2>3. CASE \E r \in requests : LoseRequest(r)
    BY <1>3, <2>3 DEF LoseRequest
  <2>4. QED
    BY <2>1, <2>2, <2>3
<1>5. TypeOK'
  BY <1>1, <1>4 DEF store, writer, tailing, TailInv, TypeOK
<1>6. QED
  BY <1>2, <1>5 DEF TailInv

(* The first Start with a path starts the task, before anything was logged.  *)
LEMMA HandleStartKeepsInv ==
    ASSUME TailInv, NEW r \in requests, HandleStart(r)
    PROVE  TailInv'
<1>1. /\ UNCHANGED <<log, nStarts, nStops, writer>> /\ requests' \subseteq requests
      /\ status' = "Running"
  BY DEF HandleStart
<1>2. CASE ~ tailSpawned /\ tailSpawned' = TRUE /\ StartTail
  <2>1. /\ tail' = "check" /\ handle' = NoFile /\ offset' = 0 /\ lastSize' = 0 /\ size' = 0
        /\ since' = -1 /\ final' = FALSE /\ tailSpawned' = TRUE
    BY <1>2 DEF StartTail
  <2>2. log = <<>> /\ log' = <<>>
    BY <1>1, <1>2 DEF TailInv, OrderInv, PositionInv
  <2>3. path' = path /\ resets' = resets /\ transcript' = transcript
    BY <1>1 DEF writer
  <2>4. TypeOK'
    <3>1. -1 \in -1..Grace
      BY TailAssumption
    <3>2. QED
      BY <1>1, <2>1, <3>1 DEF writer, TailInv, TypeOK
  <2>5. FilesInOrder' /\ PartialIsLast'
    BY <1>1, FilesKept
  <2>6. PositionInv'
    <3>1. NoFile <= path'
      BY <2>3, PlacesTyped DEF NoFile
    <3>2. 0 <= Len(transcript[1])
      <4>1. transcript[1] \in Seq(0..MaxLines)
        BY TailAssumption DEF TailInv, TypeOK, File
      <4>2. QED
        BY <4>1
    <3>3. QED
      BY <2>1, <2>2, <2>3, <3>1, <3>2 DEF PositionInv
  <2>7. LoggedOnceInOrder' /\ LoggedAreWritten' /\ RestIsNewer'
    <3>1. \A n \in 1..Len(log') : FALSE
      BY <2>2
    <3>2. QED
      BY <3>1 DEF LoggedOnceInOrder, LoggedAreWritten, RestIsNewer
  <2>8. QED
    BY <2>4, <2>5, <2>6, <2>7 DEF TailInv, OrderInv
<1>3. CASE UNCHANGED <<tailSpawned, tailing>>
  <2>1. OrderInv'
    BY <1>1, <1>3, SteadyKeepsOrder DEF tailing, TailInv, OrderInv, PositionInv
  <2>2. TypeOK'
    BY <1>1, <1>3 DEF writer, tailing, TailInv, TypeOK
  <2>3. QED
    BY <2>1, <2>2 DEF TailInv
<1>4. QED
  BY <1>2, <1>3 DEF HandleStart

LEMMA HandleStopKeepsInv ==
    ASSUME TailInv, NEW r \in requests, HandleStop(r)
    PROVE  TailInv'
<1>1. /\ UNCHANGED <<log, tailSpawned, nStarts, nStops, writer, tailing>>
      /\ requests' \subseteq requests /\ status' \in {"none", "Completed"}
  BY DEF HandleStop
<1>2. OrderInv'
  BY <1>1, SteadyKeepsOrder DEF tailing, TailInv, OrderInv, PositionInv
<1>3. TypeOK'
  BY <1>1 DEF writer, tailing, TailInv, TypeOK
<1>4. QED
  BY <1>2, <1>3 DEF TailInv

-----------------------------------------------------------------------------
(* The task, between its reads *)

LEMMA CheckStatusKeepsInv ==
    ASSUME TailInv, CheckStatus
    PROVE  TailInv'
<1>1. /\ tail = "check" /\ tail' = "measure" /\ since' \in Since /\ final' \in BOOLEAN
      /\ UNCHANGED <<store, hooks, writer, handle, offset, lastSize, size>>
  BY DEF CheckStatus
<1>2. since' \in -1..Grace
  <2>1. since \in -1..Grace /\ Grace \in Nat \ {0}
    BY TailAssumption DEF TailInv, TypeOK
  <2>2. CASE since >= 0
    <3>1. PICK a \in Nat, b \in Nat : a = since + 1 /\ b = Grace
      BY <2>1, <2>2
    <3>2. {a, b} \subseteq Int /\ \E x \in {a, b} : \A y \in {a, b} : x <= y
      OBVIOUS
    <3>3. PICK m \in {a, b} : \A y \in {a, b} : m <= y
      BY <3>2
    <3>4. Min({a, b}) = m
      BY <3>2, <3>3, MinIs
    <3>5. since' \in m..Grace
      BY <1>1, <2>2, <3>1, <3>4 DEF Since
    <3>6. m \in Nat
      BY <3>3
    <3>7. QED
      BY <2>1, <3>5, <3>6
  <2>3. CASE ~ (since >= 0)
    <3>1. since' \in {0, since}
      BY <1>1, <2>3 DEF Since
    <3>2. 0 \in -1..Grace
      BY <2>1
    <3>3. QED
      BY <2>1, <3>1, <3>2
  <2>4. QED
    BY <2>2, <2>3
<1>3. TypeOK'
  BY <1>1, <1>2 DEF store, hooks, writer, TailInv, TypeOK
<1>4. OrderInv'
  BY <1>1, SteadyKeepsOrder DEF store
<1>5. QED
  BY <1>3, <1>4 DEF TailInv

LEMMA IdleKeepsInv ==
    ASSUME TailInv, Sleep \/ NoTranscript
    PROVE  TailInv'
<1>1. /\ tail \in {"measure", "sleep"} /\ tail' \in {"check", "sleep", "done"}
      /\ UNCHANGED <<store, hooks, writer, handle, offset, lastSize, size, since, final>>
  BY DEF Sleep, NoTranscript, AfterRead
<1>2. TypeOK'
  BY <1>1 DEF store, hooks, writer, TailInv, TypeOK
<1>3. OrderInv'
  BY <1>1, SteadyKeepsOrder DEF store
<1>4. QED
  BY <1>2, <1>3 DEF TailInv

(* A file that got shorter is given up, and the next read starts over.       *)
LEMMA MeasureKeepsInv ==
    ASSUME TailInv, Measure
    PROVE  TailInv'
<1>1. PICK f : f = ReadFrom
  OBVIOUS
<1>2. PICK n : n = Len(transcript[f])
  OBVIOUS
<1>3. /\ tail = "measure" /\ f # NoFile
      /\ \/ /\ n < offset
            /\ handle' = NoFile /\ offset' = 0 /\ lastSize' = 0 /\ size' = 0
            /\ tail' \in {"sleep", "done"}
         \/ /\ n >= offset /\ handle' = f /\ size' \in {0, n} /\ lastSize' \in {n, lastSize}
            /\ tail' \in {"sleep", "done", "read"} /\ offset' = offset
         \/ /\ n > offset /\ handle' = f /\ size' = n /\ lastSize' = lastSize
            /\ tail' = "read" /\ offset' = offset
      /\ UNCHANGED <<store, hooks, writer, since, final>>
  BY <1>1, <1>2 DEF Measure, ReadFrom, AfterRead
<1>4. /\ f \in File /\ f \in Nat /\ f <= path /\ path \in Nat /\ path # NoFile
      /\ path \in File /\ NoFile \in Nat /\ offset \in Nat
  BY <1>1, <1>3, PlacesTyped DEF TailInv, TypeOK, NoFile
<1>5. n \in Nat
  <2>1. transcript[f] \in Seq(0..MaxLines)
    BY <1>4 DEF TailInv, TypeOK
  <2>2. QED
    BY <1>2, <2>1
<1>6. /\ handle' \in {NoFile, f} /\ offset' \in {0, offset} /\ size' \in Nat
      /\ lastSize' \in Nat /\ tail' \in {"sleep", "done", "read"}
      /\ tail' = "read" => handle' = f
  BY <1>3, <1>5 DEF TailInv, TypeOK
<1>7. TypeOK'
  BY <1>3, <1>4, <1>6 DEF store, hooks, writer, TailInv, TypeOK
<1>8. FilesInOrder' /\ PartialIsLast'
  BY <1>3, FilesKept
<1>9. /\ path' = path /\ resets' = resets /\ transcript' = transcript /\ log' = log
      /\ tailSpawned' = tailSpawned
  BY <1>3 DEF writer, store
<1>10. PositionInv'
  <2>1. handle' <= path' /\ (tail' = "read" => handle' # NoFile)
    BY <1>3, <1>4, <1>6, <1>9 DEF NoFile
  <2>2. resets' = 0 => offset' <= Len(transcript'[1])
    <3>1. transcript[1] \in Seq(0..MaxLines)
      BY TailAssumption DEF TailInv, TypeOK, File
    <3>2. 0 <= Len(transcript[1])
      BY <3>1
    <3>3. QED
      BY <1>6, <1>9, <3>2 DEF TailInv, OrderInv, PositionInv
  <2>3. QED
    BY <1>3, <1>6, <1>9, <2>1, <2>2 DEF TailInv, OrderInv, PositionInv
<1>11. LoggedOnceInOrder' /\ LoggedAreWritten' /\ RestIsNewer'
  <2>1. /\ ReadFrom \in Nat /\ ReadFrom' \in Nat /\ ReadFrom' \in File
        /\ ReadFrom' >= ReadFrom
        /\ (ReadFrom' = path \/ ReadFrom' = f)
        /\ (handle' = f => ReadFrom' = f)
    <3>1. f \in File /\ f # NoFile /\ NoFile \notin File
      BY <1>3, <1>4, PlacesTyped
    <3>2. /\ handle' = NoFile => ReadFrom' = path
          /\ handle' = f => ReadFrom' = f
      BY <1>9, <3>1 DEF ReadFrom
    <3>3. ReadFrom' = path \/ ReadFrom' = f
      BY <1>6, <3>2
    <3>4. path \in Nat /\ path >= f /\ f >= f /\ File \subseteq Nat
      BY <1>4, PlacesTyped
    <3>5. QED
      BY <1>1, <1>4, <3>2, <3>3, <3>4
  <2>2. CASE handle' = NoFile /\ n < offset
    <3>1. Len(transcript[ReadFrom]) < offset
      BY <1>1, <1>2, <2>2
    <3>2. UNCHANGED <<writer, log>>
      BY <1>3, <1>9
    <3>3. QED
      BY <2>1, <3>1, <3>2, LogKept
  <2>3. CASE offset' = offset
    <3>1. UNCHANGED <<writer, log>>
      BY <1>3, <1>9
    <3>2. QED
      BY <2>1, <2>3, <3>1, LogKept
  <2>4. QED
    BY <1>3, <2>2, <2>3
<1>12. QED
  BY <1>7, <1>8, <1>10, <1>11 DEF TailInv, OrderInv

(* After an error the file is opened again, at the same offset: it may by    *)
(* then be a later one.                                                      *)
LEMMA ReadErrorKeepsInv ==
    ASSUME TailInv, ReadError
    PROVE  TailInv'
<1>1. /\ tail \in {"measure", "read"} /\ handle # NoFile /\ handle' = NoFile /\ size' = 0
      /\ tail' \in {"sleep", "done"}
      /\ UNCHANGED <<store, hooks, writer, offset, lastSize, since, final>>
  BY DEF ReadError, AfterRead
<1>2. /\ path' = path /\ resets' = resets /\ transcript' = transcript /\ log' = log
      /\ tailSpawned' = tailSpawned
  BY <1>1 DEF writer, store
<1>3. TypeOK'
  BY <1>1 DEF store, hooks, writer, TailInv, TypeOK
<1>4. FilesInOrder' /\ PartialIsLast'
  BY <1>1, FilesKept
<1>5. PositionInv'
  <2>1. NoFile <= path
    BY PlacesTyped DEF NoFile
  <2>2. QED
    BY <1>1, <1>2, <2>1 DEF TailInv, OrderInv, PositionInv
<1>6. LoggedOnceInOrder' /\ LoggedAreWritten' /\ RestIsNewer'
  <2>1. ReadFrom' = path
    BY <1>1, <1>2 DEF ReadFrom
  <2>2. /\ ReadFrom \in Nat /\ ReadFrom' \in Nat /\ (ReadFrom' # NoFile => ReadFrom' \in File)
        /\ ReadFrom' >= ReadFrom
    BY <2>1, PlacesTyped
  <2>3. UNCHANGED <<writer, log>> /\ offset' = offset
    BY <1>1, <1>2
  <2>4. QED
    BY <2>2, <2>3, LogKept
<1>7. QED
  BY <1>3, <1>4, <1>5, <1>6 DEF TailInv, OrderInv
-----------------------------------------------------------------------------
(* A read *)

(* A run of no bytes holds no line.                                          *)
LEMMA NoLines ==
    ASSUME NEW t, NEW a \in Int, NEW b \in Int, b <= a + 1
    PROVE  LinesAt(t, a, b) = {} /\ Ascending(LinesAt(t, a, b)) = <<>>
<1>1. LinesAt(t, a, b) = {}
  <2>1. a..(b - 2) = {}
    OBVIOUS
  <2>2. QED
    BY <2>1 DEF LinesAt
<1>2. Ascending(LinesAt(t, a, b)) \in Seq({})
  BY <1>1, LinesEnumerated DEF Enumerates
<1>3. Ascending(LinesAt(t, a, b)) = <<>>
  <2>1. PICK s \in Seq({}) : s = Ascending(LinesAt(t, a, b))
    BY <1>2
  <2>2. Len(s) = 0
    <3>1. Len(s) \in Nat /\ \A i \in 1..Len(s) : FALSE
      BY <2>1
    <3>2. QED
      BY <3>1
  <2>3. s = <<>>
    BY <2>1, <2>2
  <2>4. QED
    BY <2>1, <2>3
<1>4. QED
  BY <1>1, <1>3

(* The k elements of a sequence after the first a.                           *)
IsPart(u, S, s, a, k) == u \in Seq(S) /\ Len(u) = k /\ \A i \in 1..k : u[i] = s[a + i]

LEMMA PartFacts ==
    ASSUME NEW S, NEW s \in Seq(S), NEW a \in Nat, NEW k \in Nat, k > 0 => a + k <= Len(s)
    PROVE  IsPart(SubSeq(s, a + 1, a + k), S, s, a, k)
<1>1. PICK m \in Int, n \in Int : m = a + 1 /\ n = a + k
  OBVIOUS
<1>2. Len(s) \in Nat /\ \A i \in 1..Len(s) : s[i] \in S
  BY SMT
<1>3. \A i \in m..n : i \in 1..Len(s)
  BY <1>1, <1>2
<1>4. \A i \in m..n : s[i] \in S
  BY <1>2, <1>3
<1>5. PICK u : u = SubSeq(s, m, n)
  OBVIOUS
<1>6. /\ u \in Seq(S) /\ Len(u) = IF m <= n THEN n - m + 1 ELSE 0
      /\ \A i \in 1..(n - m + 1) : u[i] = s[m + i - 1]
  BY <1>4, <1>5, SubSeqProperties
<1>7. Len(u) = k
  BY <1>1, <1>6
<1>8. ASSUME NEW i \in 1..k
      PROVE  u[i] = s[a + i]
  <2>1. i \in 1..(n - m + 1) /\ m + i - 1 = a + i
    BY <1>1
  <2>2. QED
    BY <1>6, <2>1
<1>9. QED
  BY <1>1, <1>5, <1>6, <1>7, <1>8 DEF IsPart

(* A read moves the offset past a newline, or not at all, and logs the lines *)
(* in between.                                                               *)
LEMMA ReadFacts ==
    ASSUME TailInv, ReadLines
    PROVE  \E p \in Nat :
              /\ offset' = offset + p
              /\ p > 0 => /\ offset + p <= Len(transcript[handle])
                          /\ transcript[handle][offset + p] = Newline
              /\ log' = Latest(log \o
                            Ascending(LinesAt(transcript[handle], offset + 1, offset + p)))
<1>1. PICK t : t = transcript[handle]
  OBVIOUS
<1>2. t \in Seq(0..MaxLines) /\ offset \in Nat /\ size \in Nat /\ MaxRead \in Nat \ {0}
  <2>1. handle \in File
    BY DEF ReadLines, TailInv, TypeOK, OrderInv, PositionInv
  <2>2. QED
    BY <1>1, <2>1, TailAssumption DEF TailInv, TypeOK
<1>3. PICK wanted : wanted = Min({size - offset, MaxRead, Len(t) - offset})
  OBVIOUS
<1>4. wanted \in Int /\ wanted <= Len(t) - offset
  <2>1. PICK a \in Int, b \in Int, c \in Int :
           a = size - offset /\ b = MaxRead /\ c = Len(t) - offset
    BY <1>2
  <2>2. {a, b, c} \subseteq Int /\ \E x \in {a, b, c} : \A y \in {a, b, c} : x <= y
    OBVIOUS
  <2>3. PICK x \in {a, b, c} : \A y \in {a, b, c} : x <= y
    BY <2>2
  <2>4. Min({a, b, c}) = x
    BY <2>2, <2>3, MinIs
  <2>5. QED
    BY <1>3, <2>1, <2>3, <2>4
<1>5. PICK k \in IF wanted > 0 THEN 1..wanted ELSE {0} :
         /\ offset' = OffsetAfter(SubSeq(t, offset + 1, offset + k))
         /\ log' = AppendLog(WholeLines(
                       SubSeq(SubSeq(t, offset + 1, offset + k), 1,
                              ProcessUntil(SubSeq(t, offset + 1, offset + k)))))
  BY <1>1, <1>3 DEF ReadLines
<1>6. PICK buf : buf = SubSeq(t, offset + 1, offset + k)
  OBVIOUS
<1>7. PICK p : p = ProcessUntil(buf)
  OBVIOUS
<1>8. k \in Nat /\ (k > 0 => offset + k <= Len(t))
  BY <1>2, <1>4, <1>5
<1>9. /\ buf \in Seq(0..MaxLines) /\ Len(buf) = k
      /\ \A i \in 1..k : buf[i] = t[offset + i]
  <2>1. IsPart(SubSeq(t, offset + 1, offset + k), 0..MaxLines, t, offset, k)
    BY <1>2, <1>8, PartFacts
  <2>2. QED
    BY <1>6, <2>1 DEF IsPart
<1>10. p \in 0..k /\ (p > 0 => buf[p] = Newline)
  <2>1. {0} \cup {i \in 1..k : buf[i] = Newline} \subseteq 0..k
    BY <1>8
  <2>2. p = Max({0} \cup {i \in 1..k : buf[i] = Newline})
    BY <1>7, <1>9 DEF ProcessUntil
  <2>3. p \in {0} \cup {i \in 1..k : buf[i] = Newline}
    BY <1>8, <2>1, <2>2, MaxOfBounded
  <2>4. QED
    BY <2>1, <2>3
<1>11. p \in Nat /\ offset' = offset + p
  BY <1>5, <1>6, <1>7, <1>10, <1>8 DEF OffsetAfter
<1>12. p > 0 => offset + p <= Len(t) /\ t[offset + p] = Newline
  BY <1>2, <1>8, <1>9, <1>10, <1>11
<1>13. SubSeq(buf, 1, p) = SubSeq(t, offset + 1, offset + p)
  <2>1. PICK u, v : u = SubSeq(buf, 1, p) /\ v = SubSeq(t, offset + 1, offset + p)
    OBVIOUS
  <2>2. u \in Seq(0..MaxLines) /\ Len(u) = p /\ \A i \in 1..p : u[i] = buf[i]
    <3>1. 0 + 1 = 1 /\ 0 + p = p /\ 0 \in Nat /\ (p > 0 => 0 + p <= Len(buf))
          /\ \A i \in 1..p : 0 + i = i
      BY <1>8, <1>9, <1>10, <1>11
    <3>2. IsPart(SubSeq(buf, 0 + 1, 0 + p), 0..MaxLines, buf, 0, p)
      BY <1>9, <1>11, <3>1, PartFacts
    <3>3. IsPart(u, 0..MaxLines, buf, 0, p)
      BY <2>1, <3>1, <3>2
    <3>4. QED
      BY <3>1, <3>3 DEF IsPart
  <2>3. v \in Seq(0..MaxLines) /\ Len(v) = p /\ \A i \in 1..p : v[i] = t[offset + i]
    <3>1. IsPart(SubSeq(t, offset + 1, offset + p), 0..MaxLines, t, offset, p)
      BY <1>2, <1>11, <1>12, PartFacts
    <3>2. QED
      BY <2>1, <3>1 DEF IsPart
  <2>4. \A i \in 1..p : i \in 1..k
    BY <1>8, <1>10
  <2>5. \A i \in 1..Len(u) : u[i] = v[i]
    BY <1>9, <2>2, <2>3, <2>4
  <2>6. u = v
    BY <2>2, <2>3, <2>5, SeqEqual
  <2>7. QED
    BY <2>1, <2>6
<1>14. WholeLines(SubSeq(t, offset + 1, offset + p)) =
          Ascending(LinesAt(t, offset + 1, offset + p))
  <2>1. CASE p > 0
    <3>1. offset + 1 \in Nat /\ offset + p \in Nat /\ offset + 1 >= 1
          /\ offset + 1 <= offset + p + 1 /\ offset + p <= Len(t)
      BY <1>2, <1>11, <1>12, <2>1
    <3>2. QED
      BY <1>2, <3>1, LinesOfPart
  <2>2. CASE ~ (p > 0)
    <3>1. p = 0 /\ offset + p = offset
      BY <1>2, <1>11, <2>2
    <3>2. SubSeq(t, offset + 1, offset + p) = <<>>
      BY <1>2, <3>1, SubSeqEmpty
    <3>3. <<>> = SubSeq(<<>>, 1, 0)
      BY SubSeqEmpty
    <3>4. WholeLines(SubSeq(<<>>, 1, 0)) = Ascending(LinesAt(<<>>, 1, 0))
      <4>0. <<>> \in Seq(0..MaxLines) /\ 0 \in Nat /\ 1 \in Nat
        OBVIOUS
      <4>1. PICK e \in Seq(0..MaxLines), b \in Nat, a \in Nat : e = <<>> /\ b = 0 /\ a = 1
        BY <4>0, Zenon
      <4>2. a >= 1 /\ a <= b + 1 /\ b <= Len(e)
        BY <4>1
      <4>3. QED
        BY <4>1, <4>2, LinesOfPart
    <3>5. Ascending(LinesAt(<<>>, 1, 0)) = <<>>
      BY NoLines
    <3>6. Ascending(LinesAt(t, offset + 1, offset + p)) = <<>>
      <4>1. offset + 1 \in Int /\ offset + p \in Int /\ offset + p <= offset + 1 + 1
        BY <1>2, <3>1
      <4>2. QED
        BY <4>1, NoLines
    <3>7. QED
      BY <3>2, <3>3, <3>4, <3>5, <3>6
  <2>3. QED
    BY <2>1, <2>2
<1>15. log' = Latest(log \o Ascending(LinesAt(t, offset + 1, offset + p)))
  BY <1>5, <1>6, <1>7, <1>13, <1>14 DEF AppendLog, Latest
<1>16. QED
  BY <1>1, <1>11, <1>12, <1>15
(* What a read logs: lines between the old offset and the new one.           *)
LEMMA ReadKeepsInv ==
    ASSUME TailInv, ReadLines
    PROVE  TailInv'
<1>1. PICK t, h : t = transcript[handle] /\ h = handle
  OBVIOUS
<1>2. PICK o \in Nat : o = offset
  BY DEF TailInv, TypeOK
<1>3. PICK p \in Nat :
         /\ offset' = o + p
         /\ p > 0 => o + p <= Len(t) /\ t[o + p] = Newline
         /\ log' = Latest(log \o Ascending(LinesAt(t, o + 1, o + p)))
  BY <1>1, <1>2, ReadFacts
<1>4. PICK W : W = Ascending(LinesAt(t, o + 1, o + p))
  OBVIOUS
<1>5. /\ tail = "read" /\ lastSize' = size /\ size' = 0 /\ tail' \in {"sleep", "done"}
      /\ UNCHANGED <<status, tailSpawned, hooks, writer, handle, since, final>>
  BY DEF ReadLines, AfterRead
<1>6. path' = path /\ resets' = resets /\ transcript' = transcript
      /\ nLines' = nLines /\ partial' = partial /\ handle' = h /\ tailSpawned' = tailSpawned
  BY <1>1, <1>5 DEF writer
<1>7. /\ h \in File /\ h # NoFile /\ ReadFrom = h /\ ReadFrom' = h /\ File \subseteq Nat
      /\ h <= path
  BY <1>1, <1>5, <1>6, PlacesTyped
     DEF TailInv, TypeOK, OrderInv, PositionInv, ReadFrom
<1>8. t \in Seq(0..MaxLines) /\ MaxLines \in Nat /\ nLines \in 0..MaxLines /\ Len(t) \in Nat
  <2>1. t \in Seq(0..MaxLines)
    BY <1>1, <1>7 DEF TailInv, TypeOK
  <2>2. QED
    BY <2>1, TailAssumption DEF TailInv, TypeOK
<1>9. Mine \subseteq Nat /\ Newline \notin Mine
  BY TailAssumption DEF Newline
<1>10. /\ W \in Seq(Mine) /\ Ascends(W)
       /\ \A x \in 1..Len(W) : W[x] \in LinesAt(t, o + 1, o + p)
  <2>1. Enumerates(W, LinesAt(t, o + 1, o + p)) /\ W \in Seq(Mine)
    BY <1>4, LinesEnumerated
  <2>2. PICK T : T = LinesAt(t, o + 1, o + p)
    OBVIOUS
  <2>3. W \in Seq(T) /\ Ascends(W)
    BY <2>1, <2>2 DEF Enumerates
  <2>4. \A x \in 1..Len(W) : W[x] \in T
    BY <2>3
  <2>5. QED
    BY <2>1, <2>2, <2>3, <2>4
<1>11. ASSUME NEW x \in 1..Len(W)
       PROVE  /\ W[x] \in Mine
              /\ \E i \in Nat : /\ i > o /\ i + 2 <= o + p /\ i + 2 <= Len(t)
                                /\ t[i] = W[x] /\ Line(h, i)
  <2>1. W[x] \in LinesAt(t, o + 1, o + p)
    BY <1>10
  <2>2. PICK i \in (o + 1)..(o + p - 2) : t[i] = W[x]
    BY <2>1 DEF LinesAt
  <2>3. W[x] \in Mine /\ W[x] # Newline
    BY <1>9, <2>1 DEF LinesAt
  <2>4. p > 0 /\ i \in Nat /\ i > o /\ i + 2 <= o + p
    BY <1>2, <1>3
  <2>5. i + 2 <= Len(t) /\ i \in 1..Len(t)
    BY <1>3, <1>8, <2>4
  <2>6. Line(h, i)
    BY <1>1, <2>2, <2>3, <2>5 DEF Line
  <2>7. QED
    BY <2>2, <2>3, <2>4, <2>5, <2>6
<1>12. PICK all : all = log \o W
  OBVIOUS
<1>13. PICK L \in Nat : L = Len(log)
  <2>1. log \in Seq(Mine)
    BY DEF TailInv, TypeOK
  <2>2. QED
    BY <2>1
<1>14. PICK B \in Nat : B = Len(W)
  BY <1>10
<1>15. /\ log \in Seq(Mine) /\ all \in Seq(Mine) /\ Len(all) = L + B
       /\ \A x \in 1..L : all[x] = log[x] /\ all[x] \in Mine
       /\ \A x \in 1..(L + B) : x > L => all[x] = W[x - L] /\ x - L \in 1..B
  <2>1. log \in Seq(Mine)
    BY DEF TailInv, TypeOK
  <2>2. /\ all \in Seq(Mine) /\ Len(all) = L + B
        /\ \A x \in 1..(L + B) : all[x] = IF x <= L THEN log[x] ELSE W[x - L]
    BY <1>10, <1>12, <1>13, <1>14, <2>1, ConcatProperties
  <2>3. \A x \in 1..L : all[x] = log[x] /\ all[x] \in Mine
    BY <2>2, <1>13, <2>1
  <2>4. ASSUME NEW x \in 1..(L + B), x > L
        PROVE  all[x] = W[x - L] /\ x - L \in 1..B
    BY <2>2, <2>4
  <2>5. QED
    BY <2>1, <2>2, <2>3, <2>4
<1>16. ASSUME NEW x \in 1..(L + B)
       PROVE  \/ x \in 1..L /\ all[x] = log[x]
              \/ /\ x > L
                 /\ \E i \in Nat : /\ i > o /\ i + 2 <= o + p /\ i + 2 <= Len(t)
                                   /\ t[i] = all[x] /\ Line(h, i)
  <2>1. CASE x <= L
    BY <1>15, <2>1
  <2>2. CASE ~ (x <= L)
    <3>1. all[x] = W[x - L] /\ x - L \in 1..Len(W) /\ x > L
      BY <1>14, <1>15, <2>2
    <3>2. QED
      BY <1>11, <3>1
  <2>3. QED
    BY <2>1, <2>2
<1>17. \A x \in 1..(L + B) : all[x] \in Mine /\ all[x] \in Nat
  <2>1. \A x \in 1..Len(all) : all[x] \in Mine
    BY <1>15
  <2>2. QED
    BY <1>9, <1>15, <2>1
<1>18. ASSUME NEW x \in 1..(L + B), NEW y \in 1..(L + B), x < y
       PROVE  all[x] < all[y]
  <2>1. CASE y <= L
    <3>1. x \in 1..Len(log) /\ y \in 1..Len(log)
      BY <1>13, <1>18, <2>1
    <3>2. all[x] = log[x] /\ all[y] = log[y]
      BY <1>13, <1>15, <3>1
    <3>3. QED
      BY <1>18, <3>1, <3>2 DEF TailInv, OrderInv, LoggedOnceInOrder
  <2>2. CASE x <= L /\ y > L
    <3>1. x \in 1..Len(log) /\ all[x] = log[x]
      BY <1>13, <1>15, <2>2
    <3>2. PICK i \in Nat : i > o /\ t[i] = all[y] /\ Line(h, i)
      BY <1>16, <2>2
    <3>3. log[x] < t[i]
      BY <1>1, <1>2, <1>7, <3>1, <3>2 DEF TailInv, OrderInv, RestIsNewer
    <3>4. QED
      BY <3>1, <3>2, <3>3
  <2>3. CASE x > L
    <3>1. /\ all[x] = W[x - L] /\ x - L \in 1..Len(W)
          /\ all[y] = W[y - L] /\ y - L \in 1..Len(W)
      BY <1>14, <1>15, <1>18, <2>3
    <3>2. x - L < y - L
      BY <1>18
    <3>3. QED
      BY <1>10, <3>1, <3>2 DEF Ascends
  <2>4. QED
    BY <1>18, <2>1, <2>2, <2>3
<1>19. ASSUME NEW x \in 1..(L + B)
       PROVE  all[x] <= nLines /\ (partial => all[x] < nLines)
  <2>1. CASE x \in 1..L /\ all[x] = log[x]
    BY <1>13, <2>1 DEF TailInv, OrderInv, LoggedAreWritten
  <2>2. CASE \E i \in Nat : i + 2 <= Len(t) /\ t[i] = all[x] /\ Line(h, i)
    <3>1. PICK i \in Nat : i + 2 <= Len(t) /\ t[i] = all[x] /\ Line(h, i)
      BY <2>2
    <3>2. i # Len(transcript[h])
      BY <1>1, <1>8, <3>1
    <3>3. t[i] <= nLines
      BY <1>1, <1>7, <3>1 DEF TailInv, OrderInv, FilesInOrder
    <3>4. partial => t[i] < nLines
      BY <1>1, <1>7, <3>1, <3>2 DEF TailInv, OrderInv, PartialIsLast
    <3>5. QED
      BY <3>1, <3>3, <3>4
  <2>3. QED
    BY <1>16, <2>1, <2>2
<1>20. PICK d \in Int, M \in Nat :
          /\ log' \in Seq(Mine) /\ Len(log') = M /\ M <= MaxLog
          /\ \A x \in 1..M : x + d \in 1..(L + B) /\ log'[x] = all[x + d]
  <2>1. PICK n \in Nat, m \in Nat : n = Len(all) /\ m = Len(Latest(all))
    <3>1. Latest(all) \in Seq(Mine)
      BY <1>15, LatestFacts
    <3>2. PICK l \in Seq(Mine) : l = Latest(all)
      BY <3>1
    <3>3. Len(l) \in Nat /\ Len(all) \in Nat
      BY <1>15, <3>2
    <3>4. QED
      BY <3>2, <3>3, Zenon
  <2>2. /\ Latest(all) \in Seq(Mine)
        /\ n <= MaxLog => m = n
        /\ n > MaxLog => m = MaxLog
        /\ \A x \in 1..m : x + (n - m) \in 1..n /\ Latest(all)[x] = all[x + (n - m)]
    <3>1. /\ Latest(all) \in Seq(Mine)
          /\ Len(all) <= MaxLog => Len(Latest(all)) = Len(all)
          /\ Len(all) > MaxLog => Len(Latest(all)) = MaxLog
          /\ \A x \in 1..Len(Latest(all)) :
                /\ x + (Len(all) - Len(Latest(all))) \in 1..Len(all)
                /\ Latest(all)[x] = all[x + (Len(all) - Len(Latest(all)))]
      BY <1>15, LatestFacts
    <3>2. QED
      BY <2>1, <3>1
  <2>3. m <= MaxLog
    BY <2>2, TailAssumption
  <2>4. log' = Latest(all)
    BY <1>3, <1>4, <1>12
  <2>5. PICK e \in Int : e = n - m
    OBVIOUS
  <2>6. QED
    BY <1>15, <2>1, <2>2, <2>3, <2>4, <2>5
<1>21. TypeOK'
  <2>1. offset' \in Nat /\ lastSize' \in Nat /\ size' \in Nat
    BY <1>2, <1>3, <1>5 DEF TailInv, TypeOK
  <2>2. QED
    BY <1>5, <1>20, <2>1 DEF hooks, writer, TailInv, TypeOK
<1>22. /\ FilesInOrder' /\ PartialIsLast'
       /\ \A f \in File : \A i \in Nat : Line(f, i)' <=> Line(f, i)
  BY <1>5, FilesKept
<1>23. PositionInv'
  <2>1. resets' = 0 => offset' <= Len(transcript'[1])
    <3>1. SUFFICES ASSUME resets = 0
                   PROVE  o + p <= Len(transcript[1])
      BY <1>3, <1>6
    <3>2. path <= 1 /\ o <= Len(transcript[1])
      BY <1>2, <3>1 DEF TailInv, OrderInv, FilesInOrder, PositionInv
    <3>3. h = 1
      <4>1. h \in Nat /\ h >= 1 /\ h <= path /\ path \in Nat
        BY <1>7, PlacesTyped DEF File
      <4>2. QED
        BY <3>2, <4>1
    <3>4. QED
      BY <1>1, <1>2, <1>3, <3>2, <3>3
  <2>2. QED
    BY <1>1, <1>5, <1>6, <2>1 DEF TailInv, OrderInv, PositionInv
<1>24. LoggedOnceInOrder'
  <2>1. ASSUME NEW x \in 1..M, NEW y \in 1..M, x < y
        PROVE  log'[x] < log'[y]
    <3>1. x + d \in 1..(L + B) /\ y + d \in 1..(L + B) /\ x + d < y + d
      BY <1>20, <2>1
    <3>2. log'[x] = all[x + d] /\ log'[y] = all[y + d]
      BY <1>20
    <3>3. QED
      BY <1>18, <3>1, <3>2
  <2>2. QED
    BY <1>20, <2>1 DEF LoggedOnceInOrder
<1>25. LoggedAreWritten'
  <2>1. ASSUME NEW x \in 1..M
        PROVE  log'[x] <= nLines /\ (partial => log'[x] < nLines)
    BY <1>19, <1>20
  <2>2. QED
    BY <1>6, <1>20, <2>1 DEF LoggedAreWritten
<1>26. ASSUME NEW x \in 1..(L + B), NEW i \in Nat, NEW f \in File, f > h, Line(f, i)
       PROVE  all[x] < transcript[f][i]
  <2>1. CASE x \in 1..L /\ all[x] = log[x]
    BY <1>7, <1>13, <1>26, <2>1 DEF TailInv, OrderInv, RestIsNewer
  <2>2. CASE \E k \in Nat : t[k] = all[x] /\ Line(h, k)
    <3>1. PICK k \in Nat : t[k] = all[x] /\ Line(h, k)
      BY <2>2
    <3>2. h < f
      BY <1>7, <1>26
    <3>3. QED
      BY <1>1, <1>7, <1>26, <3>1, <3>2 DEF TailInv, OrderInv, FilesInOrder
  <2>3. QED
    BY <1>16, <2>1, <2>2
<1>27. ASSUME NEW x \in 1..(L + B), NEW i \in Nat, Line(h, i), i > o + p \/ Len(t) < o + p
       PROVE  all[x] < t[i]
  <2>1. i \in 1..Len(t) /\ t[i] # Newline
    BY <1>1, <1>27 DEF Line
  <2>2. i > o \/ Len(t) < o
    BY <1>3, <1>8, <1>27
  <2>3. CASE x \in 1..L /\ all[x] = log[x]
    BY <1>1, <1>2, <1>7, <1>13, <1>27, <2>2, <2>3 DEF TailInv, OrderInv, RestIsNewer
  <2>4. CASE \E k \in Nat : k > o /\ k + 2 <= o + p /\ t[k] = all[x] /\ Line(h, k)
    <3>1. PICK k \in Nat : k > o /\ k + 2 <= o + p /\ t[k] = all[x] /\ Line(h, k)
      BY <2>4
    <3>2. p > 0
      BY <3>1
    <3>3. o + p <= Len(t) /\ t[o + p] = Newline /\ i > o + p
      BY <1>3, <1>8, <1>27, <3>2
    <3>4. k \in 1..Len(t) /\ t[k] # Newline
      BY <1>1, <3>1 DEF Line
    <3>5. o + p \in 1..Len(t) /\ k < o + p /\ o + p < i
      BY <1>8, <3>1, <3>2, <3>3
    <3>6. Ordered(t)
      BY <1>1, <1>7 DEF TailInv, OrderInv, FilesInOrder
    <3>7. t[k] < t[i]
      BY <2>1, <3>3, <3>4, <3>5, <3>6 DEF Ordered
    <3>8. QED
      BY <3>1, <3>7
  <2>5. QED
    BY <1>16, <2>3, <2>4
<1>28. RestIsNewer'
  <2>1. ASSUME NEW x \in 1..M, NEW i \in Nat, NEW f \in File, f > h, Line(f, i)
        PROVE  log'[x] < transcript[f][i]
    BY <1>20, <1>26, <2>1
  <2>2. ASSUME NEW x \in 1..M, NEW i \in Nat, Line(h, i), i > o + p \/ Len(t) < o + p
        PROVE  log'[x] < t[i]
    BY <1>20, <1>27, <2>2
  <2>3. QED
    BY <1>1, <1>3, <1>6, <1>7, <1>20, <1>22, <2>1, <2>2 DEF RestIsNewer
<1>29. QED
  BY <1>21, <1>22, <1>23, <1>24, <1>25, <1>28 DEF TailInv, OrderInv
-----------------------------------------------------------------------------
(* The theorems of every behaviour *)

LEMMA InitEstablishes == Init => TailInv
<1> SUFFICES ASSUME Init
             PROVE  TailInv
  OBVIOUS
<1>1. TypeOK
  <2>1. -1 \in -1..Grace /\ 1 \in File /\ 0 \in 0..MaxRequests /\ 0 \in 0..MaxResets
        /\ 0 \in 0..MaxLines /\ 0 <= MaxLog
    BY TailAssumption DEF File
  <2>2. [f \in File |-> <<>>] \in [File -> Seq(0..MaxLines)]
    OBVIOUS
  <2>3. <<>> \in Seq(Mine) /\ Len(<<>>) = 0
    OBVIOUS
  <2>4. QED
    BY <2>1, <2>2, <2>3 DEF Init, TypeOK, Request
<1>2. \A f \in File : transcript[f] = <<>>
  BY DEF Init
<1>3. \A f \in File : \A i \in Nat : ~ Line(f, i)
  <2>1. \A i \in Nat : i \notin 1..Len(<<>>)
    OBVIOUS
  <2>2. QED
    BY <1>2, <2>1 DEF Line
<1>4. FilesInOrder
  <2>1. path <= resets + 1
    BY DEF Init, NoFile
  <2>2. Ordered(<<>>)
    <3>1. \A i, j \in 1..Len(<<>>) : FALSE
      OBVIOUS
    <3>2. QED
      BY <3>1 DEF Ordered
  <2>3. QED
    BY <1>2, <1>3, <2>1, <2>2 DEF FilesInOrder
<1>5. PartialIsLast
  BY DEF Init, PartialIsLast
<1>6. PositionInv
  <2>1. transcript[1] = <<>> /\ Len(<<>>) = 0
    BY <1>2, TailAssumption DEF File
  <2>2. handle <= path
    BY DEF Init, NoFile
  <2>3. QED
    BY <2>1, <2>2 DEF Init, PositionInv
<1>7. LoggedOnceInOrder /\ LoggedAreWritten /\ RestIsNewer
  <2>1. log = <<>> /\ \A n \in 1..Len(<<>>) : FALSE
    BY DEF Init
  <2>2. QED
    BY <2>1 DEF LoggedOnceInOrder, LoggedAreWritten, RestIsNewer
<1>8. QED
  BY <1>1, <1>4, <1>5, <1>6, <1>7 DEF TailInv, OrderInv

LEMMA StepsKeepInv == TailInv /\ [Next]_vars => TailInv'
<1> SUFFICES ASSUME TailInv, [Next]_vars
             PROVE  TailInv'
  OBVIOUS
<1>1. CASE Outside
  BY <1>1, HooksKeepInv, FlushKeepsInv, CreateKeepsInv, TruncateKeepsInv, RotateKeepsInv
     DEF Outside
<1>2. CASE Handle
  BY <1>2, HandleStartKeepsInv, HandleStopKeepsInv DEF Handle
<1>3. CASE TailLoop
  BY <1>3, CheckStatusKeepsInv, MeasureKeepsInv, IdleKeepsInv, ReadKeepsInv DEF TailLoop
<1>4. CASE ReadError
  BY <1>4, ReadErrorKeepsInv
<1>5. CASE UNCHANGED vars
  <2>1. UNCHANGED <<store, hooks, writer, tailing>>
    BY <1>5 DEF vars
  <2>2. OrderInv'
    BY <2>1, SteadyKeepsOrder DEF store, tailing, TailInv, OrderInv, PositionInv
  <2>3. TypeOK'
    BY <2>1 DEF store, hooks, writer, tailing, TailInv, TypeOK
  <2>4. QED
    BY <2>2, <2>3 DEF TailInv
<1>6. QED
  BY <1>1, <1>2, <1>3, <1>4, <1>5 DEF Next

(* tail_loop, read_new_lines and process_until keep the reader's place in a  *)
(* file that is appended to, truncated and replaced between their awaits:    *)
(* what may still be logged is newer than all that was logged.               *)
THEOREM TailInvariance == Spec => []TailInv
<1>1. Init => TailInv
  BY InitEstablishes
<1>2. TailInv /\ [Next]_vars => TailInv'
  BY StepsKeepInv
<1>3. QED
  BY <1>1, <1>2, PTL DEF Spec

(* Every variable of the tail, the store entry and the hooks has its type,   *)
(* and append_log keeps the log below MAX_LOG_ENTRIES.                       *)
THEOREM TailTypes == Spec => []TypeOK
<1>1. Spec => []TailInv
  BY TailInvariance
<1>2. TailInv => TypeOK
  BY DEF TailInv
<1>3. QED
  BY <1>1, <1>2, PTL

(* read_new_lines logs no line twice and none out of order, whatever happens *)
(* to the transcript and whichever reads fail or come back short.            *)
THEOREM LoggedOnce == Spec => []LoggedOnceInOrder
<1>1. Spec => []TailInv
  BY TailInvariance
<1>2. TailInv => LoggedOnceInOrder
  BY DEF TailInv, OrderInv
<1>3. QED
  BY <1>1, <1>2, PTL

-----------------------------------------------------------------------------
(* Nothing is skipped *)

(* While the file was only appended to, the log is what the bytes below the  *)
(* offset say.                                                               *)
Matches ==
    /\ offset > 0 => transcript[1][offset] = Newline
    /\ log = Latest(Ascending(LinesAt(transcript[1], 1, offset)))

MatchInv == resets = 0 => Matches

LEMMA OneFile ==
    ASSUME TailInv, resets = 0
    PROVE  /\ path \in {NoFile, 1} /\ handle \in {NoFile, 1} /\ 1 \in File
           /\ transcript[1] \in Seq(0..MaxLines) /\ transcript[1] \in Seq(Nat)
           /\ offset \in Nat /\ offset <= Len(transcript[1])
<1>1. path <= 1 /\ handle <= path /\ offset <= Len(transcript[1])
  BY DEF TailInv, OrderInv, FilesInOrder, PositionInv
<1>2. 1 \in File /\ \A f \in File : f \in Nat /\ f >= 1
  BY TailAssumption DEF File
<1>3. path \in {NoFile} \cup File /\ handle \in {NoFile} \cup File /\ offset \in Nat
      /\ transcript[1] \in Seq(0..MaxLines)
  BY <1>2 DEF TailInv, TypeOK
<1>4. path \in {NoFile, 1}
  BY <1>1, <1>2, <1>3 DEF NoFile
<1>5. handle \in {NoFile, 1}
  <2>1. handle \in Nat /\ (handle # NoFile => handle >= 1)
    BY <1>2, <1>3 DEF NoFile
  <2>2. handle <= 1
    BY <1>1, <1>4, <2>1 DEF NoFile
  <2>3. QED
    BY <2>1, <2>2 DEF NoFile
<1>6. transcript[1] \in Seq(Nat)
  <2>1. PICK S, t : S = 0..MaxLines /\ t = transcript[1]
    OBVIOUS
  <2>2. S \subseteq Nat
    BY <2>1, TailAssumption
  <2>3. t \in Seq(S)
    BY <1>3, <2>1
  <2>4. t \in Seq(Nat)
    BY <2>2, <2>3, SeqMonotonic
  <2>5. QED
    BY <2>1, <2>4
<1>7. QED
  BY <1>1, <1>2, <1>3, <1>4, <1>5, <1>6

(* Bytes that are appended change no line below the offset.                  *)
LEMMA AppendKeepsMatch ==
    ASSUME TailInv, MatchInv, Flush
    PROVE  MatchInv'
<1>1. SUFFICES ASSUME resets = 0
               PROVE  Matches'
  BY DEF Flush, MatchInv
<1>2. PICK bs \in Seq(0..MaxLines) : transcript' = [transcript EXCEPT ![path] = @ \o bs]
  BY FlushAppends
<1>3. path # NoFile /\ log' = log /\ offset' = offset
  BY DEF Flush, store, tailing
<1>4. PICK t \in Seq(0..MaxLines) : t = transcript[1]
  BY <1>1, OneFile
<1>5. PICK u : u = transcript'[1]
  OBVIOUS
<1>6. path = 1 /\ 1 \in File /\ offset \in Nat /\ offset <= Len(t)
  BY <1>1, <1>3, <1>4, OneFile
<1>7. u = t \o bs
  BY <1>2, <1>4, <1>5, <1>6 DEF TailInv, TypeOK
<1>8. PICK o \in Nat : o = offset
  BY <1>6
<1>9. \A i \in 1..o : u[i] = t[i]
  <2>1. \A i \in 1..(Len(t) + Len(bs)) : u[i] = IF i <= Len(t) THEN t[i] ELSE bs[i - Len(t)]
    BY <1>7, ConcatProperties
  <2>2. Len(t) \in Nat /\ Len(bs) \in Nat
    OBVIOUS
  <2>3. \A i \in 1..o : i \in 1..(Len(t) + Len(bs)) /\ i <= Len(t)
    BY <1>6, <1>8, <2>2
  <2>4. QED
    BY <2>1, <2>3
<1>10. LinesAt(u, 1, o) = LinesAt(t, 1, o)
  <2>1. \A i \in 1..(o - 2) : i \in 1..o /\ i + 1 \in 1..o /\ i + 2 \in 1..o
    OBVIOUS
  <2>2. QED
    BY <1>9, <2>1 DEF LinesAt
<1>11. Matches
  BY <1>1 DEF MatchInv
<1>12. offset' > 0 => u[offset'] = Newline
  BY <1>3, <1>4, <1>8, <1>9, <1>11 DEF Matches
<1>13. log' = Latest(Ascending(LinesAt(u, 1, offset')))
  BY <1>3, <1>4, <1>8, <1>10, <1>11 DEF Matches
<1>14. QED
  BY <1>5, <1>12, <1>13 DEF Matches

(* A read logs all lines between the old offset and the new one.             *)
LEMMA ReadKeepsMatch ==
    ASSUME TailInv, MatchInv, ReadLines
    PROVE  MatchInv'
<1>1. transcript' = transcript /\ resets' = resets
  BY DEF ReadLines, writer
<1>2. SUFFICES ASSUME resets = 0
               PROVE  Matches'
  BY <1>1 DEF MatchInv
<1>3. PICK t \in Seq(Nat) : t = transcript[1]
  BY <1>2, OneFile
<1>4. PICK o \in Nat : o = offset
  BY <1>2, OneFile
<1>5. handle = 1
  BY <1>2, OneFile DEF ReadLines, TailInv, OrderInv, PositionInv
<1>6. PICK p \in Nat :
         /\ offset' = o + p
         /\ p > 0 => o + p <= Len(t) /\ t[o + p] = Newline
         /\ log' = Latest(log \o Ascending(LinesAt(t, o + 1, o + p)))
  BY <1>3, <1>4, <1>5, ReadFacts
<1>7. /\ o > 0 => t[o] = Newline
      /\ log = Latest(Ascending(LinesAt(t, 1, o)))
  BY <1>2, <1>3, <1>4 DEF MatchInv, Matches
<1>8. Ordered(t)
  BY <1>2, <1>3, OneFile DEF TailInv, OrderInv, FilesInOrder
<1>9. o + p <= Len(t)
  <2>1. o <= Len(t)
    BY <1>2, <1>3, <1>4, OneFile
  <2>2. QED
    BY <1>6, <2>1
<1>10. PICK A, C, D : /\ A = Ascending(LinesAt(t, 1, o))
                      /\ C = Ascending(LinesAt(t, o + 1, o + p))
                      /\ D = Ascending(LinesAt(t, 1, o + p))
  OBVIOUS
<1>11. D = A \o C
  BY <1>7, <1>8, <1>9, <1>10, LinesOfTwoParts
<1>12. A \in Seq(Mine) /\ C \in Seq(Mine)
  BY <1>10, LinesEnumerated
<1>13. log' = Latest(Latest(A) \o C)
  BY <1>6, <1>7, <1>10
<1>14. log' = Latest(D)
  BY <1>11, <1>12, <1>13, LatestOfLatest
<1>15. offset' > 0 => t[offset'] = Newline
  BY <1>6, <1>7
<1>16. QED
  BY <1>1, <1>3, <1>6, <1>10, <1>14, <1>15 DEF Matches

LEMMA EmptyMatches ==
    ASSUME log = <<>>, offset = 0
    PROVE  Matches
<1>1. Ascending(LinesAt(transcript[1], 1, 0)) = <<>>
  BY NoLines
<1>2. Latest(<<>>) = <<>>
  <2>0. <<>> \in Seq(Mine)
    OBVIOUS
  <2>1. PICK e \in Seq(Mine) : e = <<>>
    BY <2>0, Zenon
  <2>2. Len(e) = 0 /\ 0 <= MaxLog
    BY <2>1, TailAssumption
  <2>3. Latest(e) \in Seq(Mine) /\ (Len(e) <= MaxLog => Len(Latest(e)) = Len(e))
    BY LatestFacts
  <2>4. PICK l \in Seq(Mine) : l = Latest(e)
    BY <2>3
  <2>5. Len(l) = 0
    BY <2>2, <2>3, <2>4
  <2>6. l = <<>>
    BY <2>5
  <2>7. QED
    BY <2>1, <2>4, <2>6
<1>3. QED
  BY <1>1, <1>2 DEF Matches

LEMMA StepsKeepMatch == TailInv /\ MatchInv /\ [Next]_vars => MatchInv'
<1> SUFFICES ASSUME TailInv, MatchInv, [Next]_vars
             PROVE  MatchInv'
  OBVIOUS
<1>1. ASSUME UNCHANGED <<transcript, resets, log, offset>>
      PROVE  MatchInv'
  BY <1>1 DEF MatchInv, Matches
<1>2. CASE Outside
  <2>1. CASE Truncate \/ Rotate
    <3>1. resets' = resets + 1 /\ resets \in Nat
      BY <2>1 DEF Truncate, Rotate, TailInv, TypeOK
    <3>2. QED
      BY <3>1 DEF MatchInv
  <2>2. CASE Flush
    BY <2>2, AppendKeepsMatch
  <2>3. CASE SendStart \/ SendStop \/ CreateTranscript \/ \E r \in requests : LoseRequest(r)
    BY <1>1, <2>3
       DEF SendStart, SendStop, CreateTranscript, LoseRequest, store, writer, tailing
  <2>4. QED
    BY <1>2, <2>1, <2>2, <2>3 DEF Outside
<1>3. CASE Handle
  <2>1. CASE ~ tailSpawned /\ StartTail /\ UNCHANGED <<log, writer>>
    <3>1. log' = <<>> /\ offset' = 0
      BY <2>1 DEF StartTail, TailInv, OrderInv, PositionInv
    <3>2. log = <<>> /\ offset = 0 => Matches
      BY EmptyMatches
    <3>3. (log = <<>> /\ offset = 0 => Matches)'
      BY EmptyMatches, PTL
    <3>4. QED
      BY <3>1, <3>3 DEF MatchInv
  <2>2. CASE UNCHANGED <<log, writer, tailing>>
    BY <1>1, <2>2 DEF writer, tailing
  <2>3. QED
    BY <1>3, <2>1, <2>2 DEF Handle, HandleStart, HandleStop
<1>4. CASE ReadLines
  BY <1>4, ReadKeepsMatch
<1>5. CASE Measure
  <2>1. UNCHANGED <<store, writer>>
    BY <1>5 DEF Measure
  <2>2. CASE resets = 0
    <3>1. PICK f : f = IF handle = NoFile THEN path ELSE handle
      OBVIOUS
    <3>2. f = 1 /\ ~ (Len(transcript[f]) < offset)
      <4>1. f = 1
        BY <1>5, <2>2, <3>1, OneFile DEF Measure
      <4>2. offset \in Nat /\ offset <= Len(transcript[1]) /\ Len(transcript[1]) \in Nat
        BY <2>2, OneFile
      <4>3. QED
        BY <4>1, <4>2
    <3>3. offset' = offset
      BY <1>5, <3>1, <3>2 DEF Measure
    <3>4. QED
      BY <1>1, <2>1, <3>3 DEF store, writer
  <2>3. CASE resets # 0
    BY <2>1, <2>3 DEF writer, MatchInv
  <2>4. QED
    BY <2>2, <2>3
<1>6. CASE CheckStatus \/ NoTranscript \/ Sleep \/ ReadError
  BY <1>1, <1>6 DEF CheckStatus, NoTranscript, Sleep, ReadError, store, writer
<1>7. CASE UNCHANGED vars
  BY <1>1, <1>7 DEF vars, store, writer, tailing
<1>8. QED
  BY <1>2, <1>3, <1>4, <1>5, <1>6, <1>7 DEF Next, TailLoop

(* As long as the transcript is only appended to, process_until and the      *)
(* rollback of a torn line skip nothing: the log holds the last              *)
(* MAX_LOG_ENTRIES of the lines below the offset, which stands after a       *)
(* newline.                                                                  *)
THEOREM LogComplete == Spec => []LogMatchesOffset
<1>1. Init => MatchInv
  BY EmptyMatches DEF Init, MatchInv
<1>2. TailInv /\ MatchInv /\ [Next]_vars => MatchInv'
  BY StepsKeepMatch
<1>3. TailInv /\ MatchInv => LogMatchesOffset
  <2> SUFFICES ASSUME TailInv, MatchInv, resets = 0
               PROVE  LET seen == WholeLines(SubSeq(transcript[1], 1, offset))
                      IN /\ offset > 0 => transcript[1][offset] = Newline
                         /\ log = SubSeq(seen, Max({1, Len(seen) - MaxLog + 1}), Len(seen))
    BY DEF LogMatchesOffset
  <2>1. WholeLines(SubSeq(transcript[1], 1, offset)) =
           Ascending(LinesAt(transcript[1], 1, offset))
    <3>1. PICK t \in Seq(Nat) : t = transcript[1]
      BY OneFile
    <3>2. PICK o \in Nat : o = offset
      BY OneFile
    <3>3. o <= Len(t)
      BY <3>1, <3>2, OneFile
    <3>4. PICK a \in Nat : a = 1
      OBVIOUS
    <3>5. a >= 1 /\ a <= o + 1
      BY <3>4
    <3>6. WholeLines(SubSeq(t, a, o)) = Ascending(LinesAt(t, a, o))
      BY <3>3, <3>5, LinesOfPart
    <3>7. QED
      BY <3>1, <3>2, <3>4, <3>6
  <2>2. Matches
    BY DEF MatchInv
  <2>3. QED
    BY <2>1, <2>2 DEF Matches, Latest
<1>4. Spec => []TailInv
  BY TailInvariance
<1>5. QED
  BY <1>1, <1>2, <1>3, <1>4, PTL DEF Spec
=============================================================================
