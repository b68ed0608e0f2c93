--------------------------- MODULE TextReplicaProofs ---------------------------
(***************************************************************************)
(* What every replica of TextReplica can rely on, for every value of the   *)
(* constants: any number of replicas, operations and undos, and batches of *)
(* any size.                                                               *)
(*                                                                         *)
(*  ReplicaInvariance   the invariant the next ones follow from;           *)
(*  ReplicaTypes        TypeOK, with the freshness of timestamps;          *)
(*  VisibleCurrent      VisibleIsCurrent;                                  *)
(*  ObservedApplied     ObservedWasApplied;                                *)
(*  OnlyMissing         OnlyMissingDefer;                                  *)
(*  HistoryInvariance   one order of all characters and one record of      *)
(*                      their deletions, of which every buffer is a part;  *)
(*  Converges           Convergence.                                       *)
(*                                                                         *)
(* The argument: operations carry the version of their author, and the     *)
(* author's later operations carry more.  So a replica that has not seen   *)
(* an operation knows no more of its author than the author itself did     *)
(* then (InStep), and applying an operation whose version is covered adds  *)
(* that operation to the version and nothing that was not applied.         *)
(*                                                                         *)
(* For Convergence, there is at every moment one total order of the        *)
(* characters sent so far, and one set of pairs of a character and an edit *)
(* that deletes it.  Each edit counts the characters that its author had   *)
(* then (InPlace), so it means the same ones wherever it is applied, and a *)
(* buffer is the characters of its version, in that order and with those   *)
(* deletions (TextOf).  A remote edit is put where the order has it: that  *)
(* is what the walk over newer insertions in apply_remote_edit is for.  A  *)
(* new edit extends the order (OrderWith): its characters come behind those *)
(* its author counted and behind what others have inserted there with a    *)
(* later timestamp, which its author has not seen.                         *)
(***************************************************************************)
EXTENDS TextReplica, SequenceTheorems, FiniteSetTheorems, TLAPS

(* Every nonempty set of natural numbers has a least element.                *)
LEMMA LeastElement ==
    ASSUME NEW T, T \subseteq Nat, T # {}
    PROVE  \E x \in T : \A y \in T : x <= y
<1>1. PICK x \in T : \A y \in T : ~ (<<y, x>> \in OpToRel(<, Nat))
  BY NatLessThanWellFounded, WFMin
<1>2. \A y \in T : ~ (y < x)
  BY <1>1 DEF OpToRel
<1>3. QED
  BY <1>2

(* FiniteSetsExt!Max of a set of natural numbers with a bound.               *)
LEMMA MaxOfBounded ==
    ASSUME NEW n \in Nat, NEW T, T \subseteq 0..n, T # {}
    PROVE  Max(T) \in T /\ \A y \in T : y <= Max(T)
<1> DEFINE Gaps == {n - x : x \in T}
<1>1. Gaps \subseteq Nat /\ Gaps # {}
  <2>1. \A x \in T : n - x \in Nat
    OBVIOUS
  <2>2. PICK x : x \in T
    OBVIOUS
  <2>3. n - x \in Gaps
    BY <2>2
  <2>4. QED
    BY <2>1, <2>3
<1>2. PICK g \in Gaps : \A h \in Gaps : g <= h
  BY <1>1, LeastElement
<1>3. PICK x \in T : g = n - x
  BY <1>2
<1>4. \A y \in T : x >= y
  <2>1. SUFFICES ASSUME NEW y \in T PROVE x >= y
    OBVIOUS
  <2>2. n - y \in Gaps /\ y \in Nat /\ x \in Nat
    BY <2>1
  <2>3. n - x <= n - y
    BY <1>2, <1>3, <2>2
  <2>4. QED
    BY <2>2, <2>3
<1>5. Max(T) \in T /\ \A y \in T : Max(T) >= y
  BY <1>4 DEF Max
<1>6. QED
  BY <1>5

(* The greater of two clock values.                                          *)
LEMMA MaxOfTwo ==
    ASSUME NEW a \in Nat, NEW c \in Nat
    PROVE  /\ Max({a, c}) \in Nat /\ Max({a, c}) >= a /\ Max({a, c}) >= c
           /\ Max({a, c}) = a \/ Max({a, c}) = c
<1>1. PICK n \in Nat : {a, c} \subseteq 0..n
  BY a <= a + c, c <= a + c, a + c \in Nat
<1>2. Max({a, c}) \in {a, c} /\ \A y \in {a, c} : y <= Max({a, c})
  BY <1>1, MaxOfBounded
<1>3. QED
  BY <1>2

-----------------------------------------------------------------------------
(* Fragments *)

Fragment == [ts : Stamps, offset : Nat, deletions : SUBSET Stamps, visible : BOOLEAN]

(* The number of visible fragments grows by one at most.                     *)
LEMMA VisibleGrows ==
    ASSUME NEW frags
    PROVE  /\ VisibleBefore(frags, 0) = 0
           /\ \A i \in Nat : VisibleBefore(frags, i) \in Nat
           /\ \A i \in Nat : VisibleBefore(frags, i + 1) <= VisibleBefore(frags, i) + 1
<1> DEFINE V(i) == {j \in 1..i : frags[j].visible}
<1>1. V(0) = {}
  OBVIOUS
<1>2. \A i \in Nat : IsFiniteSet(V(i))
  <2>1. \A i \in Nat : IsFiniteSet(1..i) /\ V(i) \in SUBSET (1..i)
    BY FS_Interval
  <2>2. QED
    BY <2>1, FS_Subset
<1>3. ASSUME NEW i \in Nat
      PROVE  Cardinality(V(i + 1)) <= Cardinality(V(i)) + 1
  <2>1. V(i + 1) = V(i) \/ V(i + 1) = V(i) \cup {i + 1}
    OBVIOUS
  <2>2. IsFiniteSet(V(i)) /\ Cardinality(V(i)) \in Nat
    BY <1>2, FS_CardinalityType
  <2>3. PICK v, w : v = V(i) /\ w = V(i + 1)
    OBVIOUS
  <2>4. IsFiniteSet(v) /\ Cardinality(v) \in Nat
    BY <2>2, <2>3
  <2>5. Cardinality(v \cup {i + 1}) = IF i + 1 \in v THEN Cardinality(v) ELSE Cardinality(v) + 1
    BY <2>4, FS_AddElement
  <2>6. w = v \/ w = v \cup {i + 1}
    BY <2>1, <2>3
  <2>7. Cardinality(w) = Cardinality(v) \/ Cardinality(w) = Cardinality(v) + 1
    BY <2>5, <2>6, Zenon
  <2>8. QED
    BY <2>3, <2>4, <2>7
<1>4. \A i \in Nat : Cardinality(V(i)) \in Nat
  BY <1>2, FS_CardinalityType
<1>5. QED
  BY <1>1, <1>3, <1>4, FS_EmptySet DEF VisibleBefore

(* There is a place behind the first s visible characters.                   *)
LEMMA SomePlace ==
    ASSUME NEW frags, Len(frags) \in Nat, NEW s \in Nat, s <= VisibleLen(frags)
    PROVE  \E i \in 0..Len(frags) : VisibleBefore(frags, i) = s
<1>1. PICK n \in Nat : n = Len(frags)
  OBVIOUS
<1> DEFINE Behind == {i \in 0..n : VisibleBefore(frags, i) >= s}
<1>2. n \in Behind
  BY <1>1 DEF VisibleLen
<1>3. PICK i \in Behind : \A j \in Behind : i <= j
  <2>1. Behind \subseteq Nat
    OBVIOUS
  <2>2. QED
    BY <1>2, <2>1, LeastElement
<1>4. i \in 0..n /\ VisibleBefore(frags, i) >= s /\ VisibleBefore(frags, i) \in Nat
  BY <1>3, VisibleGrows
<1>5. VisibleBefore(frags, i) = s
  <2>1. CASE i = 0
    <3>1. VisibleBefore(frags, i) = 0
      BY <2>1, VisibleGrows
    <3>2. QED
      BY <1>4, <3>1
  <2>2. CASE i # 0
    <3>1. PICK j \in Nat : i = j + 1
      BY <1>4, <2>2, i - 1 \in Nat
    <3>2. j \in 0..n /\ j \notin Behind
      BY <1>3, <1>4, <3>1
    <3>3. ~ (VisibleBefore(frags, j) >= s) /\ VisibleBefore(frags, j) \in Nat
      BY <3>2, VisibleGrows
    <3>4. VisibleBefore(frags, j + 1) <= VisibleBefore(frags, j) + 1
      BY VisibleGrows
    <3>5. QED
      BY <1>4, <3>1, <3>3, <3>4
  <2>3. QED
    BY <2>1, <2>2
<1>6. QED
  BY <1>1, <1>4, <1>5

LEMMA StartIndexFacts ==
    ASSUME NEW frags, Len(frags) \in Nat, NEW s \in Nat, s <= VisibleLen(frags),
           NEW start, start = StartIndex(frags, s)
    PROVE  /\ start \in 0..Len(frags) /\ VisibleBefore(frags, start) = s
           /\ \A i \in 0..Len(frags) : VisibleBefore(frags, i) = s => i <= start
<1>1. PICK n \in Nat : n = Len(frags)
  OBVIOUS
<1>2. PICK T : T = {m \in 0..n : VisibleBefore(frags, m) = s}
  OBVIOUS
<1>3. T \subseteq 0..n /\ T # {}
  <2>1. \E i \in 0..n : VisibleBefore(frags, i) = s
    BY <1>1, SomePlace
  <2>2. QED
    BY <1>2, <2>1
<1>4. start = Max(T)
  BY <1>1, <1>2, Zenon DEF StartIndex
<1>5. start \in T /\ \A i \in T : i <= start
  BY <1>3, <1>4, MaxOfBounded
<1>6. QED
  BY <1>1, <1>2, <1>5

LEMMA StartIndexRange ==
    ASSUME NEW frags, Len(frags) \in Nat, NEW s \in Nat, s <= VisibleLen(frags)
    PROVE  StartIndex(frags, s) \in 0..Len(frags)
  BY StartIndexFacts

(* A remote edit finds a place in any text.                                  *)
LEMMA RemoteIndexRange ==
    ASSUME NEW frags, Len(frags) \in Nat, DOMAIN frags = 1..Len(frags),
           NEW version, NEW start, NEW ts
    PROVE  RemoteIndex(frags, version, start, ts) \in 0..Len(frags)
<1>1. PICK n \in Nat : n = Len(frags)
  OBVIOUS
<1> DEFINE T == {0} \cup {i \in DOMAIN frags :
                             Observed(version, frags[i].ts) /\ Rank(frags, version, i) <= start}
<1>2. Max(T) \in 0..n
  <2>1. T \subseteq 0..n /\ T # {}
    BY <1>1
  <2>2. QED
    BY <2>1, MaxOfBounded
<1>3. PICK place \in 0..n : place = IF start = 0 THEN 0 ELSE Max(T)
  <2> HIDE DEF T
  <2>1. (IF start = 0 THEN 0 ELSE Max(T)) \in 0..n
    BY <1>2
  <2>2. QED
    BY <2>1
<1> DEFINE U == {k \in place..n : \A i \in place + 1..k : Later(frags[i].ts, ts)}
<1>4. Max(U) \in 0..n
  <2>1. place \in Nat
    OBVIOUS
  <2>2. place \in U
    BY <2>1
  <2>3. U \subseteq 0..n /\ U # {}
    <3>1. place..n \subseteq 0..n
      BY <2>1
    <3>2. U \subseteq place..n
      BY Zenon
    <3>3. QED
      BY <2>2, <3>1, <3>2, Zenon
  <2>4. QED
    BY <2>3, MaxOfBounded
<1>5. QED
  BY <1>1, <1>3, <1>4 DEF RemoteIndex

(* Every fragment of an edited text was there, perhaps with one more         *)
(* deletion, or is new.                                                      *)
WasThere(f, frags) == \E i \in DOMAIN frags : f = frags[i]

NowDeleted(f, frags, ts) ==
    \E i \in DOMAIN frags :
        /\ f.ts = frags[i].ts /\ f.offset = frags[i].offset
        /\ f.deletions = frags[i].deletions \cup {ts} /\ f.visible = FALSE

IsInserted(f, ts) == f.ts = ts /\ f.deletions = {} /\ f.visible = TRUE

(* No character gets lost.                                                   *)
CharsKept(frags, new) ==
    \A i \in DOMAIN frags : \E j \in DOMAIN new : Char(new[j]) = Char(frags[i])

LEMMA FragmentsOf ==
    ASSUME NEW n \in Nat, NEW f \in [1..n -> Fragment]
    PROVE  f \in Seq(Fragment) /\ Len(f) = n
  OBVIOUS

(* Concatenation of two texts.                                               *)
LEMMA JoinFragments ==
    ASSUME NEW s \in Seq(Fragment), NEW t \in Seq(Fragment)
    PROVE  /\ s \o t \in Seq(Fragment) /\ Len(s \o t) = Len(s) + Len(t)
           /\ \A i \in 1..Len(s) : (s \o t)[i] = s[i]
           /\ \A i \in 1..Len(t) : (s \o t)[Len(s) + i] = t[i]
<1>1. /\ s \o t \in Seq(Fragment) /\ Len(s \o t) = Len(s) + Len(t)
      /\ \A i \in 1..(Len(s) + Len(t)) :
            (s \o t)[i] = IF i <= Len(s) THEN s[i] ELSE t[i - Len(s)]
  BY ConcatProperties
<1>2. PICK w, m, n : w = s \o t /\ m = Len(s) /\ n = Len(t)
  OBVIOUS
<1>3. m \in Nat /\ n \in Nat
  BY <1>2
<1>4. \A i \in 1..(m + n) : w[i] = IF i <= m THEN s[i] ELSE t[i - m]
  BY <1>1, <1>2
<1>5. \A i \in 1..m : w[i] = s[i]
  BY <1>3, <1>4
<1>6. ASSUME NEW i \in 1..n
      PROVE  w[m + i] = t[i]
  <2>1. m + i \in 1..(m + n) /\ ~ (m + i <= m) /\ (m + i) - m = i
    BY <1>3
  <2>2. QED
    BY <1>4, <2>1
<1>7. QED
  BY <1>1, <1>2, <1>5, <1>6

(* Where everything is after an edit: what it inserted is behind the first k *)
(* fragments, the others keep their order, some with one more deletion.      *)
MarkedAs(g, frags, i, ts, deleted) ==
    /\ Char(g) = Char(frags[i])
    /\ i \in deleted => g.ts = frags[i].ts /\ g.offset = frags[i].offset
                       /\ g.deletions = frags[i].deletions \cup {ts} /\ g.visible = FALSE
    /\ i \notin deleted => g = frags[i]

LEMMA EditedAt ==
    ASSUME NEW frags \in Seq(Fragment), NEW k \in 0..Len(frags), NEW ts \in Stamps,
           NEW len \in Nat, NEW deleted, NEW new, new = Edited(frags, k, ts, len, deleted),
           NEW n \in Nat, n = Len(frags)
    PROVE  /\ new \in Seq(Fragment) /\ DOMAIN new = 1..(len + n)
           /\ \A i \in 1..k : MarkedAs(new[i], frags, i, ts, deleted)
           /\ \A o \in 1..len : Char(new[k + o]) = <<ts, o>> /\ IsInserted(new[k + o], ts)
           /\ \A i \in (k + 1)..n : MarkedAs(new[i + len], frags, i, ts, deleted)
<1>1. PICK marked : marked = [i \in DOMAIN frags |->
            IF i \in deleted
            THEN [frags[i] EXCEPT !.deletions = @ \cup {ts}, !.visible = FALSE]
            ELSE frags[i]]
  OBVIOUS
<1>2. n = Len(frags) /\ k \in 0..n
  OBVIOUS
<1>3. DOMAIN frags = 1..n /\ \A i \in 1..n : frags[i] \in Fragment
  BY <1>2
<1>4. \A i \in 1..n : marked[i] \in Fragment /\ MarkedAs(marked[i], frags, i, ts, deleted)
  <2>1. SUFFICES ASSUME NEW i \in 1..n
                 PROVE  marked[i] \in Fragment /\ MarkedAs(marked[i], frags, i, ts, deleted)
    OBVIOUS
  <2>2. PICK f \in Fragment : f = frags[i]
    BY <1>3
  <2>3. CASE i \in deleted
    <3>1. marked[i] = [f EXCEPT !.deletions = @ \cup {ts}, !.visible = FALSE]
      BY <1>1, <1>3, <2>2, <2>3
    <3>2. /\ marked[i] \in Fragment /\ marked[i].ts = f.ts /\ marked[i].offset = f.offset
          /\ marked[i].deletions = f.deletions \cup {ts} /\ marked[i].visible = FALSE
      BY <3>1 DEF Fragment
    <3>3. QED
      BY <2>2, <2>3, <3>2 DEF Char, MarkedAs
  <2>4. CASE i \notin deleted
    <3>1. marked[i] = frags[i]
      BY <1>1, <1>3, <2>4
    <3>2. QED
      BY <1>3, <2>4, <3>1 DEF Char, MarkedAs
  <2>5. QED
    BY <2>3, <2>4
<1>5. marked \in Seq(Fragment) /\ Len(marked) = n
  <2>1. DOMAIN marked = 1..n
    BY <1>1, <1>3
  <2>2. marked = [i \in 1..n |-> marked[i]]
    BY <1>1, <1>3
  <2>3. marked \in [1..n -> Fragment]
    BY <1>4, <2>2
  <2>4. QED
    BY <2>3, FragmentsOf
<1>6. PICK mid : mid = Inserted(ts, len)
  OBVIOUS
<1>7. mid \in Seq(Fragment) /\ Len(mid) = len
      /\ \A o \in 1..len : Char(mid[o]) = <<ts, o>> /\ IsInserted(mid[o], ts)
  <2>1. mid = [o \in 1..len |-> [ts |-> ts, offset |-> o, deletions |-> {}, visible |-> TRUE]]
    BY <1>6 DEF Inserted
  <2>2. \A o \in 1..len : mid[o] \in Fragment
    BY <2>1 DEF Fragment
  <2>3. QED
    BY <2>1, <2>2 DEF Char, IsInserted
<1>8. PICK a, c : a = SubSeq(marked, 1, k) /\ c = SubSeq(marked, k + 1, n)
  OBVIOUS
<1>9. new = (a \o mid) \o c
  BY <1>1, <1>2, <1>6, <1>8 DEF Edited
<1>10. /\ a \in Seq(Fragment) /\ Len(a) = k /\ \A i \in 1..k : a[i] = marked[i]
       /\ c \in Seq(Fragment) /\ Len(c) = n - k /\ \A i \in 1..(n - k) : c[i] = marked[i + k]
  <2>1. \A i \in 1..n : marked[i] \in Fragment
    BY <1>4
  <2>2. k \in 0..n
    BY <1>2
  <2>3. /\ a \in Seq(Fragment) /\ Len(a) = k /\ \A i \in 1..k : a[i] = marked[i]
    BY <1>5, <1>8, <2>1, <2>2, SubSeqProperties
  <2>4. /\ c \in Seq(Fragment) /\ Len(c) = n - k /\ \A i \in 1..(n - k) : c[i] = marked[i + k]
    BY <1>5, <1>8, <2>1, <2>2, SubSeqProperties
  <2>5. QED
    BY <2>3, <2>4
<1>11. PICK d : d = a \o mid
  OBVIOUS
<1>12. /\ d \in Seq(Fragment) /\ Len(d) = k + len
       /\ \A i \in 1..k : d[i] = a[i]
       /\ \A o \in 1..len : d[k + o] = mid[o]
  <2>1. k \in Nat
    BY <1>2
  <2>2. /\ a \o mid \in Seq(Fragment) /\ Len(a \o mid) = k + len
        /\ \A i \in 1..k : (a \o mid)[i] = a[i]
        /\ \A i \in 1..len : (a \o mid)[k + i] = mid[i]
    <3>1. a \in Seq(Fragment) /\ mid \in Seq(Fragment) /\ Len(a) = k /\ Len(mid) = len
      BY <1>7, <1>10
    <3>2. QED
      <4>1. /\ a \o mid \in Seq(Fragment) /\ Len(a \o mid) = Len(a) + Len(mid)
            /\ \A i \in 1..Len(a) : (a \o mid)[i] = a[i]
            /\ \A i \in 1..Len(mid) : (a \o mid)[Len(a) + i] = mid[i]
        BY <3>1, JoinFragments, Zenon
      <4>2. QED
        BY <3>1, <4>1, Zenon
  <2>3. QED
    BY <1>11, <2>2, Zenon
<1>13. /\ new \in Seq(Fragment) /\ Len(new) = len + n
       /\ \A i \in 1..(k + len) : new[i] = d[i]
       /\ \A i \in 1..(n - k) : new[(k + len) + i] = c[i]
  <2>1. k + len \in Nat /\ n - k \in Nat /\ (k + len) + (n - k) = len + n
    BY <1>2
  <2>2. d \in Seq(Fragment) /\ c \in Seq(Fragment) /\ Len(d) = k + len /\ Len(c) = n - k
    BY <1>10, <1>12
  <2>3. /\ d \o c \in Seq(Fragment) /\ Len(d \o c) = (k + len) + (n - k)
        /\ \A i \in 1..(k + len) : (d \o c)[i] = d[i]
        /\ \A i \in 1..(n - k) : (d \o c)[(k + len) + i] = c[i]
    <3>1. /\ d \o c \in Seq(Fragment) /\ Len(d \o c) = Len(d) + Len(c)
          /\ \A i \in 1..Len(d) : (d \o c)[i] = d[i]
          /\ \A i \in 1..Len(c) : (d \o c)[Len(d) + i] = c[i]
      BY <2>2, JoinFragments, Zenon
    <3>2. QED
      BY <2>2, <3>1, Zenon
  <2>4. new = d \o c
    BY <1>9, <1>11
  <2>5. QED
    BY <2>1, <2>3, <2>4, Zenon
<1>14. DOMAIN new = 1..(len + n)
  BY <1>13
<1>15. \A i \in 1..k : i \in DOMAIN new /\ new[i] = marked[i]
  BY <1>2, <1>10, <1>12, <1>13, <1>14
<1>16. \A o \in 1..len : k + o \in DOMAIN new /\ new[k + o] = mid[o]
  BY <1>2, <1>12, <1>13, <1>14
<1>17. \A i \in (k + 1)..n : i + len \in DOMAIN new /\ new[i + len] = marked[i]
  <2>1. SUFFICES ASSUME NEW i \in (k + 1)..n
                 PROVE  i + len \in DOMAIN new /\ new[i + len] = marked[i]
    OBVIOUS
  <2>2. i - k \in 1..(n - k) /\ (k + len) + (i - k) = i + len /\ (i - k) + k = i
    BY <1>2, <2>1
  <2>3. new[(k + len) + (i - k)] = c[i - k] /\ c[i - k] = marked[(i - k) + k]
    BY <1>10, <1>13, <2>2
  <2>4. i + len \in 1..(len + n)
    BY <1>2, <2>1
  <2>5. QED
    BY <1>14, <2>2, <2>3, <2>4
<1>18. /\ \A i \in 1..k : i \in 1..n
       /\ \A i \in (k + 1)..n : i \in 1..n
  BY <1>2
<1>19. \A i \in 1..k : MarkedAs(new[i], frags, i, ts, deleted)
  BY <1>4, <1>15, <1>18, Zenon
<1>20. \A i \in (k + 1)..n : MarkedAs(new[i + len], frags, i, ts, deleted)
  BY <1>4, <1>17, <1>18, Zenon
<1>21. \A o \in 1..len : Char(new[k + o]) = <<ts, o>> /\ IsInserted(new[k + o], ts)
  BY <1>7, <1>16, Zenon
<1>22. QED
  BY <1>13, <1>14, <1>19, <1>20, <1>21, Zenon

(* What an edit makes of a text: every character is still there, those       *)
(* inserted are there, and each fragment was there, or was just deleted,     *)
(* or is new.                                                                *)
LEMMA EditedFacts ==
    ASSUME NEW frags \in Seq(Fragment), NEW k \in 0..Len(frags), NEW ts \in Stamps,
           NEW len \in Nat, NEW deleted, NEW new, new = Edited(frags, k, ts, len, deleted)
    PROVE  /\ new \in Seq(Fragment) /\ CharsKept(frags, new)
           /\ \A o \in 1..len : \E j \in DOMAIN new : Char(new[j]) = <<ts, o>>
           /\ \A j \in DOMAIN new : \/ WasThere(new[j], frags)
                                    \/ NowDeleted(new[j], frags, ts)
                                    \/ IsInserted(new[j], ts)
<1>1. PICK n \in Nat : n = Len(frags) /\ DOMAIN frags = 1..n
  OBVIOUS
<1>2. /\ new \in Seq(Fragment) /\ DOMAIN new = 1..(len + n)
      /\ \A i \in 1..k : MarkedAs(new[i], frags, i, ts, deleted)
      /\ \A o \in 1..len : Char(new[k + o]) = <<ts, o>> /\ IsInserted(new[k + o], ts)
      /\ \A i \in (k + 1)..n : MarkedAs(new[i + len], frags, i, ts, deleted)
  BY <1>1, EditedAt
<1>3. /\ k \in Nat /\ k <= n
      /\ \A i \in 1..k : i \in DOMAIN new /\ i \in 1..n
      /\ \A o \in 1..len : k + o \in DOMAIN new
      /\ \A i \in (k + 1)..n : i + len \in DOMAIN new /\ i \in 1..n
  BY <1>1, <1>2
<1>4. CharsKept(frags, new)
  <2>1. \A i \in 1..n : i \in 1..k \/ i \in (k + 1)..n
    BY <1>3
  <2>2. QED
    BY <1>1, <1>2, <1>3, <2>1 DEF CharsKept, MarkedAs
<1>5. \A g : \A i \in 1..n : MarkedAs(g, frags, i, ts, deleted)
                  => WasThere(g, frags) \/ NowDeleted(g, frags, ts)
  BY <1>1, Zenon DEF MarkedAs, WasThere, NowDeleted
<1>6. \A j \in DOMAIN new : \/ WasThere(new[j], frags)
                            \/ NowDeleted(new[j], frags, ts)
                            \/ IsInserted(new[j], ts)
  <2>1. SUFFICES ASSUME NEW j \in 1..(len + n)
                 PROVE  \/ WasThere(new[j], frags)
                        \/ NowDeleted(new[j], frags, ts)
                        \/ IsInserted(new[j], ts)
    BY <1>2
  <2>2. CASE j <= k
    <3>1. j \in 1..k /\ j \in 1..n
      BY <1>3, <2>2
    <3>2. QED
      BY <1>2, <1>5, <3>1
  <2>3. CASE k < j /\ j <= k + len
    <3>1. j - k \in 1..len /\ k + (j - k) = j
      BY <1>3, <2>3
    <3>2. QED
      BY <1>2, <3>1
  <2>4. CASE k + len < j
    <3>1. j - len \in (k + 1)..n /\ (j - len) + len = j /\ j - len \in 1..n
      BY <1>3, <2>4
    <3>2. MarkedAs(new[j], frags, j - len, ts, deleted)
      BY <1>2, <3>1
    <3>3. QED
      BY <1>5, <3>1, <3>2
  <2>5. QED
    BY <1>3, <2>2, <2>3, <2>4
<1>7. QED
  BY <1>2, <1>3, <1>4, <1>6
-----------------------------------------------------------------------------
(* What holds of operations and of buffers *)

(* An operation has the timestamp of its author's clock, and the version its *)
(* author had.                                                               *)
OpTyped(op) ==
    /\ op.kind \in {"edit", "undo"} /\ op.ts \in Stamps /\ op.ts.replica \in Replica
    /\ op.version \in [Replica \cup {0} -> Nat]
    /\ \A q \in Replica \cup {0} : op.version[q] < op.ts.value
    /\ op.kind = "edit" => op.len \in Nat
    /\ op.kind = "undo" => op.edit \in Stamps /\ Observed(op.version, op.edit)

Follows(y, x) == ObservedAll(y.version, x.version) /\ Observed(y.version, x.ts)

(* Who has not observed an operation knows no more of its author than the    *)
(* author did.                                                               *)
InStep(version, op) ==
    ~ Observed(version, op.ts) => version[op.ts.replica] <= op.version[op.ts.replica]

OpsSound(set) ==
    /\ IsFiniteSet(set)
    /\ \A op \in set : OpTyped(op)
    /\ \A x, y \in set : x.ts = y.ts => x = y
    /\ \A x, y \in set :
          x.ts.replica = y.ts.replica /\ x.ts.value < y.ts.value => Follows(y, x)
    /\ \A x, y \in set : InStep(x.version, y)

(* The operation has had its effect.                                         *)
Applied(b, op) ==
    IF op.kind = "edit"
    THEN \A o \in 1..op.len : \E i \in DOMAIN b.frags : Char(b.frags[i]) = <<op.ts, o>>
    ELSE \E u \in b.undos : u.id = op.ts

BufferTyped(b) ==
    /\ b = [frags |-> b.frags, undos |-> b.undos, version |-> b.version,
            clock |-> b.clock, deferred |-> b.deferred]
    /\ b.frags \in Seq(Fragment) /\ b.clock \in Nat
    /\ b.version \in [Replica \cup {0} -> Nat]
    /\ \A q \in Replica \cup {0} : b.version[q] < b.clock
    /\ \A i \in DOMAIN b.frags : b.frags[i].ts.value < b.clock

(* Every fragment looks as the undo counts say.                              *)
Current(frags, undos) ==
    \A i \in DOMAIN frags : frags[i].visible = IsVisible(undos, frags[i])

(* Only edits that were observed are undone.                                 *)
TextSound(b) ==
    /\ Current(b.frags, b.undos)
    /\ \A u \in b.undos : u.edit \in Stamps /\ Observed(b.version, u.edit)

VersionSound(b, set) ==
    /\ \A op \in set : Observed(b.version, op.ts) => Applied(b, op)
    /\ \A op \in set : InStep(b.version, op)

BufferSound(b, set) == BufferTyped(b) /\ TextSound(b) /\ VersionSound(b, set)

(* Nobody knows more of a replica than the replica itself.                   *)
KnownIn(bufs, version) == \A q \in Replica : version[q] <= bufs[q].version[q]

(* An author has observed its operations and what they depend on.            *)
AuthorsKnow(bufs, set) ==
    /\ \A r \in Replica : KnownIn(bufs, bufs[r].version)
    /\ \A op \in set : /\ KnownIn(bufs, op.version)
                       /\ Observed(bufs[op.ts.replica].version, op.ts)
                       /\ ObservedAll(bufs[op.ts.replica].version, op.version)

MissesSomething(b) == \A op \in b.deferred : ~ ObservedAll(b.version, op.version)

ReplicaSound(bufs, set) ==
    /\ OpsSound(set)
    /\ \A r \in Replica : /\ BufferSound(bufs[r], set) /\ bufs[r].deferred \subseteq set
                          /\ MissesSomething(bufs[r])
    /\ AuthorsKnow(bufs, set)

ReplicaInv == buffer = [r \in Replica |-> buffer[r]] /\ ReplicaSound(buffer, ops)

-----------------------------------------------------------------------------
(* Versions *)

Version == [Replica \cup {0} -> Nat]

(* A timestamp is its value and its replica.                                 *)
LEMMA SameStamp ==
    ASSUME NEW s \in Stamps, NEW t \in Stamps, s.value = t.value, s.replica = t.replica
    PROVE  s = t
<1>1. /\ s = [value |-> s.value, replica |-> s.replica]
      /\ t = [value |-> t.value, replica |-> t.replica]
  BY DEF Stamps
<1>2. QED
  BY <1>1, Zenon

(* Global::observe raises the entry of one replica and no other.             *)
LEMMA ObserveFacts ==
    ASSUME NEW version \in Version, NEW ts \in Stamps, NEW new, new = Observe(version, ts)
    PROVE  /\ new \in Version /\ Observed(new, ts) /\ ObservedAll(new, version)
           /\ \A q \in Replica \cup {0} : q # ts.replica => new[q] = version[q]
           /\ new[ts.replica] = version[ts.replica] \/ new[ts.replica] = ts.value
<1>1. PICK r, t : r = ts.replica /\ t = ts.value
  OBVIOUS
<1>2. r \in Replica \cup {0} /\ t \in Nat
  BY <1>1 DEF Stamps
<1>3. PICK m : m = Max({version[r], t})
  OBVIOUS
<1>4. m \in Nat /\ m >= version[r] /\ m >= t /\ (m = version[r] \/ m = t)
  BY <1>2, <1>3, MaxOfTwo DEF Version
<1>5. new = [version EXCEPT ![r] = m]
  BY <1>1, <1>3, Zenon DEF Observe
<1>6. /\ new \in Version /\ new[r] = m
      /\ \A q \in Replica \cup {0} : q # r => new[q] = version[q]
  BY <1>2, <1>4, <1>5 DEF Version
<1>7. \A q \in DOMAIN new : new[q] >= version[q]
  <2>1. DOMAIN new = Replica \cup {0}
    BY <1>6 DEF Version
  <2>2. \A q \in Replica \cup {0} : version[q] \in Nat
    BY DEF Version
  <2>3. QED
    BY <1>4, <1>6, <2>1, <2>2
<1>8. QED
  BY <1>1, <1>4, <1>6, <1>7 DEF Observed, ObservedAll

(* What was observed stays so.                                               *)
LEMMA ObservedStays ==
    ASSUME NEW version \in Version, NEW new \in Version, ObservedAll(new, version),
           NEW ts \in Stamps, Observed(version, ts)
    PROVE  Observed(new, ts)
<1>1. ts.replica \in Replica \cup {0} /\ ts.value \in Nat
  BY DEF Stamps
<1>2. /\ new[ts.replica] >= version[ts.replica]
      /\ new[ts.replica] \in Nat /\ version[ts.replica] \in Nat
  BY <1>1 DEF Version, ObservedAll
<1>3. QED
  BY <1>1, <1>2 DEF Observed

(* An operation that is applied adds nothing to the version but itself: its  *)
(* author's operations before it are in the version that it asks for.        *)
LEMMA VersionStep ==
    ASSUME NEW set, OpsSound(set), NEW op \in set, NEW version \in Version,
           \A y \in set : InStep(version, y), ObservedAll(version, op.version),
           NEW new, new = Observe(version, op.ts)
    PROVE  /\ \A y \in set : Observed(new, y.ts) => Observed(version, y.ts) \/ y = op
           /\ \A y \in set : InStep(new, y)
<1>1. /\ new \in Version
      /\ \A q \in Replica \cup {0} : q # op.ts.replica => new[q] = version[q]
      /\ new[op.ts.replica] = version[op.ts.replica] \/ new[op.ts.replica] = op.ts.value
  BY ObserveFacts DEF OpsSound, OpTyped
<1>2. ASSUME NEW y \in set
      PROVE  /\ Observed(new, y.ts) => Observed(version, y.ts) \/ y = op
             /\ InStep(new, y)
  <2>1. PICK q, s, t : q = y.ts.replica /\ s = y.ts.value /\ t = op.ts.value
    OBVIOUS
  <2>2. y.ts \in Stamps /\ op.ts \in Stamps /\ y.version \in Version /\ op.version \in Version
    BY DEF OpsSound, OpTyped, Version
  <2>3. q \in Replica \cup {0} /\ s \in Nat /\ t \in Nat
    BY <2>1, <2>2 DEF Stamps
  <2>4. version[q] \in Nat /\ y.version[q] \in Nat /\ op.version[q] \in Nat
    BY <2>2, <2>3 DEF Version
  <2>5. version[q] >= op.version[q]
    BY <2>3 DEF ObservedAll, Version
  <2>6. CASE new[q] = version[q]
    BY <2>1, <2>6 DEF Observed, InStep
  <2>7. CASE q = op.ts.replica /\ new[q] = t
    <3>1. CASE s = t
      <4>1. y.ts = op.ts
        BY <2>1, <2>2, <2>7, <3>1, SameStamp
      <4>2. y = op
        BY <4>1 DEF OpsSound
      <4>3. Observed(new, y.ts)
        BY <2>1, <2>3, <2>7, <3>1 DEF Observed
      <4>4. QED
        BY <4>2, <4>3 DEF InStep
    <3>2. CASE s < t
      <4>1. Follows(op, y)
        BY <2>1, <2>7, <3>2 DEF OpsSound
      <4>2. op.version[q] >= s
        BY <2>1, <4>1 DEF Follows, Observed
      <4>3. Observed(version, y.ts)
        BY <2>1, <2>3, <2>4, <2>5, <4>2 DEF Observed
      <4>4. Observed(new, y.ts)
        BY <2>1, <2>3, <2>7, <3>2 DEF Observed
      <4>5. QED
        BY <4>3, <4>4 DEF InStep
    <3>3. CASE t < s
      <4>1. Follows(y, op)
        BY <2>1, <2>7, <3>3 DEF OpsSound
      <4>2. y.version[q] >= t
        BY <2>1, <2>7, <4>1 DEF Follows, Observed
      <4>3. InStep(new, y)
        BY <2>1, <2>3, <2>4, <2>7, <4>2 DEF InStep
      <4>4. ~ Observed(new, y.ts)
        BY <2>1, <2>3, <2>7, <3>3 DEF Observed
      <4>5. QED
        BY <4>3, <4>4
    <3>4. QED
      BY <2>3, <3>1, <3>2, <3>3
  <2>8. QED
    BY <1>1, <2>1, <2>3, <2>6, <2>7
<1>3. QED
  BY <1>2
-----------------------------------------------------------------------------
(* What edits and undos do to a buffer *)

(* An edit is not undone by undos of others.                                 *)
LEMMA NotUndone ==
    ASSUME NEW undos, NEW edit, \A u \in undos : u.edit # edit
    PROVE  ~ IsUndone(undos, edit)
<1>1. {u.count : u \in {v \in undos : v.edit = edit}} = {}
  OBVIOUS
<1>2. Max({0}) = 0
  BY MaxOfBounded, 0 \in Nat, {0} \subseteq 0..0
<1>3. LargestCount(undos, edit) = 0
  BY <1>1, <1>2 DEF LargestCount
<1>4. 0 % 2 # 1
  OBVIOUS
<1>5. QED
  BY <1>3, <1>4 DEF IsUndone

(* An undo concerns no edit but its own.                                     *)
LEMMA OthersUndone ==
    ASSUME NEW undos, NEW u, NEW edit, u.edit # edit
    PROVE  IsUndone(undos \cup {u}, edit) = IsUndone(undos, edit)
<1>1. {v \in undos \cup {u} : v.edit = edit} = {v \in undos : v.edit = edit}
  OBVIOUS
<1>2. QED
  BY <1>1, Zenon DEF IsUndone, LargestCount

(* An edit leaves every fragment as visible as the undo counts say: nobody   *)
(* has undone the edit yet.                                                  *)
LEMMA EditVisible ==
    ASSUME NEW frags \in Seq(Fragment), NEW undos, Current(frags, undos),
           NEW k \in 0..Len(frags), NEW ts \in Stamps, NEW len \in Nat, NEW deleted,
           \A u \in undos : u.edit # ts,
           NEW new, new = Edited(frags, k, ts, len, deleted)
    PROVE  Current(new, undos)
<1>1. ~ IsUndone(undos, ts)
  BY NotUndone
<1>2. ASSUME NEW f, \/ WasThere(f, frags)
                    \/ NowDeleted(f, frags, ts)
                    \/ IsInserted(f, ts)
      PROVE  f.visible = IsVisible(undos, f)
  <2>1. CASE WasThere(f, frags)
    BY <2>1, Zenon DEF WasThere, Current
  <2>2. CASE NowDeleted(f, frags, ts)
    <3>1. ts \in f.deletions /\ f.visible = FALSE
      BY <2>2 DEF NowDeleted
    <3>2. IsVisible(undos, f) = FALSE
      BY <1>1, <3>1 DEF IsVisible
    <3>3. QED
      BY <3>1, <3>2, Zenon
  <2>3. CASE IsInserted(f, ts)
    <3>1. f.visible = TRUE /\ f.ts = ts /\ f.deletions = {}
      BY <2>3 DEF IsInserted
    <3>2. IsVisible(undos, f)
      BY <1>1, <3>1 DEF IsVisible
    <3>3. QED
      BY <3>1, <3>2
  <2>4. QED
    BY <1>2, <2>1, <2>2, <2>3
<1>3. QED
  BY <1>2, EditedFacts DEF Current

(* After an undo, the fragments that the edit inserted or deleted are looked *)
(* at again; the others look as before.                                      *)
RefreshedFor(frags, edit, undos) ==
    [i \in DOMAIN frags |->
        IF frags[i].ts = edit \/ edit \in frags[i].deletions
        THEN [frags[i] EXCEPT !.visible = IsVisible(undos, frags[i])]
        ELSE frags[i]]

SameChars(frags, new) ==
    /\ new \in Seq(Fragment) /\ DOMAIN new = DOMAIN frags
    /\ \A i \in DOMAIN frags : /\ Char(new[i]) = Char(frags[i]) /\ new[i].ts = frags[i].ts
                              /\ new[i].deletions = frags[i].deletions

(* An undo looks again at all the fragments it can concern.                  *)
LEMMA UndoVisible ==
    ASSUME NEW frags \in Seq(Fragment), NEW undos, NEW u, Current(frags, undos),
           NEW more, more = undos \cup {u},
           NEW new, new = RefreshedFor(frags, u.edit, more)
    PROVE  SameChars(frags, new) /\ Current(new, more)
<1>1. PICK n \in Nat : n = Len(frags) /\ DOMAIN frags = 1..n
  OBVIOUS
<1>2. ASSUME NEW i \in 1..n
      PROVE  /\ new[i] \in Fragment /\ Char(new[i]) = Char(frags[i]) /\ new[i].ts = frags[i].ts
             /\ new[i].deletions = frags[i].deletions
             /\ new[i].visible = IsVisible(more, new[i])
  <2>1. PICK f \in Fragment : f = frags[i] /\ f.visible = IsVisible(undos, f)
    BY <1>1 DEF Current
  <2>2. CASE f.ts = u.edit \/ u.edit \in f.deletions
    <3>1. new[i] = [f EXCEPT !.visible = IsVisible(more, f)]
      BY <1>1, <2>1, <2>2 DEF RefreshedFor
    <3>2. IsVisible(more, f) \in BOOLEAN
      BY DEF IsVisible
    <3>3. PICK v \in BOOLEAN : v = IsVisible(more, f)
      BY <3>2
    <3>4. new[i] = [f EXCEPT !.visible = v]
      BY <3>1, <3>3, Zenon
    <3>5. /\ new[i] \in Fragment /\ new[i].ts = f.ts /\ new[i].offset = f.offset
          /\ new[i].deletions = f.deletions /\ new[i].visible = v
      <4>1. new[i] \in Fragment
        BY <3>4 DEF Fragment
      <4>2. DOMAIN f = {"ts", "offset", "deletions", "visible"}
        BY DEF Fragment
      <4>3. QED
        BY <3>4, <4>1, <4>2
    <3>6. IsVisible(more, new[i]) = IsVisible(more, f)
      BY <3>5, Zenon DEF IsVisible
    <3>7. QED
      BY <2>1, <3>3, <3>5, <3>6, Zenon DEF Char
  <2>3. CASE ~ (f.ts = u.edit \/ u.edit \in f.deletions)
    <3>1. new[i] = f
      BY <1>1, <2>1, <2>3 DEF RefreshedFor
    <3>2. IsUndone(more, f.ts) = IsUndone(undos, f.ts)
      BY <2>3, OthersUndone
    <3>3. \A d \in f.deletions : IsUndone(more, d) = IsUndone(undos, d)
      BY <2>3, OthersUndone
    <3>4. IsVisible(more, f) = IsVisible(undos, f)
      BY <3>2, <3>3, Zenon DEF IsVisible
    <3>5. QED
      BY <2>1, <3>1, <3>4, Zenon
  <2>4. QED
    BY <2>2, <2>3
<1>3. new \in Seq(Fragment)
  <2>1. new = [i \in 1..n |-> new[i]]
    BY <1>1 DEF RefreshedFor
  <2>2. new \in [1..n -> Fragment]
    BY <1>2, <2>1
  <2>3. QED
    BY <2>2, FragmentsOf
<1>4. DOMAIN new = 1..n
  BY <1>1 DEF RefreshedFor
<1>5. QED
  BY <1>1, <1>2, <1>3, <1>4 DEF Current, SameChars

(* The buffer has taken in what the timestamp stands for.                    *)
Advanced(b, new, ts) ==
    /\ BufferTyped(new) /\ TextSound(new)
    /\ new.version = Observe(b.version, ts) /\ new.deferred = b.deferred
    /\ \A op : Applied(b, op) => Applied(new, op)

(* The version and the clock after an operation: what was observed stays so. *)
LEMMA ClockAhead ==
    ASSUME NEW b, BufferTyped(b), NEW ts \in Stamps, NEW clock \in Nat,
           b.clock <= clock, ts.value < clock,
           NEW version, version = Observe(b.version, ts)
    PROVE  /\ version \in [Replica \cup {0} -> Nat]
           /\ \A q \in Replica \cup {0} : version[q] < clock
           /\ \A e \in Stamps : Observed(b.version, e) => Observed(version, e)
<1>1. b.version \in Version /\ b.clock \in Nat
  BY DEF BufferTyped, Version
<1>2. /\ version \in Version /\ ObservedAll(version, b.version)
      /\ \A q \in Replica \cup {0} : q # ts.replica => version[q] = b.version[q]
      /\ version[ts.replica] = b.version[ts.replica] \/ version[ts.replica] = ts.value
  BY <1>1, ObserveFacts
<1>3. ASSUME NEW q \in Replica \cup {0}
      PROVE  version[q] < clock
  <2>1. b.version[q] < b.clock /\ b.version[q] \in Nat /\ ts.value \in Nat
    BY <1>1 DEF BufferTyped, Version, Stamps
  <2>2. version[q] = b.version[q] \/ version[q] = ts.value
    BY <1>2
  <2>3. QED
    BY <1>1, <2>1, <2>2
<1>4. QED
  BY <1>1, <1>2, <1>3, ObservedStays DEF Version

(* A clock that is ahead of the buffer's is ahead of its fragments.          *)
LEMMA FragmentTimes ==
    ASSUME NEW b, BufferTyped(b), NEW clock \in Nat, b.clock <= clock
    PROVE  \A i \in DOMAIN b.frags : b.frags[i].ts.value < clock
<1>1. ASSUME NEW i \in DOMAIN b.frags
      PROVE  b.frags[i].ts.value < clock
  <2>1. b.frags \in Seq(Fragment) /\ b.clock \in Nat /\ b.frags[i].ts.value < b.clock
    BY DEF BufferTyped
  <2>2. b.frags[i] \in Fragment
    BY <2>1
  <2>3. b.frags[i].ts.value \in Nat
    BY <2>2 DEF Fragment, Stamps
  <2>4. QED
    BY <2>1, <2>3
<1>2. QED
  BY <1>1

(* An edit, local or remote, keeps the buffer sound and has its effect.      *)
LEMMA EditAdvances ==
    ASSUME NEW b, BufferTyped(b), TextSound(b), NEW ts \in Stamps, ~ Observed(b.version, ts),
           NEW k \in 0..Len(b.frags), NEW len \in Nat, NEW deleted,
           NEW clock \in Nat, b.clock <= clock, ts.value < clock,
           NEW new, new = [frags |-> Edited(b.frags, k, ts, len, deleted), undos |-> b.undos,
                           version |-> Observe(b.version, ts), clock |-> clock,
                           deferred |-> b.deferred]
    PROVE  /\ Advanced(b, new, ts)
           /\ \A op : op.kind = "edit" /\ op.ts = ts /\ op.len = len => Applied(new, op)
<1>1. PICK frags : frags = b.frags
  OBVIOUS
<1>2. frags \in Seq(Fragment) /\ b.clock \in Nat /\ k \in 0..Len(frags)
  BY <1>1 DEF BufferTyped
<1>3. /\ new.frags = Edited(frags, k, ts, len, deleted) /\ new.undos = b.undos
      /\ new.version = Observe(b.version, ts) /\ new.clock = clock /\ new.deferred = b.deferred
  BY <1>1
<1>4. PICK after : after = new.frags
  OBVIOUS
<1>5. /\ after \in Seq(Fragment) /\ CharsKept(frags, after)
      /\ \A o \in 1..len : \E j \in DOMAIN after : Char(after[j]) = <<ts, o>>
      /\ \A j \in DOMAIN after : \/ WasThere(after[j], frags)
                                 \/ NowDeleted(after[j], frags, ts)
                                 \/ IsInserted(after[j], ts)
  BY <1>2, <1>3, <1>4, EditedFacts
<1>6. /\ new.version \in [Replica \cup {0} -> Nat]
      /\ \A q \in Replica \cup {0} : new.version[q] < clock
      /\ \A e \in Stamps : Observed(b.version, e) => Observed(new.version, e)
  BY <1>3, ClockAhead
<1>7. BufferTyped(new)
  <2>1. new = [frags |-> new.frags, undos |-> new.undos, version |-> new.version,
               clock |-> new.clock, deferred |-> new.deferred]
    BY <1>1, <1>3, Zenon
  <2>2. ASSUME NEW j \in DOMAIN after
        PROVE  after[j].ts.value < clock
    <3>1. after[j].ts = ts \/ \E i \in DOMAIN frags : after[j].ts = frags[i].ts
      BY <1>5, <2>2 DEF WasThere, NowDeleted, IsInserted
    <3>2. \A i \in DOMAIN frags : frags[i].ts.value < clock
      BY <1>1, FragmentTimes
    <3>3. QED
      BY <3>1, <3>2
  <2>3. QED
    BY <1>3, <1>4, <1>5, <1>6, <2>1, <2>2 DEF BufferTyped
<1>8. TextSound(new)
  <2>1. \A u \in b.undos : u.edit # ts /\ u.edit \in Stamps /\ Observed(b.version, u.edit)
    BY DEF TextSound
  <2>2. Current(frags, b.undos)
    BY <1>1 DEF TextSound
  <2>3. Current(after, b.undos)
    BY <1>2, <1>3, <1>4, <2>1, <2>2, EditVisible
  <2>4. QED
    BY <1>3, <1>4, <1>6, <2>1, <2>3 DEF TextSound
<1>9. \A op : Applied(b, op) => Applied(new, op)
  <2>1. \A i \in DOMAIN b.frags : \E j \in DOMAIN new.frags : Char(new.frags[j]) = Char(b.frags[i])
    BY <1>1, <1>4, <1>5 DEF CharsKept
  <2>2. QED
    BY <1>3, <2>1, Zenon DEF Applied
<1>10. \A op : op.kind = "edit" /\ op.ts = ts /\ op.len = len => Applied(new, op)
  BY <1>4, <1>5 DEF Applied
<1>11. QED
  BY <1>3, <1>7, <1>8, <1>9, <1>10 DEF Advanced

AfterUndo(b, op, clock) ==
    [ApplyUndo(b, op) EXCEPT !.version = Observe(b.version, op.ts), !.clock = clock]

BufferRecord(b) ==
    b = [frags |-> b.frags, undos |-> b.undos, version |-> b.version,
         clock |-> b.clock, deferred |-> b.deferred]

(* What an undo makes of a buffer.                                           *)
UndoneBy(b, new, op, clock) ==
    /\ BufferRecord(new)
    /\ new.undos = b.undos \cup {[edit |-> op.edit, count |-> op.count, id |-> op.ts]}
    /\ new.version = Observe(b.version, op.ts) /\ new.clock = clock
    /\ new.deferred = b.deferred
    /\ SameChars(b.frags, new.frags) /\ Current(new.frags, new.undos)

LEMMA UndoRecord ==
    ASSUME NEW b, BufferTyped(b), TextSound(b), NEW op, NEW clock,
           NEW new, new = AfterUndo(b, op, clock)
    PROVE  UndoneBy(b, new, op, clock)
<1>1. PICK u : u = [edit |-> op.edit, count |-> op.count, id |-> op.ts]
  OBVIOUS
<1>2. PICK frags, more : frags = b.frags /\ more = b.undos \cup {u}
  OBVIOUS
<1>3. PICK after : after = RefreshedFor(frags, u.edit, more)
  OBVIOUS
<1>4. u.edit = op.edit /\ u.id = op.ts
  BY <1>1
<1>5. ApplyUndo(b, op) = [b EXCEPT !.undos = more, !.frags = after]
  BY <1>1, <1>2, <1>3, <1>4, Zenon DEF ApplyUndo, RefreshedFor
<1>6. b = [frags |-> b.frags, undos |-> b.undos, version |-> b.version,
           clock |-> b.clock, deferred |-> b.deferred]
  BY DEF BufferTyped
<1>7. new = [frags |-> after, undos |-> more, version |-> Observe(b.version, op.ts),
             clock |-> clock, deferred |-> b.deferred]
  <2>1. PICK f0, u0, v0, c0, d0 :
           b = [frags |-> f0, undos |-> u0, version |-> v0, clock |-> c0, deferred |-> d0]
           /\ d0 = b.deferred
    BY <1>6
  <2>2. ApplyUndo(b, op) = [frags |-> after, undos |-> more, version |-> v0, clock |-> c0,
                            deferred |-> d0]
    BY <1>5, <2>1
  <2>3. PICK v : v = Observe(b.version, op.ts)
    OBVIOUS
  <2>4. new = [ApplyUndo(b, op) EXCEPT !.version = v, !.clock = clock]
    BY <2>3, Zenon DEF AfterUndo
  <2>5. new = [[frags |-> after, undos |-> more, version |-> v0, clock |-> c0,
                deferred |-> d0] EXCEPT !.version = v, !.clock = clock]
    BY <2>2, <2>4, Zenon
  <2>6. new = [frags |-> after, undos |-> more, version |-> v, clock |-> clock, deferred |-> d0]
    BY <2>5
  <2>7. QED
    BY <2>1, <2>3, <2>6
<1>8. /\ new.frags = after /\ new.undos = more /\ new.version = Observe(b.version, op.ts)
      /\ new.clock = clock /\ new.deferred = b.deferred
  <2>1. PICK v, d : v = Observe(b.version, op.ts) /\ d = b.deferred
    OBVIOUS
  <2>2. new = [frags |-> after, undos |-> more, version |-> v, clock |-> clock, deferred |-> d]
    BY <1>7, <2>1, Zenon
  <2>3. /\ new.frags = after /\ new.undos = more /\ new.version = v
        /\ new.clock = clock /\ new.deferred = d
    BY <2>2
  <2>4. QED
    BY <2>1, <2>3, Zenon
<1>9. frags \in Seq(Fragment) /\ Current(frags, b.undos)
  BY <1>2 DEF BufferTyped, TextSound
<1>10. SameChars(frags, after) /\ Current(after, more)
  <2>1. more = b.undos \cup {u}
    BY <1>2
  <2>2. QED
    BY <1>3, <1>9, <2>1, UndoVisible, Zenon
<1>11. BufferRecord(new)
  BY <1>7, <1>8, Zenon DEF BufferRecord
<1>12. QED
  BY <1>1, <1>2, <1>8, <1>10, <1>11, Zenon DEF UndoneBy

(* So does an undo.                                                          *)
LEMMA UndoAdvances ==
    ASSUME NEW b, BufferTyped(b), TextSound(b), NEW op, op.kind = "undo", op.ts \in Stamps,
           op.edit \in Stamps, Observed(b.version, op.edit),
           NEW clock \in Nat, b.clock <= clock, op.ts.value < clock,
           NEW new, new = AfterUndo(b, op, clock)
    PROVE  Advanced(b, new, op.ts) /\ Applied(new, op)
<1>1. PICK u : u = [edit |-> op.edit, count |-> op.count, id |-> op.ts]
  OBVIOUS
<1>2. PICK frags, more : frags = b.frags /\ more = b.undos \cup {u}
  OBVIOUS
<1>3. PICK after : after = new.frags
  OBVIOUS
<1>4. u.edit = op.edit /\ u.id = op.ts
  BY <1>1
<1>5. UndoneBy(b, new, op, clock)
  BY UndoRecord
<1>6. SameChars(frags, after) /\ Current(after, more)
  BY <1>1, <1>2, <1>3, <1>5, Zenon DEF UndoneBy
<1>7. BufferRecord(new)
  BY <1>5, Zenon DEF UndoneBy
<1>8. /\ new.frags = after /\ new.undos = more /\ new.version = Observe(b.version, op.ts)
      /\ new.clock = clock /\ new.deferred = b.deferred
  BY <1>1, <1>2, <1>3, <1>5, Zenon DEF UndoneBy
<1>9. frags \in Seq(Fragment) /\ Current(frags, b.undos)
  BY <1>2 DEF BufferTyped, TextSound
<1>10. /\ after \in Seq(Fragment) /\ DOMAIN after = DOMAIN frags
       /\ \A i \in DOMAIN frags : Char(after[i]) = Char(frags[i]) /\ after[i].ts = frags[i].ts
       /\ Current(after, more)
  BY <1>6 DEF SameChars
<1>11. /\ new.version \in [Replica \cup {0} -> Nat]
       /\ \A q \in Replica \cup {0} : new.version[q] < clock
       /\ \A e \in Stamps : Observed(b.version, e) => Observed(new.version, e)
  BY <1>8, ClockAhead
<1>12. BufferTyped(new)
  <2>1. new = [frags |-> new.frags, undos |-> new.undos, version |-> new.version,
               clock |-> new.clock, deferred |-> new.deferred]
    BY <1>7, Zenon DEF BufferRecord
  <2>2. \A i \in DOMAIN frags : frags[i].ts.value < clock
    BY <1>2, FragmentTimes
  <2>3. \A i \in DOMAIN after : after[i].ts.value < clock
    BY <1>10, <2>2
  <2>4. QED
    BY <1>8, <1>10, <1>11, <2>1, <2>3 DEF BufferTyped
<1>13. TextSound(new)
  <2>1. \A v \in b.undos : v.edit \in Stamps /\ Observed(b.version, v.edit)
    BY DEF TextSound
  <2>2. \A v \in more : v.edit \in Stamps /\ Observed(new.version, v.edit)
    BY <1>2, <1>4, <1>11, <2>1
  <2>3. QED
    BY <1>8, <1>10, <2>2 DEF TextSound
<1>14. \A o : Applied(b, o) => Applied(new, o)
  <2>1. \A i \in DOMAIN b.frags : i \in DOMAIN new.frags /\ Char(new.frags[i]) = Char(b.frags[i])
    BY <1>2, <1>8, <1>10
  <2>2. b.undos \subseteq new.undos
    BY <1>2, <1>8
  <2>3. QED
    BY <2>1, <2>2, Zenon DEF Applied
<1>15. Applied(new, op)
  <2>1. u \in new.undos /\ u.id = op.ts
    BY <1>2, <1>4, <1>8
  <2>2. QED
    BY <2>1 DEF Applied
<1>16. QED
  BY <1>8, <1>12, <1>13, <1>14, <1>15 DEF Advanced
-----------------------------------------------------------------------------
(* Applying a sequence of operations *)

(* The steps of TakeIn over the first n operations.                          *)
Taken0(b, blocked) == [b |-> b, blocked |-> blocked, deferred |-> {}]

IsTrace(f, n, b, blocked, seq) ==
    f = [m \in 0..n |-> IF m = 0 THEN Taken0(b, blocked) ELSE TakeOne(f[m - 1], seq[m])]

(* The loop over a sequence of operations has its intermediate states.       *)
LEMMA TraceExists ==
    ASSUME NEW b, NEW blocked, NEW seq, NEW n \in Nat
    PROVE  \E f : IsTrace(f, n, b, blocked, seq)
<1> DEFINE Bad == {m \in Nat : ~ \E f : IsTrace(f, m, b, blocked, seq)}
<1>1. SUFFICES ASSUME Bad # {} PROVE FALSE
  OBVIOUS
<1>2. PICK m \in Bad : \A k \in Bad : m <= k
  BY <1>1, LeastElement
<1>3. m \in Nat /\ ~ \E f : IsTrace(f, m, b, blocked, seq)
  BY <1>2
<1>4. CASE m = 0
  <2>1. PICK f : f = [k \in 0..0 |-> Taken0(b, blocked)]
    OBVIOUS
  <2>2. \A k \in 0..0 : k = 0
    OBVIOUS
  <2>3. [k \in 0..0 |-> Taken0(b, blocked)] =
            [k \in 0..0 |-> IF k = 0 THEN Taken0(b, blocked) ELSE TakeOne(f[k - 1], seq[k])]
    BY <2>2, Zenon
  <2>4. IsTrace(f, 0, b, blocked, seq)
    BY <2>1, <2>3, Zenon DEF IsTrace
  <2>5. QED
    BY <1>3, <1>4, <2>4
<1>5. CASE m # 0
  <2>1. PICK k \in Nat : m = k + 1
    BY <1>3, <1>5, m - 1 \in Nat
  <2>2. k \notin Bad
    BY <1>2, <2>1
  <2>3. PICK f : IsTrace(f, k, b, blocked, seq)
    BY <2>2
  <2>4. PICK last : last = TakeOne(f[k], seq[m])
    OBVIOUS
  <2>5. PICK g : g = [j \in 0..m |-> IF j = m THEN last ELSE f[j]]
    OBVIOUS
  <2>6. DOMAIN f = 0..k
    BY <2>3 DEF IsTrace
  <2>7. \A j \in 0..k : f[j] = IF j = 0 THEN Taken0(b, blocked) ELSE TakeOne(f[j - 1], seq[j])
    BY <2>3, <2>6, Zenon DEF IsTrace
  <2>8. \A j \in 0..k : g[j] = f[j] /\ j \in 0..m
    BY <2>1, <2>5
  <2>9. g[m] = last /\ m # 0 /\ m - 1 = k /\ k \in 0..k
    BY <1>3, <2>1, <2>5
  <2>10. ASSUME NEW j \in 0..m
         PROVE  g[j] = IF j = 0 THEN Taken0(b, blocked) ELSE TakeOne(g[j - 1], seq[j])
    <3>1. CASE j = m
      <4>1. g[j - 1] = f[k]
        BY <2>8, <2>9, <3>1
      <4>2. QED
        BY <2>4, <2>9, <3>1, <4>1, Zenon
    <3>2. CASE j # m /\ j = 0
      BY <2>1, <2>7, <2>8, <3>2
    <3>3. CASE j # m /\ j # 0
      <4>1. j \in 0..k /\ j - 1 \in 0..k
        BY <2>1, <3>3
      <4>2. g[j] = f[j] /\ g[j - 1] = f[j - 1]
        BY <2>8, <4>1
      <4>3. f[j] = TakeOne(f[j - 1], seq[j])
        BY <2>7, <3>3, <4>1, Zenon
      <4>4. QED
        BY <3>3, <4>2, <4>3, Zenon
    <3>4. QED
      BY <3>1, <3>2, <3>3
  <2>11. g = [j \in 0..m |-> g[j]]
    BY <2>5
  <2>12. IsTrace(g, m, b, blocked, seq)
    <3>1. g = [j \in 0..m |-> IF j = 0 THEN Taken0(b, blocked) ELSE TakeOne(g[j - 1], seq[j])]
      BY <2>10, <2>11, Zenon
    <3>2. QED
      BY <3>1, Zenon DEF IsTrace
  <2>13. QED
    BY <1>3, <2>12
<1>6. QED
  BY <1>4, <1>5

(* TakeIn is the last of them.                                               *)
LEMMA TakeInTrace ==
    ASSUME NEW b, NEW blocked, NEW seq, NEW n \in Nat, n = Len(seq)
    PROVE  \E f : /\ f[0] = Taken0(b, blocked)
                  /\ \A m \in 0..n : m # 0 => f[m] = TakeOne(f[m - 1], seq[m])
                  /\ TakeIn(b, blocked, seq) = f[n]
<1>1. PICK f : f = CHOOSE g : IsTrace(g, n, b, blocked, seq)
  OBVIOUS
<1>2. IsTrace(f, n, b, blocked, seq)
  BY <1>1, TraceExists, Zenon
<1>3. TakeIn(b, blocked, seq) = f[n]
  BY <1>1, Zenon DEF TakeIn, IsTrace, Taken0
<1>4. 0 \in 0..n
  OBVIOUS
<1>5. DOMAIN f = 0..n
  BY <1>2 DEF IsTrace
<1>6. \A m \in 0..n : f[m] = IF m = 0 THEN Taken0(b, blocked) ELSE TakeOne(f[m - 1], seq[m])
  BY <1>2, <1>5, Zenon DEF IsTrace
<1>7. f[0] = Taken0(b, blocked)
  BY <1>4, <1>6, Zenon
<1>8. QED
  BY <1>3, <1>6, <1>7, Zenon
-----------------------------------------------------------------------------
(* ApplyOp *)

(* An operation that is applied when all it depends on was observed leaves   *)
(* a version that claims nothing but what was applied.                       *)
LEMMA AdvancedSound ==
    ASSUME NEW set, OpsSound(set), NEW op \in set, NEW b, BufferSound(b, set),
           ObservedAll(b.version, op.version),
           NEW new, Advanced(b, new, op.ts), Applied(new, op)
    PROVE  BufferSound(new, set)
<1>1. /\ b.version \in Version /\ new.version = Observe(b.version, op.ts)
      /\ \A y \in set : InStep(b.version, y)
  BY DEF BufferSound, BufferTyped, VersionSound, Version, Advanced
<1>2. PICK version : version = new.version
  OBVIOUS
<1>3. version = Observe(b.version, op.ts)
  BY <1>1, <1>2
<1>4. /\ \A y \in set : Observed(version, y.ts) => Observed(b.version, y.ts) \/ y = op
      /\ \A y \in set : InStep(version, y)
  BY <1>1, <1>3, VersionStep
<1>5. \A y \in set : Observed(version, y.ts) => Applied(new, y)
  BY <1>4 DEF Advanced, BufferSound, VersionSound
<1>6. VersionSound(new, set)
  BY <1>2, <1>4, <1>5, Zenon DEF VersionSound
<1>7. QED
  BY <1>6 DEF Advanced, BufferSound

(* Lamport::observe puts the clock ahead of the timestamp.                   *)
LEMMA ClockAfterFacts ==
    ASSUME NEW clock \in Nat, NEW ts \in Stamps
    PROVE  ClockAfter(clock, ts) \in Nat /\ clock < ClockAfter(clock, ts)
           /\ ts.value < ClockAfter(clock, ts)
<1>1. PICK t \in Nat : t = ts.value
  BY DEF Stamps
<1>2. PICK m : m = Max({clock, t})
  OBVIOUS
<1>3. m \in Nat /\ m >= clock /\ m >= t
  BY <1>2, MaxOfTwo
<1>4. ClockAfter(clock, ts) = m + 1
  BY <1>1, <1>2 DEF ClockAfter
<1>5. QED
  BY <1>1, <1>3, <1>4

AfterRemote(applied, op) ==
    [applied EXCEPT !.version = Observe(@, op.ts), !.clock = ClockAfter(@, op.ts)]

(* What apply_op makes of a buffer for an edit of another replica.           *)
EditGone(b, op) ==
    {i \in DOMAIN b.frags : /\ Rank(b.frags, op.version, i) \in op.start + 1..op.end
                            /\ WasVisible(b.undos, b.frags[i], op.version)}

RemotePlace(b, op) == RemoteIndex(b.frags, op.version, op.start, op.ts)

EditedBy(b, new, op, k, gone, clock) ==
    new = [frags |-> Edited(b.frags, k, op.ts, op.len, gone), undos |-> b.undos,
           version |-> Observe(b.version, op.ts), clock |-> clock, deferred |-> b.deferred]

LEMMA RemoteEditRecord ==
    ASSUME NEW b, BufferTyped(b), NEW op, NEW new, new = AfterRemote(ApplyRemoteEdit(b, op), op)
    PROVE  EditedBy(b, new, op, RemotePlace(b, op), EditGone(b, op), ClockAfter(b.clock, op.ts))
<1>1. PICK ts, len : ts = op.ts /\ len = op.len
  OBVIOUS
<1>2. PICK k : k = RemotePlace(b, op)
  OBVIOUS
<1>4. PICK deleted : deleted = EditGone(b, op)
  OBVIOUS
<1>5. PICK after : after = Edited(b.frags, k, ts, len, deleted)
  OBVIOUS
<1>6. ApplyRemoteEdit(b, op) = [b EXCEPT !.frags = after]
  BY <1>1, <1>2, <1>4, <1>5, Zenon DEF ApplyRemoteEdit, RemotePlace, EditGone
<1>7. PICK f0, u0, v0, c0, d0 :
          /\ b = [frags |-> f0, undos |-> u0, version |-> v0, clock |-> c0, deferred |-> d0]
          /\ f0 = b.frags /\ u0 = b.undos /\ v0 = b.version /\ c0 = b.clock /\ d0 = b.deferred
  BY DEF BufferTyped
<1>8. ApplyRemoteEdit(b, op) =
          [frags |-> after, undos |-> u0, version |-> v0, clock |-> c0, deferred |-> d0]
  BY <1>6, <1>7
<1>9. PICK v, c : v = Observe(v0, ts) /\ c = ClockAfter(c0, ts)
  OBVIOUS
<1>10. new = [frags |-> after, undos |-> u0, version |-> v, clock |-> c, deferred |-> d0]
  <2>1. new = [[frags |-> after, undos |-> u0, version |-> v0, clock |-> c0, deferred |-> d0]
                   EXCEPT !.version = Observe(@, ts), !.clock = ClockAfter(@, ts)]
    BY <1>1, <1>8, Zenon DEF AfterRemote
  <2>2. PICK w : w = [frags |-> after, undos |-> u0, version |-> v0, clock |-> c0, deferred |-> d0]
    OBVIOUS
  <2>3. w.version = v0 /\ w.clock = c0
    BY <2>2
  <2>4. new = [w EXCEPT !.version = v, !.clock = c]
    BY <1>9, <2>1, <2>2, <2>3, Zenon
  <2>5. QED
    BY <2>2, <2>4
<1>11. new = [frags |-> Edited(b.frags, k, ts, len, deleted), undos |-> b.undos,
              version |-> Observe(b.version, ts), clock |-> c, deferred |-> b.deferred]
  BY <1>5, <1>7, <1>9, <1>10, Zenon
<1>12. QED
  BY <1>1, <1>2, <1>4, <1>7, <1>9, <1>11, Zenon DEF EditedBy

(* apply_op for an edit of another replica.                                  *)
LEMMA RemoteEditAdvances ==
    ASSUME NEW b, BufferTyped(b), TextSound(b), NEW op, op.kind = "edit", op.ts \in Stamps,
           op.len \in Nat, ~ Observed(b.version, op.ts),
           NEW new, new = AfterRemote(ApplyRemoteEdit(b, op), op)
    PROVE  Advanced(b, new, op.ts) /\ Applied(new, op)
<1>1. PICK ts, len : ts = op.ts /\ len = op.len
  OBVIOUS
<1>2. PICK k, deleted, c : /\ k = RemotePlace(b, op) /\ deleted = EditGone(b, op)
                           /\ c = ClockAfter(b.clock, op.ts)
  OBVIOUS
<1>3. k \in 0..Len(b.frags)
  <2>1. b.frags \in Seq(Fragment)
    BY DEF BufferTyped
  <2>2. Len(b.frags) \in Nat /\ DOMAIN b.frags = 1..Len(b.frags)
    BY <2>1
  <2>3. QED
    BY <1>2, <2>2, RemoteIndexRange DEF RemotePlace
<1>4. new = [frags |-> Edited(b.frags, k, ts, len, deleted), undos |-> b.undos,
              version |-> Observe(b.version, ts), clock |-> c, deferred |-> b.deferred]
  BY <1>1, <1>2, RemoteEditRecord, Zenon DEF EditedBy
<1>5. c \in Nat /\ b.clock <= c /\ ts.value < c
  <2>1. PICK c0 \in Nat : c0 = b.clock
    BY DEF BufferTyped
  <2>2. c \in Nat /\ c0 < c /\ ts.value < c
    BY <1>1, <1>2, <2>1, ClockAfterFacts
  <2>3. QED
    BY <2>1, <2>2
<1>6. /\ Advanced(b, new, ts)
       /\ \A o : o.kind = "edit" /\ o.ts = ts /\ o.len = len => Applied(new, o)
  <2>1. ts \in Stamps /\ ~ Observed(b.version, ts) /\ len \in Nat
    BY <1>1
  <2>2. QED
    BY <1>3, <1>4, <1>5, <2>1, EditAdvances, Zenon
<1>7. QED
  BY <1>1, <1>6

LEMMA UndoKeeps ==
    ASSUME NEW b, BufferTyped(b), NEW op, NEW w, w = ApplyUndo(b, op)
    PROVE  w.version = b.version /\ w.clock = b.clock
<1>1. \E u, f : ApplyUndo(b, op) = [b EXCEPT !.undos = u, !.frags = f]
  BY Zenon DEF ApplyUndo
<1>2. PICK u, f : w = [b EXCEPT !.undos = u, !.frags = f]
  BY <1>1
<1>3. PICK f0, u0, v0, c0, d0 :
          /\ b = [frags |-> f0, undos |-> u0, version |-> v0, clock |-> c0, deferred |-> d0]
          /\ v0 = b.version /\ c0 = b.clock
  BY DEF BufferTyped
<1>4. QED
  BY <1>2, <1>3

(* apply_op for an undo of another replica.                                  *)
LEMMA RemoteUndoAdvances ==
    ASSUME NEW b, BufferTyped(b), TextSound(b), NEW op, op.kind = "undo", op.ts \in Stamps,
           op.edit \in Stamps, Observed(b.version, op.edit),
           NEW new, new = AfterRemote(ApplyUndo(b, op), op)
    PROVE  Advanced(b, new, op.ts) /\ Applied(new, op)
<1>1. PICK w : w = ApplyUndo(b, op)
  OBVIOUS
<1>2. w.version = b.version /\ w.clock = b.clock
  BY <1>1, UndoKeeps
<1>3. PICK clock : clock = ClockAfter(b.clock, op.ts)
  OBVIOUS
<1>4. clock \in Nat /\ b.clock <= clock /\ op.ts.value < clock
  <2>1. PICK c \in Nat : c = b.clock
    BY DEF BufferTyped
  <2>2. clock \in Nat /\ c < clock /\ op.ts.value < clock
    BY <1>3, <2>1, ClockAfterFacts
  <2>3. QED
    BY <2>1, <2>2
<1>5. new = AfterUndo(b, op, clock)
  BY <1>1, <1>2, <1>3, Zenon DEF AfterUndo, AfterRemote
<1>6. QED
  BY <1>4, <1>5, UndoAdvances

(* apply_op, also for an operation that came before.                         *)
LEMMA ApplyOpSound ==
    ASSUME NEW set, OpsSound(set), NEW op \in set, NEW b, BufferSound(b, set),
           ObservedAll(b.version, op.version), NEW new, new = ApplyOp(b, op)
    PROVE  /\ BufferSound(new, set) /\ new.deferred = b.deferred
           /\ Observed(new.version, op.ts)
           /\ new.version = b.version \/ new.version = Observe(b.version, op.ts)
<1>1. /\ BufferTyped(b) /\ TextSound(b) /\ b.version \in Version
      /\ OpTyped(op) /\ op.ts \in Stamps /\ op.version \in Version
  BY DEF BufferSound, BufferTyped, OpsSound, OpTyped, Version
<1>2. CASE Observed(b.version, op.ts)
  BY <1>2, Zenon DEF ApplyOp
<1>3. CASE ~ Observed(b.version, op.ts)
  <2>1. Advanced(b, new, op.ts) /\ Applied(new, op)
    <3>1. CASE op.kind = "edit"
      <4>1. new = AfterRemote(ApplyRemoteEdit(b, op), op)
        BY <1>3, <3>1, Zenon DEF ApplyOp, AfterRemote
      <4>2. op.len \in Nat
        BY <1>1, <3>1 DEF OpTyped
      <4>3. QED
        BY <1>1, <1>3, <3>1, <4>1, <4>2, RemoteEditAdvances, Zenon
    <3>2. CASE op.kind = "undo"
      <4>1. "undo" # "edit"
        OBVIOUS
      <4>2. new = AfterRemote(ApplyUndo(b, op), op)
        BY <1>3, <3>2, <4>1, Zenon DEF ApplyOp, AfterRemote
      <4>3. op.edit \in Stamps /\ Observed(op.version, op.edit)
        BY <1>1, <3>2 DEF OpTyped
      <4>4. Observed(b.version, op.edit)
        BY <1>1, <4>3, ObservedStays
      <4>5. QED
        BY <1>1, <3>2, <4>2, <4>3, <4>4, RemoteUndoAdvances, Zenon
    <3>3. QED
      BY <1>1, <3>1, <3>2 DEF OpTyped
  <2>2. BufferSound(new, set)
    BY <2>1, AdvancedSound
  <2>3. new.version = Observe(b.version, op.ts) /\ new.deferred = b.deferred
    BY <2>1 DEF Advanced
  <2>4. PICK v : v = new.version
    OBVIOUS
  <2>5. Observed(v, op.ts)
    BY <1>1, <2>3, <2>4, ObserveFacts
  <2>6. QED
    BY <2>2, <2>3, <2>4, <2>5
<1>4. QED
  BY <1>2, <1>3
-----------------------------------------------------------------------------
(* One operation of a sequence is taken in *)

AccTyped(acc) == acc = [b |-> acc.b, blocked |-> acc.blocked, deferred |-> acc.deferred]

Defers(acc, new, op) ==
    /\ op.ts.replica \in acc.blocked \/ ~ ObservedAll(acc.b.version, op.version)
    /\ new.b = acc.b /\ new.blocked = acc.blocked \cup {op.ts.replica}
    /\ new.deferred = acc.deferred \cup {op}

Applies(acc, new, op) ==
    /\ ObservedAll(acc.b.version, op.version)
    /\ new.b.version = acc.b.version \/ new.b.version = Observe(acc.b.version, op.ts)
    /\ new.blocked = acc.blocked /\ new.deferred = acc.deferred

AccSound(acc, b, set) ==
    /\ AccTyped(acc) /\ acc.deferred \subseteq set
    /\ BufferSound(acc.b, set) /\ acc.b.deferred = b.deferred
    /\ ObservedAll(acc.b.version, b.version) /\ KnownIn(buffer, acc.b.version)

LEMMA ObservedAllTrans ==
    ASSUME NEW u \in Version, NEW v \in Version, NEW w \in Version,
           ObservedAll(w, v), ObservedAll(v, u)
    PROVE  ObservedAll(w, u)
<1>1. ASSUME NEW q \in Replica \cup {0}
      PROVE  w[q] >= u[q]
  <2>1. w[q] \in Nat /\ v[q] \in Nat /\ u[q] \in Nat
    BY DEF Version
  <2>2. w[q] >= v[q] /\ v[q] >= u[q]
    BY DEF ObservedAll, Version
  <2>3. QED
    BY <2>1, <2>2
<1>2. QED
  BY <1>1 DEF ObservedAll, Version

LEMMA ObservedAllSelf ==
    ASSUME NEW v \in Version
    PROVE  ObservedAll(v, v)
<1>1. \A q \in Replica \cup {0} : v[q] \in Nat
  BY DEF Version
<1>2. QED
  BY <1>1 DEF ObservedAll, Version

(* One turn of the loop in apply_ops: the operation is applied or            *)
(* deferred.                                                                 *)
LEMMA TakeOneSound ==
    ASSUME NEW set, OpsSound(set), NEW op \in set, NEW b, b.version \in Version,
           NEW acc, AccSound(acc, b, set), Observed(buffer[op.ts.replica].version, op.ts),
           NEW new, new = TakeOne(acc, op)
    PROVE  AccSound(new, b, set) /\ (Defers(acc, new, op) \/ Applies(acc, new, op))
<1>1. PICK c, blocked, deferred :
          /\ acc = [b |-> c, blocked |-> blocked, deferred |-> deferred]
          /\ c = acc.b /\ blocked = acc.blocked /\ deferred = acc.deferred
  BY DEF AccSound, AccTyped
<1>2. /\ BufferSound(c, set) /\ c.deferred = b.deferred /\ deferred \subseteq set
      /\ ObservedAll(c.version, b.version) /\ KnownIn(buffer, c.version)
  BY <1>1 DEF AccSound
<1>3. /\ c.version \in Version /\ op.ts \in Stamps /\ op.ts.replica \in Replica
  BY <1>2 DEF BufferSound, BufferTyped, Version, OpsSound, OpTyped
<1>4. CASE CanApply(acc.b, acc.blocked, op)
  <2>1. PICK d : d = ApplyOp(c, op)
    OBVIOUS
  <2>2. ObservedAll(c.version, op.version)
    BY <1>1, <1>4 DEF CanApply
  <2>3. /\ BufferSound(d, set) /\ d.deferred = c.deferred
        /\ d.version = c.version \/ d.version = Observe(c.version, op.ts)
    BY <1>2, <2>1, <2>2, ApplyOpSound
  <2>4. new = [b |-> d, blocked |-> blocked, deferred |-> deferred]
    <3>1. new = [acc EXCEPT !.b = d]
      BY <1>1, <1>4, <2>1, Zenon DEF TakeOne
    <3>2. QED
      BY <1>1, <3>1
  <2>5. new.b = d /\ new.blocked = blocked /\ new.deferred = deferred
    BY <2>4
  <2>6. PICK v : v = d.version
    OBVIOUS
  <2>7. v \in Version
    BY <2>3, <2>6 DEF BufferSound, BufferTyped, Version
  <2>8. /\ ObservedAll(v, c.version)
        /\ \A q \in Replica : v[q] = c.version[q] \/ (q = op.ts.replica /\ v[q] = op.ts.value)
    <3>1. CASE v = c.version
      <4>1. ObservedAll(c.version, c.version)
        BY <1>3, ObservedAllSelf
      <4>2. QED
        BY <3>1, <4>1, Zenon
    <3>2. CASE v = Observe(c.version, op.ts)
      <4>1. /\ ObservedAll(v, c.version)
            /\ \A q \in Replica \cup {0} : q # op.ts.replica => v[q] = c.version[q]
            /\ v[op.ts.replica] = c.version[op.ts.replica] \/ v[op.ts.replica] = op.ts.value
        BY <1>3, <3>2, ObserveFacts
      <4>2. QED
        BY <4>1, Zenon
    <3>3. QED
      BY <2>3, <2>6, <3>1, <3>2
  <2>9. ObservedAll(v, b.version)
    BY <1>2, <1>3, <2>7, <2>8, ObservedAllTrans
  <2>10. KnownIn(buffer, v)
    <3>1. ASSUME NEW q \in Replica
          PROVE  v[q] <= buffer[q].version[q]
      <4>1. CASE v[q] = c.version[q]
        BY <1>2, <4>1 DEF KnownIn
      <4>2. CASE q = op.ts.replica /\ v[q] = op.ts.value
        <5>1. buffer[q].version[q] >= op.ts.value
          BY <4>2 DEF Observed
        <5>2. QED
          BY <4>2, <5>1
      <4>3. QED
        BY <2>8, <4>1, <4>2
    <3>2. QED
      BY <3>1 DEF KnownIn
  <2>11. AccSound(new, b, set)
    <3>1. AccTyped(new)
      BY <2>4, <2>5, Zenon DEF AccTyped
    <3>2. QED
      BY <1>2, <2>3, <2>5, <2>6, <2>9, <2>10, <3>1, Zenon DEF AccSound
  <2>12. Applies(acc, new, op)
    BY <1>1, <2>2, <2>3, <2>5, Zenon DEF Applies
  <2>13. QED
    BY <2>11, <2>12
<1>5. CASE ~ CanApply(acc.b, acc.blocked, op)
  <2>1. PICK q : q = op.ts.replica
    OBVIOUS
  <2>2. new = [b |-> c, blocked |-> blocked \cup {q}, deferred |-> deferred \cup {op}]
    <3>1. new = [acc EXCEPT !.blocked = @ \cup {q}, !.deferred = @ \cup {op}]
      BY <1>5, <2>1, Zenon DEF TakeOne
    <3>2. QED
      BY <1>1, <3>1
  <2>3. new.b = c /\ new.blocked = blocked \cup {q} /\ new.deferred = deferred \cup {op}
    BY <2>2
  <2>4. AccTyped(new)
    BY <2>2, <2>3, Zenon DEF AccTyped
  <2>5. AccSound(new, b, set)
    <3>1. deferred \cup {op} \subseteq set
      BY <1>2
    <3>2. QED
      BY <1>2, <2>3, <2>4, <3>1, Zenon DEF AccSound
  <2>6. q \in blocked \/ ~ ObservedAll(c.version, op.version)
    BY <1>1, <1>5, <2>1 DEF CanApply
  <2>7. Defers(acc, new, op)
    BY <1>1, <2>1, <2>3, <2>6, Zenon DEF Defers
  <2>8. QED
    BY <2>5, <2>7
<1>6. QED
  BY <1>4, <1>5
-----------------------------------------------------------------------------
(* A pass over the deferred operations *)

(* Between two operations of the pass, those that were deferred again miss   *)
(* something, and their replicas are the ones that are blocked.              *)
Missing(acc) ==
    /\ acc.blocked = Replicas(acc.deferred)
    /\ \A o \in acc.deferred : ~ ObservedAll(acc.b.version, o.version)

(* A version that does not cover another is behind at some replica.          *)
LEMMA MissingAt ==
    ASSUME NEW v \in Version, NEW w \in Version, ~ ObservedAll(v, w)
    PROVE  \E q \in Replica \cup {0} : v[q] < w[q]
<1>1. PICK q \in Replica \cup {0} : ~ (v[q] >= w[q])
  BY DEF Version, ObservedAll
<1>2. v[q] \in Nat /\ w[q] \in Nat
  BY DEF Version
<1>3. QED
  BY <1>1, <1>2

(* What is applied behind an operation that misses something does not give   *)
(* it what it misses: it is later than all that the operation depends on.    *)
LEMMA StillMissing ==
    ASSUME NEW set, OpsSound(set), NEW o \in set, NEW op \in set, Earlier(o.ts, op.ts),
           NEW v \in Version, ~ ObservedAll(v, o.version), ObservedAll(v, op.version),
           NEW new \in Version, new = v \/ new = Observe(v, op.ts)
    PROVE  ~ ObservedAll(new, o.version)
<1>1. /\ o.version \in Version /\ op.version \in Version /\ o.ts \in Stamps /\ op.ts \in Stamps
      /\ \A q \in Replica \cup {0} : o.version[q] < o.ts.value
      /\ InStep(o.version, op)
  BY DEF OpsSound, OpTyped, Version
<1>2. PICK p \in Replica \cup {0} : v[p] < o.version[p]
  BY <1>1, MissingAt
<1>3. PICK q, t, s : q = op.ts.replica /\ t = op.ts.value /\ s = o.ts.value
  OBVIOUS
<1>4. q \in Replica \cup {0} /\ t \in Nat /\ s \in Nat /\ s <= t
  BY <1>1, <1>3 DEF Stamps, Earlier
<1>5. /\ v[p] \in Nat /\ o.version[p] \in Nat /\ op.version[p] \in Nat
      /\ v[p] >= op.version[p]
  BY <1>1 DEF Version, ObservedAll
<1>6. p # q
  <2>1. SUFFICES ASSUME p = q PROVE FALSE
    OBVIOUS
  <2>2. o.version[p] < t
    BY <1>1, <1>3, <1>4, <1>5
  <2>3. ~ Observed(o.version, op.ts)
    BY <1>3, <1>4, <1>5, <2>1, <2>2 DEF Observed
  <2>4. o.version[p] <= op.version[p]
    BY <1>1, <1>3, <2>1, <2>3 DEF InStep
  <2>5. QED
    BY <1>2, <1>5, <2>4
<1>7. new[p] = v[p]
  <2>1. CASE new = v
    BY <2>1
  <2>2. CASE new = Observe(v, op.ts)
    <3>1. \A r \in Replica \cup {0} : r # op.ts.replica => new[r] = v[r]
      BY <1>1, <2>2, ObserveFacts
    <3>2. QED
      BY <1>3, <1>6, <3>1
  <2>3. QED
    BY <2>1, <2>2
<1>8. ~ (new[p] >= o.version[p])
  BY <1>2, <1>5, <1>7
<1>9. QED
  BY <1>8 DEF ObservedAll, Version

(* What comes after an operation that misses something misses it too.        *)
LEMMA FollowerMissing ==
    ASSUME NEW u \in Version, NEW w \in Version, NEW v \in Version,
           ~ ObservedAll(v, u), ObservedAll(w, u)
    PROVE  ~ ObservedAll(v, w)
  BY ObservedAllTrans

(* One turn of the loop in flush_deferred_ops.                               *)
LEMMA PassStep ==
    ASSUME NEW set, OpsSound(set), NEW op \in set, NEW b, NEW acc, AccSound(acc, b, set),
           Missing(acc), \A o \in acc.deferred : Earlier(o.ts, op.ts),
           NEW new, AccSound(new, b, set), Defers(acc, new, op) \/ Applies(acc, new, op)
    PROVE  Missing(new)
<1>1. PICK v, w, deferred : v = acc.b.version /\ w = new.b.version /\ deferred = acc.deferred
  OBVIOUS
<1>2. v \in Version /\ w \in Version /\ deferred \subseteq set
  BY <1>1 DEF AccSound, BufferSound, BufferTyped, Version
<1>3. /\ acc.blocked = Replicas(deferred)
      /\ \A o \in deferred : ~ ObservedAll(v, o.version) /\ Earlier(o.ts, op.ts)
  BY <1>1 DEF Missing
<1>4. CASE Applies(acc, new, op)
  <2>1. ObservedAll(v, op.version) /\ (w = v \/ w = Observe(v, op.ts))
    BY <1>1, <1>4 DEF Applies
  <2>2. \A o \in deferred : ~ ObservedAll(w, o.version)
    BY <1>2, <1>3, <2>1, StillMissing
  <2>3. new.blocked = acc.blocked /\ new.deferred = deferred
    BY <1>1, <1>4 DEF Applies
  <2>4. QED
    BY <1>1, <1>3, <2>2, <2>3, Zenon DEF Missing
<1>5. CASE Defers(acc, new, op)
  <2>1. /\ op.ts.replica \in acc.blocked \/ ~ ObservedAll(v, op.version)
        /\ w = v /\ new.blocked = acc.blocked \cup {op.ts.replica}
        /\ new.deferred = deferred \cup {op}
    BY <1>1, <1>5 DEF Defers
  <2>2. ~ ObservedAll(v, op.version)
    <3>1. SUFFICES ASSUME op.ts.replica \in acc.blocked PROVE ~ ObservedAll(v, op.version)
      BY <2>1
    <3>2. PICK o \in deferred : o.ts.replica = op.ts.replica
      BY <1>3, <3>1 DEF Replicas
    <3>3. o \in set /\ o.ts.value \in Nat /\ op.ts.value \in Nat /\ Earlier(o.ts, op.ts)
          /\ o.ts.replica \in Nat
      <4>1. o \in set /\ o.ts \in Stamps /\ op.ts \in Stamps /\ o.ts.replica \in Replica
        BY <1>2 DEF OpsSound, OpTyped
      <4>2. QED
        BY <1>3, <4>1, TextAssumption DEF Stamps
    <3>4. o.ts.value < op.ts.value
      BY <3>2, <3>3 DEF Earlier
    <3>5. Follows(op, o)
      BY <3>2, <3>3, <3>4 DEF OpsSound
    <3>6. o.version \in Version /\ op.version \in Version
      BY <3>3 DEF OpsSound, OpTyped, Version
    <3>7. ~ ObservedAll(v, o.version) /\ ObservedAll(op.version, o.version)
      BY <1>3, <3>5 DEF Follows
    <3>8. QED
      BY <1>2, <3>6, <3>7, FollowerMissing
  <2>3. new.blocked = Replicas(new.deferred)
    BY <1>3, <2>1 DEF Replicas
  <2>4. \A o \in new.deferred : ~ ObservedAll(w, o.version)
    BY <1>3, <2>1, <2>2
  <2>5. QED
    BY <1>1, <2>3, <2>4, Zenon DEF Missing
<1>6. QED
  BY <1>4, <1>5
-----------------------------------------------------------------------------
(* TakeIn *)

IsPass(f, n, b, blocked, seq) ==
    /\ f[0] = Taken0(b, blocked)
    /\ \A m \in 0..n : m # 0 => f[m] = TakeOne(f[m - 1], seq[m])

Authored(set) == \A op \in set : Observed(buffer[op.ts.replica].version, op.ts)

LEMMA PassStarts ==
    ASSUME NEW set, NEW b, BufferSound(b, set), KnownIn(buffer, b.version), NEW blocked,
           NEW acc, acc = Taken0(b, blocked)
    PROVE  /\ AccSound(acc, b, set) /\ acc.deferred = {} /\ acc.blocked = blocked
           /\ blocked = {} => Missing(acc)
<1>1. /\ acc = [b |-> b, blocked |-> blocked, deferred |-> {}]
      /\ acc.b = b /\ acc.blocked = blocked /\ acc.deferred = {}
  BY DEF Taken0
<1>2. ObservedAll(b.version, b.version)
  <2>1. b.version \in Version
    BY DEF BufferSound, BufferTyped, Version
  <2>2. QED
    BY <2>1, ObservedAllSelf
<1>3. AccSound(acc, b, set)
  BY <1>1, <1>2, Zenon DEF AccSound, AccTyped
<1>4. blocked = {} => Missing(acc)
  <2>1. Replicas({}) = {}
    BY DEF Replicas
  <2>2. QED
    BY <1>1, <2>1, Zenon DEF Missing
<1>5. QED
  BY <1>1, <1>3, <1>4

(* Every turn of a loop keeps the buffer sound.                              *)
LEMMA PassSound ==
    ASSUME NEW set, OpsSound(set), Authored(set),
           NEW b, BufferSound(b, set), KnownIn(buffer, b.version), NEW blocked,
           NEW n \in Nat, NEW seq, \A m \in 1..n : seq[m] \in set,
           NEW f, IsPass(f, n, b, blocked, seq)
    PROVE  /\ \A m \in 0..n : AccSound(f[m], b, set)
           /\ \A m \in 1..n : Defers(f[m - 1], f[m], seq[m]) \/ Applies(f[m - 1], f[m], seq[m])
<1>1. b.version \in Version
  BY DEF BufferSound, BufferTyped, Version
<1>2. f[0] = Taken0(b, blocked) /\ \A m \in 1..n : f[m] = TakeOne(f[m - 1], seq[m])
  <2>1. \A m \in 1..n : m \in 0..n /\ m # 0
    OBVIOUS
  <2>2. QED
    BY <2>1, Zenon DEF IsPass
<1>3. AccSound(f[0], b, set)
  BY <1>2, PassStarts
<1>4. ASSUME NEW m \in 1..n, AccSound(f[m - 1], b, set)
      PROVE  /\ AccSound(f[m], b, set)
             /\ Defers(f[m - 1], f[m], seq[m]) \/ Applies(f[m - 1], f[m], seq[m])
  <2>1. PICK acc, op, new : acc = f[m - 1] /\ op = seq[m] /\ new = f[m]
    OBVIOUS
  <2>2. new = TakeOne(acc, op)
    BY <1>2, <2>1, Zenon
  <2>3. op \in set /\ Observed(buffer[op.ts.replica].version, op.ts)
    BY <2>1 DEF Authored
  <2>4. AccSound(acc, b, set)
    BY <1>4, <2>1
  <2>5. AccSound(new, b, set) /\ (Defers(acc, new, op) \/ Applies(acc, new, op))
    BY <1>1, <2>2, <2>3, <2>4, TakeOneSound
  <2>6. QED
    BY <2>1, <2>5, Zenon
<1>5. \A m \in 0..n : AccSound(f[m], b, set)
  <2> DEFINE Bad == {m \in 0..n : ~ AccSound(f[m], b, set)}
  <2>1. SUFFICES ASSUME Bad # {} PROVE FALSE
    OBVIOUS
  <2>2. PICK m \in Bad : \A k \in Bad : m <= k
    BY <2>1, LeastElement, Bad \subseteq Nat
  <2>3. m \in 1..n /\ ~ AccSound(f[m], b, set)
    <3>1. m \in 0..n /\ ~ AccSound(f[m], b, set)
      BY <2>2
    <3>2. m # 0
      BY <1>3, <3>1
    <3>3. QED
      BY <3>1, <3>2
  <2>4. m - 1 \in 0..n /\ m - 1 \notin Bad
    <3>1. m - 1 \in 0..n /\ ~ (m <= m - 1)
      BY <2>3
    <3>2. QED
      BY <2>2, <3>1
  <2>5. AccSound(f[m - 1], b, set)
    BY <2>4
  <2>6. QED
    BY <1>4, <2>3, <2>5
<1>6. \A m \in 1..n : m - 1 \in 0..n
  OBVIOUS
<1>7. QED
  BY <1>4, <1>5, <1>6

(* After a pass in the order of the timestamps, what is left misses          *)
(* something.                                                                *)
LEMMA PassMissing ==
    ASSUME NEW set, OpsSound(set), Authored(set),
           NEW b, BufferSound(b, set), KnownIn(buffer, b.version),
           NEW n \in Nat, NEW seq, \A m \in 1..n : seq[m] \in set,
           \A i, j \in 1..n : i < j => Earlier(seq[i].ts, seq[j].ts),
           NEW f, IsPass(f, n, b, {}, seq)
    PROVE  Missing(f[n])
<1>1. /\ \A m \in 0..n : AccSound(f[m], b, set)
      /\ \A m \in 1..n : Defers(f[m - 1], f[m], seq[m]) \/ Applies(f[m - 1], f[m], seq[m])
  BY PassSound
<1> DEFINE Good(m) == Missing(f[m]) /\ \A o \in f[m].deferred : \E i \in 1..m : o = seq[i]
           Bad == {m \in 0..n : ~ Good(m)}
<1>2. Good(0)
  BY PassStarts DEF IsPass
<1>3. ASSUME NEW m \in 1..n, Good(m - 1)
      PROVE  Good(m)
  <2>1. PICK acc, op, new : acc = f[m - 1] /\ op = seq[m] /\ new = f[m]
    OBVIOUS
  <2>2. m - 1 \in 0..n /\ m \in 0..n
    OBVIOUS
  <2>3. AccSound(acc, b, set) /\ AccSound(new, b, set) /\ op \in set
        /\ (Defers(acc, new, op) \/ Applies(acc, new, op))
    BY <1>1, <2>1, <2>2, Zenon
  <2>4. Missing(acc) /\ \A o \in acc.deferred : \E i \in 1..(m - 1) : o = seq[i]
    BY <1>3, <2>1, Zenon
  <2>5. \A o \in acc.deferred : Earlier(o.ts, op.ts)
    <3>1. SUFFICES ASSUME NEW o \in acc.deferred PROVE Earlier(o.ts, op.ts)
      OBVIOUS
    <3>2. PICK i \in 1..(m - 1) : o = seq[i]
      BY <2>4
    <3>3. i \in 1..n /\ i < m
      OBVIOUS
    <3>4. QED
      BY <2>1, <3>2, <3>3, Zenon
  <2>6. Missing(new)
    BY <2>3, <2>4, <2>5, PassStep
  <2>7. \A o \in new.deferred : o \in acc.deferred \/ o = op
    BY <2>3 DEF Defers, Applies
  <2>8. \A o \in new.deferred : \E i \in 1..m : o = seq[i]
    <3>1. m \in 1..m /\ \A i \in 1..(m - 1) : i \in 1..m
      OBVIOUS
    <3>2. QED
      BY <2>1, <2>4, <2>7, <3>1, Zenon
  <2>9. QED
    BY <2>1, <2>6, <2>8, Zenon
<1>4. \A m \in 0..n : Good(m)
  <2>1. SUFFICES ASSUME Bad # {} PROVE FALSE
    BY Zenon
  <2>2. Bad \subseteq Nat
    OBVIOUS
  <2>3. PICK m \in Bad : \A k \in Bad : m <= k
    BY <2>1, <2>2, LeastElement, Zenon
  <2>4. m \in 0..n /\ ~ Good(m)
    BY <2>3, Zenon
  <2>5. m # 0
    BY <1>2, <2>4, Zenon
  <2>6. m \in 1..n /\ m - 1 \in 0..n /\ ~ (m <= m - 1)
    BY <2>4, <2>5
  <2>7. Good(m - 1)
    BY <2>3, <2>6, Zenon
  <2>8. QED
    BY <1>3, <2>4, <2>6, <2>7, Zenon
<1>5. QED
  BY <1>4, n \in 0..n, Zenon

(* The whole loop.                                                           *)
LEMMA TakeInSound ==
    ASSUME NEW set, OpsSound(set), Authored(set),
           NEW b, BufferSound(b, set), KnownIn(buffer, b.version), NEW blocked,
           NEW n \in Nat, NEW seq, n = Len(seq), \A m \in 1..n : seq[m] \in set,
           NEW after, after = TakeIn(b, blocked, seq)
    PROVE  /\ AccSound(after, b, set)
           /\ blocked = {} /\ (\A i, j \in 1..n : i < j => Earlier(seq[i].ts, seq[j].ts))
                  => Missing(after)
<1>1. PICK f : IsPass(f, n, b, blocked, seq) /\ after = f[n]
  <2>1. PICK f : /\ f[0] = Taken0(b, blocked)
                 /\ \A m \in 0..n : m # 0 => f[m] = TakeOne(f[m - 1], seq[m])
                 /\ TakeIn(b, blocked, seq) = f[n]
    BY TakeInTrace
  <2>2. IsPass(f, n, b, blocked, seq)
    BY <2>1, Zenon DEF IsPass
  <2>3. QED
    BY <2>1, <2>2, Zenon
<1>2. \A m \in 0..n : AccSound(f[m], b, set)
  BY <1>1, PassSound
<1>3. ASSUME blocked = {}, \A i, j \in 1..n : i < j => Earlier(seq[i].ts, seq[j].ts)
      PROVE  Missing(f[n])
  BY <1>1, <1>3, PassMissing
<1>4. n \in 0..n
  OBVIOUS
<1>5. QED
  BY <1>1, <1>2, <1>3, <1>4, Zenon
-----------------------------------------------------------------------------
(* The deferred operations in the order of their timestamps *)

LEMMA StampNumbers ==
    ASSUME NEW ts \in Stamps
    PROVE  ts.value \in Nat /\ ts.replica \in Nat
<1>1. ts.value \in Nat /\ ts.replica \in Replica \cup {0}
  BY DEF Stamps
<1>2. Replica \cup {0} \subseteq Nat
  BY TextAssumption
<1>3. QED
  BY <1>1, <1>2

(* Timestamps are totally ordered.                                           *)
LEMMA EarlierFacts ==
    ASSUME NEW a \in Stamps, NEW b \in Stamps
    PROVE  /\ a = b \/ Earlier(a, b) \/ Earlier(b, a)
           /\ \A c \in Stamps : Earlier(a, b) /\ Earlier(b, c) => Earlier(a, c)
<1>1. /\ a.value \in Nat /\ b.value \in Nat /\ a.replica \in Nat /\ b.replica \in Nat
      /\ \A c \in Stamps : c.value \in Nat /\ c.replica \in Nat
  BY StampNumbers
<1>2. a = b \/ Earlier(a, b) \/ Earlier(b, a)
  <2>1. CASE a.value = b.value /\ a.replica = b.replica
    BY <2>1, SameStamp
  <2>2. CASE a.value # b.value \/ a.replica # b.replica
    BY <1>1, <2>2 DEF Earlier
  <2>3. QED
    BY <2>1, <2>2
<1>3. \A c \in Stamps : Earlier(a, b) /\ Earlier(b, c) => Earlier(a, c)
  BY <1>1 DEF Earlier
<1>4. QED
  BY <1>2, <1>3

(* Some operation of a set is the earliest.                                  *)
LEMMA EarliestExists ==
    ASSUME NEW T, T # {}, \A o \in T : o.ts \in Stamps, \A x, y \in T : x.ts = y.ts => x = y
    PROVE  \E x \in T : \A y \in T : y # x => Earlier(x.ts, y.ts)
<1> DEFINE Values == {o.ts.value : o \in T}
<1>1. \A o \in T : o.ts.value \in Nat /\ o.ts.replica \in Nat
  BY StampNumbers
<1>2. PICK v \in Values : \A w \in Values : v <= w
  <2>1. Values \subseteq Nat /\ Values # {}
    BY <1>1
  <2>2. QED
    BY <2>1, LeastElement
<1> DEFINE Authors == {q \in Nat : \E o \in T : o.ts.value = v /\ o.ts.replica = q}
<1>3. PICK q \in Authors : \A p \in Authors : q <= p
  <2>1. PICK o \in T : o.ts.value = v
    BY <1>2
  <2>2. o.ts.replica \in Authors
    BY <1>1, <2>1
  <2>3. Authors \subseteq Nat
    OBVIOUS
  <2>4. QED
    BY <2>2, <2>3, LeastElement
<1>4. PICK x \in T : x.ts.value = v /\ x.ts.replica = q
  BY <1>3
<1>5. ASSUME NEW y \in T, y # x
      PROVE  Earlier(x.ts, y.ts)
  <2>1. y.ts.value \in Values
    BY <1>5
  <2>2. v <= y.ts.value /\ v \in Nat /\ y.ts.value \in Nat
    BY <1>1, <1>2, <1>4, <2>1
  <2>3. CASE y.ts.value = v
    <3>1. y.ts.replica \in Authors
      BY <1>1, <2>3
    <3>2. q <= y.ts.replica
      BY <1>3, <3>1
    <3>3. y.ts.replica # q
      <4>1. SUFFICES ASSUME y.ts.replica = q PROVE FALSE
        OBVIOUS
      <4>2. y.ts = x.ts
        BY <1>4, <2>3, <4>1, SameStamp
      <4>3. QED
        BY <1>5, <4>2
    <3>4. QED
      BY <1>1, <1>4, <2>3, <3>2, <3>3 DEF Earlier
  <2>4. CASE y.ts.value # v
    BY <1>4, <2>2, <2>4 DEF Earlier
  <2>5. QED
    BY <2>3, <2>4
<1>6. QED
  BY <1>5

InTimeOrder(s, n) == \A i, j \in 1..n : i < j => Earlier(s[i].ts, s[j].ts)

(* A finite set of operations can be put in the order of the timestamps.     *)
LEMMA OrderExists ==
    ASSUME NEW T0, IsFiniteSet(T0),
           \A o \in T0 : o.ts \in Stamps, \A x, y \in T0 : x.ts = y.ts => x = y
    PROVE  \E s \in [1..Cardinality(T0) -> T0] : InTimeOrder(s, Cardinality(T0))
<1> DEFINE Enum(T) == \E s \in [1..Cardinality(T) -> T] : InTimeOrder(s, Cardinality(T))
           Bad == {m \in Nat : \E T \in SUBSET T0 : Cardinality(T) = m /\ ~ Enum(T)}
<1>0. \A T \in SUBSET T0 : IsFiniteSet(T) /\ Cardinality(T) \in Nat
  BY FS_Subset, FS_CardinalityType
<1>1. SUFFICES Bad = {}
  BY <1>0
<1>2. SUFFICES ASSUME Bad # {}
               PROVE  FALSE
  OBVIOUS
<1>3. PICK m \in Bad : \A k \in Bad : m <= k
  BY <1>2, LeastElement
<1>4. PICK T \in SUBSET T0 : Cardinality(T) = m /\ ~ Enum(T)
  BY <1>3
<1>5. m \in Nat /\ IsFiniteSet(T)
  BY <1>0, <1>3
<1>6. CASE T = {}
  <2>1. Cardinality(T) = 0 /\ 1..0 = {}
    BY <1>6, FS_EmptySet
  <2>2. Enum(T)
    <3>1. [i \in 1..0 |-> 0] \in [1..Cardinality(T) -> T]
      BY <2>1
    <3>2. \A s : InTimeOrder(s, Cardinality(T))
      BY <2>1 DEF InTimeOrder
    <3>3. QED
      BY <3>1, <3>2
  <2>3. QED
    BY <1>4, <2>2
<1>7. CASE T # {}
  <2>1. PICK x \in T : \A y \in T : y # x => Earlier(x.ts, y.ts)
    BY <1>7, EarliestExists
  <2>2. PICK U : U = T \ {x}
    OBVIOUS
  <2>3. IsFiniteSet(U) /\ Cardinality(U) = m - 1 /\ U \subseteq T0
    BY <1>4, <1>5, <2>1, <2>2, FS_RemoveElement
  <2>4. m - 1 \in Nat
    BY <2>3, FS_CardinalityType
  <2>5. Enum(U)
    <3>1. m - 1 \notin Bad
      BY <1>3, <1>5
    <3>2. QED
      BY <2>3, <2>4, <3>1
  <2>6. PICK u \in [1..(m - 1) -> U] : InTimeOrder(u, m - 1)
    BY <2>3, <2>5
  <2>7. PICK s : s = [i \in 1..m |-> IF i = 1 THEN x ELSE u[i - 1]]
    OBVIOUS
  <2>8. \A i \in 1..m : i # 1 => i - 1 \in 1..(m - 1)
    BY <1>5
  <2>9. s \in [1..m -> T]
    BY <2>2, <2>6, <2>7, <2>8
  <2>10. \A y \in U : Earlier(x.ts, y.ts)
    BY <2>1, <2>2
  <2>11. ASSUME NEW i \in 1..m, NEW j \in 1..m, i < j
         PROVE  Earlier(s[i].ts, s[j].ts)
    <3>1. j # 1 /\ j - 1 \in 1..(m - 1) /\ s[j] = u[j - 1]
      BY <2>7, <2>8, <2>11
    <3>2. CASE i = 1
      <4>1. s[i] = x /\ s[j] \in U
        BY <2>6, <2>7, <3>1, <3>2
      <4>2. QED
        BY <2>10, <4>1
    <3>3. CASE i # 1
      <4>1. i - 1 \in 1..(m - 1) /\ s[i] = u[i - 1] /\ i - 1 < j - 1
        BY <2>7, <2>8, <2>11, <3>3
      <4>2. QED
        BY <2>6, <3>1, <4>1 DEF InTimeOrder
    <3>4. QED
      BY <3>2, <3>3
  <2>12. InTimeOrder(s, m)
    BY <2>11 DEF InTimeOrder
  <2>13. QED
    BY <1>4, <2>9, <2>12
<1>8. QED
  BY <1>6, <1>7

(* The OperationQueue hands its operations out in that order.                *)
LEMMA ByTimestampFacts ==
    ASSUME NEW set, OpsSound(set), NEW T, T \subseteq set
    PROVE  \E n \in Nat : /\ n = Len(ByTimestamp(T))
                          /\ \A m \in 1..n : ByTimestamp(T)[m] \in set
                          /\ InTimeOrder(ByTimestamp(T), n)
<1>1. /\ IsFiniteSet(T) /\ \A o \in T : o.ts \in Stamps
      /\ \A x, y \in T : x.ts = y.ts => x = y
  BY FS_Subset DEF OpsSound, OpTyped
<1>2. PICK n \in Nat : n = Cardinality(T)
  BY <1>1, FS_CardinalityType
<1>3. \E s \in [1..n -> T] : InTimeOrder(s, n)
  BY <1>1, <1>2, OrderExists
<1>4. \E s \in [1..n -> T] : \A i, j \in DOMAIN s : i < j => Earlier(s[i].ts, s[j].ts)
  <2>1. PICK s \in [1..n -> T] : InTimeOrder(s, n)
    BY <1>3
  <2>2. DOMAIN s = 1..n
    OBVIOUS
  <2>3. QED
    BY <2>1, <2>2, Zenon DEF InTimeOrder
<1>5. PICK s : s = ByTimestamp(T)
  OBVIOUS
<1>6. s \in [1..n -> T] /\ \A i, j \in DOMAIN s : i < j => Earlier(s[i].ts, s[j].ts)
  BY <1>2, <1>4, <1>5, Zenon DEF ByTimestamp
<1>7. Len(s) = n /\ DOMAIN s = 1..n /\ \A m \in 1..n : s[m] \in set
  BY <1>6
<1>8. InTimeOrder(s, n)
  BY <1>6, <1>7 DEF InTimeOrder
<1>9. QED
  BY <1>5, <1>7, <1>8
-----------------------------------------------------------------------------
(* apply_ops *)

SetDeferred(b, d) == [b EXCEPT !.deferred = d]

LEMMA WithDeferred ==
    ASSUME NEW set, NEW b, BufferSound(b, set), NEW d,
           NEW new, new = SetDeferred(b, d)
    PROVE  BufferSound(new, set) /\ new.version = b.version /\ new.deferred = d
<1>1. PICK f0, u0, v0, c0 :
          /\ new = [frags |-> f0, undos |-> u0, version |-> v0, clock |-> c0, deferred |-> d]
          /\ f0 = b.frags /\ u0 = b.undos /\ v0 = b.version /\ c0 = b.clock
  <2>1. BufferRecord(b)
    BY DEF BufferSound, BufferTyped, BufferRecord
  <2>2. PICK f0, u0, v0, c0, d0 :
          /\ b = [frags |-> f0, undos |-> u0, version |-> v0, clock |-> c0, deferred |-> d0]
          /\ f0 = b.frags /\ u0 = b.undos /\ v0 = b.version /\ c0 = b.clock
    BY <2>1, Zenon DEF BufferRecord
  <2>3. new = [frags |-> f0, undos |-> u0, version |-> v0, clock |-> c0, deferred |-> d]
    BY <2>2 DEF SetDeferred
  <2>4. QED
    BY <2>2, <2>3
<1>2. /\ new.frags = f0 /\ new.undos = u0 /\ new.version = v0 /\ new.clock = c0
      /\ new.deferred = d
  BY <1>1
<1>3. BufferTyped(b) /\ TextSound(b) /\ VersionSound(b, set)
  BY DEF BufferSound
<1>4. BufferTyped(new)
  <2>1. new = [frags |-> new.frags, undos |-> new.undos, version |-> new.version,
               clock |-> new.clock, deferred |-> new.deferred]
    BY <1>1, <1>2, Zenon
  <2>2. QED
    BY <1>1, <1>2, <1>3, <2>1, Zenon DEF BufferTyped
<1>5. TextSound(new)
  BY <1>1, <1>2, <1>3, Zenon DEF TextSound
<1>6. VersionSound(new, set)
  <2>1. \A op : Applied(new, op) = Applied(b, op)
    BY <1>1, <1>2, Zenon DEF Applied
  <2>2. QED
    BY <1>1, <1>2, <1>3, <2>1, Zenon DEF VersionSound
<1>7. QED
  BY <1>1, <1>2, <1>4, <1>5, <1>6, Zenon DEF BufferSound

(* flush_deferred_ops keeps the buffer sound, and what it leaves misses      *)
(* something.                                                                *)
LEMMA FlushSound ==
    ASSUME NEW set, OpsSound(set), Authored(set),
           NEW b, BufferSound(b, set), KnownIn(buffer, b.version), b.deferred \subseteq set,
           NEW new, new = FlushDeferredOps(b)
    PROVE  /\ BufferSound(new, set) /\ new.deferred \subseteq set
           /\ KnownIn(buffer, new.version) /\ ObservedAll(new.version, b.version)
           /\ \A o \in new.deferred : ~ ObservedAll(new.version, o.version)
<1>1. PICK s : s = ByTimestamp(b.deferred)
  OBVIOUS
<1>2. PICK n \in Nat : n = Len(s) /\ (\A m \in 1..n : s[m] \in set) /\ InTimeOrder(s, n)
  BY <1>1, ByTimestampFacts
<1>3. PICK after : after = TakeIn(b, {}, s)
  OBVIOUS
<1>4. AccSound(after, b, set) /\ Missing(after)
  <2>1. \A i, j \in 1..n : i < j => Earlier(s[i].ts, s[j].ts)
    BY <1>2 DEF InTimeOrder
  <2>2. QED
    BY <1>2, <1>3, <2>1, TakeInSound
<1>5. new = [after.b EXCEPT !.deferred = after.deferred]
  BY <1>1, <1>3, Zenon DEF FlushDeferredOps
<1>6. PICK c, d : c = after.b /\ d = after.deferred
  OBVIOUS
<1>7. /\ BufferSound(c, set) /\ d \subseteq set /\ ObservedAll(c.version, b.version)
      /\ KnownIn(buffer, c.version) /\ \A o \in d : ~ ObservedAll(c.version, o.version)
  BY <1>4, <1>6 DEF AccSound, Missing
<1>8. BufferSound(new, set) /\ new.version = c.version /\ new.deferred = d
  <2>1. new = SetDeferred(c, d)
    BY <1>5, <1>6, Zenon DEF SetDeferred
  <2>2. QED
    BY <1>7, <2>1, WithDeferred
<1>9. QED
  BY <1>7, <1>8, Zenon

(* apply_ops: the loop over the operations that came, then the flush.        *)
LEMMA ApplyOpsSound ==
    ASSUME NEW set, OpsSound(set), Authored(set),
           NEW b, BufferSound(b, set), KnownIn(buffer, b.version), b.deferred \subseteq set,
           NEW n \in Nat, NEW seq, n = Len(seq), \A m \in 1..n : seq[m] \in set,
           NEW new, new = ApplyOps(b, seq)
    PROVE  /\ BufferSound(new, set) /\ new.deferred \subseteq set
           /\ KnownIn(buffer, new.version) /\ ObservedAll(new.version, b.version)
           /\ \A o \in new.deferred : ~ ObservedAll(new.version, o.version)
<1>1. PICK blocked : blocked = Replicas(b.deferred)
  OBVIOUS
<1>2. PICK after : after = TakeIn(b, blocked, seq)
  OBVIOUS
<1>3. AccSound(after, b, set)
  BY <1>2, TakeInSound
<1>4. PICK c, d : c = after.b /\ d = c.deferred \cup after.deferred
  OBVIOUS
<1>5. /\ BufferSound(c, set) /\ ObservedAll(c.version, b.version) /\ KnownIn(buffer, c.version)
      /\ d \subseteq set
  BY <1>3, <1>4 DEF AccSound
<1>6. PICK e : e = SetDeferred(c, d)
  OBVIOUS
<1>7. new = FlushDeferredOps(e)
  <2>1. [after.b EXCEPT !.deferred = @ \cup after.deferred] = e
    BY <1>4, <1>6, Zenon DEF SetDeferred
  <2>2. QED
    BY <1>1, <1>2, <2>1, Zenon DEF ApplyOps
<1>8. BufferSound(e, set) /\ e.version = c.version /\ e.deferred = d
  BY <1>5, <1>6, WithDeferred
<1>9. KnownIn(buffer, e.version) /\ e.deferred \subseteq set
  BY <1>5, <1>8, Zenon
<1>10. /\ BufferSound(new, set) /\ new.deferred \subseteq set
       /\ KnownIn(buffer, new.version) /\ ObservedAll(new.version, e.version)
       /\ \A o \in new.deferred : ~ ObservedAll(new.version, o.version)
  BY <1>7, <1>8, <1>9, FlushSound, Zenon
<1>11. ObservedAll(new.version, b.version)
  <2>1. b.version \in Version /\ c.version \in Version /\ new.version \in Version
    BY <1>5, <1>10 DEF BufferSound, BufferTyped, Version
  <2>2. ObservedAll(new.version, c.version)
    BY <1>8, <1>10, Zenon
  <2>3. QED
    BY <1>5, <2>1, <2>2, ObservedAllTrans
<1>12. QED
  BY <1>10, <1>11
-----------------------------------------------------------------------------
(* An author sends an operation *)

(* The new operation of an author comes with what the author knows, and with *)
(* a timestamp that nobody has observed.                                     *)
Sends(bufs, set, r, op) ==
    /\ r \in Replica /\ OpTyped(op) /\ op.ts.replica = r
    /\ op.version = bufs[r].version /\ bufs[r].version[r] < op.ts.value

(* What the author of an operation knows.                                    *)
LEMMA AuthorOf ==
    ASSUME NEW bufs, NEW set, ReplicaSound(bufs, set), NEW y \in set
    PROVE  /\ y.ts \in Stamps /\ y.ts.replica \in Replica /\ y.ts.value \in Nat
           /\ y.version \in Version
           /\ \A r \in Replica : bufs[r].version \in Version
           /\ \A q, r \in Replica : bufs[r].version[q] \in Nat
           /\ y.ts.value <= bufs[y.ts.replica].version[y.ts.replica]
           /\ Observed(bufs[y.ts.replica].version, y.ts)
           /\ ObservedAll(bufs[y.ts.replica].version, y.version)
           /\ KnownIn(bufs, y.version)
<1>1. OpTyped(y)
  BY DEF ReplicaSound, OpsSound
<1>2. /\ y.ts \in Stamps /\ y.ts.replica \in Replica /\ y.ts.value \in Nat
      /\ y.version \in Version
  BY <1>1 DEF OpTyped, Version, Stamps
<1>3. \A r \in Replica : bufs[r].version \in Version
  BY DEF ReplicaSound, BufferSound, BufferTyped, Version
<1>4. \A q, r \in Replica : bufs[r].version[q] \in Nat
  BY <1>3 DEF Version
<1>5. /\ Observed(bufs[y.ts.replica].version, y.ts)
      /\ ObservedAll(bufs[y.ts.replica].version, y.version)
      /\ KnownIn(bufs, y.version)
  BY DEF ReplicaSound, AuthorsKnow
<1>6. y.ts.value <= bufs[y.ts.replica].version[y.ts.replica]
  BY <1>2, <1>4, <1>5 DEF Observed
<1>7. QED
  BY <1>2, <1>3, <1>4, <1>5, <1>6

(* The operations stay sound with the new one among them.                    *)
LEMMA SendOps ==
    ASSUME NEW bufs, NEW set, ReplicaSound(bufs, set), NEW r, NEW op, Sends(bufs, set, r, op)
    PROVE  OpsSound(set \cup {op})
<1>1. PICK v, t : v = bufs[r].version /\ t = op.ts.value
  OBVIOUS
<1>2. /\ r \in Replica /\ OpTyped(op) /\ op.ts.replica = r /\ op.version = v /\ v[r] < t
      /\ op.ts \in Stamps /\ t \in Nat
  BY <1>1 DEF Sends, OpTyped, Stamps
<1>3. v \in Version /\ v[r] \in Nat
  BY <1>1, <1>2 DEF ReplicaSound, BufferSound, BufferTyped, Version
<1>4. \A y \in set : y.ts.replica = r => y.ts.value <= v[r] /\ y.ts.value \in Nat
  BY <1>1, AuthorOf
<1>5. IsFiniteSet(set \cup {op})
  BY FS_AddElement DEF ReplicaSound, OpsSound
<1>6. \A y \in set \cup {op} : OpTyped(y)
  BY <1>2 DEF ReplicaSound, OpsSound
<1>7. \A y \in set : y.ts # op.ts
  BY <1>1, <1>2, <1>3, <1>4
<1>8. \A x, y \in set \cup {op} : x.ts = y.ts => x = y
  BY <1>7 DEF ReplicaSound, OpsSound
<1>9. ASSUME NEW x \in set \cup {op}, NEW y \in set \cup {op},
             x.ts.replica = y.ts.replica, x.ts.value < y.ts.value
      PROVE  Follows(y, x)
  <2>1. CASE x \in set /\ y \in set
    BY <1>9, <2>1 DEF ReplicaSound, OpsSound
  <2>2. CASE x \in set /\ y = op
    <3>1. x.ts.replica = r
      BY <1>2, <1>9, <2>2
    <3>2. Observed(v, x.ts) /\ ObservedAll(v, x.version)
      BY <1>1, <2>2, <3>1, AuthorOf
    <3>3. QED
      BY <1>2, <2>2, <3>2 DEF Follows
  <2>3. CASE x = op
    <3>1. y.ts.replica = r /\ t < y.ts.value
      BY <1>1, <1>2, <1>9, <2>3
    <3>2. y \in set
      BY <1>1, <1>2, <3>1
    <3>3. QED
      BY <1>2, <1>3, <1>4, <3>1, <3>2
  <2>4. QED
    BY <2>1, <2>2, <2>3
<1>10. ASSUME NEW x \in set \cup {op}, NEW y \in set \cup {op}
       PROVE  InStep(x.version, y)
  <2>1. CASE x \in set /\ y \in set
    BY <2>1 DEF ReplicaSound, OpsSound
  <2>2. CASE x = op /\ y \in set
    <3>1. InStep(v, y)
      BY <1>1, <1>2, <2>2 DEF ReplicaSound, BufferSound, VersionSound
    <3>2. QED
      BY <1>2, <2>2, <3>1
  <2>3. CASE x \in set /\ y = op
    <3>1. KnownIn(bufs, x.version)
      BY <2>3, AuthorOf
    <3>2. x.version[r] <= v[r]
      BY <1>1, <1>2, <3>1 DEF KnownIn
    <3>3. QED
      BY <1>2, <2>3, <3>2 DEF InStep
  <2>4. CASE x = op /\ y = op
    <3>1. v[r] <= v[r]
      BY <1>3
    <3>2. QED
      BY <1>2, <2>4, <3>1 DEF InStep
  <2>5. QED
    BY <2>1, <2>2, <2>3, <2>4
<1>11. QED
  BY <1>5, <1>6, <1>8, <1>9, <1>10 DEF OpsSound

(* The author's own buffer.                                                  *)
LEMMA SendSelf ==
    ASSUME NEW bufs, NEW set, ReplicaSound(bufs, set), NEW r, NEW op, Sends(bufs, set, r, op),
           NEW new, Advanced(bufs[r], new, op.ts), Applied(new, op)
    PROVE  /\ BufferSound(new, set \cup {op}) /\ new.deferred \subseteq set
           /\ MissesSomething(new)
           /\ new.version \in Version /\ ObservedAll(new.version, bufs[r].version)
           /\ \A q \in Replica : q # r => new.version[q] = bufs[r].version[q]
           /\ Observed(new.version, op.ts)
<1>1. PICK v, w : v = bufs[r].version /\ w = new.version
  OBVIOUS
<1>2. /\ r \in Replica /\ OpTyped(op) /\ op.ts.replica = r /\ op.version = v
      /\ op.ts \in Stamps
  BY <1>1 DEF Sends, OpTyped
<1>3. v \in Version /\ v[r] \in Nat /\ BufferSound(bufs[r], set)
  BY <1>1, <1>2 DEF ReplicaSound, BufferSound, BufferTyped, Version
<1>4. w = Observe(v, op.ts)
  BY <1>1 DEF Advanced
<1>5. /\ w \in Version /\ Observed(w, op.ts) /\ ObservedAll(w, v)
      /\ \A q \in Replica \cup {0} : q # r => w[q] = v[q]
  BY <1>2, <1>3, <1>4, ObserveFacts
<1>6. ASSUME NEW y \in set
      PROVE  /\ Observed(w, y.ts) => Observed(v, y.ts)
             /\ InStep(w, y)
  <2>1. CASE y.ts.replica = r
    <3>1. Observed(v, y.ts) /\ y.ts \in Stamps
      BY <1>1, <2>1, AuthorOf
    <3>2. Observed(w, y.ts)
      BY <1>3, <1>5, <3>1, ObservedStays
    <3>3. QED
      BY <3>1, <3>2 DEF InStep
  <2>2. CASE y.ts.replica # r
    <3>1. w[y.ts.replica] = v[y.ts.replica]
      BY <1>5, <2>2, AuthorOf
    <3>2. InStep(v, y)
      BY <1>1, <1>3 DEF BufferSound, VersionSound
    <3>3. QED
      BY <3>1, <3>2, Zenon DEF InStep, Observed
  <2>3. QED
    BY <2>1, <2>2
<1>7. VersionSound(new, set \cup {op})
  <2>1. ASSUME NEW y \in set \cup {op}, Observed(w, y.ts)
        PROVE  Applied(new, y)
    <3>1. CASE y = op
      BY <3>1
    <3>2. CASE y \in set
      <4>1. Applied(bufs[r], y)
        BY <1>1, <1>3, <1>6, <2>1, <3>2 DEF BufferSound, VersionSound
      <4>2. QED
        BY <4>1 DEF Advanced
    <3>3. QED
      BY <3>1, <3>2
  <2>2. \A y \in set \cup {op} : InStep(w, y)
    BY <1>5, <1>6 DEF InStep
  <2>3. QED
    BY <1>1, <2>1, <2>2 DEF VersionSound
<1>8. BufferSound(new, set \cup {op})
  BY <1>7 DEF Advanced, BufferSound
<1>9. new.deferred = bufs[r].deferred /\ new.deferred \subseteq set
  BY <1>2 DEF Advanced, ReplicaSound
<1>10. ASSUME NEW o \in new.deferred
       PROVE  ~ ObservedAll(w, o.version)
  <2>1. o \in set /\ ~ ObservedAll(v, o.version)
    BY <1>1, <1>2, <1>9 DEF ReplicaSound, MissesSomething
  <2>2. o.version \in Version /\ KnownIn(bufs, o.version)
    BY <2>1, AuthorOf
  <2>3. PICK p \in Replica \cup {0} : v[p] < o.version[p]
    BY <1>3, <2>1, <2>2, MissingAt
  <2>4. v[p] \in Nat /\ o.version[p] \in Nat
    BY <1>3, <2>2 DEF Version
  <2>5. p # r
    <3>1. o.version[r] <= v[r]
      BY <1>1, <1>2, <2>2 DEF KnownIn
    <3>2. QED
      BY <2>3, <2>4, <3>1
  <2>6. ~ (w[p] >= o.version[p])
    BY <1>5, <2>3, <2>4, <2>5
  <2>7. QED
    BY <1>5, <2>6 DEF ObservedAll, Version
<1>11. QED
  BY <1>1, <1>5, <1>8, <1>9, <1>10 DEF MissesSomething

(* The other replicas have not observed the operation.                       *)
LEMMA SendOthers ==
    ASSUME NEW bufs, NEW set, ReplicaSound(bufs, set), NEW r, NEW op, Sends(bufs, set, r, op),
           NEW q \in Replica
    PROVE  BufferSound(bufs[q], set \cup {op})
<1>1. PICK v, t : v = bufs[q].version /\ t = op.ts.value
  OBVIOUS
<1>2. /\ r \in Replica /\ OpTyped(op) /\ op.ts.replica = r /\ op.version = bufs[r].version
      /\ bufs[r].version[r] < t /\ t \in Nat
  BY <1>1 DEF Sends, OpTyped, Stamps
<1>3. v \in Version /\ bufs[r].version \in Version /\ v[r] \in Nat /\ bufs[r].version[r] \in Nat
  BY <1>1, <1>2 DEF ReplicaSound, BufferSound, BufferTyped, Version
<1>4. v[r] <= bufs[r].version[r]
  BY <1>1, <1>2 DEF ReplicaSound, AuthorsKnow, KnownIn
<1>5. ~ Observed(v, op.ts)
  BY <1>1, <1>2, <1>3, <1>4 DEF Observed
<1>6. InStep(v, op)
  BY <1>2, <1>4 DEF InStep
<1>7. VersionSound(bufs[q], set \cup {op})
  BY <1>1, <1>5, <1>6 DEF ReplicaSound, BufferSound, VersionSound
<1>8. QED
  BY <1>7 DEF ReplicaSound, BufferSound

(* Replaces(bufs, r, new, bufs2): only the buffer of r changed.              *)
Put(bufs, r, new) == [bufs EXCEPT ![r] = new]

Replaces(bufs, r, new, bufs2) ==
    bufs2[r] = new /\ \A q \in Replica : q # r => bufs2[q] = bufs[q]

(* All replicas are sound after an author has sent an operation.             *)
LEMMA SendSound ==
    ASSUME NEW bufs, NEW set, ReplicaSound(bufs, set), NEW r, NEW op, Sends(bufs, set, r, op),
           NEW new, Advanced(bufs[r], new, op.ts), Applied(new, op),
           NEW bufs2, Replaces(bufs, r, new, bufs2)
    PROVE  ReplicaSound(bufs2, set \cup {op})
<1>1. PICK v, w : v = bufs[r].version /\ w = new.version
  OBVIOUS
<1>2. r \in Replica /\ op.ts.replica = r /\ op.version = v /\ op.ts \in Stamps
  BY <1>1 DEF Sends, OpTyped
<1>3. /\ BufferSound(new, set \cup {op}) /\ new.deferred \subseteq set
      /\ MissesSomething(new)
      /\ w \in Version /\ ObservedAll(w, v)
      /\ \A q \in Replica : q # r => w[q] = v[q]
      /\ Observed(w, op.ts)
  <2>1. /\ BufferSound(new, set \cup {op}) /\ new.deferred \subseteq set
        /\ MissesSomething(new)
        /\ new.version \in Version /\ ObservedAll(new.version, bufs[r].version)
        /\ \A q \in Replica : q # r => new.version[q] = bufs[r].version[q]
        /\ Observed(new.version, op.ts)
    BY SendSelf, Zenon
  <2>2. QED
    BY <1>1, <2>1, Zenon
<1>4. bufs2[r] = new /\ \A q \in Replica : q # r => bufs2[q] = bufs[q]
  BY DEF Replaces
<1>5. /\ v \in Version /\ \A q \in Replica : bufs[q].version \in Version
      /\ \A p, q \in Replica : bufs[q].version[p] \in Nat
  BY <1>1, <1>2 DEF ReplicaSound, BufferSound, BufferTyped, Version
<1>6. \A q \in Replica : /\ BufferSound(bufs2[q], set \cup {op})
                         /\ bufs2[q].deferred \subseteq set \cup {op}
                         /\ MissesSomething(bufs2[q])
  <2>1. SUFFICES ASSUME NEW q \in Replica
                 PROVE  /\ BufferSound(bufs2[q], set \cup {op})
                        /\ bufs2[q].deferred \subseteq set \cup {op}
                        /\ MissesSomething(bufs2[q])
    OBVIOUS
  <2>2. CASE q = r
    <3>1. bufs2[q] = new
      BY <1>4, <2>2
    <3>2. new.deferred \subseteq set \cup {op}
      BY <1>3
    <3>3. QED
      BY <1>3, <3>1, <3>2, Zenon
  <2>3. CASE q # r
    <3>1. bufs2[q] = bufs[q]
      BY <1>4, <2>3
    <3>2. BufferSound(bufs[q], set \cup {op})
      BY SendOthers
    <3>3. bufs[q].deferred \subseteq set \cup {op} /\ MissesSomething(bufs[q])
      BY DEF ReplicaSound
    <3>4. QED
      BY <3>1, <3>2, <3>3, Zenon
  <2>4. QED
    BY <2>2, <2>3
<1>7. \A q \in Replica : w[q] \in Nat /\ v[q] \in Nat /\ v[q] <= w[q]
  <2>1. \A q \in Replica : w[q] \in Nat /\ v[q] \in Nat /\ w[q] >= v[q]
    BY <1>3, <1>5 DEF ObservedAll, Version
  <2>2. QED
    BY <2>1
<1>8. \A q \in Replica : /\ bufs[q].version[q] <= bufs2[q].version[q]
                         /\ bufs2[q].version[q] \in Nat
  <2>1. SUFFICES ASSUME NEW q \in Replica
                 PROVE  /\ bufs[q].version[q] <= bufs2[q].version[q]
                        /\ bufs2[q].version[q] \in Nat
    OBVIOUS
  <2>2. CASE q = r
    BY <1>1, <1>4, <1>7, <2>2
  <2>3. CASE q # r
    <3>1. bufs2[q] = bufs[q] /\ bufs[q].version[q] \in Nat
      BY <1>4, <1>5, <2>3
    <3>2. bufs[q].version[q] <= bufs[q].version[q]
      BY <3>1
    <3>3. QED
      BY <3>1, <3>2, Zenon
  <2>4. QED
    BY <2>2, <2>3
<1>9. ASSUME NEW u, \A q \in Replica : u[q] \in Nat, KnownIn(bufs, u)
      PROVE  KnownIn(bufs2, u)
  <2>1. ASSUME NEW q \in Replica
        PROVE  u[q] <= bufs2[q].version[q]
    <3>1. u[q] <= bufs[q].version[q] /\ u[q] \in Nat /\ bufs[q].version[q] \in Nat
      BY <1>5, <1>9 DEF KnownIn
    <3>2. QED
      BY <1>8, <3>1
  <2>2. QED
    BY <2>1 DEF KnownIn
<1>10. \A q \in Replica : KnownIn(bufs, bufs[q].version)
  BY DEF ReplicaSound, AuthorsKnow
<1>11. \A q \in Replica : KnownIn(bufs2, bufs2[q].version)
  <2>1. SUFFICES ASSUME NEW q \in Replica PROVE KnownIn(bufs2, bufs2[q].version)
    OBVIOUS
  <2>2. CASE q = r
    <3>1. KnownIn(bufs2, v)
      BY <1>1, <1>2, <1>7, <1>9, <1>10
    <3>2. ASSUME NEW p \in Replica
          PROVE  w[p] <= bufs2[p].version[p]
      <4>1. CASE p = r
        BY <1>1, <1>4, <1>7, <4>1
      <4>2. CASE p # r
        BY <1>3, <3>1, <4>2 DEF KnownIn
      <4>3. QED
        BY <4>1, <4>2
    <3>3. QED
      BY <1>1, <1>4, <2>2, <3>2 DEF KnownIn
  <2>3. CASE q # r
    <3>1. KnownIn(bufs2, bufs[q].version)
      BY <1>5, <1>9, <1>10
    <3>2. QED
      BY <1>4, <2>3, <3>1
  <2>4. QED
    BY <2>2, <2>3
<1>12. ASSUME NEW y \in set
       PROVE  /\ KnownIn(bufs2, y.version)
              /\ Observed(bufs2[y.ts.replica].version, y.ts)
              /\ ObservedAll(bufs2[y.ts.replica].version, y.version)
  <2>1. /\ y.ts \in Stamps /\ y.ts.replica \in Replica /\ y.version \in Version
        /\ Observed(bufs[y.ts.replica].version, y.ts)
        /\ ObservedAll(bufs[y.ts.replica].version, y.version)
        /\ KnownIn(bufs, y.version)
    BY AuthorOf
  <2>2. \A q \in Replica : y.version[q] \in Nat
    BY <2>1 DEF Version
  <2>3. KnownIn(bufs2, y.version)
    BY <1>9, <2>1, <2>2
  <2>4. CASE y.ts.replica = r
    <3>1. Observed(v, y.ts) /\ ObservedAll(v, y.version)
      BY <1>1, <2>1, <2>4
    <3>2. Observed(w, y.ts) /\ ObservedAll(w, y.version)
      BY <1>3, <1>5, <2>1, <3>1, ObservedStays, ObservedAllTrans
    <3>3. QED
      BY <1>1, <1>4, <2>3, <2>4, <3>2
  <2>5. CASE y.ts.replica # r
    <3>1. bufs2[y.ts.replica] = bufs[y.ts.replica]
      BY <1>4, <2>1, <2>5
    <3>2. QED
      BY <2>1, <2>3, <3>1
  <2>6. QED
    BY <2>4, <2>5
<1>13. /\ KnownIn(bufs2, op.version)
       /\ Observed(bufs2[op.ts.replica].version, op.ts)
       /\ ObservedAll(bufs2[op.ts.replica].version, op.version)
  <2>1. KnownIn(bufs2, v)
    BY <1>1, <1>2, <1>7, <1>9, <1>10
  <2>2. QED
    BY <1>1, <1>2, <1>3, <1>4, <2>1
<1>14. AuthorsKnow(bufs2, set \cup {op})
  BY <1>11, <1>12, <1>13 DEF AuthorsKnow
<1>15. OpsSound(set \cup {op})
  BY SendOps
<1>16. QED
  BY <1>6, <1>14, <1>15 DEF ReplicaSound
-----------------------------------------------------------------------------
(* The steps *)

LEMMA ReplacedBuffer ==
    ASSUME NEW bufs, bufs = [q \in Replica |-> bufs[q]], NEW r \in Replica, NEW new,
           NEW bufs2, bufs2 = [bufs EXCEPT ![r] = new]
    PROVE  bufs2 = [q \in Replica |-> bufs2[q]] /\ Replaces(bufs, r, new, bufs2)
<1>1. DOMAIN bufs = Replica
  BY Zenon
<1>2. bufs2 = [q \in Replica |-> IF q = r THEN new ELSE bufs[q]]
  BY <1>1, Zenon
<1>3. QED
  BY <1>2 DEF Replaces

(* A receiver learns nothing of itself, and nothing that its author does not *)
(* know.                                                                     *)
LEMMA ReceiveSound ==
    ASSUME NEW bufs, NEW set, ReplicaSound(bufs, set), NEW r \in Replica,
           NEW new, BufferSound(new, set), new.deferred \subseteq set, MissesSomething(new),
           KnownIn(bufs, new.version), ObservedAll(new.version, bufs[r].version),
           NEW bufs2, Replaces(bufs, r, new, bufs2)
    PROVE  ReplicaSound(bufs2, set)
<1>1. bufs2[r] = new /\ \A q \in Replica : q # r => bufs2[q] = bufs[q]
  BY DEF Replaces
<1>2. PICK v, w : v = bufs[r].version /\ w = new.version
  OBVIOUS
<1>3. v \in Version /\ w \in Version /\ v[r] \in Nat /\ w[r] \in Nat
  <2>1. v \in Version /\ w \in Version
    BY <1>2 DEF ReplicaSound, BufferSound, BufferTyped, Version
  <2>2. QED
    BY <2>1 DEF Version
<1>4. w[r] = v[r]
  <2>1. w[r] <= v[r]
    BY <1>2 DEF KnownIn
  <2>2. w[r] >= v[r]
    BY <1>2, <1>3 DEF ObservedAll, Version
  <2>3. QED
    BY <1>3, <2>1, <2>2
<1>5. \A q \in Replica : bufs2[q].version[q] = bufs[q].version[q]
  BY <1>1, <1>2, <1>4
<1>6. \A u : KnownIn(bufs, u) => KnownIn(bufs2, u)
  BY <1>5 DEF KnownIn
<1>7. \A q \in Replica : /\ BufferSound(bufs2[q], set) /\ bufs2[q].deferred \subseteq set
                         /\ MissesSomething(bufs2[q]) /\ KnownIn(bufs2, bufs2[q].version)
  <2>1. SUFFICES ASSUME NEW q \in Replica
                 PROVE  /\ BufferSound(bufs2[q], set) /\ bufs2[q].deferred \subseteq set
                        /\ MissesSomething(bufs2[q]) /\ KnownIn(bufs2, bufs2[q].version)
    OBVIOUS
  <2>2. CASE q = r
    BY <1>1, <1>6, <2>2, Zenon
  <2>3. CASE q # r
    <3>1. /\ BufferSound(bufs[q], set) /\ bufs[q].deferred \subseteq set
          /\ MissesSomething(bufs[q]) /\ KnownIn(bufs, bufs[q].version)
      BY DEF ReplicaSound, AuthorsKnow
    <3>2. QED
      BY <1>1, <1>6, <2>3, <3>1, Zenon
  <2>4. QED
    BY <2>2, <2>3
<1>8. ASSUME NEW y \in set
      PROVE  /\ KnownIn(bufs2, y.version)
             /\ Observed(bufs2[y.ts.replica].version, y.ts)
             /\ ObservedAll(bufs2[y.ts.replica].version, y.version)
  <2>1. /\ y.ts \in Stamps /\ y.ts.replica \in Replica /\ y.version \in Version
        /\ Observed(bufs[y.ts.replica].version, y.ts)
        /\ ObservedAll(bufs[y.ts.replica].version, y.version)
        /\ KnownIn(bufs, y.version)
    BY AuthorOf
  <2>2. CASE y.ts.replica = r
    <3>1. Observed(v, y.ts) /\ ObservedAll(v, y.version) /\ ObservedAll(w, v)
      BY <1>2, <2>1, <2>2
    <3>2. Observed(w, y.ts)
      BY <1>3, <2>1, <3>1, ObservedStays
    <3>3. ObservedAll(w, y.version)
      BY <1>3, <2>1, <3>1, ObservedAllTrans
    <3>4. QED
      BY <1>1, <1>2, <1>6, <2>1, <2>2, <3>2, <3>3
  <2>3. CASE y.ts.replica # r
    <3>1. bufs2[y.ts.replica] = bufs[y.ts.replica]
      BY <1>1, <2>1, <2>3
    <3>2. QED
      BY <1>6, <2>1, <3>1
  <2>4. QED
    BY <2>2, <2>3
<1>9. AuthorsKnow(bufs2, set)
  BY <1>7, <1>8 DEF AuthorsKnow
<1>10. QED
  BY <1>7, <1>9 DEF ReplicaSound

(* Operations arrive.                                                        *)
LEMMA ReceiveStep ==
    ASSUME ReplicaInv, NEW r \in Replica, NEW seq \in Batches({op \in ops : op.ts.replica # r}),
           Receive(r, seq)
    PROVE  ReplicaInv'
<1>1. PICK n \in 1..MaxBatch : seq \in [1..n -> {op \in ops : op.ts.replica # r}]
  BY DEF Batches
<1>2. n \in Nat /\ n = Len(seq) /\ \A m \in 1..n : seq[m] \in ops
  BY <1>1
<1>3. PICK b, new : b = buffer[r] /\ new = ApplyOps(b, seq)
  OBVIOUS
<1>4. /\ buffer = [q \in Replica |-> buffer[q]] /\ ReplicaSound(buffer, ops)
      /\ OpsSound(ops) /\ Authored(ops) /\ BufferSound(b, ops) /\ KnownIn(buffer, b.version)
      /\ b.deferred \subseteq ops
  BY <1>3 DEF ReplicaInv, ReplicaSound, AuthorsKnow, Authored
<1>5. /\ BufferSound(new, ops) /\ new.deferred \subseteq ops
      /\ KnownIn(buffer, new.version) /\ ObservedAll(new.version, b.version)
      /\ \A o \in new.deferred : ~ ObservedAll(new.version, o.version)
  BY <1>2, <1>3, <1>4, ApplyOpsSound
<1>6. buffer' = [buffer EXCEPT ![r] = new] /\ ops' = ops
  BY <1>3, Zenon DEF Receive
<1>7. PICK bufs, bufs2 : bufs = buffer /\ bufs2 = buffer'
  OBVIOUS
<1>8. bufs2 = [q \in Replica |-> bufs2[q]] /\ Replaces(bufs, r, new, bufs2)
  <2>1. bufs = [q \in Replica |-> bufs[q]] /\ bufs2 = [bufs EXCEPT ![r] = new]
    BY <1>4, <1>6, <1>7, Zenon
  <2>2. QED
    BY <2>1, ReplacedBuffer, Zenon
<1>9. ReplicaSound(bufs2, ops)
  <2>1. MissesSomething(new)
    BY <1>5 DEF MissesSomething
  <2>2. ReplicaSound(bufs, ops) /\ KnownIn(bufs, new.version)
        /\ ObservedAll(new.version, bufs[r].version)
    BY <1>3, <1>4, <1>5, <1>7
  <2>3. QED
    BY <1>5, <1>8, <2>1, <2>2, ReceiveSound
<1>10. QED
  BY <1>6, <1>7, <1>8, <1>9, Zenon DEF ReplicaInv

(* What an author knows of its own buffer.                                   *)
LEMMA OwnBuffer ==
    ASSUME ReplicaInv, NEW r \in Replica, NEW b, b = buffer[r]
    PROVE  /\ BufferSound(b, ops) /\ BufferTyped(b) /\ TextSound(b) /\ BufferRecord(b)
           /\ b.version \in Version /\ b.clock \in Nat
           /\ b.version[r] \in Nat /\ b.version[r] < b.clock
           /\ \A q \in Replica \cup {0} : b.version[q] \in Nat /\ b.version[q] < b.clock
           /\ b.frags \in Seq(Fragment)
<1>1. BufferSound(b, ops) /\ BufferTyped(b) /\ TextSound(b)
  BY DEF ReplicaInv, ReplicaSound, BufferSound
<1>2. /\ BufferRecord(b) /\ b.version \in Version /\ b.clock \in Nat
      /\ \A q \in Replica \cup {0} : b.version[q] < b.clock
      /\ b.frags \in Seq(Fragment)
  BY <1>1 DEF BufferTyped, BufferRecord, Version
<1>3. \A q \in Replica \cup {0} : b.version[q] \in Nat
  BY <1>2 DEF Version
<1>4. QED
  BY <1>1, <1>2, <1>3

LEMMA SendStep ==
    ASSUME ReplicaInv, NEW r, NEW op, Sends(buffer, ops, r, op),
           NEW new, Advanced(buffer[r], new, op.ts), Applied(new, op),
           NEW bufs2, bufs2 = Put(buffer, r, new)
    PROVE  bufs2 = [q \in Replica |-> bufs2[q]] /\ ReplicaSound(bufs2, ops \cup {op})
<1>1. PICK bufs : bufs = buffer
  OBVIOUS
<1>2. bufs = [q \in Replica |-> bufs[q]] /\ ReplicaSound(bufs, ops) /\ r \in Replica
  BY <1>1, Zenon DEF ReplicaInv, Sends
<1>3. bufs2 = [bufs EXCEPT ![r] = new]
  BY <1>1, Zenon DEF Put
<1>4. bufs2 = [q \in Replica |-> bufs2[q]] /\ Replaces(bufs, r, new, bufs2)
  BY <1>2, <1>3, ReplacedBuffer, Zenon
<1>5. Sends(bufs, ops, r, op) /\ Advanced(bufs[r], new, op.ts)
  BY <1>1, Zenon
<1>6. ReplicaSound(bufs2, ops \cup {op})
  <2>1. ASSUME NEW x, x = bufs2
        PROVE  ReplicaSound(x, ops \cup {op})
    <3>1. Replaces(bufs, r, new, x)
      BY <1>4, <2>1, Zenon
    <3>2. QED
      BY <1>2, <1>5, <3>1, SendSound, Zenon
  <2>2. QED
    BY <2>1
<1>7. QED
  BY <1>4, <1>6

(* The author takes in the operation that it sends.                          *)
SendsInto(r, op, new) ==
    /\ Sends(buffer, ops, r, op) /\ Advanced(buffer[r], new, op.ts) /\ Applied(new, op)
    /\ ops' = ops \cup {op} /\ buffer' = Put(buffer, r, new)

LEMMA SentStep ==
    ASSUME ReplicaInv, NEW r, NEW op, NEW new, SendsInto(r, op, new)
    PROVE  ReplicaInv'
<1>1. PICK bufs2 : bufs2 = buffer'
  OBVIOUS
<1>2. bufs2 = [q \in Replica |-> bufs2[q]] /\ ReplicaSound(bufs2, ops \cup {op})
  BY <1>1, SendStep DEF SendsInto
<1>3. ops' = ops \cup {op}
  BY DEF SendsInto
<1>4. QED
  BY <1>1, <1>2, <1>3, Zenon DEF ReplicaInv

LEMMA StampFacts ==
    ASSUME NEW t \in Nat, NEW r \in Replica, NEW ts, ts = Stamp(t, r)
    PROVE  ts \in Stamps /\ ts.value = t /\ ts.replica = r
  BY DEF Stamp, Stamps

(* A local edit.                                                             *)
LocalGone(frags, s, e) ==
    {i \in DOMAIN frags : frags[i].visible /\ VisibleBefore(frags, i) \in s + 1..e}

MadeBy(b, op, s, e) ==
    /\ op.kind = "edit" /\ op.version = b.version /\ b.clock < op.ts.value
    /\ s <= e /\ op.start = StartIndex(b.frags, s) /\ op.end = EndIndex(b.frags, s, e)

LEMMA EditSends ==
    ASSUME ReplicaInv, NEW r \in Replica,
           NEW s \in 0..VisibleLen(buffer[r].frags), NEW e \in 0..VisibleLen(buffer[r].frags),
           NEW len \in 0..MaxLen, Edit(r, s, e, len)
    PROVE  \E op, new, clock :
              /\ SendsInto(r, op, new) /\ MadeBy(buffer[r], op, s, e)
              /\ EditedBy(buffer[r], new, op, op.start, LocalGone(buffer[r].frags, s, e), clock)
<1>1. PICK b : b = buffer[r]
  OBVIOUS
<1>2. /\ BufferTyped(b) /\ TextSound(b) /\ BufferRecord(b)
      /\ b.version \in Version /\ b.clock \in Nat
      /\ b.version[r] \in Nat /\ b.version[r] < b.clock
      /\ \A q \in Replica \cup {0} : b.version[q] \in Nat /\ b.version[q] < b.clock
      /\ b.frags \in Seq(Fragment)
  BY <1>1, OwnBuffer
<1>3. PICK ts, start, end : /\ ts = Stamp(b.clock + 1, r) /\ start = StartIndex(b.frags, s)
                            /\ end = EndIndex(b.frags, s, e)
  OBVIOUS
<1>4. PICK deleted : deleted = {i \in DOMAIN b.frags :
                        b.frags[i].visible /\ VisibleBefore(b.frags, i) \in s + 1..e}
  OBVIOUS
<1>5. PICK op : op = [kind |-> "edit", ts |-> ts, version |-> b.version,
                      start |-> start, end |-> end, len |-> len]
  OBVIOUS
<1>6. PICK after, version : after = Edited(b.frags, start, ts, len, deleted)
                            /\ version = Observe(b.version, ts)
  OBVIOUS
<1>7. PICK new : new = [frags |-> after, undos |-> b.undos, version |-> version,
                        clock |-> b.clock + 2, deferred |-> b.deferred]
  OBVIOUS
<1>8. ops' = ops \cup {op} /\ buffer' = [buffer EXCEPT ![r] = new]
  <2>1. ASSUME NEW c, c = b.clock + 2
        PROVE  [b EXCEPT !.frags = after, !.version = version, !.clock = c] = new
    <3>1. PICK f0, u0, v0, c0, d0 :
            /\ b = [frags |-> f0, undos |-> u0, version |-> v0, clock |-> c0, deferred |-> d0]
            /\ u0 = b.undos /\ d0 = b.deferred
      BY <1>2, Zenon DEF BufferRecord
    <3>2. new = [frags |-> after, undos |-> u0, version |-> version, clock |-> c,
                 deferred |-> d0]
      BY <1>7, <2>1, <3>1, Zenon
    <3>3. PICK x : x = [[frags |-> f0, undos |-> u0, version |-> v0, clock |-> c0,
                         deferred |-> d0] EXCEPT !.frags = after, !.version = version,
                                                 !.clock = c]
      OBVIOUS
    <3>4. x = [frags |-> after, undos |-> u0, version |-> version, clock |-> c,
               deferred |-> d0]
      BY <3>3
    <3>5. QED
      BY <3>1, <3>2, <3>3, <3>4, Zenon
  <2>2. [b EXCEPT !.frags = after, !.version = Observe(@, ts), !.clock = @ + 2] = new
    BY <1>6, <2>1, Zenon
  <2>3. buffer' = [buffer EXCEPT ![r] = [b EXCEPT !.frags = after, !.version = Observe(@, ts),
                                                  !.clock = @ + 2]]
    BY <1>1, <1>3, <1>4, <1>6, Zenon DEF Edit
  <2>4. ops' = ops \cup {op}
    BY <1>1, <1>3, <1>5, Zenon DEF Edit
  <2>5. QED
    BY <2>2, <2>3, <2>4, Zenon
<1>9. /\ ts \in Stamps /\ ts.value = b.clock + 1 /\ ts.replica = r
  BY <1>2, <1>3, StampFacts
<1>10. ~ Observed(b.version, ts)
  BY <1>2, <1>9 DEF Observed
<1>11. len \in Nat /\ start \in 0..Len(b.frags)
  <2>1. VisibleLen(b.frags) \in Nat /\ Len(b.frags) \in Nat
    <3>1. Len(b.frags) \in Nat
      BY <1>2
    <3>2. \A i \in Nat : VisibleBefore(b.frags, i) \in Nat
      BY VisibleGrows
    <3>3. QED
      BY <3>1, <3>2 DEF VisibleLen
  <2>2. s \in Nat /\ s <= VisibleLen(b.frags)
    BY <1>1, <2>1
  <2>3. start \in 0..Len(b.frags)
    BY <1>3, <2>1, <2>2, StartIndexRange
  <2>4. QED
    BY <2>3
<1>12. /\ op.kind = "edit" /\ op.ts = ts /\ op.version = b.version /\ op.len = len
  BY <1>5
<1>13. Advanced(b, new, ts) /\ Applied(new, op)
  <2>1. PICK clock \in Nat : clock = b.clock + 2 /\ b.clock <= clock /\ ts.value < clock
    <3>1. b.clock + 2 \in Nat /\ b.clock <= b.clock + 2 /\ b.clock + 1 < b.clock + 2
      BY <1>2
    <3>2. QED
      BY <1>9, <3>1, Zenon
  <2>2. new = [frags |-> Edited(b.frags, start, ts, len, deleted), undos |-> b.undos,
               version |-> Observe(b.version, ts), clock |-> clock, deferred |-> b.deferred]
    BY <1>6, <1>7, <2>1, Zenon
  <2>3. /\ Advanced(b, new, ts)
        /\ \A o : o.kind = "edit" /\ o.ts = ts /\ o.len = len => Applied(new, o)
    BY <1>2, <1>9, <1>10, <1>11, <2>1, <2>2, EditAdvances, Zenon
  <2>4. QED
    BY <1>12, <2>3
<1>14. Sends(buffer, ops, r, op)
  <2>1. OpTyped(op)
    <3>1. \A q \in Replica \cup {0} : op.version[q] < op.ts.value
      BY <1>2, <1>9, <1>12
    <3>2. op.version \in [Replica \cup {0} -> Nat]
      BY <1>2, <1>12 DEF Version
    <3>3. QED
      BY <1>9, <1>11, <1>12, <3>1, <3>2 DEF OpTyped
  <2>2. b.version[r] < b.clock + 1
    BY <1>2
  <2>3. QED
    BY <1>1, <1>9, <1>12, <2>1, <2>2 DEF Sends
<1>15. SendsInto(r, op, new)
  <2>1. buffer' = Put(buffer, r, new)
    BY <1>8, Zenon DEF Put
  <2>2. Advanced(buffer[r], new, op.ts)
    BY <1>1, <1>12, <1>13
  <2>3. QED
    BY <1>8, <1>13, <1>14, <2>1, <2>2 DEF SendsInto
<1>16. MadeBy(b, op, s, e)
  <2>1. op.start = start /\ op.end = end
    BY <1>5
  <2>2. s <= e
    BY Zenon DEF Edit
  <2>3. b.clock < b.clock + 1
    BY <1>2
  <2>4. QED
    BY <1>3, <1>9, <1>12, <2>1, <2>2, <2>3 DEF MadeBy
<1>17. EditedBy(b, new, op, op.start, LocalGone(b.frags, s, e), b.clock + 2)
  <2>1. op.start = start
    BY <1>5
  <2>2. QED
    BY <1>4, <1>6, <1>7, <1>12, <2>1, Zenon DEF EditedBy, LocalGone
<1>18. QED
  BY <1>1, <1>15, <1>16, <1>17, Zenon

LEMMA EditStep ==
    ASSUME ReplicaInv, NEW r \in Replica,
           NEW s \in 0..VisibleLen(buffer[r].frags), NEW e \in 0..VisibleLen(buffer[r].frags),
           NEW len \in 0..MaxLen, Edit(r, s, e, len)
    PROVE  ReplicaInv'
  BY EditSends, SentStep, Zenon

(* A local undo or redo.                                                     *)
LEMMA UndoSends ==
    ASSUME ReplicaInv, NEW r \in Replica, NEW edit \in Stamps, Undo(r, edit)
    PROVE  \E op, new, clock :
              /\ SendsInto(r, op, new) /\ op.kind = "undo" /\ op.version = buffer[r].version
              /\ new = AfterUndo(buffer[r], op, clock)
<1>1. PICK b : b = buffer[r]
  OBVIOUS
<1>2. /\ BufferTyped(b) /\ TextSound(b) /\ BufferRecord(b)
      /\ b.version \in Version /\ b.clock \in Nat
      /\ b.version[r] \in Nat /\ b.version[r] < b.clock
      /\ \A q \in Replica \cup {0} : b.version[q] \in Nat /\ b.version[q] < b.clock
  BY <1>1, OwnBuffer
<1>3. PICK ts, count : ts = Stamp(b.clock, r) /\ count = LargestCount(b.undos, edit) + 1
  OBVIOUS
<1>4. PICK op : op = [kind |-> "undo", ts |-> ts, version |-> b.version, edit |-> edit,
                      count |-> count]
  OBVIOUS
<1>5. /\ op.kind = "undo" /\ op.ts = ts /\ op.version = b.version /\ op.edit = edit
  BY <1>4
<1>6. PICK clock : clock = b.clock + 1
  OBVIOUS
<1>7. PICK new : new = AfterUndo(b, op, clock)
  OBVIOUS
<1>8. Observed(b.version, edit) /\ ops' = ops \cup {op} /\ buffer' = [buffer EXCEPT ![r] = new]
  <2>1. PICK w : w = ApplyUndo(b, op)
    OBVIOUS
  <2>2. w.version = b.version /\ w.clock = b.clock
    BY <1>2, <2>1, UndoKeeps
  <2>3. [w EXCEPT !.version = Observe(@, op.ts), !.clock = @ + 1] = new
    BY <1>6, <1>7, <2>1, <2>2, Zenon DEF AfterUndo
  <2>4. buffer' = [buffer EXCEPT ![r] =
              [w EXCEPT !.version = Observe(@, op.ts), !.clock = @ + 1]]
    BY <1>1, <1>3, <1>4, <2>1, Zenon DEF Undo
  <2>5. Observed(b.version, edit) /\ ops' = ops \cup {op}
    BY <1>1, <1>3, <1>4, Zenon DEF Undo
  <2>6. QED
    BY <2>3, <2>4, <2>5, Zenon
<1>9. /\ ts \in Stamps /\ ts.value = b.clock /\ ts.replica = r
  BY <1>2, <1>3, StampFacts
<1>10. Advanced(b, new, op.ts) /\ Applied(new, op)
  <2>1. clock \in Nat /\ b.clock <= clock /\ op.ts.value < clock
    BY <1>2, <1>5, <1>6, <1>9
  <2>2. op.ts \in Stamps /\ op.edit \in Stamps /\ Observed(b.version, op.edit)
    BY <1>5, <1>8, <1>9
  <2>3. QED
    BY <1>2, <1>5, <1>7, <2>1, <2>2, UndoAdvances, Zenon
<1>11. Sends(buffer, ops, r, op)
  <2>1. OpTyped(op)
    <3>1. \A q \in Replica \cup {0} : op.version[q] < op.ts.value
      BY <1>2, <1>5, <1>9
    <3>2. op.version \in [Replica \cup {0} -> Nat]
      BY <1>2, <1>5 DEF Version
    <3>3. op.edit \in Stamps /\ Observed(op.version, op.edit)
      BY <1>5, <1>8
    <3>4. op.kind # "edit"
      BY <1>5
    <3>5. QED
      BY <1>5, <1>9, <3>1, <3>2, <3>3, <3>4 DEF OpTyped
  <2>2. QED
    BY <1>1, <1>2, <1>5, <1>9, <2>1 DEF Sends
<1>12. SendsInto(r, op, new)
  <2>1. buffer' = Put(buffer, r, new)
    BY <1>8, Zenon DEF Put
  <2>2. Advanced(buffer[r], new, op.ts)
    BY <1>1, <1>10
  <2>3. QED
    BY <1>8, <1>10, <1>11, <2>1, <2>2 DEF SendsInto
<1>13. QED
  BY <1>1, <1>5, <1>7, <1>12, Zenon

LEMMA UndoStep ==
    ASSUME ReplicaInv, NEW r \in Replica, NEW edit \in Stamps, Undo(r, edit)
    PROVE  ReplicaInv'
  BY UndoSends, SentStep, Zenon
-----------------------------------------------------------------------------
(* The base text *)

(* The base text.                                                            *)
LEMMA FirstText ==
    ASSUME NEW frags, frags = Inserted(Stamp(1, 0), BaseLen)
    PROVE  /\ frags \in Seq(Fragment) /\ \A i \in DOMAIN frags : frags[i].ts.value = 1
           /\ Current(frags, {})
<1>1. BaseLen \in Nat
  BY TextAssumption
<1>2. Stamp(1, 0) \in Stamps /\ Stamp(1, 0).value = 1
  BY DEF Stamp, Stamps
<1>3. PICK ts : ts = Stamp(1, 0)
  OBVIOUS
<1>4. frags = [i \in 1..BaseLen |->
                  [ts |-> ts, offset |-> i, deletions |-> {}, visible |-> TRUE]]
  BY <1>3 DEF Inserted
<1>5. \A i \in 1..BaseLen : /\ frags[i] \in Fragment /\ frags[i].ts = ts
                            /\ frags[i].deletions = {} /\ frags[i].visible = TRUE
  <2>1. SUFFICES ASSUME NEW i \in 1..BaseLen
                 PROVE  /\ frags[i] \in Fragment /\ frags[i].ts = ts
                        /\ frags[i].deletions = {} /\ frags[i].visible = TRUE
    OBVIOUS
  <2>2. frags[i] = [ts |-> ts, offset |-> i, deletions |-> {}, visible |-> TRUE]
    BY <1>4
  <2>3. PICK f : f = frags[i]
    OBVIOUS
  <2>4. ts \in Stamps /\ i \in Nat
    BY <1>1, <1>2, <1>3
  <2>5. f = [ts |-> ts, offset |-> i, deletions |-> {}, visible |-> TRUE]
    BY <2>2, <2>3, Zenon
  <2>6. f \in Fragment
    BY <2>4, <2>5 DEF Fragment
  <2>7. QED
    BY <2>3, <2>5, <2>6
<1>6. frags \in Seq(Fragment)
  <2>1. frags \in [1..BaseLen -> Fragment]
    BY <1>4, <1>5
  <2>2. QED
    BY <1>1, <2>1, FragmentsOf
<1>7. DOMAIN frags = 1..BaseLen
  BY <1>4
<1>8. \A edit : ~ IsUndone({}, edit)
  BY NotUndone
<1>9. \A i \in 1..BaseLen : IsVisible({}, frags[i])
  BY <1>5, <1>8 DEF IsVisible
<1>10. Current(frags, {})
  BY <1>5, <1>7, <1>9 DEF Current
<1>11. QED
  BY <1>2, <1>3, <1>5, <1>6, <1>7, <1>10

LEMMA ReplicaInit ==
    ASSUME Init
    PROVE  ReplicaInv
<1>1. PICK frags : frags = Inserted(Stamp(1, 0), BaseLen)
  OBVIOUS
<1>2. /\ frags \in Seq(Fragment) /\ \A i \in DOMAIN frags : frags[i].ts.value = 1
      /\ Current(frags, {})
  BY <1>1, FirstText
<1>3. PICK b : b = [frags |-> frags, undos |-> {}, version |-> Version0, clock |-> 2,
                    deferred |-> {}]
  OBVIOUS
<1>4. /\ b.frags = frags /\ b.undos = {} /\ b.version = Version0 /\ b.clock = 2
      /\ b.deferred = {}
  BY <1>3
<1>5. buffer = [r \in Replica |-> b] /\ ops = {}
  BY <1>1, <1>3, Zenon DEF Init, NewBuffer
<1>6. PICK set : set = ops
  OBVIOUS
<1>7. set = {}
  BY <1>5, <1>6
<1>8. /\ Version0 \in [Replica \cup {0} -> Nat]
      /\ \A q \in Replica \cup {0} : Version0[q] \in Nat /\ Version0[q] < 2
  BY DEF Version0
<1>9. BufferTyped(b)
  <2>1. b = [frags |-> b.frags, undos |-> b.undos, version |-> b.version,
             clock |-> b.clock, deferred |-> b.deferred]
    BY <1>3, <1>4, Zenon
  <2>2. \A i \in DOMAIN frags : frags[i].ts.value < 2
    BY <1>2
  <2>3. QED
    BY <1>2, <1>4, <1>8, <2>1, <2>2 DEF BufferTyped
<1>10. BufferSound(b, set) /\ b.deferred \subseteq set /\ MissesSomething(b)
  <2>1. TextSound(b)
    BY <1>2, <1>4 DEF TextSound
  <2>2. VersionSound(b, set)
    BY <1>7 DEF VersionSound
  <2>3. QED
    BY <1>4, <1>9, <2>1, <2>2 DEF BufferSound, MissesSomething
<1>11. PICK bufs : bufs = buffer
  OBVIOUS
<1>12. bufs = [r \in Replica |-> bufs[r]] /\ \A r \in Replica : bufs[r] = b
  BY <1>5, <1>11
<1>13. OpsSound(set)
  BY <1>7, FS_EmptySet DEF OpsSound
<1>14. AuthorsKnow(bufs, set)
  <2>1. \A q \in Replica : b.version[q] <= b.version[q]
    BY <1>4, <1>8
  <2>2. QED
    BY <1>7, <1>12, <2>1 DEF AuthorsKnow, KnownIn
<1>15. ReplicaSound(bufs, set)
  BY <1>10, <1>12, <1>13, <1>14, Zenon DEF ReplicaSound
<1>16. QED
  BY <1>6, <1>11, <1>12, <1>15, Zenon DEF ReplicaInv
-----------------------------------------------------------------------------
(* Theorems *)

LEMMA ReplicaStep ==
    ASSUME ReplicaInv, Next
    PROVE  ReplicaInv'
<1>1. PICK r \in Replica :
          \/ \E s, e \in 0..VisibleLen(buffer[r].frags), len \in 0..MaxLen : Edit(r, s, e, len)
          \/ \E op \in Sent("edit") : Undo(r, op.ts)
          \/ \E seq \in Batches({op \in ops : op.ts.replica # r}) : Receive(r, seq)
  BY DEF Next
<1>2. CASE \E s, e \in 0..VisibleLen(buffer[r].frags), len \in 0..MaxLen : Edit(r, s, e, len)
  BY <1>2, EditStep
<1>3. CASE \E op \in Sent("edit") : Undo(r, op.ts)
  <2>1. PICK op \in Sent("edit") : Undo(r, op.ts)
    BY <1>3
  <2>2. op.ts \in Stamps
    BY <2>1 DEF Sent, ReplicaInv, ReplicaSound, OpsSound, OpTyped
  <2>3. QED
    BY <2>1, <2>2, UndoStep
<1>4. CASE \E seq \in Batches({op \in ops : op.ts.replica # r}) : Receive(r, seq)
  BY <1>4, ReceiveStep
<1>5. QED
  BY <1>1, <1>2, <1>3, <1>4

(* At every moment, whatever was sent and in whatever order it arrived:      *)
(* timestamps are unique, an author's operation comes after all that the     *)
(* author had seen, a buffer has taken in what its version claims, its       *)
(* fragments look as the undo counts say, and what is deferred misses        *)
(* something.                                                                *)
THEOREM ReplicaInvariance == Spec => []ReplicaInv
<1>1. Init => ReplicaInv
  BY ReplicaInit
<1>2. ReplicaInv /\ [Next]_vars => ReplicaInv'
  <2>1. ASSUME ReplicaInv, UNCHANGED vars
        PROVE  ReplicaInv'
    BY <2>1 DEF vars, ReplicaInv
  <2>2. QED
    BY <2>1, ReplicaStep
<1>3. QED
  BY <1>1, <1>2, PTL DEF Spec

LEMMA TypesFollow ==
    ASSUME ReplicaInv
    PROVE  TypeOK
<1>1. ASSUME NEW r \in Replica
      PROVE  /\ buffer[r].frags \in Seq(Fragment)
             /\ buffer[r].version \in [Replica \cup {0} -> Nat]
             /\ buffer[r].deferred \subseteq ops
             /\ \A i \in DOMAIN buffer[r].frags : buffer[r].frags[i].ts.value < buffer[r].clock
  BY DEF ReplicaInv, ReplicaSound, BufferSound, BufferTyped
<1>2. QED
  BY <1>1, Zenon DEF TypeOK, Fragment

(* Every buffer is well formed, and its clock is ahead of all it holds: the  *)
(* next timestamp it draws is new.                                           *)
THEOREM ReplicaTypes == Spec => []TypeOK
  BY ReplicaInvariance, TypesFollow, PTL

LEMMA VisibleFollows ==
    ASSUME ReplicaInv
    PROVE  VisibleIsCurrent
<1>1. \A r \in Replica : Current(buffer[r].frags, buffer[r].undos)
  BY DEF ReplicaInv, ReplicaSound, BufferSound, TextSound
<1>2. QED
  BY <1>1, Zenon DEF VisibleIsCurrent, Current

(* Fragment::visible is right in every buffer, although an undo looks again  *)
(* at those fragments only that its edit inserted or deleted, and an edit at *)
(* none but those it deletes.                                                *)
THEOREM VisibleCurrent == Spec => []VisibleIsCurrent
  BY ReplicaInvariance, VisibleFollows, PTL

LEMMA AppliedFollows ==
    ASSUME ReplicaInv
    PROVE  ObservedWasApplied
<1>1. \A r \in Replica : \A op \in ops :
          Observed(buffer[r].version, op.ts) => Applied(buffer[r], op)
  BY DEF ReplicaInv, ReplicaSound, BufferSound, VersionSound
<1>2. QED
  BY <1>1, Zenon DEF ObservedWasApplied, Applied

(* A version keeps one number for each replica, and yet what it covers was   *)
(* applied: apply_ops never lets an operation of a replica overtake an       *)
(* earlier one that is still deferred.                                       *)
THEOREM ObservedApplied == Spec => []ObservedWasApplied
  BY ReplicaInvariance, AppliedFollows, PTL

LEMMA OnlyMissingFollows ==
    ASSUME ReplicaInv
    PROVE  OnlyMissingDefer
  BY DEF ReplicaInv, ReplicaSound, MissesSomething, OnlyMissingDefer

(* One pass over the deferred operations is enough, for any number of them:  *)
(* in the order of the timestamps, nothing that is applied later in the pass *)
(* is what an operation before it waits for.                                 *)
THEOREM OnlyMissing == Spec => []OnlyMissingDefer
  BY ReplicaInvariance, OnlyMissingFollows, PTL

-----------------------------------------------------------------------------
(* Convergence: one order of all characters, and one record of deletions     *)

(* The characters of the base text and of the edits that were sent, and      *)
(* those of them that a version covers.                                      *)
Edits(set) == {y \in set : y.kind = "edit"}

Chars(set) ==
    {c \in Stamps \X Nat :
        \/ c[1] = Stamp(1, 0) /\ c[2] \in 1..BaseLen
        \/ \E y \in Edits(set) : c[1] = y.ts /\ c[2] \in 1..y.len}

Seen(set, version) == {c \in Chars(set) : Observed(version, c[1])}

(* The undo operations that a version covers.                                *)
UndosAt(set, version) ==
    {[edit |-> u.edit, count |-> u.count, id |-> u.ts] :
        u \in {w \in set : w.kind = "undo" /\ Observed(version, w.ts)}}

(* How many of the characters an edit counts come before c or are c; and the *)
(* characters it was made behind.                                            *)
UpTo(set, order, version, c) ==
    {d \in Seen(set, version) : d = c \/ <<d, c>> \in order}

Place(set, order, version, c) == Cardinality(UpTo(set, order, version, c))

Ahead(set, order, y) ==
    {c \in Seen(set, y.version) : Place(set, order, y.version, c) <= y.start}

VisibleAt(set, deleted, c, version) ==
    /\ ~ IsUndone(UndosAt(set, version), c[1])
    /\ \A d \in Stamps : <<c, d>> \in deleted /\ Observed(version, d)
                             => IsUndone(UndosAt(set, version), d)

(* A total order of all characters, those of an edit by their offset.        *)
IsOrder(set, order) ==
    /\ order \subseteq Chars(set) \X Chars(set)
    /\ \A c \in Chars(set) : <<c, c>> \notin order
    /\ \A c, d \in Chars(set) : c = d \/ <<c, d>> \in order \/ <<d, c>> \in order
    /\ \A c, d, e \in Chars(set) :
          <<c, d>> \in order /\ <<d, e>> \in order => <<c, e>> \in order
    /\ \A c, d \in Chars(set) : c[1] = d[1] /\ c[2] < d[2] => <<c, d>> \in order

(* What an edit inserted is behind the characters it was made behind; and    *)
(* what is between them is the edit's own, or of later edits.                *)
InPlace(set, order, y) ==
    \A c \in Chars(set) : c[1] = y.ts =>
        /\ \A a \in Ahead(set, order, y) : <<a, c>> \in order
        /\ \A d \in Chars(set) :
              <<d, c>> \in order /\ (\A a \in Ahead(set, order, y) : <<a, d>> \in order)
                  => d[1] = y.ts \/ Later(d[1], y.ts)

(* What an edit deleted: of the characters it counted, those in its range    *)
(* that were visible to its author.                                          *)
Deletes(set, order, deleted, y, c) ==
    /\ c \in Seen(set, y.version)
    /\ Place(set, order, y.version, c) \in y.start + 1..y.end
    /\ VisibleAt(set, deleted, c, y.version)

IsHistory(set, order, deleted) ==
    /\ IsOrder(set, order)
    /\ \A y \in Edits(set) : InPlace(set, order, y)
    /\ \A c, d : <<c, d>> \in deleted => \E y \in Edits(set) : y.ts = d
    /\ \A y \in Edits(set) : \A c :
          <<c, y.ts>> \in deleted <=> Deletes(set, order, deleted, y, c)

(* A buffer is the part of the history that its version covers.              *)
TextOf(frags, version, set, order, deleted) ==
    /\ \A i \in DOMAIN frags : Char(frags[i]) \in Seen(set, version)
    /\ \A c \in Seen(set, version) : \E i \in DOMAIN frags : Char(frags[i]) = c
    /\ \A i, j \in DOMAIN frags : i < j => <<Char(frags[i]), Char(frags[j])>> \in order
    /\ \A i \in DOMAIN frags : \A d \in Stamps :
          d \in frags[i].deletions <=> <<Char(frags[i]), d>> \in deleted /\ Observed(version, d)

(* What an operation that a version covers depends on is covered, too.       *)
Causal(version, set) ==
    \A y \in set : Observed(version, y.ts) => ObservedAll(version, y.version)

PartOf(b, set, order, deleted) ==
    /\ TextOf(b.frags, b.version, set, order, deleted)
    /\ b.undos = UndosAt(set, b.version)
    /\ Causal(b.version, set)

AllParts(bufs, set, order, deleted) ==
    \A r \in Replica : PartOf(bufs[r], set, order, deleted)

HistoryInv ==
    /\ ReplicaInv
    /\ \E order, deleted :
          IsHistory(ops, order, deleted) /\ AllParts(buffer, ops, order, deleted)

-----------------------------------------------------------------------------
(* The position of a character in a buffer *)

(* The characters of a text are different.                                   *)
LEMMA TextDistinct ==
    ASSUME NEW set, NEW order, IsOrder(set, order), NEW version, NEW deleted,
           NEW frags, DOMAIN frags \subseteq Nat, TextOf(frags, version, set, order, deleted),
           NEW i \in DOMAIN frags, NEW j \in DOMAIN frags, Char(frags[i]) = Char(frags[j])
    PROVE  i = j
<1>1. i \in Nat /\ j \in Nat
  OBVIOUS
<1>2. Char(frags[i]) \in Chars(set)
  BY DEF TextOf, Seen
<1>3. <<Char(frags[i]), Char(frags[i])>> \notin order
  BY <1>2 DEF IsOrder
<1>4. ~ (i < j) /\ ~ (j < i)
  BY <1>3 DEF TextOf
<1>5. QED
  BY <1>1, <1>4

(* What comes before a character comes first in every text.                  *)
LEMMA TextOrder ==
    ASSUME NEW set, NEW order, IsOrder(set, order), NEW version, NEW deleted,
           NEW frags, DOMAIN frags \subseteq Nat, TextOf(frags, version, set, order, deleted),
           NEW i \in DOMAIN frags, NEW j \in DOMAIN frags
    PROVE  <<Char(frags[i]), Char(frags[j])>> \in order <=> i < j
<1>1. i \in Nat /\ j \in Nat
  OBVIOUS
<1>2. PICK c, d : c = Char(frags[i]) /\ d = Char(frags[j])
  OBVIOUS
<1>3. c \in Chars(set) /\ d \in Chars(set)
  BY <1>2 DEF TextOf, Seen
<1>4. i < j => <<c, d>> \in order
  BY <1>2 DEF TextOf
<1>5. i = j => <<c, d>> \notin order
  BY <1>2, <1>3 DEF IsOrder
<1>6. j < i => <<c, d>> \notin order
  <2>1. SUFFICES ASSUME j < i, <<c, d>> \in order PROVE FALSE
    OBVIOUS
  <2>2. <<d, c>> \in order
    BY <1>2, <2>1 DEF TextOf
  <2>3. <<c, c>> \in order
    BY <1>3, <2>1, <2>2, Zenon DEF IsOrder
  <2>4. QED
    BY <1>3, <2>3, Zenon DEF IsOrder
<1>7. QED
  BY <1>1, <1>2, <1>4, <1>5, <1>6

(* Wherever an operation is applied, the buffer counts the same characters   *)
(* as its author did, so its counts mean the same everywhere.                *)
LEMMA RankIsPlace ==
    ASSUME NEW set, NEW order, IsOrder(set, order), NEW version, NEW deleted,
           NEW frags \in Seq(Fragment), TextOf(frags, version, set, order, deleted),
           NEW part, \A c \in Seen(set, part) : c \in Seen(set, version),
           NEW i \in DOMAIN frags
    PROVE  /\ Rank(frags, part, i) = Place(set, order, part, Char(frags[i]))
           /\ Rank(frags, part, i) \in Nat
<1>1. DOMAIN frags \subseteq Nat /\ i \in Nat /\ \A j \in 1..i : j \in DOMAIN frags
  OBVIOUS
<1>2. PICK J : J = {j \in 1..i : Observed(part, frags[j].ts)}
  OBVIOUS
<1>3. PICK U : U = UpTo(set, order, part, Char(frags[i]))
  OBVIOUS
<1>4. PICK f : f = [j \in J |-> Char(frags[j])]
  OBVIOUS
<1>5. \A j \in J : j \in DOMAIN frags /\ j <= i /\ Observed(part, frags[j].ts)
  BY <1>1, <1>2
<1>6. ASSUME NEW j \in J
      PROVE  f[j] \in U
  <2>1. j \in DOMAIN frags /\ Char(frags[j]) \in Seen(set, part)
    <3>1. Char(frags[j]) \in Chars(set) /\ Char(frags[j])[1] = frags[j].ts
      BY <1>5 DEF TextOf, Seen, Char
    <3>2. QED
      BY <1>5, <3>1 DEF Seen
  <2>2. j = i \/ j < i
    BY <1>1, <1>5
  <2>3. Char(frags[j]) = Char(frags[i]) \/ <<Char(frags[j]), Char(frags[i])>> \in order
    BY <2>1, <2>2 DEF TextOf
  <2>4. QED
    BY <1>3, <1>4, <2>1, <2>3 DEF UpTo
<1>7. ASSUME NEW u \in U
      PROVE  \E j \in J : f[j] = u
  <2>1. /\ u \in Seen(set, part) /\ u \in Seen(set, version)
        /\ u = Char(frags[i]) \/ <<u, Char(frags[i])>> \in order
    BY <1>3 DEF UpTo
  <2>2. PICK j \in DOMAIN frags : Char(frags[j]) = u
    BY <2>1 DEF TextOf
  <2>3. j = i \/ j < i
    BY <1>1, <2>1, <2>2, TextDistinct, TextOrder
  <2>4. Observed(part, frags[j].ts)
    <3>1. u[1] = frags[j].ts
      BY <2>2 DEF Char
    <3>2. QED
      BY <2>1, <3>1 DEF Seen
  <2>5. j \in J
    BY <1>1, <1>2, <2>3, <2>4
  <2>6. QED
    BY <1>4, <2>2, <2>5
<1>8. \A j, k \in J : f[j] = f[k] => j = k
  BY <1>1, <1>4, <1>5, TextDistinct
<1>9. f \in Bijection(J, U)
  <2>1. f \in [J -> U]
    BY <1>4, <1>6
  <2>2. QED
    BY <1>7, <1>8, <2>1 DEF Bijection, Injection, Surjection, IsInjective
<1>10. ExistsBijection(J, U)
  BY <1>9 DEF ExistsBijection
<1>11. IsFiniteSet(J)
  <2>1. IsFiniteSet(1..i) /\ J \in SUBSET (1..i)
    BY <1>1, <1>2, FS_Interval
  <2>2. QED
    BY <2>1, FS_Subset
<1>12. Cardinality(J) = Cardinality(U) /\ Cardinality(J) \in Nat
  BY <1>10, <1>11, FS_Bijection, FS_CardinalityType
<1>13. QED
  BY <1>2, <1>3, <1>12 DEF Rank, Place
-----------------------------------------------------------------------------
(* The text that an operation leaves *)

(* The version covers one operation more.                                    *)
Gains(set, v, w, op) ==
    /\ \A y \in set : Observed(w, y.ts) <=> Observed(v, y.ts) \/ y = op
    /\ Observed(w, Stamp(1, 0)) <=> Observed(v, Stamp(1, 0))

Fresh(c, op) == \E o \in 1..op.len : c = <<op.ts, o>>

(* With an edit its characters are there, with an undo none.                 *)
LEMMA SeenGains ==
    ASSUME NEW set, OpsSound(set), NEW op \in set, NEW v, NEW w, Gains(set, v, w, op)
    PROVE  /\ op \in Edits(set) => \A c : c \in Seen(set, w) <=> c \in Seen(set, v) \/ Fresh(c, op)
           /\ op \notin Edits(set) => \A c : c \in Seen(set, w) <=> c \in Seen(set, v)
           /\ op \in Edits(set) => \A c : Fresh(c, op) => c \in Chars(set) /\ c[1] = op.ts
<1>1. ASSUME NEW c \in Chars(set)
      PROVE  /\ Observed(w, c[1]) <=> Observed(v, c[1]) \/ (op \in Edits(set) /\ Fresh(c, op))
  <2>1. c = <<c[1], c[2]>>
    BY DEF Chars
  <2>2. CASE c[1] = Stamp(1, 0)
    <3>1. c[1].replica = 0
      BY <2>2 DEF Stamp
    <3>2. c[1] # op.ts
      BY <3>1, TextAssumption DEF OpsSound, OpTyped
    <3>3. ~ Fresh(c, op)
      BY <2>1, <3>2 DEF Fresh
    <3>4. QED
      BY <2>2, <3>3 DEF Gains
  <2>3. CASE \E y \in Edits(set) : c[1] = y.ts /\ c[2] \in 1..y.len
    <3>1. PICK y \in Edits(set) : c[1] = y.ts /\ c[2] \in 1..y.len
      BY <2>3
    <3>2. y \in set
      BY DEF Edits
    <3>3. Observed(w, c[1]) <=> Observed(v, c[1]) \/ y = op
      BY <3>1, <3>2, Zenon DEF Gains
    <3>4. y = op => op \in Edits(set) /\ Fresh(c, op)
      BY <2>1, <3>1 DEF Fresh
    <3>5. Fresh(c, op) => y = op
      <4>1. Fresh(c, op) => c[1] = op.ts
        BY DEF Fresh
      <4>2. QED
        BY <3>1, <3>2, <4>1 DEF OpsSound
    <3>6. QED
      BY <3>3, <3>4, <3>5
  <2>4. QED
    BY <2>2, <2>3 DEF Chars
<1>2. op \in Edits(set) => \A c : Fresh(c, op) => c \in Chars(set) /\ c[1] = op.ts
  <2>1. SUFFICES ASSUME op \in Edits(set), NEW o \in 1..op.len
                 PROVE  <<op.ts, o>> \in Chars(set)
    BY DEF Fresh
  <2>2. op.ts \in Stamps /\ op.len \in Nat
    BY <2>1 DEF OpsSound, OpTyped, Edits
  <2>3. <<op.ts, o>> \in Stamps \X Nat /\ <<op.ts, o>>[1] = op.ts /\ <<op.ts, o>>[2] = o
    BY <2>2
  <2>4. QED
    BY <2>1, <2>3 DEF Chars
<1>3. op \in Edits(set) => \A c : c \in Seen(set, w) <=> c \in Seen(set, v) \/ Fresh(c, op)
  BY <1>1, <1>2, Zenon DEF Seen
<1>4. op \notin Edits(set) => \A c : c \in Seen(set, w) <=> c \in Seen(set, v)
  BY <1>1, Zenon DEF Seen
<1>5. QED
  BY <1>2, <1>3, <1>4

(* All deletions are by edits that were sent.                                *)
Known(set, deleted) == \A c, d : <<c, d>> \in deleted => \E y \in Edits(set) : y.ts = d

LEMMA DeletedGains ==
    ASSUME NEW set, OpsSound(set), NEW op \in set, NEW v, NEW w, Gains(set, v, w, op),
           NEW deleted, Known(set, deleted), NEW c, NEW d, <<c, d>> \in deleted
    PROVE  /\ Observed(w, d) <=> Observed(v, d) \/ d = op.ts
           /\ d = op.ts => op \in Edits(set)
<1>1. PICK y \in Edits(set) : y.ts = d
  BY DEF Known
<1>2. y \in set
  BY DEF Edits
<1>3. Observed(w, d) <=> Observed(v, d) \/ y = op
  BY <1>1, <1>2, Zenon DEF Gains
<1>4. y = op <=> d = op.ts
  BY <1>1, <1>2 DEF OpsSound
<1>5. QED
  BY <1>1, <1>3, <1>4

(* An edit that is put where the history has it.                             *)
LEMMA EditText ==
    ASSUME NEW set, OpsSound(set), NEW op \in Edits(set), NEW order, IsOrder(set, order),
           NEW deleted, Known(set, deleted),
           NEW v, NEW w, Gains(set, v, w, op), ~ Observed(v, op.ts),
           NEW frags \in Seq(Fragment), TextOf(frags, v, set, order, deleted),
           NEW k \in 0..Len(frags),
           \A i \in DOMAIN frags : \A c : Fresh(c, op) =>
               /\ i <= k => <<Char(frags[i]), c>> \in order
               /\ k < i => <<c, Char(frags[i])>> \in order,
           NEW gone, \A i \in DOMAIN frags : i \in gone <=> <<Char(frags[i]), op.ts>> \in deleted,
           \A c, d : Fresh(c, op) /\ <<c, d>> \in deleted => ~ Observed(w, d),
           NEW new, new = Edited(frags, k, op.ts, op.len, gone)
    PROVE  TextOf(new, w, set, order, deleted)
<1>1. PICK n \in Nat : n = Len(frags) /\ DOMAIN frags = 1..n
  OBVIOUS
<1>2. op \in set /\ op.ts \in Stamps /\ op.len \in Nat
  BY DEF Edits, OpsSound, OpTyped
<1>3. PICK ts, len : ts = op.ts /\ len = op.len
  OBVIOUS
<1>4. /\ new \in Seq(Fragment) /\ DOMAIN new = 1..(len + n)
      /\ \A i \in 1..k : MarkedAs(new[i], frags, i, ts, gone)
      /\ \A o \in 1..len : Char(new[k + o]) = <<ts, o>> /\ IsInserted(new[k + o], ts)
      /\ \A i \in (k + 1)..n : MarkedAs(new[i + len], frags, i, ts, gone)
  BY <1>1, <1>2, <1>3, EditedAt
<1>5. k \in Nat /\ k <= n /\ len \in Nat
  BY <1>1, <1>2, <1>3
<1> DEFINE Old(j, i) == i \in 1..n /\ MarkedAs(new[j], frags, i, ts, gone)
           New(j, o) == o \in 1..len /\ Char(new[j]) = <<ts, o>> /\ IsInserted(new[j], ts)
<1>6. ASSUME NEW j \in 1..(len + n)
      PROVE  \/ j <= k /\ Old(j, j)
             \/ k < j /\ j <= k + len /\ New(j, j - k)
             \/ k + len < j /\ Old(j, j - len)
  <2>1. CASE j <= k
    <3>1. j \in 1..k /\ j \in 1..n
      BY <1>5, <2>1
    <3>2. QED
      BY <1>4, <2>1, <3>1
  <2>2. CASE k < j /\ j <= k + len
    <3>1. j - k \in 1..len /\ k + (j - k) = j
      BY <1>5, <2>2
    <3>2. New(j, j - k)
      BY <1>4, <3>1
    <3>3. QED
      BY <2>2, <3>2
  <2>3. CASE k + len < j
    <3>1. j - len \in (k + 1)..n /\ (j - len) + len = j /\ j - len \in 1..n
      BY <1>5, <2>3
    <3>2. Old(j, j - len)
      BY <1>4, <3>1
    <3>3. QED
      BY <2>3, <3>2
  <2>4. QED
    BY <1>5, <2>1, <2>2, <2>3
<1>7. /\ \A j, i : Old(j, i) => i \in DOMAIN frags /\ Char(new[j]) = Char(frags[i])
      /\ \A j, o : New(j, o) => Fresh(Char(new[j]), op) /\ Char(new[j]) = <<ts, o>>
  BY <1>1, <1>3 DEF MarkedAs, Fresh
<1>8. \A c : c \in Seen(set, w) <=> c \in Seen(set, v) \/ Fresh(c, op)
  BY <1>2, SeenGains
<1>9. \A c : Fresh(c, op) => c \in Chars(set) /\ c[1] = ts
  BY <1>2, <1>3, SeenGains
<1> HIDE DEF Old, New
<1>10. ASSUME NEW j \in DOMAIN new
       PROVE  Char(new[j]) \in Seen(set, w)
  <2>1. (\E i : Old(j, i)) \/ (\E o : New(j, o))
    BY <1>4, <1>6
  <2>2. QED
    BY <1>7, <1>8, <2>1 DEF TextOf
<1>11. ASSUME NEW c \in Seen(set, w)
       PROVE  \E j \in DOMAIN new : Char(new[j]) = c
  <2>1. CASE c \in Seen(set, v)
    <3>1. PICK i \in 1..n : Char(frags[i]) = c
      BY <1>1, <2>1 DEF TextOf
    <3>2. CASE i <= k
      <4>1. i \in 1..k /\ i \in DOMAIN new
        BY <1>4, <1>5, <3>2
      <4>2. QED
        BY <1>4, <3>1, <4>1 DEF MarkedAs
    <3>3. CASE k < i
      <4>1. i \in (k + 1)..n /\ i + len \in DOMAIN new
        BY <1>4, <1>5, <3>3
      <4>2. QED
        BY <1>4, <3>1, <4>1 DEF MarkedAs
    <3>4. QED
      BY <1>5, <3>2, <3>3
  <2>2. CASE Fresh(c, op)
    <3>1. PICK o \in 1..len : c = <<ts, o>>
      BY <1>3, <2>2 DEF Fresh
    <3>2. k + o \in DOMAIN new
      BY <1>4, <1>5
    <3>3. QED
      BY <1>4, <3>1, <3>2
  <2>3. QED
    BY <1>8, <2>1, <2>2
<1>12. ASSUME NEW a \in DOMAIN new, NEW z \in DOMAIN new, a < z
       PROVE  <<Char(new[a]), Char(new[z])>> \in order
  <2>1. a \in 1..(len + n) /\ z \in 1..(len + n)
    BY <1>4
  <2>2. \A x, y \in DOMAIN frags : x < y => <<Char(frags[x]), Char(frags[y])>> \in order
    BY DEF TextOf
  <2>3. ASSUME NEW x, NEW y, Old(a, x), Old(z, y), x < y
        PROVE  <<Char(new[a]), Char(new[z])>> \in order
    BY <1>7, <2>2, <2>3
  <2>4. ASSUME NEW x, NEW y, Old(a, x), New(z, y), x <= k
        PROVE  <<Char(new[a]), Char(new[z])>> \in order
    BY <1>7, <2>4
  <2>5. ASSUME NEW x, NEW y, New(a, x), Old(z, y), k < y
        PROVE  <<Char(new[a]), Char(new[z])>> \in order
    BY <1>7, <2>5
  <2>6. ASSUME NEW x, NEW y, New(a, x), New(z, y), x < y
        PROVE  <<Char(new[a]), Char(new[z])>> \in order
    <3>1. /\ Char(new[a]) = <<ts, x>> /\ Char(new[z]) = <<ts, y>>
          /\ Char(new[a]) \in Chars(set) /\ Char(new[z]) \in Chars(set)
      BY <1>7, <1>9, <2>6
    <3>2. Char(new[a])[1] = Char(new[z])[1] /\ Char(new[a])[2] < Char(new[z])[2]
      BY <2>6, <3>1
    <3>3. QED
      BY <3>1, <3>2 DEF IsOrder
  <2>7. CASE a <= k /\ Old(a, a)
    <3>1. CASE z <= k /\ Old(z, z)
      BY <2>3, <2>7, <3>1, <1>12
    <3>2. CASE k < z /\ New(z, z - k)
      BY <2>4, <2>7, <3>2
    <3>3. CASE k + len < z /\ Old(z, z - len)
      <4>1. a < z - len
        BY <1>5, <2>1, <2>7, <3>3
      <4>2. QED
        BY <2>3, <2>7, <3>3, <4>1
    <3>4. QED
      BY <1>6, <2>1, <3>1, <3>2, <3>3
  <2>8. CASE k < a /\ a <= k + len /\ New(a, a - k)
    <3>1. ~ (z <= k)
      BY <1>5, <1>12, <2>1, <2>8
    <3>2. CASE k < z /\ New(z, z - k)
      <4>1. a - k < z - k
        BY <1>5, <1>12, <2>1
      <4>2. QED
        BY <2>6, <2>8, <3>2, <4>1
    <3>3. CASE k + len < z /\ Old(z, z - len)
      <4>1. k < z - len
        BY <1>5, <2>1, <3>3
      <4>2. QED
        BY <2>5, <2>8, <3>3, <4>1
    <3>4. QED
      BY <1>6, <2>1, <3>1, <3>2, <3>3
  <2>9. CASE k + len < a /\ Old(a, a - len)
    <3>1. ~ (z <= k) /\ ~ (z <= k + len) /\ a - len < z - len
      BY <1>5, <1>12, <2>1, <2>9
    <3>2. Old(z, z - len)
      BY <1>6, <2>1, <3>1
    <3>3. QED
      BY <2>3, <2>9, <3>1, <3>2
  <2>10. QED
    BY <1>6, <2>1, <2>7, <2>8, <2>9
<1>13. ASSUME NEW j \in DOMAIN new, NEW d \in Stamps
       PROVE  d \in new[j].deletions <=> <<Char(new[j]), d>> \in deleted /\ Observed(w, d)
  <2>1. CASE \E i : Old(j, i)
    <3>1. PICK i : Old(j, i)
      BY <2>1
    <3>2. i \in DOMAIN frags /\ MarkedAs(new[j], frags, i, ts, gone)
      BY <1>1, <3>1 DEF Old
    <3>3. d \in new[j].deletions <=> d \in frags[i].deletions \/ (i \in gone /\ d = ts)
      BY <3>2 DEF MarkedAs
    <3>4. d \in frags[i].deletions <=> <<Char(frags[i]), d>> \in deleted /\ Observed(v, d)
      BY <3>2 DEF TextOf
    <3>5. <<Char(frags[i]), d>> \in deleted => (Observed(w, d) <=> Observed(v, d) \/ d = ts)
      BY <1>2, <1>3, DeletedGains
    <3>6. i \in gone <=> <<Char(frags[i]), ts>> \in deleted
      BY <1>3, <3>2
    <3>7. Char(new[j]) = Char(frags[i])
      BY <3>2 DEF MarkedAs
    <3>8. d = ts => (<<Char(frags[i]), d>> \in deleted <=> i \in gone)
      BY <3>6
    <3>9. QED
      BY <3>3, <3>4, <3>5, <3>7, <3>8, Zenon
  <2>2. CASE \E o : New(j, o)
    <3>1. Fresh(Char(new[j]), op) /\ new[j].deletions = {}
      BY <1>7, <2>2 DEF New, IsInserted
    <3>2. QED
      BY <3>1
  <2>3. QED
    BY <1>4, <1>6, <2>1, <2>2
<1>14. QED
  BY <1>10, <1>11, <1>12, <1>13, Zenon DEF TextOf

(* An undo leaves every character and its deletions where they are.          *)
LEMMA UndoText ==
    ASSUME NEW set, OpsSound(set), NEW op \in set, op.kind = "undo", NEW order, NEW deleted,
           Known(set, deleted), NEW v, NEW w, Gains(set, v, w, op),
           NEW frags, TextOf(frags, v, set, order, deleted),
           NEW new, SameChars(frags, new)
    PROVE  TextOf(new, w, set, order, deleted)
<1>1. op \notin Edits(set)
  BY DEF Edits
<1>2. \A c : c \in Seen(set, w) <=> c \in Seen(set, v)
  BY <1>1, SeenGains
<1>3. DOMAIN new = DOMAIN frags
  BY DEF SameChars
<1>4. \A i \in DOMAIN frags : Char(new[i]) = Char(frags[i])
                              /\ new[i].deletions = frags[i].deletions
  BY DEF SameChars
<1>5. ASSUME NEW i \in DOMAIN new, NEW d \in Stamps
      PROVE  d \in new[i].deletions <=> <<Char(new[i]), d>> \in deleted /\ Observed(w, d)
  <2>1. d \in frags[i].deletions <=> <<Char(frags[i]), d>> \in deleted /\ Observed(v, d)
    BY <1>3 DEF TextOf
  <2>2. <<Char(frags[i]), d>> \in deleted => (Observed(w, d) <=> Observed(v, d))
    BY <1>1, DeletedGains
  <2>3. QED
    BY <1>3, <1>4, <2>1, <2>2
<1>6. QED
  BY <1>2, <1>3, <1>4, <1>5 DEF TextOf

(* An operation that a buffer has not seen changes none of this for it.      *)
Adds(set, more, op) == more = set \cup {op}

LEMMA SeenBefore ==
    ASSUME NEW set, NEW op, NEW more, Adds(set, more, op), NEW v, ~ Observed(v, op.ts)
    PROVE  /\ \A c : c \in Seen(more, v) <=> c \in Seen(set, v)
           /\ UndosAt(more, v) = UndosAt(set, v)
           /\ Chars(set) \subseteq Chars(more)
<1>1. \A y : y \in Edits(more) <=> y \in Edits(set) \/ (y = op /\ op.kind = "edit")
  BY DEF Edits, Adds
<1>2. Chars(set) \subseteq Chars(more)
  BY <1>1 DEF Chars
<1>3. \A c \in Chars(more) : c \in Chars(set) \/ c[1] = op.ts
  BY <1>1 DEF Chars
<1>4. \A c : c \in Seen(more, v) <=> c \in Seen(set, v)
  BY <1>2, <1>3 DEF Seen
<1>5. {u \in more : u.kind = "undo" /\ Observed(v, u.ts)} =
      {u \in set : u.kind = "undo" /\ Observed(v, u.ts)}
  BY DEF Adds
<1>6. UndosAt(more, v) = UndosAt(set, v)
  BY <1>5, Zenon DEF UndosAt
<1>7. QED
  BY <1>2, <1>4, <1>6

(* The history with one operation more.                                      *)
Extends(order, order2, deleted, deleted2, op) ==
    /\ order \subseteq order2 /\ deleted \subseteq deleted2
    /\ \A c, d : <<c, d>> \in deleted2 => <<c, d>> \in deleted \/ d = op.ts

LEMMA PartBefore ==
    ASSUME NEW set, NEW op, NEW more, Adds(set, more, op),
           NEW order, NEW order2, NEW deleted, NEW deleted2,
           Extends(order, order2, deleted, deleted2, op),
           NEW b, ~ Observed(b.version, op.ts), PartOf(b, set, order, deleted)
    PROVE  PartOf(b, more, order2, deleted2)
<1>1. PICK v, frags : v = b.version /\ frags = b.frags
  OBVIOUS
<1>2. /\ \A c : c \in Seen(more, v) <=> c \in Seen(set, v)
      /\ UndosAt(more, v) = UndosAt(set, v)
  <2>1. ~ Observed(v, op.ts)
    BY <1>1
  <2>2. /\ \A c : c \in Seen(more, v) <=> c \in Seen(set, v)
        /\ UndosAt(more, v) = UndosAt(set, v)
        /\ Chars(set) \subseteq Chars(more)
    BY <2>1, SeenBefore, Zenon
  <2>3. QED
    BY <2>2
<1>3. TextOf(frags, v, set, order, deleted)
  BY <1>1 DEF PartOf
<1>4. TextOf(frags, v, more, order2, deleted2)
  <2>1. ASSUME NEW i \in DOMAIN frags, NEW d \in Stamps
        PROVE  d \in frags[i].deletions <=> <<Char(frags[i]), d>> \in deleted2 /\ Observed(v, d)
    <3>1. d \in frags[i].deletions <=> <<Char(frags[i]), d>> \in deleted /\ Observed(v, d)
      BY <1>3 DEF TextOf
    <3>2. /\ <<Char(frags[i]), d>> \in deleted => <<Char(frags[i]), d>> \in deleted2
          /\ <<Char(frags[i]), d>> \in deleted2 => <<Char(frags[i]), d>> \in deleted \/ d = op.ts
      BY DEF Extends
    <3>3. QED
      BY <1>1, <3>1, <3>2
  <2>2. \A i, j \in DOMAIN frags : i < j => <<Char(frags[i]), Char(frags[j])>> \in order2
    BY <1>3 DEF TextOf, Extends
  <2>3. QED
    BY <1>2, <1>3, <2>1, <2>2 DEF TextOf
<1>5. Causal(v, more)
  BY <1>1 DEF PartOf, Causal, Adds
<1>6. b.undos = UndosAt(more, v)
  BY <1>1, <1>2 DEF PartOf
<1>7. QED
  BY <1>1, <1>4, <1>5, <1>6, Zenon DEF PartOf
-----------------------------------------------------------------------------
(* Where a remote edit finds its place *)

LEMMA LaterFacts ==
    ASSUME NEW a \in Stamps, NEW b \in Stamps
    PROVE  /\ ~ (Later(a, b) /\ Later(b, a)) /\ ~ Later(a, a)
           /\ a = b \/ Later(a, b) \/ Later(b, a)
           /\ \A c \in Stamps : Later(a, b) /\ Later(b, c) => Later(a, c)
<1>1. /\ a.value \in Nat /\ b.value \in Nat /\ a.replica \in Nat /\ b.replica \in Nat
  BY StampNumbers
<1>2. ~ (Later(a, b) /\ Later(b, a)) /\ ~ Later(a, a)
  BY <1>1 DEF Later, Earlier
<1>3. a = b \/ Later(a, b) \/ Later(b, a)
  BY EarlierFacts DEF Later
<1>4. \A c \in Stamps : Later(a, b) /\ Later(b, c) => Later(a, c)
  BY EarlierFacts DEF Later
<1>5. QED
  BY <1>2, <1>3, <1>4

(* RemoteIndex: the anchor is the last character the edit was made behind,   *)
(* and what is skipped is later.                                             *)
Anchored(frags, version, start, ts, n, a, k) ==
    /\ k \in a..n
    /\ \A i \in a + 1..k : Later(frags[i].ts, ts)
    /\ k < n => ~ Later(frags[k + 1].ts, ts)
    /\ \A i \in 1..n : Observed(version, frags[i].ts) /\ Rank(frags, version, i) <= start => i <= a
    /\ a # 0 => Observed(version, frags[a].ts) /\ Rank(frags, version, a) <= start

LEMMA RemoteIndexFacts ==
    ASSUME NEW frags \in Seq(Fragment), NEW version, NEW start, NEW ts, NEW n \in Nat,
           n = Len(frags), \A i \in 1..n : Rank(frags, version, i) \in Nat,
           NEW k, k = RemoteIndex(frags, version, start, ts)
    PROVE  \E a \in 0..n : Anchored(frags, version, start, ts, n, a, k)
<1>1. DOMAIN frags = 1..n
  OBVIOUS
<1> DEFINE A == {0} \cup {i \in DOMAIN frags :
                             Observed(version, frags[i].ts) /\ Rank(frags, version, i) <= start}
<1>2. A \subseteq 0..n /\ A # {}
  BY <1>1
<1>3. PICK m : m = Max(A)
  OBVIOUS
<1>4. m \in A /\ \A y \in A : y <= m
  BY <1>2, <1>3, MaxOfBounded
<1>5. m \in 0..n
  BY <1>2, <1>4
<1>6. /\ \A i \in 1..n : Observed(version, frags[i].ts) /\ Rank(frags, version, i) <= start
                             => i <= m
      /\ m # 0 => Observed(version, frags[m].ts) /\ Rank(frags, version, m) <= start
  BY <1>1, <1>4
<1>7. start = 0 => m = 0
  <2>1. SUFFICES ASSUME start = 0, m # 0 PROVE FALSE
    OBVIOUS
  <2>2. m \in 1..n /\ Observed(version, frags[m].ts) /\ Rank(frags, version, m) <= 0
    BY <1>5, <1>6, <2>1
  <2>3. PICK J : J = {j \in 1..m : Observed(version, frags[j].ts)}
    OBVIOUS
  <2>4. m \in J /\ J \in SUBSET (1..m)
    BY <2>2, <2>3
  <2>5. IsFiniteSet(J)
    <3>1. IsFiniteSet(1..m)
      BY <2>2, FS_Interval
    <3>2. QED
      BY <2>4, <3>1, FS_Subset
  <2>6. Cardinality(J) = 0
    <3>1. Rank(frags, version, m) \in Nat /\ Rank(frags, version, m) = Cardinality(J)
      BY <2>2, <2>3 DEF Rank
    <3>2. QED
      BY <2>2, <3>1
  <2>7. QED
    BY <2>4, <2>5, <2>6, FS_EmptySet
<1>8. m = IF start = 0 THEN 0 ELSE Max(A)
  BY <1>3, <1>7, Zenon
<1> HIDE DEF A
<1> DEFINE U == {j \in m..n : \A i \in m + 1..j : Later(frags[i].ts, ts)}
<1>9. k = Max(U)
  <2>1. k = Max({j \in (IF start = 0 THEN 0 ELSE Max(A))..Len(frags) :
                    \A i \in (IF start = 0 THEN 0 ELSE Max(A)) + 1..j : Later(frags[i].ts, ts)})
    BY Zenon DEF RemoteIndex, A
  <2>2. QED
    BY <1>8, <2>1, Zenon
<1>10. U \subseteq 0..n /\ m \in U
  <2>1. m \in Nat
    BY <1>5
  <2>2. m \in U
    BY <1>5, <2>1
  <2>3. U \subseteq m..n
    BY Zenon
  <2>4. m..n \subseteq 0..n
    BY <2>1
  <2>5. QED
    BY <2>2, <2>3, <2>4, Zenon
<1>11. k \in U /\ \A y \in U : y <= k
  <2> HIDE DEF U
  <2>1. U # {}
    BY <1>10
  <2>2. QED
    BY <1>9, <1>10, <2>1, MaxOfBounded
<1>12. k \in m..n /\ \A i \in m + 1..k : Later(frags[i].ts, ts)
  BY <1>11, Zenon
<1>13. k < n => ~ Later(frags[k + 1].ts, ts)
  <2>1. SUFFICES ASSUME k < n, Later(frags[k + 1].ts, ts) PROVE FALSE
    OBVIOUS
  <2>2. k + 1 \in m..n /\ k \in Nat
    BY <1>5, <1>12, <2>1
  <2>3. \A i \in m + 1..k + 1 : i \in m + 1..k \/ i = k + 1
    BY <1>5, <2>2
  <2>4. \A i \in m + 1..k + 1 : Later(frags[i].ts, ts)
    BY <1>12, <2>1, <2>3, Zenon
  <2>5. k + 1 \in U
    BY <2>2, <2>4
  <2>6. k + 1 <= k
    BY <1>11, <2>5, Zenon
  <2>7. QED
    BY <2>2, <2>6
<1>14. QED
  <2>1. Anchored(frags, version, start, ts, n, m, k)
    BY <1>6, <1>12, <1>13, Zenon DEF Anchored
  <2>2. QED
    BY <1>5, <2>1

(* What an edit covers, whoever covers the edit covers, too.                 *)
LEMMA SeenGrows ==
    ASSUME NEW set, NEW part \in Version, NEW v \in Version, ObservedAll(v, part),
           NEW c \in Seen(set, part)
    PROVE  c \in Seen(set, v)
<1>1. c \in Chars(set) /\ c[1] \in Stamps /\ Observed(part, c[1])
  BY DEF Seen, Chars
<1>2. Observed(v, c[1])
  BY <1>1, ObservedStays
<1>3. QED
  BY <1>1, <1>2 DEF Seen

(* Behind what it was made behind, an edit lies where every text has it.     *)
LEMMA RemoteOrder ==
    ASSUME NEW set, OpsSound(set), NEW op \in Edits(set), NEW order, NEW deleted,
           IsHistory(set, order, deleted), NEW v \in Version, Causal(v, set),
           ObservedAll(v, op.version), ~ Observed(v, op.ts),
           NEW frags \in Seq(Fragment), TextOf(frags, v, set, order, deleted),
           NEW n \in Nat, n = Len(frags), NEW a \in 0..n, NEW k \in a..n,
           \A i \in a + 1..k : Later(frags[i].ts, op.ts),
           k < n => ~ Later(frags[k + 1].ts, op.ts),
           \A i \in 1..n : Char(frags[i]) \in Ahead(set, order, op) => i <= a,
           a # 0 => Char(frags[a]) \in Ahead(set, order, op),
           NEW c, Fresh(c, op), NEW i \in 1..n
    PROVE  /\ i <= k => <<Char(frags[i]), c>> \in order
           /\ k < i => <<c, Char(frags[i])>> \in order
<1>1. /\ op \in set /\ OpTyped(op) /\ op.kind = "edit" /\ op.ts \in Stamps
      /\ op.version \in Version /\ DOMAIN frags = 1..n
  BY DEF Edits, OpsSound, OpTyped, Version
<1>2. IsOrder(set, order) /\ InPlace(set, order, op)
  BY DEF IsHistory
<1>3. c \in Chars(set) /\ c[1] = op.ts /\ c \notin Seen(set, v)
  <2>1. \E o \in 1..op.len : c = <<op.ts, o>>
    BY DEF Fresh
  <2>2. op.len \in Nat
    BY <1>1 DEF OpTyped
  <2>3. c \in Stamps \X Nat /\ c[1] = op.ts /\ c[2] \in 1..op.len
    BY <1>1, <2>1, <2>2
  <2>4. QED
    BY <2>3 DEF Chars, Seen
<1>4. /\ \A j \in 1..n : Char(frags[j]) \in Seen(set, v) /\ Char(frags[j]) \in Chars(set)
                         /\ Char(frags[j])[1] = frags[j].ts /\ Char(frags[j]) # c
                         /\ frags[j].ts \in Stamps
  <2>1. \A j \in 1..n : Char(frags[j]) \in Seen(set, v)
    BY <1>1 DEF TextOf
  <2>2. \A j \in 1..n : Char(frags[j])[1] = frags[j].ts
    BY DEF Char
  <2>3. \A d \in Seen(set, v) : d \in Chars(set) /\ d[1] \in Stamps
    BY DEF Seen, Chars
  <2>4. QED
    BY <1>3, <2>1, <2>2, <2>3, Zenon
<1>5. \A j, m \in 1..n : <<Char(frags[j]), Char(frags[m])>> \in order <=> j < m
  <2>1. DOMAIN frags \subseteq Nat
    BY <1>1
  <2>2. \A j, m \in DOMAIN frags : <<Char(frags[j]), Char(frags[m])>> \in order <=> j < m
    BY <1>2, <2>1, TextOrder
  <2>3. QED
    BY <1>1, <2>2, Zenon
<1>6. /\ a \in Nat /\ k \in Nat /\ a <= k /\ k <= n
  OBVIOUS
<1>7. \A j \in 1..n : j <= a => <<Char(frags[j]), c>> \in order
  <2>1. SUFFICES ASSUME NEW j \in 1..n, j <= a PROVE <<Char(frags[j]), c>> \in order
    OBVIOUS
  <2>2. a \in 1..n /\ <<Char(frags[a]), c>> \in order
    BY <1>2, <1>3, <1>6, <2>1 DEF InPlace
  <2>3. CASE j = a
    BY <2>2, <2>3
  <2>4. CASE j < a
    <3>1. <<Char(frags[j]), Char(frags[a])>> \in order
      BY <1>5, <2>2, <2>4
    <3>2. QED
      BY <1>2, <1>3, <1>4, <2>2, <3>1, Zenon DEF IsOrder
  <2>5. QED
    BY <1>6, <2>1, <2>3, <2>4
<1>8. \A d \in Chars(set) : d # c => (<<d, c>> \in order <=> <<c, d>> \notin order)
  <2>1. SUFFICES ASSUME NEW d \in Chars(set), d # c, <<d, c>> \in order, <<c, d>> \in order
                 PROVE  FALSE
    BY <1>2, <1>3, Zenon DEF IsOrder
  <2>2. <<c, c>> \in order
    BY <1>2, <1>3, <2>1, Zenon DEF IsOrder
  <2>3. QED
    BY <1>2, <1>3, <2>2, Zenon DEF IsOrder
<1>9. \A j \in 1..n : a < j /\ j <= k => <<Char(frags[j]), c>> \in order
  <2> DEFINE Bad == {j \in 1..n : a < j /\ j <= k /\ <<Char(frags[j]), c>> \notin order}
  <2>1. SUFFICES ASSUME Bad # {} PROVE FALSE
    OBVIOUS
  <2>2. PICK j \in Bad : \A m \in Bad : j <= m
    BY <2>1, LeastElement, Bad \subseteq Nat
  <2>3. j \in 1..n /\ a < j /\ j <= k /\ <<Char(frags[j]), c>> \notin order
    BY <2>2
  <2>4. PICK d : d = Char(frags[j])
    OBVIOUS
  <2>5. d \in Chars(set) /\ d[1] \in Stamps /\ Later(d[1], op.ts) /\ d \in Seen(set, v)
    <3>1. j \in a + 1..k
      BY <1>6, <2>3
    <3>2. QED
      BY <1>4, <2>3, <2>4, <3>1
  <2>6. <<c, d>> \in order
    BY <1>4, <1>8, <2>3, <2>4
  <2>7. PICK y \in Edits(set) : d[1] = y.ts
    <3>1. d[1] # Stamp(1, 0)
      <4>1. op.ts.value \in Nat /\ op.ts.replica \in Nat /\ op.version[0] \in Nat
            /\ op.version[0] < op.ts.value
        BY <1>1, StampNumbers DEF Version, OpTyped
      <4>2. SUFFICES ASSUME d[1] = Stamp(1, 0) PROVE FALSE
        OBVIOUS
      <4>3. d[1].value = 1 /\ d[1].replica = 0
        BY <4>2 DEF Stamp
      <4>4. QED
        BY <2>5, <4>1, <4>3 DEF Later, Earlier
    <3>2. QED
      BY <2>5, <3>1 DEF Chars
  <2>8. y \in set /\ y.ts \in Stamps /\ y.version \in Version /\ Observed(v, y.ts)
    BY <2>5, <2>7 DEF Edits, OpsSound, OpTyped, Version, Seen
  <2>9. ObservedAll(v, y.version)
    BY <2>8 DEF Causal
  <2>10. InPlace(set, order, y)
    BY DEF IsHistory
  <2>11. PICK f \in Ahead(set, order, y) : <<f, c>> \notin order
    <3>1. SUFFICES ASSUME \A f \in Ahead(set, order, y) : <<f, c>> \in order PROVE FALSE
      OBVIOUS
    <3>2. c[1] = y.ts \/ Later(c[1], y.ts)
      BY <1>3, <2>5, <2>6, <2>7, <2>10, <3>1 DEF InPlace
    <3>3. op.ts # y.ts
      BY <2>8
    <3>4. QED
      BY <1>1, <1>3, <2>5, <2>7, <2>8, <3>2, <3>3, LaterFacts
  <2>12. f \in Seen(set, v) /\ f \in Chars(set) /\ <<f, d>> \in order
    <3>1. f \in Seen(set, y.version)
      BY DEF Ahead
    <3>2. f \in Seen(set, v)
      BY <2>8, <2>9, <3>1, SeenGrows
    <3>3. <<f, d>> \in order
      BY <2>5, <2>7, <2>10 DEF InPlace
    <3>4. QED
      BY <3>2, <3>3 DEF Seen
  <2>13. PICK m \in 1..n : Char(frags[m]) = f
    BY <1>1, <2>12 DEF TextOf
  <2>14. ~ (m <= a) /\ m < j
    BY <1>5, <1>7, <2>3, <2>4, <2>11, <2>12, <2>13
  <2>15. m \in Bad /\ ~ (j <= m)
    BY <1>6, <2>3, <2>11, <2>13, <2>14
  <2>16. QED
    BY <2>2, <2>15
<1>10. k < n => <<c, Char(frags[k + 1])>> \in order
  <2>1. SUFFICES ASSUME k < n, <<c, Char(frags[k + 1])>> \notin order PROVE FALSE
    OBVIOUS
  <2>2. k + 1 \in 1..n
    BY <1>6, <2>1
  <2>3. PICK d : d = Char(frags[k + 1])
    OBVIOUS
  <2>4. /\ d \in Chars(set) /\ d \in Seen(set, v) /\ d[1] = frags[k + 1].ts
        /\ <<d, c>> \in order
    BY <1>4, <1>8, <2>1, <2>2, <2>3
  <2>5. ASSUME NEW f \in Ahead(set, order, op)
        PROVE  <<f, d>> \in order
    <3>1. f \in Seen(set, v)
      BY <1>1, SeenGrows DEF Ahead
    <3>2. PICK m \in 1..n : Char(frags[m]) = f
      BY <1>1, <3>1 DEF TextOf
    <3>3. m <= a
      BY <3>2
    <3>4. m < k + 1
      BY <1>6, <3>3
    <3>5. QED
      BY <1>5, <2>2, <2>3, <3>2, <3>4
  <2>6. d[1] = op.ts \/ Later(d[1], op.ts)
    BY <1>2, <1>3, <2>4, <2>5 DEF InPlace
  <2>7. d[1] # op.ts
    BY <2>4 DEF Seen
  <2>8. QED
    BY <2>1, <2>4, <2>6, <2>7
<1>11. CASE i <= k
  BY <1>6, <1>7, <1>9, <1>11
<1>12. CASE k < i
  <2>1. k < n /\ k + 1 \in 1..n
    BY <1>6, <1>12
  <2>2. CASE i = k + 1
    BY <1>6, <1>10, <2>1, <2>2
  <2>3. CASE k + 1 < i
    <3>1. <<Char(frags[k + 1]), Char(frags[i])>> \in order
      BY <1>5, <2>1, <2>3
    <3>2. <<c, Char(frags[i])>> \in order
      BY <1>2, <1>3, <1>4, <1>10, <2>1, <3>1, Zenon DEF IsOrder
    <3>3. QED
      BY <1>6, <1>12, <3>2
  <2>4. QED
    BY <1>6, <1>12, <2>1, <2>2, <2>3
<1>13. QED
  BY <1>6, <1>11, <1>12
-----------------------------------------------------------------------------
(* An operation that is applied leaves the part of the history it should *)

(* Undo counts, as an author saw them, are seen by whoever covers the edit.  *)
LEMMA UndosKept ==
    ASSUME NEW set, OpsSound(set), NEW part \in Version, NEW v \in Version, ObservedAll(v, part),
           NEW undos, undos = UndosAt(set, v), NEW edit
    PROVE  WasUndone(undos, edit, part) = IsUndone(UndosAt(set, part), edit)
<1> DEFINE R(u) == [edit |-> u.edit, count |-> u.count, id |-> u.ts]
<1>1. \A u : R(u).id = u.ts
  OBVIOUS
<1>2. \A u \in set : Observed(part, u.ts) => Observed(v, u.ts)
  BY ObservedStays DEF OpsSound, OpTyped
<1> HIDE DEF R
<1>3. \A x : x \in undos <=> \E u \in set : u.kind = "undo" /\ Observed(v, u.ts) /\ x = R(u)
  BY Zenon DEF UndosAt, R
<1>4. \A x : x \in UndosAt(set, part)
                <=> \E u \in set : u.kind = "undo" /\ Observed(part, u.ts) /\ x = R(u)
  BY Zenon DEF UndosAt, R
<1>5. {u \in undos : Observed(part, u.id)} = UndosAt(set, part)
  BY <1>1, <1>2, <1>3, <1>4
<1>6. QED
  BY <1>5, Zenon DEF WasUndone

(* What was visible to the author of an edit is the same for everyone.       *)
LEMMA VisibleThen ==
    ASSUME NEW set, OpsSound(set), NEW order, NEW deleted,
           NEW part \in Version, NEW v \in Version, ObservedAll(v, part),
           NEW undos, undos = UndosAt(set, v),
           NEW frags \in Seq(Fragment), TextOf(frags, v, set, order, deleted),
           NEW i \in DOMAIN frags
    PROVE  WasVisible(undos, frags[i], part)
               <=> Observed(part, frags[i].ts) /\ VisibleAt(set, deleted, Char(frags[i]), part)
<1>1. PICK f \in Fragment : f = frags[i]
  OBVIOUS
<1>2. \A e : WasUndone(undos, e, part) <=> IsUndone(UndosAt(set, part), e)
  BY UndosKept
<1>3. PICK c : c = Char(f)
  OBVIOUS
<1>4. c[1] = f.ts
  BY <1>3 DEF Char
<1>5. \A d \in Stamps : d \in f.deletions <=> <<c, d>> \in deleted /\ Observed(v, d)
  BY <1>1, <1>3 DEF TextOf
<1>6. f.deletions \subseteq Stamps
  BY DEF Fragment
<1>7. \A d \in Stamps : Observed(part, d) => Observed(v, d)
  BY ObservedStays
<1>8. (\A d \in f.deletions : Observed(part, d) => WasUndone(undos, d, part))
          <=> \A d \in Stamps : <<c, d>> \in deleted /\ Observed(part, d)
                                    => IsUndone(UndosAt(set, part), d)
  BY <1>2, <1>5, <1>6, <1>7, Zenon
<1>9. QED
  BY <1>1, <1>2, <1>3, <1>4, <1>8 DEF WasVisible, VisibleAt

LEMMA VisibleNow ==
    ASSUME NEW set, NEW order, NEW deleted, NEW v, NEW undos, undos = UndosAt(set, v),
           NEW frags \in Seq(Fragment), TextOf(frags, v, set, order, deleted),
           NEW i \in DOMAIN frags
    PROVE  IsVisible(undos, frags[i]) <=> VisibleAt(set, deleted, Char(frags[i]), v)
<1>1. PICK f \in Fragment : f = frags[i]
  OBVIOUS
<1>2. PICK c : c = Char(f)
  OBVIOUS
<1>3. c[1] = f.ts
  BY <1>2 DEF Char
<1>4. \A d \in Stamps : d \in f.deletions <=> <<c, d>> \in deleted /\ Observed(v, d)
  BY <1>1, <1>2 DEF TextOf
<1>5. f.deletions \subseteq Stamps
  BY DEF Fragment
<1>6. (\A d \in f.deletions : IsUndone(undos, d))
          <=> \A d \in Stamps : <<c, d>> \in deleted /\ Observed(v, d) => IsUndone(undos, d)
  BY <1>4, <1>5, Zenon
<1>7. QED
  BY <1>1, <1>2, <1>3, <1>6, Zenon DEF IsVisible, VisibleAt

(* An edit deletes in every buffer what its author deleted.                  *)
LEMMA RemoteGone ==
    ASSUME NEW set, OpsSound(set), NEW op \in Edits(set), NEW order, NEW deleted,
           IsHistory(set, order, deleted), NEW b, b.version \in Version,
           b.frags \in Seq(Fragment), PartOf(b, set, order, deleted),
           ObservedAll(b.version, op.version), NEW i \in DOMAIN b.frags
    PROVE  i \in EditGone(b, op) <=> <<Char(b.frags[i]), op.ts>> \in deleted
<1>1. PICK frags, v, c : frags = b.frags /\ v = b.version /\ c = Char(frags[i])
  OBVIOUS
<1>2. /\ frags \in Seq(Fragment) /\ v \in Version /\ op.version \in Version
      /\ ObservedAll(v, op.version) /\ i \in DOMAIN frags
      /\ TextOf(frags, v, set, order, deleted) /\ b.undos = UndosAt(set, v)
      /\ IsOrder(set, order)
  BY <1>1 DEF PartOf, IsHistory, Edits, OpsSound, OpTyped, Version
<1>3. WasVisible(b.undos, frags[i], op.version)
          <=> Observed(op.version, frags[i].ts) /\ VisibleAt(set, deleted, c, op.version)
  BY <1>1, <1>2, VisibleThen
<1>4. Rank(frags, op.version, i) = Place(set, order, op.version, c)
  <2>1. \A d \in Seen(set, op.version) : d \in Seen(set, v)
    BY <1>2, SeenGrows
  <2>2. QED
    <3>1. Rank(frags, op.version, i) = Place(set, order, op.version, Char(frags[i]))
      BY <1>2, <2>1, RankIsPlace, Zenon
    <3>2. QED
      BY <1>1, <3>1, Zenon
<1>5. c \in Seen(set, op.version) <=> Observed(op.version, frags[i].ts)
  <2>1. c \in Chars(set) /\ c[1] = frags[i].ts
    BY <1>1, <1>2 DEF TextOf, Seen, Char
  <2>2. QED
    BY <2>1 DEF Seen
<1>6. <<c, op.ts>> \in deleted <=> Deletes(set, order, deleted, op, c)
  BY DEF IsHistory
<1>7. i \in EditGone(b, op) <=> /\ Rank(frags, op.version, i) \in op.start + 1..op.end
                                /\ WasVisible(b.undos, frags[i], op.version)
  BY <1>1, <1>2, Zenon DEF EditGone
<1>8. QED
  BY <1>1, <1>3, <1>4, <1>5, <1>6, <1>7 DEF Deletes

(* The version after an operation of another replica.                        *)
LEMMA RemoteGains ==
    ASSUME NEW set, OpsSound(set), NEW op \in set, NEW v \in Version,
           \A y \in set : InStep(v, y), ObservedAll(v, op.version), Causal(v, set),
           NEW w, w = Observe(v, op.ts)
    PROVE  Gains(set, v, w, op) /\ Causal(w, set)
<1>1. op.ts \in Stamps /\ op.ts.replica \in Replica /\ op.version \in Version
  BY DEF OpsSound, OpTyped, Version
<1>2. /\ w \in Version /\ Observed(w, op.ts) /\ ObservedAll(w, v)
      /\ \A q \in Replica \cup {0} : q # op.ts.replica => w[q] = v[q]
  BY <1>1, ObserveFacts
<1>3. \A y \in set : Observed(w, y.ts) => Observed(v, y.ts) \/ y = op
  BY VersionStep
<1>4. \A y \in set : Observed(v, y.ts) => Observed(w, y.ts)
  <2>1. \A y \in set : y.ts \in Stamps
    BY DEF OpsSound, OpTyped
  <2>2. QED
    BY <1>2, <2>1, ObservedStays
<1>5. Observed(w, Stamp(1, 0)) <=> Observed(v, Stamp(1, 0))
  <2>1. 0 # op.ts.replica
    BY <1>1, TextAssumption
  <2>2. w[0] = v[0]
    BY <1>2, <2>1
  <2>3. QED
    BY <2>2 DEF Observed, Stamp
<1>6. Causal(w, set)
  <2>1. SUFFICES ASSUME NEW y \in set, Observed(w, y.ts) PROVE ObservedAll(w, y.version)
    BY DEF Causal
  <2>2. ObservedAll(v, y.version)
    BY <1>3, <2>1 DEF Causal
  <2>3. y.version \in Version
    BY DEF OpsSound, OpTyped, Version
  <2>4. QED
    BY <1>2, <2>2, <2>3, ObservedAllTrans
<1>7. QED
  BY <1>2, <1>3, <1>4, <1>5, <1>6 DEF Gains

(* The undo operations after one operation more.                             *)
LEMMA UndosGain ==
    ASSUME NEW set, NEW op \in set, NEW v, NEW w, Gains(set, v, w, op)
    PROVE  /\ op.kind # "undo" => UndosAt(set, w) = UndosAt(set, v)
           /\ op.kind = "undo" => UndosAt(set, w) =
                 UndosAt(set, v) \cup {[edit |-> op.edit, count |-> op.count, id |-> op.ts]}
<1> DEFINE R(u) == [edit |-> u.edit, count |-> u.count, id |-> u.ts]
<1>1. \A y \in set : Observed(w, y.ts) <=> Observed(v, y.ts) \/ y = op
  BY DEF Gains
<1> HIDE DEF R
<1>2. \A x : x \in UndosAt(set, v)
                <=> \E u \in set : u.kind = "undo" /\ Observed(v, u.ts) /\ x = R(u)
  BY Zenon DEF UndosAt, R
<1>3. \A x : x \in UndosAt(set, w)
                <=> \E u \in set : u.kind = "undo" /\ Observed(w, u.ts) /\ x = R(u)
  BY Zenon DEF UndosAt, R
<1>4. op.kind # "undo" => UndosAt(set, w) = UndosAt(set, v)
  BY <1>1, <1>2, <1>3
<1>5. op.kind = "undo" => UndosAt(set, w) = UndosAt(set, v) \cup {R(op)}
  BY <1>1, <1>2, <1>3
<1>6. QED
  BY <1>4, <1>5, Zenon DEF R

(* What an edit inserted was deleted by later edits alone.                   *)
LEMMA NoneDeletedYet ==
    ASSUME NEW set, OpsSound(set), NEW op \in Edits(set), NEW order, NEW deleted,
           IsHistory(set, order, deleted), NEW v \in Version, NEW w, Gains(set, v, w, op),
           Causal(v, set), ~ Observed(v, op.ts), NEW c, Fresh(c, op), NEW d, <<c, d>> \in deleted
    PROVE  ~ Observed(w, d)
<1>1. SUFFICES ASSUME Observed(w, d) PROVE FALSE
  OBVIOUS
<1>2. PICK y \in Edits(set) : y.ts = d
  BY DEF IsHistory
<1>3. op \in set /\ y \in set /\ op.ts \in Stamps
  BY DEF Edits, OpsSound, OpTyped
<1>4. c \in Seen(set, y.version)
  BY <1>2 DEF IsHistory, Deletes
<1>5. c[1] = op.ts
  BY DEF Fresh
<1>6. Observed(y.version, op.ts)
  BY <1>4, <1>5 DEF Seen
<1>7. CASE y = op
  <2>1. OpTyped(op)
    BY <1>3 DEF OpsSound
  <2>2. op.ts.replica \in Replica \cup {0} /\ op.ts.value \in Nat
    BY <1>3 DEF Stamps
  <2>3. op.version[op.ts.replica] < op.ts.value /\ op.version[op.ts.replica] \in Nat
    BY <2>1, <2>2 DEF OpTyped
  <2>4. QED
    BY <1>6, <1>7, <2>2, <2>3 DEF Observed
<1>8. CASE Observed(v, y.ts)
  <2>1. ObservedAll(v, y.version)
    BY <1>3, <1>8 DEF Causal
  <2>2. y.version \in Version
    BY <1>3 DEF OpsSound, OpTyped, Version
  <2>3. Observed(v, op.ts)
    BY <1>3, <1>6, <2>1, <2>2, ObservedStays
  <2>4. QED
    BY <2>3
<1>9. QED
  BY <1>1, <1>2, <1>3, <1>7, <1>8 DEF Gains

LEMMA EditedByFields ==
    ASSUME NEW b, NEW new, NEW op, NEW k, NEW gone, NEW clock, EditedBy(b, new, op, k, gone, clock)
    PROVE  /\ new.frags = Edited(b.frags, k, op.ts, op.len, gone) /\ new.undos = b.undos
           /\ new.version = Observe(b.version, op.ts)
<1>1. PICK f, u, v, c, d : /\ f = Edited(b.frags, k, op.ts, op.len, gone) /\ u = b.undos
                           /\ v = Observe(b.version, op.ts) /\ c = clock /\ d = b.deferred
  OBVIOUS
<1>2. new = [frags |-> f, undos |-> u, version |-> v, clock |-> c, deferred |-> d]
  BY <1>1, Zenon DEF EditedBy
<1>3. new.frags = f /\ new.undos = u /\ new.version = v
  BY <1>2
<1>4. QED
  BY <1>1, <1>3, Zenon

(* apply_op, for an edit.                                                    *)
LEMMA RemoteEditPart ==
    ASSUME NEW set, OpsSound(set), NEW op \in Edits(set), NEW order, NEW deleted,
           IsHistory(set, order, deleted), NEW b, BufferSound(b, set),
           PartOf(b, set, order, deleted), ObservedAll(b.version, op.version),
           ~ Observed(b.version, op.ts),
           NEW new, new = AfterRemote(ApplyRemoteEdit(b, op), op)
    PROVE  PartOf(new, set, order, deleted)
<1>1. PICK frags, v, w, k, gone :
          /\ frags = b.frags /\ v = b.version /\ w = Observe(v, op.ts)
          /\ k = RemotePlace(b, op) /\ gone = EditGone(b, op)
  OBVIOUS
<1>2. /\ op \in set /\ op.kind = "edit" /\ op.version \in Version
      /\ frags \in Seq(Fragment) /\ v \in Version /\ \A y \in set : InStep(v, y)
      /\ TextOf(frags, v, set, order, deleted) /\ b.undos = UndosAt(set, v) /\ Causal(v, set)
      /\ BufferTyped(b) /\ IsOrder(set, order) /\ Known(set, deleted)
      /\ ObservedAll(v, op.version) /\ ~ Observed(v, op.ts)
  BY <1>1 DEF BufferSound, BufferTyped, VersionSound, PartOf, IsHistory, Known, Edits,
              OpsSound, OpTyped, Version
<1>3. new.frags = Edited(frags, k, op.ts, op.len, gone) /\ new.undos = b.undos /\ new.version = w
  <2>1. EditedBy(b, new, op, k, gone, ClockAfter(b.clock, op.ts))
    BY <1>1, <1>2, RemoteEditRecord
  <2>2. QED
    BY <1>1, <2>1, EditedByFields, Zenon
<1>4. Gains(set, v, w, op) /\ Causal(w, set)
  BY <1>1, <1>2, RemoteGains
<1>5. PICK n \in Nat : n = Len(frags) /\ DOMAIN frags = 1..n
  BY <1>2
<1>6. \A i \in 1..n : /\ Rank(frags, op.version, i) \in Nat
                      /\ Rank(frags, op.version, i) = Place(set, order, op.version, Char(frags[i]))
  <2>1. \A d \in Seen(set, op.version) : d \in Seen(set, v)
    BY <1>2, SeenGrows
  <2>2. SUFFICES ASSUME NEW i \in DOMAIN frags
                 PROVE  /\ Rank(frags, op.version, i)
                               = Place(set, order, op.version, Char(frags[i]))
                        /\ Rank(frags, op.version, i) \in Nat
    BY <1>5
  <2>3. QED
    BY <1>2, <2>1, RankIsPlace, Zenon
<1>7. \A i \in 1..n : Char(frags[i]) \in Ahead(set, order, op)
          <=> Observed(op.version, frags[i].ts) /\ Rank(frags, op.version, i) <= op.start
  <2>1. \A i \in 1..n : Char(frags[i]) \in Chars(set) /\ Char(frags[i])[1] = frags[i].ts
    BY <1>2, <1>5 DEF TextOf, Seen, Char
  <2>2. \A i \in 1..n :
            Char(frags[i]) \in Seen(set, op.version) <=> Observed(op.version, frags[i].ts)
    BY <2>1 DEF Seen
  <2>3. QED
    BY <1>6, <2>2 DEF Ahead
<1>8. PICK a \in 0..n : Anchored(frags, op.version, op.start, op.ts, n, a, k)
  <2>1. k = RemoteIndex(frags, op.version, op.start, op.ts)
    BY <1>1 DEF RemotePlace
  <2>2. \A i \in 1..n : Rank(frags, op.version, i) \in Nat
    BY <1>6
  <2>3. n = Len(frags) /\ frags \in Seq(Fragment)
    BY <1>2, <1>5
  <2>4. QED
    BY <2>1, <2>2, <2>3, RemoteIndexFacts, Zenon
<1>9. /\ \A i \in 1..n : Char(frags[i]) \in Ahead(set, order, op) => i <= a
      /\ a # 0 => Char(frags[a]) \in Ahead(set, order, op)
      /\ k \in 0..n
  <2>1. a # 0 => a \in 1..n
    OBVIOUS
  <2>2. QED
    BY <1>7, <1>8, <2>1 DEF Anchored
<1>10. \A i \in DOMAIN frags : \A c : Fresh(c, op) =>
           /\ i <= k => <<Char(frags[i]), c>> \in order
           /\ k < i => <<c, Char(frags[i])>> \in order
  BY <1>2, <1>5, <1>8, <1>9, RemoteOrder DEF Anchored
<1>11. \A i \in DOMAIN frags : i \in gone <=> <<Char(frags[i]), op.ts>> \in deleted
  BY <1>1, <1>2, RemoteGone
<1>12. \A c, d : Fresh(c, op) /\ <<c, d>> \in deleted => ~ Observed(w, d)
  BY <1>2, <1>4, NoneDeletedYet
<1>13. PICK after : after = new.frags
  OBVIOUS
<1>14. TextOf(after, w, set, order, deleted)
  <2>1. after = Edited(frags, k, op.ts, op.len, gone) /\ k \in 0..Len(frags)
    BY <1>3, <1>5, <1>9, <1>13
  <2>2. QED
    BY <1>2, <1>4, <1>10, <1>11, <1>12, <2>1, EditText
<1>15. UndosAt(set, w) = UndosAt(set, v)
  <2>1. op.kind # "undo"
    BY <1>2
  <2>2. QED
    BY <1>2, <1>4, <2>1, UndosGain
<1>16. QED
  BY <1>2, <1>3, <1>4, <1>13, <1>14, <1>15, Zenon DEF PartOf

(* apply_op, for an undo.                                                    *)
LEMMA RemoteUndoPart ==
    ASSUME NEW set, OpsSound(set), NEW op \in set, op.kind = "undo", NEW order, NEW deleted,
           Known(set, deleted), NEW b, BufferTyped(b), TextSound(b),
           PartOf(b, set, order, deleted),
           NEW w, w = Observe(b.version, op.ts), Gains(set, b.version, w, op), Causal(w, set),
           NEW clock, NEW new, new = AfterUndo(b, op, clock)
    PROVE  PartOf(new, set, order, deleted)
<1>1. UndoneBy(b, new, op, clock)
  BY UndoRecord
<1>2. PICK frags, v, after : frags = b.frags /\ v = b.version /\ after = new.frags
  OBVIOUS
<1>3. /\ new.undos = b.undos \cup {[edit |-> op.edit, count |-> op.count, id |-> op.ts]}
      /\ new.version = w /\ SameChars(frags, after)
  BY <1>1, <1>2, Zenon DEF UndoneBy
<1>4. /\ TextOf(frags, v, set, order, deleted) /\ b.undos = UndosAt(set, v)
      /\ Gains(set, v, w, op)
  BY <1>2 DEF PartOf
<1>5. TextOf(after, w, set, order, deleted)
  BY <1>3, <1>4, UndoText
<1>6. UndosAt(set, w) =
          UndosAt(set, v) \cup {[edit |-> op.edit, count |-> op.count, id |-> op.ts]}
  <2>1. op.kind = "undo" => UndosAt(set, w) =
            UndosAt(set, v) \cup {[edit |-> op.edit, count |-> op.count, id |-> op.ts]}
    BY <1>4, UndosGain
  <2>2. QED
    BY <2>1
<1>7. QED
  BY <1>2, <1>3, <1>4, <1>5, <1>6, Zenon DEF PartOf

LEMMA ApplyOpPart ==
    ASSUME NEW set, OpsSound(set), NEW op \in set, NEW order, NEW deleted,
           IsHistory(set, order, deleted), NEW b, BufferSound(b, set),
           PartOf(b, set, order, deleted), ObservedAll(b.version, op.version)
    PROVE  PartOf(ApplyOp(b, op), set, order, deleted)
<1>1. /\ BufferTyped(b) /\ TextSound(b) /\ b.version \in Version
      /\ \A y \in set : InStep(b.version, y)
      /\ OpTyped(op) /\ op.ts \in Stamps /\ Causal(b.version, set)
  BY DEF BufferSound, BufferTyped, VersionSound, OpsSound, OpTyped, Version, PartOf
<1>2. CASE Observed(b.version, op.ts)
  BY <1>2, Zenon DEF ApplyOp
<1>3. CASE ~ Observed(b.version, op.ts) /\ op.kind = "edit"
  <2>1. PICK new : new = AfterRemote(ApplyRemoteEdit(b, op), op)
    OBVIOUS
  <2>2. ApplyOp(b, op) = new
    BY <1>3, <2>1, Zenon DEF ApplyOp, AfterRemote
  <2>3. op \in Edits(set)
    BY <1>3 DEF Edits
  <2>4. PartOf(new, set, order, deleted)
    BY <1>3, <2>1, <2>3, RemoteEditPart, Zenon
  <2>5. QED
    BY <2>2, <2>4, Zenon
<1>4. CASE ~ Observed(b.version, op.ts) /\ op.kind = "undo"
  <2>1. PICK new, clock : clock = ClockAfter(b.clock, op.ts) /\ new = AfterUndo(b, op, clock)
    OBVIOUS
  <2>2. "undo" # "edit"
    OBVIOUS
  <2>3. ApplyOp(b, op) = AfterRemote(ApplyUndo(b, op), op)
    BY <1>4, <2>2, Zenon DEF ApplyOp, AfterRemote
  <2>4. PICK u : u = ApplyUndo(b, op)
    OBVIOUS
  <2>5. u.version = b.version /\ u.clock = b.clock
    BY <1>1, <2>4, UndoKeeps
  <2>6. ApplyOp(b, op) = new
    BY <2>1, <2>3, <2>4, <2>5, Zenon DEF AfterUndo, AfterRemote
  <2>7. PICK w : w = Observe(b.version, op.ts)
    OBVIOUS
  <2>8. Gains(set, b.version, w, op) /\ Causal(w, set)
    BY <1>1, <2>7, RemoteGains, Zenon
  <2>9. Known(set, deleted)
    BY DEF IsHistory, Known
  <2>10. PartOf(new, set, order, deleted)
    BY <1>1, <1>4, <2>1, <2>7, <2>8, <2>9, RemoteUndoPart, Zenon
  <2>11. QED
    BY <2>6, <2>10, Zenon
<1>5. QED
  BY <1>1, <1>2, <1>3, <1>4 DEF OpTyped
-----------------------------------------------------------------------------
(* A call of apply_ops leaves the part of the history it should *)

LEMMA TakeOnePart ==
    ASSUME NEW set, OpsSound(set), NEW op \in set, NEW order, NEW deleted,
           IsHistory(set, order, deleted), NEW b, NEW acc, AccSound(acc, b, set),
           PartOf(acc.b, set, order, deleted), NEW new, new = TakeOne(acc, op)
    PROVE  PartOf(new.b, set, order, deleted)
<1>1. PICK c, blocked, deferred :
          /\ acc = [b |-> c, blocked |-> blocked, deferred |-> deferred]
          /\ c = acc.b /\ blocked = acc.blocked /\ deferred = acc.deferred
  BY DEF AccSound, AccTyped
<1>2. BufferSound(c, set) /\ PartOf(c, set, order, deleted)
  BY <1>1 DEF AccSound
<1>3. CASE CanApply(acc.b, acc.blocked, op)
  <2>1. PICK d : d = ApplyOp(c, op)
    OBVIOUS
  <2>2. ObservedAll(c.version, op.version)
    BY <1>1, <1>3 DEF CanApply
  <2>3. PartOf(d, set, order, deleted)
    BY <1>2, <2>1, <2>2, ApplyOpPart, Zenon
  <2>4. new = [acc EXCEPT !.b = d]
    BY <1>1, <1>3, <2>1, Zenon DEF TakeOne
  <2>5. new.b = d
    BY <1>1, <2>4
  <2>6. QED
    BY <2>3, <2>5, Zenon
<1>4. CASE ~ CanApply(acc.b, acc.blocked, op)
  <2>1. PICK x, y : x = blocked \cup {op.ts.replica} /\ y = deferred \cup {op}
    OBVIOUS
  <2>2. new = [acc EXCEPT !.blocked = x, !.deferred = y]
    BY <1>1, <1>4, <2>1, Zenon DEF TakeOne
  <2>3. new.b = c
    BY <1>1, <2>2
  <2>4. QED
    BY <1>2, <2>3, Zenon
<1>5. QED
  BY <1>3, <1>4

LEMMA TakeInPart ==
    ASSUME NEW set, OpsSound(set), Authored(set), NEW order, NEW deleted,
           IsHistory(set, order, deleted), NEW b, BufferSound(b, set),
           KnownIn(buffer, b.version), PartOf(b, set, order, deleted), NEW blocked,
           NEW n \in Nat, NEW seq, n = Len(seq), \A m \in 1..n : seq[m] \in set,
           NEW after, after = TakeIn(b, blocked, seq)
    PROVE  PartOf(after.b, set, order, deleted)
<1>1. PICK f : IsPass(f, n, b, blocked, seq) /\ after = f[n]
  <2>1. PICK f : /\ f[0] = Taken0(b, blocked)
                 /\ \A m \in 0..n : m # 0 => f[m] = TakeOne(f[m - 1], seq[m])
                 /\ TakeIn(b, blocked, seq) = f[n]
    BY TakeInTrace
  <2>2. IsPass(f, n, b, blocked, seq)
    BY <2>1, Zenon DEF IsPass
  <2>3. QED
    BY <2>1, <2>2, Zenon
<1>2. \A m \in 0..n : AccSound(f[m], b, set)
  BY <1>1, PassSound
<1> DEFINE Good(m) == PartOf(f[m].b, set, order, deleted)
           Bad == {m \in 0..n : ~ Good(m)}
<1>3. Good(0)
  <2>1. f[0] = [b |-> b, blocked |-> blocked, deferred |-> {}]
    BY <1>1, Zenon DEF IsPass, Taken0
  <2>2. f[0].b = b
    BY <2>1
  <2>3. QED
    BY <2>2, Zenon
<1>4. ASSUME NEW m \in 1..n, Good(m - 1)
      PROVE  Good(m)
  <2>1. PICK acc, op, new : acc = f[m - 1] /\ op = seq[m] /\ new = f[m]
    OBVIOUS
  <2>2. m - 1 \in 0..n /\ m \in 0..n /\ m # 0
    OBVIOUS
  <2>3. AccSound(acc, b, set) /\ op \in set /\ new = TakeOne(acc, op)
    BY <1>1, <1>2, <2>1, <2>2, Zenon DEF IsPass
  <2>4. PartOf(acc.b, set, order, deleted)
    BY <1>4, <2>1, Zenon
  <2>5. PartOf(new.b, set, order, deleted)
    BY <2>3, <2>4, TakeOnePart, Zenon
  <2>6. QED
    BY <2>1, <2>5, Zenon
<1>5. \A m \in 0..n : Good(m)
  <2>1. SUFFICES ASSUME Bad # {} PROVE FALSE
    BY Zenon
  <2>2. Bad \subseteq Nat
    OBVIOUS
  <2>3. PICK m \in Bad : \A k \in Bad : m <= k
    BY <2>1, <2>2, LeastElement, Zenon
  <2>4. m \in 0..n /\ ~ Good(m)
    BY <2>3, Zenon
  <2>5. m # 0
    BY <1>3, <2>4, Zenon
  <2>6. m \in 1..n /\ m - 1 \in 0..n /\ ~ (m <= m - 1)
    BY <2>4, <2>5
  <2>7. Good(m - 1)
    BY <2>3, <2>6, Zenon
  <2>8. QED
    BY <1>4, <2>4, <2>6, <2>7, Zenon
<1>6. QED
  BY <1>1, <1>5, n \in 0..n, Zenon

(* What is deferred is no part of the text.                                  *)
LEMMA DeferredPart ==
    ASSUME NEW set, NEW order, NEW deleted, NEW b, BufferSound(b, set),
           PartOf(b, set, order, deleted), NEW d, NEW new, new = SetDeferred(b, d)
    PROVE  PartOf(new, set, order, deleted)
<1>1. PICK f0, u0, v0, c0, d0 :
          /\ b = [frags |-> f0, undos |-> u0, version |-> v0, clock |-> c0, deferred |-> d0]
          /\ f0 = b.frags /\ u0 = b.undos /\ v0 = b.version /\ c0 = b.clock
  <2>1. BufferRecord(b)
    BY DEF BufferSound, BufferTyped, BufferRecord
  <2>2. QED
    BY <2>1, Zenon DEF BufferRecord
<1>2. new = [frags |-> f0, undos |-> u0, version |-> v0, clock |-> c0, deferred |-> d]
  BY <1>1 DEF SetDeferred
<1>3. new.frags = f0 /\ new.undos = u0 /\ new.version = v0
  BY <1>2
<1>4. QED
  BY <1>1, <1>3, Zenon DEF PartOf

LEMMA FlushPart ==
    ASSUME NEW set, OpsSound(set), Authored(set), NEW order, NEW deleted,
           IsHistory(set, order, deleted), NEW b, BufferSound(b, set),
           KnownIn(buffer, b.version), b.deferred \subseteq set,
           PartOf(b, set, order, deleted), NEW new, new = FlushDeferredOps(b)
    PROVE  PartOf(new, set, order, deleted)
<1>1. PICK s : s = ByTimestamp(b.deferred)
  OBVIOUS
<1>2. PICK n \in Nat : n = Len(s) /\ (\A m \in 1..n : s[m] \in set) /\ InTimeOrder(s, n)
  BY <1>1, ByTimestampFacts
<1>3. PICK after : after = TakeIn(b, {}, s)
  OBVIOUS
<1>4. AccSound(after, b, set) /\ PartOf(after.b, set, order, deleted)
  BY <1>2, <1>3, TakeInSound, TakeInPart
<1>5. PICK c, d : c = after.b /\ d = after.deferred
  OBVIOUS
<1>6. BufferSound(c, set) /\ PartOf(c, set, order, deleted)
  BY <1>4, <1>5 DEF AccSound
<1>7. new = SetDeferred(c, d)
  BY <1>1, <1>3, <1>5, Zenon DEF FlushDeferredOps, SetDeferred
<1>8. QED
  BY <1>6, <1>7, DeferredPart, Zenon

LEMMA ApplyOpsPart ==
    ASSUME NEW set, OpsSound(set), Authored(set), NEW order, NEW deleted,
           IsHistory(set, order, deleted), NEW b, BufferSound(b, set),
           KnownIn(buffer, b.version), b.deferred \subseteq set,
           PartOf(b, set, order, deleted),
           NEW n \in Nat, NEW seq, n = Len(seq), \A m \in 1..n : seq[m] \in set,
           NEW new, new = ApplyOps(b, seq)
    PROVE  PartOf(new, set, order, deleted)
<1>1. PICK blocked : blocked = Replicas(b.deferred)
  OBVIOUS
<1>2. PICK after : after = TakeIn(b, blocked, seq)
  OBVIOUS
<1>3. AccSound(after, b, set) /\ PartOf(after.b, set, order, deleted)
  BY <1>2, TakeInSound, TakeInPart
<1>4. PICK c, d : c = after.b /\ d = c.deferred \cup after.deferred
  OBVIOUS
<1>5. /\ BufferSound(c, set) /\ KnownIn(buffer, c.version) /\ d \subseteq set
      /\ PartOf(c, set, order, deleted)
  BY <1>3, <1>4 DEF AccSound
<1>6. PICK e : e = SetDeferred(c, d)
  OBVIOUS
<1>7. new = FlushDeferredOps(e)
  <2>1. [after.b EXCEPT !.deferred = @ \cup after.deferred] = e
    BY <1>4, <1>6, Zenon DEF SetDeferred
  <2>2. QED
    BY <1>1, <1>2, <2>1, Zenon DEF ApplyOps
<1>8. /\ BufferSound(e, set) /\ e.version = c.version /\ e.deferred = d
      /\ PartOf(e, set, order, deleted)
  BY <1>5, <1>6, WithDeferred, DeferredPart
<1>9. KnownIn(buffer, e.version) /\ e.deferred \subseteq set
  BY <1>5, <1>8, Zenon
<1>10. QED
  BY <1>7, <1>8, <1>9, FlushPart, Zenon

(* Nothing is sent: the history stays as it is.                              *)
LEMMA ReceiveHistory ==
    ASSUME HistoryInv, NEW r \in Replica, NEW seq \in Batches({op \in ops : op.ts.replica # r}),
           Receive(r, seq)
    PROVE  HistoryInv'
<1>1. PICK n \in 1..MaxBatch : seq \in [1..n -> {op \in ops : op.ts.replica # r}]
  BY DEF Batches
<1>2. n \in Nat /\ n = Len(seq) /\ \A m \in 1..n : seq[m] \in ops
  BY <1>1
<1>3. PICK b, new : b = buffer[r] /\ new = ApplyOps(b, seq)
  OBVIOUS
<1>4. ReplicaInv
  BY DEF HistoryInv
<1>5. PICK order, deleted :
          IsHistory(ops, order, deleted) /\ AllParts(buffer, ops, order, deleted)
  BY DEF HistoryInv
<1>6. /\ buffer = [q \in Replica |-> buffer[q]]
      /\ OpsSound(ops) /\ Authored(ops) /\ BufferSound(b, ops) /\ KnownIn(buffer, b.version)
      /\ b.deferred \subseteq ops /\ PartOf(b, ops, order, deleted)
  BY <1>3, <1>4, <1>5 DEF ReplicaInv, ReplicaSound, AuthorsKnow, Authored, AllParts
<1>7. PartOf(new, ops, order, deleted)
  BY <1>2, <1>3, <1>5, <1>6, ApplyOpsPart
<1>8. PICK bufs, bufs2 : bufs = buffer /\ bufs2 = buffer'
  OBVIOUS
<1>9. bufs2 = [bufs EXCEPT ![r] = new] /\ ops' = ops
  BY <1>3, <1>8, Zenon DEF Receive
<1>10. Replaces(bufs, r, new, bufs2)
  BY <1>6, <1>8, <1>9, ReplacedBuffer, Zenon
<1>11. AllParts(bufs2, ops, order, deleted)
  BY <1>5, <1>7, <1>8, <1>10 DEF AllParts, Replaces
<1>12. ReplicaInv'
  BY <1>4, ReceiveStep
<1>13. QED
  BY <1>5, <1>8, <1>9, <1>11, <1>12, Zenon DEF HistoryInv
-----------------------------------------------------------------------------
(* An operation is sent *)

(* Nobody has seen the new operation, and no operation depends on it.        *)
Unseen(bufs, set, op) ==
    /\ \A q \in Replica : ~ Observed(bufs[q].version, op.ts)
    /\ \A y \in set : ~ Observed(y.version, op.ts) /\ y.ts # op.ts
    /\ ~ Observed(op.version, op.ts)

LEMMA SentUnseen ==
    ASSUME NEW bufs, NEW set, ReplicaSound(bufs, set), NEW r, NEW op, Sends(bufs, set, r, op)
    PROVE  Unseen(bufs, set, op)
<1>1. PICK v, t : v = bufs[r].version /\ t = op.ts.value
  OBVIOUS
<1>2. /\ r \in Replica /\ OpTyped(op) /\ op.ts.replica = r /\ op.version = v
      /\ v[r] < t /\ t \in Nat /\ op.ts \in Stamps
  BY <1>1 DEF Sends, OpTyped, Stamps
<1>3. v \in Version /\ v[r] \in Nat
  BY <1>1, <1>2 DEF ReplicaSound, BufferSound, BufferTyped, Version
<1>4. ASSUME NEW u \in Version, KnownIn(bufs, u)
      PROVE  ~ Observed(u, op.ts)
  <2>1. u[r] <= v[r] /\ u[r] \in Nat
    BY <1>1, <1>2, <1>4 DEF KnownIn, Version
  <2>2. QED
    BY <1>1, <1>2, <1>3, <2>1 DEF Observed
<1>5. \A q \in Replica : bufs[q].version \in Version /\ KnownIn(bufs, bufs[q].version)
  BY DEF ReplicaSound, AuthorsKnow, BufferSound, BufferTyped, Version
<1>6. \A q \in Replica : ~ Observed(bufs[q].version, op.ts)
  BY <1>4, <1>5
<1>7. ASSUME NEW y \in set
      PROVE  ~ Observed(y.version, op.ts) /\ y.ts # op.ts
  <2>1. y.version \in Version /\ KnownIn(bufs, y.version)
    BY AuthorOf
  <2>2. y.ts.replica \in Replica /\ Observed(bufs[y.ts.replica].version, y.ts)
    BY AuthorOf
  <2>3. y.ts # op.ts
    BY <1>6, <2>2
  <2>4. QED
    BY <1>4, <2>1, <2>3
<1>8. ~ Observed(op.version, op.ts)
  BY <1>1, <1>2, <1>6
<1>9. QED
  BY <1>6, <1>7, <1>8 DEF Unseen

(* The order of the characters that were there is kept.                      *)
LEMMA OrderKept ==
    ASSUME NEW set, NEW more, Chars(set) \subseteq Chars(more), NEW order, NEW order2,
           IsOrder(set, order), IsOrder(more, order2), order \subseteq order2,
           NEW c \in Chars(set), NEW d \in Chars(set)
    PROVE  <<c, d>> \in order2 <=> <<c, d>> \in order
<1>1. c \in Chars(more) /\ d \in Chars(more)
  OBVIOUS
<1>2. SUFFICES ASSUME <<c, d>> \in order2, <<c, d>> \notin order PROVE FALSE
  OBVIOUS
<1>3. c = d \/ <<d, c>> \in order
  BY <1>2 DEF IsOrder
<1>4. <<c, c>> \in order2
  <2>1. CASE c = d
    BY <1>2, <2>1
  <2>2. CASE <<d, c>> \in order
    <3>1. <<d, c>> \in order2
      BY <2>2
    <3>2. QED
      BY <1>1, <1>2, <3>1, Zenon DEF IsOrder
  <2>3. QED
    BY <1>3, <2>1, <2>2
<1>5. QED
  BY <1>1, <1>4, Zenon DEF IsOrder

(* What an edit was made behind, and what it deleted, stay as they are when  *)
(* an operation comes that it does not depend on.                            *)
LEMMA DeletesKept ==
    ASSUME NEW set, NEW op, NEW more, Adds(set, more, op),
           NEW order, NEW order2, IsOrder(set, order), IsOrder(more, order2),
           NEW deleted, NEW deleted2, Extends(order, order2, deleted, deleted2, op),
           NEW y, ~ Observed(y.version, op.ts)
    PROVE  /\ \A c : c \in Ahead(more, order2, y) <=> c \in Ahead(set, order, y)
           /\ \A c : Deletes(more, order2, deleted2, y, c) <=> Deletes(set, order, deleted, y, c)
<1>1. PICK v : v = y.version
  OBVIOUS
<1>2. /\ \A c : c \in Seen(more, v) <=> c \in Seen(set, v)
      /\ UndosAt(more, v) = UndosAt(set, v)
      /\ Chars(set) \subseteq Chars(more)
  <2>1. ~ Observed(v, op.ts)
    BY <1>1
  <2>2. QED
    BY <2>1, SeenBefore, Zenon
<1>3. \A c \in Seen(set, v) : c \in Chars(set)
  BY DEF Seen
<1>4. \A c, d \in Chars(set) : <<c, d>> \in order2 <=> <<c, d>> \in order
  BY <1>2, OrderKept DEF Extends
<1>5. ASSUME NEW c \in Seen(set, v)
      PROVE  Place(more, order2, v, c) = Place(set, order, v, c)
  <2>1. \A d : d \in UpTo(more, order2, v, c) <=> d \in UpTo(set, order, v, c)
    BY <1>2, <1>3, <1>4, Zenon DEF UpTo
  <2>2. UpTo(more, order2, v, c) = UpTo(set, order, v, c)
    BY <2>1
  <2>3. QED
    BY <2>2, Zenon DEF Place
<1>6. ASSUME NEW c
      PROVE  VisibleAt(more, deleted2, c, v) <=> VisibleAt(set, deleted, c, v)
  <2>1. \A d : <<c, d>> \in deleted2 /\ Observed(v, d)
                   <=> <<c, d>> \in deleted /\ Observed(v, d)
    BY <1>1 DEF Extends
  <2>2. QED
    BY <1>2, <2>1, Zenon DEF VisibleAt
<1>7. \A c : c \in Ahead(more, order2, y) <=> c \in Ahead(set, order, y)
  BY <1>1, <1>2, <1>5 DEF Ahead
<1>8. \A c : Deletes(more, order2, deleted2, y, c) <=> Deletes(set, order, deleted, y, c)
  BY <1>1, <1>2, <1>5, <1>6, Zenon DEF Deletes
<1>9. QED
  BY <1>7, <1>8

(* An undo adds nothing to the history.                                      *)
LEMMA UndoHistory ==
    ASSUME NEW set, NEW op, op.kind = "undo", NEW more, Adds(set, more, op),
           NEW order, NEW deleted, IsHistory(set, order, deleted),
           \A y \in set : ~ Observed(y.version, op.ts)
    PROVE  /\ IsHistory(more, order, deleted)
           /\ Extends(order, order, deleted, deleted, op)
<1>1. \A y : y \in Edits(more) <=> y \in Edits(set)
  BY DEF Edits, Adds
<1>2. Edits(more) = Edits(set) /\ Chars(more) = Chars(set)
  <2>1. Edits(more) = Edits(set)
    BY <1>1
  <2>2. QED
    BY <2>1, Zenon DEF Chars
<1>3. IsOrder(set, order) /\ IsOrder(more, order)
  BY <1>2, Zenon DEF IsHistory, IsOrder
<1>4. Extends(order, order, deleted, deleted, op)
  BY DEF Extends
<1>5. ASSUME NEW y \in Edits(set)
      PROVE  /\ \A c : c \in Ahead(more, order, y) <=> c \in Ahead(set, order, y)
             /\ \A c : Deletes(more, order, deleted, y, c) <=> Deletes(set, order, deleted, y, c)
  <2>1. ~ Observed(y.version, op.ts)
    BY DEF Edits
  <2>2. QED
    BY <1>3, <1>4, <2>1, DeletesKept, Zenon
<1>6. ASSUME NEW y \in Edits(set)
      PROVE  InPlace(more, order, y)
  <2>1. InPlace(set, order, y)
    BY DEF IsHistory
  <2>2. QED
    BY <1>2, <1>5, <2>1, Zenon DEF InPlace
<1>7. ASSUME NEW y \in Edits(set), NEW c
      PROVE  <<c, y.ts>> \in deleted <=> Deletes(more, order, deleted, y, c)
  <2>1. <<c, y.ts>> \in deleted <=> Deletes(set, order, deleted, y, c)
    BY DEF IsHistory
  <2>2. QED
    BY <1>5, <2>1, Zenon
<1>8. \A c, d : <<c, d>> \in deleted => \E y \in Edits(more) : y.ts = d
  BY <1>2 DEF IsHistory
<1>9. QED
  BY <1>2, <1>3, <1>4, <1>6, <1>7, <1>8, Zenon DEF IsHistory

(* The others have the part they had, and the author has the whole.          *)
LEMMA SentParts ==
    ASSUME NEW bufs, NEW set, NEW op, NEW more, Adds(set, more, op), Unseen(bufs, set, op),
           NEW order, NEW order2, NEW deleted, NEW deleted2,
           Extends(order, order2, deleted, deleted2, op), AllParts(bufs, set, order, deleted),
           NEW r \in Replica, NEW new, PartOf(new, more, order2, deleted2),
           NEW bufs2, Replaces(bufs, r, new, bufs2)
    PROVE  AllParts(bufs2, more, order2, deleted2)
<1>1. SUFFICES ASSUME NEW q \in Replica PROVE PartOf(bufs2[q], more, order2, deleted2)
  BY DEF AllParts
<1>2. CASE q = r
  BY <1>2 DEF Replaces
<1>3. CASE q # r
  <2>1. PICK b : b = bufs[q]
    OBVIOUS
  <2>2. PartOf(b, set, order, deleted) /\ ~ Observed(b.version, op.ts)
    BY <2>1 DEF AllParts, Unseen
  <2>3. PartOf(b, more, order2, deleted2)
    BY <2>2, PartBefore, Zenon
  <2>4. QED
    BY <1>3, <2>1, <2>3, Zenon DEF Replaces
<1>4. QED
  BY <1>2, <1>3

(* What an author knows of its own operation.                                *)
LEMMA AuthorGains ==
    ASSUME NEW bufs, NEW set, ReplicaSound(bufs, set), NEW r, NEW op, Sends(bufs, set, r, op),
           NEW more, Adds(set, more, op), NEW v, v = bufs[r].version, Causal(v, more),
           NEW w, w = Observe(v, op.ts)
    PROVE  /\ OpsSound(more) /\ op \in more
           /\ Gains(more, v, w, op) /\ Causal(w, more)
<1>1. OpsSound(more)
  BY SendOps, Zenon DEF Adds
<1>2. op \in more /\ op.version = v /\ v \in Version /\ r \in Replica
  BY DEF Adds, Sends, ReplicaSound, BufferSound, BufferTyped, Version
<1>3. \A y \in more : InStep(v, y)
  BY <1>1, <1>2 DEF OpsSound
<1>4. ObservedAll(v, op.version)
  BY <1>2, ObservedAllSelf
<1>5. QED
  BY <1>1, <1>2, <1>3, <1>4, RemoteGains

(* What a step has to show.                                                  *)
LEMMA HistoryFollows ==
    ASSUME ReplicaInv, NEW r, NEW op, NEW new, SendsInto(r, op, new),
           NEW order, NEW order2, NEW deleted, NEW deleted2,
           AllParts(buffer, ops, order, deleted),
           NEW more, Adds(ops, more, op), IsHistory(more, order2, deleted2),
           Extends(order, order2, deleted, deleted2, op), PartOf(new, more, order2, deleted2)
    PROVE  HistoryInv'
<1>1. PICK bufs, bufs2 : bufs = buffer /\ bufs2 = buffer'
  OBVIOUS
<1>2. /\ bufs = [q \in Replica |-> bufs[q]] /\ ReplicaSound(bufs, ops) /\ r \in Replica
      /\ Sends(bufs, ops, r, op) /\ bufs2 = [bufs EXCEPT ![r] = new]
  BY <1>1, Zenon DEF ReplicaInv, SendsInto, Sends, Put
<1>3. Replaces(bufs, r, new, bufs2)
  BY <1>2, ReplacedBuffer, Zenon
<1>4. Unseen(bufs, ops, op)
  BY <1>2, SentUnseen
<1>5. AllParts(bufs, ops, order, deleted)
  BY <1>1
<1>6. AllParts(bufs2, more, order2, deleted2)
  BY <1>2, <1>3, <1>4, <1>5, SentParts, Zenon
<1>7. ops' = more
  BY DEF SendsInto, Adds
<1>8. ReplicaInv'
  BY SentStep
<1>9. QED
  BY <1>1, <1>6, <1>7, <1>8, Zenon DEF HistoryInv

LEMMA UndoPart ==
    ASSUME HistoryInv, NEW r \in Replica, NEW edit \in Stamps, Undo(r, edit)
    PROVE  HistoryInv'
<1>1. ReplicaInv
  BY DEF HistoryInv
<1>2. PICK order, deleted :
          IsHistory(ops, order, deleted) /\ AllParts(buffer, ops, order, deleted)
  BY DEF HistoryInv
<1>3. PICK op, new, clock :
          /\ SendsInto(r, op, new) /\ op.kind = "undo" /\ op.version = buffer[r].version
          /\ new = AfterUndo(buffer[r], op, clock)
  BY <1>1, UndoSends, Zenon
<1>4. PICK more : Adds(ops, more, op)
  BY DEF Adds
<1>5. PICK b : b = buffer[r]
  OBVIOUS
<1>6. ReplicaSound(buffer, ops) /\ Sends(buffer, ops, r, op)
  BY <1>1, <1>3 DEF ReplicaInv, SendsInto
<1>7. Unseen(buffer, ops, op)
  BY <1>6, SentUnseen
<1>8. IsHistory(more, order, deleted) /\ Extends(order, order, deleted, deleted, op)
  BY <1>2, <1>3, <1>4, <1>7, UndoHistory DEF Unseen
<1>9. PartOf(b, more, order, deleted)
  <2>1. PartOf(b, ops, order, deleted) /\ ~ Observed(b.version, op.ts)
    BY <1>2, <1>5, <1>7 DEF AllParts, Unseen
  <2>2. QED
    BY <1>4, <1>8, <2>1, PartBefore, Zenon
<1>10. PICK w : w = Observe(b.version, op.ts)
  OBVIOUS
<1>11. /\ OpsSound(more) /\ op \in more
       /\ Gains(more, b.version, w, op) /\ Causal(w, more)
  <2>1. Causal(b.version, more)
    BY <1>9 DEF PartOf
  <2>2. QED
    BY <1>4, <1>5, <1>6, <1>10, <2>1, AuthorGains
<1>12. BufferTyped(b) /\ TextSound(b)
  BY <1>1, <1>5, OwnBuffer
<1>13. PartOf(new, more, order, deleted)
  <2>1. Known(more, deleted)
    BY <1>8 DEF IsHistory, Known
  <2>2. new = AfterUndo(b, op, clock)
    BY <1>3, <1>5
  <2>3. QED
    BY <1>3, <1>9, <1>10, <1>11, <1>12, <2>1, <2>2, RemoteUndoPart, Zenon
<1>14. QED
  BY <1>1, <1>2, <1>3, <1>4, <1>8, <1>13, HistoryFollows, Zenon
-----------------------------------------------------------------------------
(* Where the characters of a new edit come in the order *)

LEMMA FreshChars ==
    ASSUME NEW set, NEW op, NEW more, Adds(set, more, op), op.kind = "edit", OpTyped(op),
           \A y \in set : y.ts # op.ts
    PROVE  /\ \A c : c \in Chars(more) <=> c \in Chars(set) \/ Fresh(c, op)
           /\ \A c : Fresh(c, op) => c[1] = op.ts /\ c[2] \in Nat /\ c = <<c[1], c[2]>>
           /\ \A c \in Chars(set) : c[1] # op.ts /\ ~ Fresh(c, op)
<1>1. op.ts \in Stamps /\ op.len \in Nat /\ op.ts.replica \in Replica
  BY DEF OpTyped
<1>2. \A y : y \in Edits(more) <=> y \in Edits(set) \/ y = op
  BY DEF Edits, Adds
<1>3. \A c : Fresh(c, op) => c[1] = op.ts /\ c[2] \in 1..op.len /\ c = <<c[1], c[2]>>
  BY DEF Fresh
<1>4. \A c : Fresh(c, op) => c \in Stamps \X Nat
  BY <1>1 DEF Fresh
<1>5. \A c : Fresh(c, op) => c \in Chars(more)
  BY <1>2, <1>3, <1>4 DEF Chars
<1>6. Chars(set) \subseteq Chars(more)
  BY <1>2 DEF Chars
<1>7. ASSUME NEW c \in Chars(more)
      PROVE  c \in Chars(set) \/ Fresh(c, op)
  <2>1. CASE c[1] = Stamp(1, 0) /\ c[2] \in 1..BaseLen
    BY <2>1 DEF Chars
  <2>2. CASE \E y \in Edits(set) : c[1] = y.ts /\ c[2] \in 1..y.len
    BY <2>2 DEF Chars
  <2>3. CASE c[1] = op.ts /\ c[2] \in 1..op.len
    <3>1. c = <<c[1], c[2]>>
      BY DEF Chars
    <3>2. QED
      BY <2>3, <3>1 DEF Fresh
  <2>4. QED
    BY <1>2, <2>1, <2>2, <2>3 DEF Chars
<1>8. ASSUME NEW c \in Chars(set)
      PROVE  c[1] # op.ts
  <2>1. op.ts # Stamp(1, 0)
    <3>1. Stamp(1, 0).replica = 0
      BY DEF Stamp
    <3>2. op.ts.replica # 0
      BY <1>1, TextAssumption
    <3>3. QED
      BY <3>1, <3>2
  <2>2. \A y \in Edits(set) : y.ts # op.ts
    BY DEF Edits
  <2>3. QED
    BY <2>1, <2>2 DEF Chars
<1>9. \A c : Fresh(c, op) => c[2] \in Nat
  BY <1>1, <1>3
<1>10. QED
  BY <1>3, <1>5, <1>6, <1>7, <1>8, <1>9

(* The new characters go behind those the edit was made behind, and behind   *)
(* what others have inserted there with a later timestamp.                   *)
Reaches(set, order, op, d) ==
    \/ \E f \in Ahead(set, order, op) : d = f \/ <<d, f>> \in order
    \/ Later(d[1], op.ts)

Before(set, order, op) ==
    {c \in Chars(set) :
        \A d \in Chars(set) : d = c \/ <<d, c>> \in order => Reaches(set, order, op, d)}

Precedes(set, order, op, c, d) ==
    \/ <<c, d>> \in order
    \/ c \in Before(set, order, op) /\ Fresh(d, op)
    \/ Fresh(c, op) /\ d \in Chars(set) /\ d \notin Before(set, order, op)
    \/ Fresh(c, op) /\ Fresh(d, op) /\ c[2] < d[2]

OrderWith(set, order, more, op) ==
    {p \in Chars(more) \X Chars(more) : Precedes(set, order, op, p[1], p[2])}

LEMMA OrderWithFacts ==
    ASSUME NEW set, NEW op, NEW more, Adds(set, more, op), op.kind = "edit", OpTyped(op),
           \A y \in set : y.ts # op.ts, NEW order, IsOrder(set, order),
           NEW order2, order2 = OrderWith(set, order, more, op)
    PROVE  /\ IsOrder(more, order2) /\ order \subseteq order2
           /\ \A c, d : <<c, d>> \in order2
                  <=> c \in Chars(more) /\ d \in Chars(more) /\ Precedes(set, order, op, c, d)
<1>1. /\ \A c : c \in Chars(more) <=> c \in Chars(set) \/ Fresh(c, op)
      /\ \A c : Fresh(c, op) => c[1] = op.ts /\ c[2] \in Nat /\ c = <<c[1], c[2]>>
      /\ \A c \in Chars(set) : c[1] # op.ts /\ ~ Fresh(c, op)
  BY FreshChars
<1>2. \A c, d : <<c, d>> \in order2
                  <=> c \in Chars(more) /\ d \in Chars(more) /\ Precedes(set, order, op, c, d)
  BY DEF OrderWith
<1>3. PICK P : P = Before(set, order, op)
  OBVIOUS
<1>4. P \subseteq Chars(set)
  BY <1>3 DEF Before
<1>5. \A c, d : <<c, d>> \in order => c \in Chars(set) /\ d \in Chars(set)
  BY DEF IsOrder
<1>6. ASSUME NEW c \in P, NEW d \in Chars(set), <<d, c>> \in order
      PROVE  d \in P
  <2>1. SUFFICES ASSUME NEW e \in Chars(set), e = d \/ <<e, d>> \in order
                 PROVE  Reaches(set, order, op, e)
    BY <1>3, <1>6 DEF Before
  <2>2. c \in Chars(set)
    BY <1>4
  <2>3. <<e, c>> \in order
    BY <1>6, <2>1, <2>2, Zenon DEF IsOrder
  <2>4. QED
    BY <1>3, <2>3 DEF Before
<1>7. /\ \A c, d \in Chars(set) : <<c, d>> \in order2 <=> <<c, d>> \in order
      /\ \A c, d : c \in Chars(set) /\ Fresh(d, op) => (<<c, d>> \in order2 <=> c \in P)
      /\ \A c, d : Fresh(c, op) /\ d \in Chars(set) => (<<c, d>> \in order2 <=> d \notin P)
      /\ \A c, d : Fresh(c, op) /\ Fresh(d, op) => (<<c, d>> \in order2 <=> c[2] < d[2])
  BY <1>1, <1>2, <1>3, <1>4, <1>5, Zenon DEF Precedes
<1>8. ASSUME NEW c \in Chars(more)
      PROVE  <<c, c>> \notin order2
  <2>1. CASE c \in Chars(set)
    BY <1>7, <2>1 DEF IsOrder
  <2>2. CASE Fresh(c, op)
    <3>1. ~ (c[2] < c[2])
      BY <1>1, <2>2
    <3>2. QED
      BY <1>7, <2>2, <3>1
  <2>3. QED
    BY <1>1, <2>1, <2>2
<1>9. ASSUME NEW c \in Chars(more), NEW d \in Chars(more)
      PROVE  c = d \/ <<c, d>> \in order2 \/ <<d, c>> \in order2
  <2>1. CASE c \in Chars(set) /\ d \in Chars(set)
    BY <1>7, <2>1, Zenon DEF IsOrder
  <2>2. CASE c \in Chars(set) /\ Fresh(d, op)
    BY <1>7, <2>2, Zenon
  <2>3. CASE Fresh(c, op) /\ d \in Chars(set)
    BY <1>7, <2>3, Zenon
  <2>4. CASE Fresh(c, op) /\ Fresh(d, op)
    <3>1. c[2] = d[2] => c = d
      BY <1>1, <2>4
    <3>2. c[2] = d[2] \/ c[2] < d[2] \/ d[2] < c[2]
      BY <1>1, <2>4
    <3>3. QED
      BY <1>7, <2>4, <3>1, <3>2, Zenon
  <2>5. QED
    BY <1>1, <2>1, <2>2, <2>3, <2>4
<1>10. ASSUME NEW c \in Chars(more), NEW d \in Chars(more), NEW e \in Chars(more),
              <<c, d>> \in order2, <<d, e>> \in order2
       PROVE  <<c, e>> \in order2
  <2>1. ASSUME c \in Chars(set), d \in Chars(set), e \in Chars(set)
        PROVE  <<c, e>> \in order2
    <3>1. <<c, d>> \in order /\ <<d, e>> \in order
      BY <1>7, <1>10, <2>1, Zenon
    <3>2. <<c, e>> \in order
      BY <2>1, <3>1, Zenon DEF IsOrder
    <3>3. QED
      BY <1>7, <2>1, <3>2, Zenon
  <2>2. ASSUME c \in Chars(set), d \in Chars(set), Fresh(e, op)
        PROVE  <<c, e>> \in order2
    <3>1. <<c, d>> \in order /\ d \in P
      BY <1>7, <1>10, <2>2, Zenon
    <3>2. QED
      BY <1>6, <1>7, <2>2, <3>1, Zenon
  <2>3. ASSUME c \in Chars(set), Fresh(d, op), e \in Chars(set)
        PROVE  <<c, e>> \in order2
    <3>1. c \in P /\ e \notin P
      BY <1>7, <1>10, <2>3, Zenon
    <3>2. c # e /\ <<e, c>> \notin order
      BY <1>6, <2>3, <3>1, Zenon
    <3>3. <<c, e>> \in order
      BY <2>3, <3>2, Zenon DEF IsOrder
    <3>4. QED
      BY <1>7, <2>3, <3>3, Zenon
  <2>4. ASSUME c \in Chars(set), Fresh(d, op), Fresh(e, op)
        PROVE  <<c, e>> \in order2
    BY <1>7, <1>10, <2>4, Zenon
  <2>5. ASSUME Fresh(c, op), d \in Chars(set), e \in Chars(set)
        PROVE  <<c, e>> \in order2
    <3>1. d \notin P /\ <<d, e>> \in order
      BY <1>7, <1>10, <2>5, Zenon
    <3>2. e \notin P
      BY <1>6, <2>5, <3>1, Zenon
    <3>3. QED
      BY <1>7, <2>5, <3>2, Zenon
  <2>6. ~ (Fresh(c, op) /\ d \in Chars(set) /\ Fresh(e, op))
    BY <1>7, <1>10, Zenon
  <2>7. ASSUME Fresh(c, op), Fresh(d, op), e \in Chars(set)
        PROVE  <<c, e>> \in order2
    BY <1>7, <1>10, <2>7, Zenon
  <2>8. ASSUME Fresh(c, op), Fresh(d, op), Fresh(e, op)
        PROVE  <<c, e>> \in order2
    <3>1. c[2] < d[2] /\ d[2] < e[2]
      BY <1>7, <1>10, <2>8, Zenon
    <3>2. c[2] < e[2]
      BY <1>1, <2>8, <3>1
    <3>3. QED
      BY <1>7, <2>8, <3>2, Zenon
  <2>9. QED
    BY <1>1, <2>1, <2>2, <2>3, <2>4, <2>5, <2>6, <2>7, <2>8, Zenon
<1>11. ASSUME NEW c \in Chars(more), NEW d \in Chars(more), c[1] = d[1], c[2] < d[2]
       PROVE  <<c, d>> \in order2
  <2>1. CASE c \in Chars(set) /\ d \in Chars(set)
    BY <1>7, <1>11, <2>1 DEF IsOrder
  <2>2. CASE Fresh(c, op) /\ Fresh(d, op)
    BY <1>7, <1>11, <2>2
  <2>3. QED
    BY <1>1, <1>11, <2>1, <2>2
<1>12. order2 \subseteq Chars(more) \X Chars(more)
  BY DEF OrderWith
<1>13. order \subseteq order2
  <2>1. SUFFICES ASSUME NEW p \in order PROVE p \in order2
    OBVIOUS
  <2>2. p = <<p[1], p[2]>> /\ p[1] \in Chars(set) /\ p[2] \in Chars(set)
    BY DEF IsOrder
  <2>3. <<p[1], p[2]>> \in order2
    BY <1>7, <2>2
  <2>4. QED
    BY <2>2, <2>3
<1>14. IsOrder(more, order2)
  BY <1>8, <1>9, <1>10, <1>11, <1>12, Zenon DEF IsOrder
<1>15. QED
  BY <1>2, <1>13, <1>14
-----------------------------------------------------------------------------
(* The history with a new edit *)

DeletedWith(set, order, deleted, op) ==
    deleted \cup {<<c, op.ts>> : c \in {d \in Chars(set) : Deletes(set, order, deleted, op, d)}}

(* The new text is no harm to the place of an older one: what keeps it out   *)
(* from behind an older edit is later than that edit, and earlier than it.   *)
LEMMA OldInPlace ==
    ASSUME NEW set, NEW op, NEW more, Adds(set, more, op), op.kind = "edit", OpTyped(op),
           OpsSound(set), \A y \in set : y.ts # op.ts,
           NEW order, IsOrder(set, order), NEW order2, order2 = OrderWith(set, order, more, op),
           NEW y \in Edits(set), InPlace(set, order, y),
           \A c : c \in Ahead(more, order2, y) <=> c \in Ahead(set, order, y)
    PROVE  InPlace(more, order2, y)
<1>1. /\ \A c : c \in Chars(more) <=> c \in Chars(set) \/ Fresh(c, op)
      /\ \A c : Fresh(c, op) => c[1] = op.ts /\ c[2] \in Nat /\ c = <<c[1], c[2]>>
      /\ \A c \in Chars(set) : c[1] # op.ts /\ ~ Fresh(c, op)
  BY FreshChars
<1>2. /\ IsOrder(more, order2) /\ order \subseteq order2
      /\ \A c, d : <<c, d>> \in order2
             <=> c \in Chars(more) /\ d \in Chars(more) /\ Precedes(set, order, op, c, d)
  BY OrderWithFacts
<1>3. \A c, d \in Chars(set) : <<c, d>> \in order2 <=> <<c, d>> \in order
  <2>1. Chars(set) \subseteq Chars(more)
    BY <1>1
  <2>2. IsOrder(more, order2) /\ order \subseteq order2
    BY <1>2
  <2>3. SUFFICES ASSUME NEW c \in Chars(set), NEW d \in Chars(set)
                 PROVE  <<c, d>> \in order2 <=> <<c, d>> \in order
    OBVIOUS
  <2>4. QED
    BY <2>1, <2>2, OrderKept, Zenon
<1>4. y \in set /\ y.ts \in Stamps /\ op.ts \in Stamps /\ y.ts # op.ts
  BY DEF Edits, OpsSound, OpTyped
<1>5. SUFFICES ASSUME NEW c \in Chars(more), c[1] = y.ts
               PROVE  /\ \A a \in Ahead(more, order2, y) : <<a, c>> \in order2
                      /\ \A d \in Chars(more) :
                            <<d, c>> \in order2
                            /\ (\A a \in Ahead(more, order2, y) : <<a, d>> \in order2)
                                => d[1] = y.ts \/ Later(d[1], y.ts)
  BY DEF InPlace
<1>6. c \in Chars(set) /\ ~ Fresh(c, op)
  BY <1>1, <1>4, <1>5
<1>7. \A a \in Ahead(more, order2, y) : <<a, c>> \in order2
  BY <1>2, <1>5, <1>6 DEF InPlace
<1>8. ASSUME NEW d \in Chars(more), <<d, c>> \in order2,
             \A a \in Ahead(more, order2, y) : <<a, d>> \in order2
      PROVE  d[1] = y.ts \/ Later(d[1], y.ts)
  <2>1. \A a \in Ahead(set, order, y) : a \in Chars(set) /\ <<a, d>> \in order2
    BY <1>8 DEF Ahead, Seen
  <2>2. CASE d \in Chars(set)
    <3>1. <<d, c>> \in order /\ \A a \in Ahead(set, order, y) : <<a, d>> \in order
      BY <1>3, <1>6, <1>8, <2>1, <2>2
    <3>2. QED
      BY <1>5, <1>6, <2>2, <3>1 DEF InPlace
  <2>3. CASE Fresh(d, op)
    <3>1. d[1] = op.ts /\ d \notin Chars(set)
      BY <1>1, <2>3
    <3>2. c \notin Before(set, order, op)
      <4>1. Precedes(set, order, op, d, c)
        BY <1>2, <1>8, Zenon
      <4>2. <<d, c>> \notin order
        BY <3>1 DEF IsOrder
      <4>3. QED
        BY <1>6, <3>1, <4>1, <4>2 DEF Precedes, Before
    <3>3. PICK e \in Chars(set) : (e = c \/ <<e, c>> \in order) /\ ~ Reaches(set, order, op, e)
      BY <1>6, <3>2 DEF Before
    <3>4. e[1] \in Stamps /\ e[1] # op.ts
      BY <1>1 DEF Chars
    <3>5. Later(op.ts, e[1])
      <4>1. ~ Later(e[1], op.ts)
        BY <3>3 DEF Reaches
      <4>2. QED
        BY <1>4, <3>4, <4>1, LaterFacts
    <3>6. e[1] = y.ts \/ Later(e[1], y.ts)
      <4>1. CASE e = c
        BY <1>5, <4>1
      <4>2. CASE <<e, c>> \in order
        <5>1. ASSUME NEW a \in Ahead(set, order, y)
              PROVE  <<a, e>> \in order
          <6>1. a \in Chars(set) /\ <<a, d>> \in order2
            BY <2>1
          <6>2. a \in Before(set, order, op)
            <7>1. Precedes(set, order, op, a, d)
              BY <1>2, <6>1, Zenon
            <7>2. <<a, d>> \notin order
              BY <3>1 DEF IsOrder
            <7>3. QED
              BY <1>1, <3>1, <6>1, <7>1, <7>2 DEF Precedes
          <6>3. e # a /\ <<e, a>> \notin order
            BY <3>3, <6>2 DEF Before
          <6>4. QED
            BY <6>1, <6>3, Zenon DEF IsOrder
        <5>2. QED
          BY <1>5, <1>6, <4>2, <5>1 DEF InPlace
      <4>3. QED
        BY <3>3, <4>1, <4>2
    <3>7. Later(op.ts, y.ts)
      <4>1. Later(op.ts, e[1]) /\ Later(e[1], y.ts) => Later(op.ts, y.ts)
        BY <1>4, <3>4, LaterFacts
      <4>2. QED
        BY <3>5, <3>6, <4>1
    <3>8. QED
      BY <3>1, <3>7
  <2>4. QED
    BY <1>1, <2>2, <2>3
<1>9. QED
  BY <1>7, <1>8

(* The new text is in its place.                                             *)
LEMMA NewInPlace ==
    ASSUME NEW set, NEW op, NEW more, Adds(set, more, op), op.kind = "edit", OpTyped(op),
           \A y \in set : y.ts # op.ts,
           NEW order, IsOrder(set, order), NEW order2, order2 = OrderWith(set, order, more, op),
           \A c : c \in Ahead(more, order2, op) <=> c \in Ahead(set, order, op)
    PROVE  InPlace(more, order2, op)
<1>1. /\ \A c : c \in Chars(more) <=> c \in Chars(set) \/ Fresh(c, op)
      /\ \A c : Fresh(c, op) => c[1] = op.ts /\ c[2] \in Nat /\ c = <<c[1], c[2]>>
      /\ \A c \in Chars(set) : c[1] # op.ts /\ ~ Fresh(c, op)
  BY FreshChars
<1>2. /\ IsOrder(more, order2) /\ order \subseteq order2
      /\ \A c, d : <<c, d>> \in order2
             <=> c \in Chars(more) /\ d \in Chars(more) /\ Precedes(set, order, op, c, d)
  BY OrderWithFacts
<1>3. SUFFICES ASSUME NEW c \in Chars(more), c[1] = op.ts
               PROVE  /\ \A a \in Ahead(more, order2, op) : <<a, c>> \in order2
                      /\ \A d \in Chars(more) :
                            <<d, c>> \in order2
                            /\ (\A a \in Ahead(more, order2, op) : <<a, d>> \in order2)
                                => d[1] = op.ts \/ Later(d[1], op.ts)
  BY DEF InPlace
<1>4. Fresh(c, op) /\ c \notin Chars(set)
  BY <1>1, <1>3
<1>5. ASSUME NEW a \in Ahead(set, order, op)
      PROVE  <<a, c>> \in order2
  <2>1. a \in Chars(set)
    BY DEF Ahead, Seen
  <2>2. \A d \in Chars(set) : d = a \/ <<d, a>> \in order => Reaches(set, order, op, d)
    BY DEF Reaches
  <2>3. a \in Before(set, order, op)
    BY <2>1, <2>2 DEF Before
  <2>4. Precedes(set, order, op, a, c)
    BY <1>4, <2>3 DEF Precedes
  <2>5. QED
    BY <1>1, <1>2, <2>1, <2>4
<1>6. ASSUME NEW d \in Chars(more), <<d, c>> \in order2,
             \A a \in Ahead(more, order2, op) : <<a, d>> \in order2
      PROVE  d[1] = op.ts \/ Later(d[1], op.ts)
  <2>1. CASE Fresh(d, op)
    BY <1>1, <2>1
  <2>2. CASE d \in Chars(set)
    <3>1. Precedes(set, order, op, d, c)
      BY <1>2, <1>6, Zenon
    <3>2. <<d, c>> \notin order /\ ~ Fresh(d, op)
      BY <1>1, <1>4, <2>2 DEF IsOrder
    <3>3. d \in Before(set, order, op)
      BY <1>4, <3>1, <3>2, Zenon DEF Precedes
    <3>4. Reaches(set, order, op, d)
      BY <2>2, <3>3 DEF Before
    <3>5. ASSUME NEW f \in Ahead(set, order, op), d = f \/ <<d, f>> \in order
          PROVE  FALSE
      <4>1. <<f, d>> \in order2 /\ f \in Chars(more)
        BY <1>1, <1>6 DEF Ahead, Seen
      <4>2. d = f \/ <<d, f>> \in order2
        BY <1>2, <3>5
      <4>3. <<d, d>> \in order2
        BY <1>2, <4>1, <4>2, Zenon DEF IsOrder
      <4>4. QED
        BY <1>2, <4>3, Zenon DEF IsOrder
    <3>6. QED
      BY <3>4, <3>5, Zenon DEF Reaches
  <2>3. QED
    BY <1>1, <2>1, <2>2
<1>7. QED
  BY <1>5, <1>6

LEMMA EditHistory ==
    ASSUME NEW set, NEW op, NEW more, Adds(set, more, op), op.kind = "edit", OpTyped(op),
           OpsSound(set), \A y \in set : ~ Observed(y.version, op.ts) /\ y.ts # op.ts,
           ~ Observed(op.version, op.ts),
           NEW order, NEW deleted, IsHistory(set, order, deleted),
           NEW order2, order2 = OrderWith(set, order, more, op),
           NEW deleted2, deleted2 = DeletedWith(set, order, deleted, op)
    PROVE  /\ IsHistory(more, order2, deleted2)
           /\ Extends(order, order2, deleted, deleted2, op)
<1>1. IsOrder(set, order)
  BY DEF IsHistory
<1>2. IsOrder(more, order2) /\ order \subseteq order2
  BY <1>1, OrderWithFacts
<1>3. \A c, d : <<c, d>> \in deleted2
            <=> <<c, d>> \in deleted \/ (d = op.ts /\ Deletes(set, order, deleted, op, c))
  <2>1. \A c : Deletes(set, order, deleted, op, c) => c \in Chars(set)
    BY DEF Deletes, Seen
  <2>2. QED
    BY <2>1 DEF DeletedWith
<1>4. Extends(order, order2, deleted, deleted2, op)
  BY <1>2, <1>3 DEF Extends, DeletedWith
<1>5. ASSUME NEW y, ~ Observed(y.version, op.ts)
      PROVE  /\ \A c : c \in Ahead(more, order2, y) <=> c \in Ahead(set, order, y)
             /\ \A c : Deletes(more, order2, deleted2, y, c) <=> Deletes(set, order, deleted, y, c)
  BY <1>1, <1>2, <1>4, <1>5, DeletesKept, Zenon
<1>6. \A y : y \in Edits(more) <=> y \in Edits(set) \/ y = op
  BY DEF Edits, Adds
<1>7. \A y \in Edits(set) : y \in set /\ ~ Observed(y.version, op.ts) /\ y.ts # op.ts
  BY DEF Edits
<1>8. ASSUME NEW y \in Edits(more)
      PROVE  InPlace(more, order2, y)
  <2>1. CASE y \in Edits(set)
    <3>1. InPlace(set, order, y)
      BY <2>1 DEF IsHistory
    <3>2. \A c : c \in Ahead(more, order2, y) <=> c \in Ahead(set, order, y)
      BY <1>5, <1>7, <2>1, Zenon
    <3>3. QED
      BY <1>1, <2>1, <3>1, <3>2, OldInPlace
  <2>2. CASE y = op
    <3>1. \A c : c \in Ahead(more, order2, op) <=> c \in Ahead(set, order, op)
      BY <1>5, Zenon
    <3>2. QED
      BY <1>1, <2>2, <3>1, NewInPlace
  <2>3. QED
    BY <1>6, <2>1, <2>2
<1>9. \A c : <<c, op.ts>> \notin deleted
  BY <1>7 DEF IsHistory
<1>10. ASSUME NEW y \in Edits(more), NEW c
       PROVE  <<c, y.ts>> \in deleted2 <=> Deletes(more, order2, deleted2, y, c)
  <2>1. CASE y \in Edits(set)
    <3>1. <<c, y.ts>> \in deleted <=> Deletes(set, order, deleted, y, c)
      BY <2>1 DEF IsHistory
    <3>2. <<c, y.ts>> \in deleted2 <=> <<c, y.ts>> \in deleted
      <4>1. y.ts # op.ts
        BY <1>7, <2>1
      <4>2. QED
        BY <1>3, <4>1
    <3>3. QED
      BY <1>5, <1>7, <2>1, <3>1, <3>2, Zenon
  <2>2. CASE y = op
    <3>1. <<c, op.ts>> \in deleted2 <=> Deletes(set, order, deleted, op, c)
      BY <1>3, <1>9, Zenon
    <3>2. QED
      BY <1>5, <2>2, <3>1, Zenon
  <2>3. QED
    BY <1>6, <2>1, <2>2
<1>11. ASSUME NEW c, NEW d, <<c, d>> \in deleted2
       PROVE  \E y \in Edits(more) : y.ts = d
  <2>1. CASE <<c, d>> \in deleted
    BY <1>6, <2>1, Zenon DEF IsHistory
  <2>2. CASE d = op.ts
    BY <1>6, <2>2, Zenon
  <2>3. QED
    BY <1>3, <1>11, <2>1, <2>2
<1>12. QED
  BY <1>2, <1>4, <1>8, <1>10, <1>11, Zenon DEF IsHistory
-----------------------------------------------------------------------------
(* A local edit, as the others will count it *)

LEMMA VisibleMore ==
    ASSUME NEW frags, NEW i \in Nat, NEW j \in Nat, j <= i
    PROVE  /\ VisibleBefore(frags, i) \in Nat /\ VisibleBefore(frags, j) \in Nat
           /\ VisibleBefore(frags, j) <= VisibleBefore(frags, i)
           /\ j < i /\ frags[i].visible => VisibleBefore(frags, j) < VisibleBefore(frags, i)
<1>1. PICK V, W : V = {k \in 1..i : frags[k].visible} /\ W = {k \in 1..j : frags[k].visible}
  OBVIOUS
<1>2. IsFiniteSet(V)
  <2>1. IsFiniteSet(1..i) /\ V \in SUBSET (1..i)
    BY <1>1, FS_Interval
  <2>2. QED
    BY <2>1, FS_Subset
<1>3. W \in SUBSET V /\ (j < i /\ frags[i].visible => W # V)
  <2>1. W \subseteq V
    BY <1>1
  <2>2. j < i /\ frags[i].visible => i \in V /\ i \notin W
    BY <1>1
  <2>3. QED
    BY <2>1, <2>2
<1>4. /\ IsFiniteSet(W) /\ Cardinality(W) <= Cardinality(V)
      /\ Cardinality(V) = Cardinality(W) => V = W
  BY <1>2, <1>3, FS_Subset
<1>5. Cardinality(V) \in Nat /\ Cardinality(W) \in Nat
  BY <1>2, <1>4, FS_CardinalityType
<1>6. VisibleBefore(frags, i) = Cardinality(V) /\ VisibleBefore(frags, j) = Cardinality(W)
  BY <1>1 DEF VisibleBefore
<1>7. QED
  BY <1>3, <1>4, <1>5, <1>6

LEMMA EndIndexFacts ==
    ASSUME NEW frags, Len(frags) \in Nat, NEW s, NEW e \in Nat, e <= VisibleLen(frags),
           e # s, NEW end, end = EndIndex(frags, s, e)
    PROVE  end \in 0..Len(frags) /\ VisibleBefore(frags, end) = e
<1>1. PICK T : T = {m \in 0..Len(frags) : VisibleBefore(frags, m) = e}
  OBVIOUS
<1>2. T \subseteq Nat /\ T # {}
  <2>1. \E i \in 0..Len(frags) : VisibleBefore(frags, i) = e
    BY SomePlace
  <2>2. QED
    BY <1>1, <2>1
<1>3. end = Min(T)
  BY <1>1, Zenon DEF EndIndex
<1>4. \E x \in T : \A y \in T : x <= y
  BY <1>2, LeastElement
<1>5. end \in T
  BY <1>3, <1>4 DEF Min
<1>6. QED
  BY <1>1, <1>5

(* What the author deletes is what lies between the two places and is        *)
(* visible.                                                                  *)
LEMMA LocalGoneFacts ==
    ASSUME NEW frags \in Seq(Fragment), NEW s \in Nat, NEW e \in Nat, s <= e,
           e <= VisibleLen(frags), NEW start, start = StartIndex(frags, s),
           NEW end, end = EndIndex(frags, s, e), NEW i \in DOMAIN frags
    PROVE  i \in LocalGone(frags, s, e) <=> i \in start + 1..end /\ frags[i].visible
<1>1. PICK n \in Nat : n = Len(frags) /\ DOMAIN frags = 1..n
  OBVIOUS
<1>2. i \in Nat /\ n \in Nat /\ i <= n
  BY <1>1
<1>3. VisibleLen(frags) \in Nat
  BY <1>1, VisibleGrows DEF VisibleLen
<1>4. /\ start \in 0..n /\ VisibleBefore(frags, start) = s
      /\ \A m \in 0..n : VisibleBefore(frags, m) = s => m <= start
  <2>1. s <= VisibleLen(frags)
    BY <1>3
  <2>2. QED
    BY <1>1, <2>1, StartIndexFacts
<1>5. i \in LocalGone(frags, s, e) <=> frags[i].visible /\ VisibleBefore(frags, i) \in s + 1..e
  BY DEF LocalGone
<1>6. VisibleBefore(frags, i) \in Nat /\ i \in 0..n
  <2>1. VisibleBefore(frags, i) \in Nat
    BY <1>2, VisibleGrows, Zenon
  <2>2. QED
    BY <1>2, <2>1
<1>7. CASE e = s
  <2>1. end = start
    BY <1>7, Zenon DEF EndIndex
  <2>2. start + 1..end = {} /\ s + 1..e = {}
    BY <1>4, <1>7, <2>1
  <2>3. QED
    BY <1>5, <2>2
<1>8. CASE e # s
  <2>1. end \in 0..n /\ VisibleBefore(frags, end) = e
    BY <1>1, <1>8, EndIndexFacts
  <2>2. ASSUME frags[i].visible, VisibleBefore(frags, i) \in s + 1..e
        PROVE  i \in start + 1..end
    <3>1. ~ (i <= start)
      <4>1. i <= start => VisibleBefore(frags, i) <= s
        BY <1>2, <1>4, VisibleMore
      <4>2. QED
        BY <1>6, <2>2, <4>1
    <3>2. ~ (end < i)
      <4>1. end < i => e < VisibleBefore(frags, i)
        BY <1>2, <2>1, <2>2, VisibleMore
      <4>2. QED
        BY <1>6, <2>2, <4>1
    <3>3. QED
      BY <1>2, <1>4, <2>1, <3>1, <3>2
  <2>3. ASSUME i \in start + 1..end
        PROVE  VisibleBefore(frags, i) \in s + 1..e
    <3>1. start <= i /\ i <= end /\ ~ (i <= start)
      BY <1>2, <1>4, <2>1, <2>3
    <3>2. s <= VisibleBefore(frags, i)
      BY <1>2, <1>4, <3>1, VisibleMore
    <3>3. VisibleBefore(frags, i) # s
      BY <1>4, <1>6, <3>1
    <3>4. VisibleBefore(frags, i) <= e
      BY <1>2, <2>1, <3>1, VisibleMore
    <3>5. QED
      BY <1>6, <3>2, <3>3, <3>4
  <2>4. QED
    BY <1>5, <2>2, <2>3
<1>9. QED
  BY <1>7, <1>8

(* The author has seen all the characters of its buffer: it counts them all. *)
LEMMA OwnPlace ==
    ASSUME NEW set, NEW order, IsOrder(set, order), NEW v, NEW deleted,
           NEW frags \in Seq(Fragment), TextOf(frags, v, set, order, deleted),
           NEW i \in DOMAIN frags
    PROVE  Place(set, order, v, Char(frags[i])) = i
<1>1. i \in Nat /\ \A j \in 1..i : j \in DOMAIN frags
  OBVIOUS
<1>2. \A j \in DOMAIN frags : Observed(v, frags[j].ts)
  <2>1. \A j \in DOMAIN frags : Char(frags[j])[1] = frags[j].ts
    BY DEF Char
  <2>2. QED
    BY <2>1 DEF TextOf, Seen
<1>3. {j \in 1..i : Observed(v, frags[j].ts)} = 1..i
  BY <1>1, <1>2
<1>4. Rank(frags, v, i) = Cardinality(1..i)
  BY <1>3, Zenon DEF Rank
<1>5. Cardinality(1..i) = i
  <2>1. 1 \in Int /\ i \in Int /\ 1 <= i
    BY <1>1
  <2>2. QED
    BY <2>1, FS_Interval
<1>6. \A c \in Seen(set, v) : c \in Seen(set, v)
  OBVIOUS
<1>7. Rank(frags, v, i) = Place(set, order, v, Char(frags[i]))
  BY <1>6, RankIsPlace, Zenon
<1>8. QED
  BY <1>4, <1>5, <1>7, Zenon
-----------------------------------------------------------------------------
(* The author's own text after an edit *)

(* The new characters stand in the author's text where the order has them.   *)
LEMMA OwnOrder ==
    ASSUME NEW set, NEW op, NEW more, Adds(set, more, op), op.kind = "edit", OpTyped(op),
           \A y \in set : y.ts # op.ts, NEW order, IsOrder(set, order), NEW deleted,
           NEW order2, order2 = OrderWith(set, order, more, op),
           NEW frags \in Seq(Fragment), TextOf(frags, op.version, set, order, deleted),
           op.start \in Nat, \A j \in DOMAIN frags : frags[j].ts.value < op.ts.value,
           NEW i \in DOMAIN frags, NEW c, Fresh(c, op)
    PROVE  /\ i <= op.start => <<Char(frags[i]), c>> \in order2
           /\ op.start < i => <<c, Char(frags[i])>> \in order2
<1>1. PICK v, k, d : v = op.version /\ k = op.start /\ d = Char(frags[i])
  OBVIOUS
<1>2. /\ \A e : e \in Chars(more) <=> e \in Chars(set) \/ Fresh(e, op)
      /\ \A e, f : <<e, f>> \in order2
             <=> e \in Chars(more) /\ f \in Chars(more) /\ Precedes(set, order, op, e, f)
  <2>1. \A e : e \in Chars(more) <=> e \in Chars(set) \/ Fresh(e, op)
    BY FreshChars
  <2>2. /\ IsOrder(more, order2) /\ order \subseteq order2
        /\ \A e, f : <<e, f>> \in order2
               <=> e \in Chars(more) /\ f \in Chars(more) /\ Precedes(set, order, op, e, f)
    BY OrderWithFacts
  <2>3. QED
    BY <2>1, <2>2
<1>3. d \in Seen(set, v) /\ d \in Chars(set) /\ d[1] = frags[i].ts
  BY <1>1 DEF TextOf, Seen, Char
<1>4. \A j \in DOMAIN frags : Place(set, order, v, Char(frags[j])) = j
  BY <1>1, OwnPlace
<1>5. ASSUME i <= k
      PROVE  <<d, c>> \in order2
  <2>1. d \in Ahead(set, order, op)
    BY <1>1, <1>3, <1>4, <1>5 DEF Ahead
  <2>2. \A e \in Chars(set) : e = d \/ <<e, d>> \in order => Reaches(set, order, op, e)
    BY <2>1 DEF Reaches
  <2>3. d \in Before(set, order, op)
    BY <1>3, <2>2 DEF Before
  <2>4. Precedes(set, order, op, d, c)
    BY <2>3 DEF Precedes
  <2>5. QED
    BY <1>2, <1>3, <2>4
<1>6. ASSUME k < i
      PROVE  <<c, d>> \in order2
  <2>1. ~ Later(d[1], op.ts)
    <3>1. d[1].value < op.ts.value
      BY <1>3
    <3>2. d[1] \in Stamps /\ op.ts \in Stamps
      BY <1>3 DEF Chars, OpTyped
    <3>3. d[1].value \in Nat /\ op.ts.value \in Nat
      BY <3>2, StampNumbers
    <3>4. QED
      BY <3>1, <3>3 DEF Later, Earlier
  <2>2. ASSUME NEW f \in Ahead(set, order, op), d = f \/ <<d, f>> \in order
        PROVE  FALSE
    <3>1. f \in Seen(set, v) /\ Place(set, order, v, f) <= k
      BY <1>1 DEF Ahead
    <3>2. PICK j \in DOMAIN frags : Char(frags[j]) = f
      BY <1>1, <3>1 DEF TextOf
    <3>3. j <= k /\ DOMAIN frags \subseteq Nat /\ i \in Nat /\ j \in Nat
      BY <1>4, <3>1, <3>2
    <3>4. i = j \/ i < j
      <4>1. d = f => i = j
        <5>1. Place(set, order, v, d) = i /\ Place(set, order, v, f) = j
          BY <1>1, <1>4, <3>2
        <5>2. QED
          BY <5>1
      <4>2. <<d, f>> \in order => i < j
        <5>1. <<Char(frags[i]), Char(frags[j])>> \in order => i < j
          BY <3>3, TextOrder, Zenon
        <5>2. QED
          BY <1>1, <3>2, <5>1, Zenon
      <4>3. QED
        BY <2>2, <4>1, <4>2
    <3>5. QED
      BY <1>1, <1>6, <3>3, <3>4
  <2>3. ~ Reaches(set, order, op, d)
    BY <2>1, <2>2 DEF Reaches
  <2>4. d \notin Before(set, order, op)
    BY <1>3, <2>3 DEF Before
  <2>5. Precedes(set, order, op, c, d)
    BY <1>3, <2>4 DEF Precedes
  <2>6. QED
    BY <1>2, <1>3, <2>5
<1>7. QED
  BY <1>1, <1>5, <1>6

(* The author deletes what the others will find that it deleted.             *)
LEMMA OwnGone ==
    ASSUME NEW set, NEW op, NEW order, IsOrder(set, order), NEW deleted,
           \A c : <<c, op.ts>> \notin deleted,
           NEW deleted2, deleted2 = DeletedWith(set, order, deleted, op),
           NEW b, b.frags \in Seq(Fragment), Current(b.frags, b.undos),
           PartOf(b, set, order, deleted), NEW s \in Nat, NEW e \in Nat, MadeBy(b, op, s, e),
           e <= VisibleLen(b.frags), NEW i \in DOMAIN b.frags
    PROVE  i \in LocalGone(b.frags, s, e) <=> <<Char(b.frags[i]), op.ts>> \in deleted2
<1>1. PICK frags, v, c : frags = b.frags /\ v = b.version /\ c = Char(frags[i])
  OBVIOUS
<1>2. /\ frags \in Seq(Fragment) /\ i \in DOMAIN frags /\ op.version = v /\ s <= e
      /\ op.start = StartIndex(frags, s) /\ op.end = EndIndex(frags, s, e)
      /\ TextOf(frags, v, set, order, deleted) /\ b.undos = UndosAt(set, v)
  BY <1>1 DEF MadeBy, PartOf
<1>3. i \in LocalGone(frags, s, e) <=> i \in op.start + 1..op.end /\ frags[i].visible
  <2>1. e <= VisibleLen(frags)
    BY <1>1
  <2>2. QED
    BY <1>2, <2>1, LocalGoneFacts
<1>4. frags[i].visible <=> VisibleAt(set, deleted, c, v)
  <2>1. frags[i].visible <=> IsVisible(b.undos, frags[i])
    BY <1>1 DEF Current
  <2>2. IsVisible(b.undos, frags[i]) <=> VisibleAt(set, deleted, c, v)
    BY <1>1, <1>2, VisibleNow
  <2>3. QED
    BY <2>1, <2>2, Zenon
<1>5. c \in Seen(set, v) /\ Place(set, order, v, c) = i
  <2>1. c \in Seen(set, v)
    BY <1>1, <1>2 DEF TextOf
  <2>2. Place(set, order, v, Char(frags[i])) = i
    BY <1>2, OwnPlace, Zenon
  <2>3. QED
    BY <1>1, <2>1, <2>2
<1>6. Deletes(set, order, deleted, op, c) <=> i \in op.start + 1..op.end /\ frags[i].visible
  BY <1>2, <1>4, <1>5, Zenon DEF Deletes
<1>7. <<c, op.ts>> \in deleted2 <=> Deletes(set, order, deleted, op, c)
  <2>1. c \in Chars(set)
    BY <1>5 DEF Seen
  <2>2. QED
    BY <2>1 DEF DeletedWith
<1>8. QED
  BY <1>1, <1>3, <1>6, <1>7, Zenon

(* A local edit adds to the history what the author sees.                    *)
LEMMA EditPart ==
    ASSUME HistoryInv, NEW r \in Replica,
           NEW s \in 0..VisibleLen(buffer[r].frags), NEW e \in 0..VisibleLen(buffer[r].frags),
           NEW len \in 0..MaxLen, Edit(r, s, e, len)
    PROVE  HistoryInv'
<1>1. ReplicaInv
  BY DEF HistoryInv
<1>2. PICK order, deleted :
          IsHistory(ops, order, deleted) /\ AllParts(buffer, ops, order, deleted)
  BY DEF HistoryInv
<1>3. PICK op, new, clock :
          /\ SendsInto(r, op, new) /\ MadeBy(buffer[r], op, s, e)
          /\ EditedBy(buffer[r], new, op, op.start, LocalGone(buffer[r].frags, s, e), clock)
  BY <1>1, EditSends, Zenon
<1>4. PICK more : Adds(ops, more, op)
  BY DEF Adds
<1>5. PICK b, v, frags : b = buffer[r] /\ v = b.version /\ frags = b.frags
  OBVIOUS
<1>6. PICK order2, deleted2 : /\ order2 = OrderWith(ops, order, more, op)
                              /\ deleted2 = DeletedWith(ops, order, deleted, op)
  OBVIOUS
<1>7. /\ ReplicaSound(buffer, ops) /\ Sends(buffer, ops, r, op) /\ OpsSound(ops) /\ OpTyped(op)
      /\ MadeBy(b, op, s, e) /\ op.kind = "edit" /\ op.version = v
      /\ EditedBy(b, new, op, op.start, LocalGone(frags, s, e), clock)
  BY <1>1, <1>3, <1>5 DEF ReplicaInv, ReplicaSound, SendsInto, Sends, MadeBy
<1>8. Unseen(buffer, ops, op)
  BY <1>7, SentUnseen
<1>9. /\ \A y \in ops : ~ Observed(y.version, op.ts) /\ y.ts # op.ts
      /\ ~ Observed(op.version, op.ts) /\ ~ Observed(v, op.ts)
  BY <1>5, <1>8 DEF Unseen
<1>10. IsHistory(more, order2, deleted2) /\ Extends(order, order2, deleted, deleted2, op)
  BY <1>2, <1>4, <1>6, <1>7, <1>9, EditHistory
<1>11. PartOf(b, ops, order, deleted) /\ PartOf(b, more, order2, deleted2)
  <2>1. PartOf(b, ops, order, deleted) /\ ~ Observed(b.version, op.ts)
    BY <1>2, <1>5, <1>9 DEF AllParts
  <2>2. QED
    BY <1>4, <1>10, <2>1, PartBefore, Zenon
<1>12. PICK w : w = Observe(v, op.ts)
  OBVIOUS
<1>13. /\ OpsSound(more) /\ op \in more
       /\ Gains(more, v, w, op) /\ Causal(w, more)
  <2>1. Causal(v, more)
    BY <1>5, <1>11 DEF PartOf
  <2>2. v = buffer[r].version
    BY <1>5
  <2>3. QED
    BY <1>4, <1>7, <1>12, <2>1, <2>2, AuthorGains
<1>14. /\ frags \in Seq(Fragment) /\ Current(b.frags, b.undos)
       /\ b.clock \in Nat /\ \A i \in DOMAIN frags : frags[i].ts.value < b.clock
  <2>1. BufferTyped(b) /\ TextSound(b)
    BY <1>1, <1>5, OwnBuffer
  <2>2. QED
    BY <1>5, <2>1 DEF BufferTyped, TextSound
<1>15. PICK n \in Nat : n = Len(frags) /\ DOMAIN frags = 1..n
  BY <1>14
<1>16. VisibleLen(frags) \in Nat
  BY <1>15, VisibleGrows DEF VisibleLen
<1>17. /\ s \in Nat /\ e \in Nat /\ s <= VisibleLen(frags) /\ e <= VisibleLen(frags)
  <2>1. s \in 0..VisibleLen(frags) /\ e \in 0..VisibleLen(frags)
    BY <1>5
  <2>2. QED
    BY <1>16, <2>1
<1>18. op.start \in Nat /\ op.start \in 0..Len(frags)
  <2>1. op.start = StartIndex(frags, s)
    BY <1>5, <1>7 DEF MadeBy
  <2>2. op.start \in 0..Len(frags)
    BY <1>15, <1>17, <2>1, StartIndexFacts
  <2>3. QED
    BY <1>15, <2>2
<1>19. /\ TextOf(frags, v, ops, order, deleted) /\ TextOf(frags, v, more, order2, deleted2)
       /\ b.undos = UndosAt(more, v) /\ IsOrder(ops, order) /\ IsOrder(more, order2)
       /\ Known(more, deleted2) /\ op \in Edits(more)
  BY <1>2, <1>5, <1>7, <1>10, <1>11, <1>13 DEF PartOf, IsHistory, Known, Edits
<1>20. \A i \in DOMAIN frags : \A c : Fresh(c, op) =>
           /\ i <= op.start => <<Char(frags[i]), c>> \in order2
           /\ op.start < i => <<c, Char(frags[i])>> \in order2
  <2>1. \A i \in DOMAIN frags : frags[i].ts.value < op.ts.value
    <3>1. op.ts.value \in Nat /\ b.clock < op.ts.value
      <4>1. op.ts \in Stamps
        BY <1>7 DEF OpTyped
      <4>2. QED
        BY <1>7, <4>1, StampNumbers DEF MadeBy
    <3>2. SUFFICES ASSUME NEW i \in DOMAIN frags PROVE frags[i].ts.value < op.ts.value
      OBVIOUS
    <3>3. frags[i].ts.value \in Nat
      <4>1. frags[i] \in Fragment
        BY <1>14
      <4>2. frags[i].ts \in Stamps
        BY <4>1 DEF Fragment
      <4>3. QED
        BY <4>2, StampNumbers
    <3>4. QED
      BY <1>14, <3>1, <3>3
  <2>2. TextOf(frags, op.version, ops, order, deleted)
    BY <1>7, <1>19
  <2>3. SUFFICES ASSUME NEW i \in DOMAIN frags, NEW c, Fresh(c, op)
                 PROVE  /\ i <= op.start => <<Char(frags[i]), c>> \in order2
                        /\ op.start < i => <<c, Char(frags[i])>> \in order2
    OBVIOUS
  <2>4. QED
    BY <1>4, <1>6, <1>7, <1>9, <1>14, <1>18, <1>19, <2>1, <2>2, <2>3, OwnOrder, Zenon
<1>21. PICK gone : gone = LocalGone(frags, s, e)
  OBVIOUS
<1>22. \A i \in DOMAIN frags : i \in gone <=> <<Char(frags[i]), op.ts>> \in deleted2
  <2>1. SUFFICES ASSUME NEW i \in DOMAIN b.frags
                 PROVE  i \in LocalGone(b.frags, s, e) <=> <<Char(b.frags[i]), op.ts>> \in deleted2
    BY <1>5, <1>21, Zenon
  <2>2. \A c : <<c, op.ts>> \notin deleted
    <3>1. \A y \in Edits(ops) : y.ts # op.ts
      BY <1>9 DEF Edits
    <3>2. QED
      BY <1>2, <3>1 DEF IsHistory
  <2>3. b.frags \in Seq(Fragment) /\ e <= VisibleLen(b.frags)
    BY <1>5, <1>14, <1>17
  <2>4. /\ IsOrder(ops, order) /\ deleted2 = DeletedWith(ops, order, deleted, op)
        /\ Current(b.frags, b.undos) /\ PartOf(b, ops, order, deleted)
        /\ s \in Nat /\ e \in Nat /\ MadeBy(b, op, s, e)
    BY <1>6, <1>7, <1>11, <1>14, <1>17, <1>19
  <2>5. QED
    BY <2>2, <2>3, <2>4, OwnGone
<1>23. \A c, d : Fresh(c, op) /\ <<c, d>> \in deleted2 => ~ Observed(w, d)
  <2>1. v \in Version
    BY <1>1, <1>5, OwnBuffer
  <2>2. Causal(v, more)
    BY <1>5, <1>11 DEF PartOf
  <2>3. QED
    BY <1>9, <1>10, <1>13, <1>19, <2>1, <2>2, NoneDeletedYet
<1>24. PICK after : after = new.frags
  OBVIOUS
<1>25. /\ after = Edited(frags, op.start, op.ts, op.len, gone)
       /\ new.undos = b.undos /\ new.version = w
  <2>1. EditedBy(b, new, op, op.start, gone, clock)
    BY <1>7, <1>21
  <2>2. /\ new.frags = Edited(b.frags, op.start, op.ts, op.len, gone) /\ new.undos = b.undos
        /\ new.version = Observe(b.version, op.ts)
    BY <2>1, EditedByFields, Zenon
  <2>3. QED
    BY <1>5, <1>12, <1>24, <2>2, Zenon
<1>26. TextOf(after, w, more, order2, deleted2)
  <2>1. PICK k \in 0..Len(frags) : k = op.start
    BY <1>18
  <2>2. \A i \in DOMAIN frags : \A c : Fresh(c, op) =>
            /\ i <= k => <<Char(frags[i]), c>> \in order2
            /\ k < i => <<c, Char(frags[i])>> \in order2
    BY <1>20, <2>1
  <2>3. after = Edited(frags, k, op.ts, op.len, gone)
    BY <1>25, <2>1
  <2>4. ~ Observed(v, op.ts) /\ OpsSound(more) /\ Gains(more, v, w, op)
    BY <1>9, <1>13
  <2>5. frags \in Seq(Fragment)
    BY <1>14
  <2>6. QED
    BY <1>19, <1>22, <1>23, <2>2, <2>3, <2>4, <2>5, EditText
<1>27. UndosAt(more, w) = UndosAt(more, v)
  <2>1. op.kind # "undo"
    BY <1>7
  <2>2. QED
    BY <1>13, <2>1, UndosGain
<1>28. PartOf(new, more, order2, deleted2)
  BY <1>13, <1>19, <1>24, <1>25, <1>26, <1>27, Zenon DEF PartOf
<1>29. QED
  BY <1>1, <1>2, <1>3, <1>4, <1>10, <1>28, HistoryFollows, Zenon
-----------------------------------------------------------------------------
(* The base text has its order, and nothing is deleted.                      *)
LEMMA HistoryInit ==
    ASSUME Init
    PROVE  HistoryInv
<1>1. ReplicaInv
  BY ReplicaInit
<1>2. PICK ts : ts = Stamp(1, 0)
  OBVIOUS
<1>3. ts \in Stamps /\ ts.value = 1 /\ ts.replica = 0
  BY <1>2 DEF Stamp, Stamps
<1>4. BaseLen \in Nat
  BY TextAssumption
<1>5. Edits({}) = {}
  BY DEF Edits
<1>6. \A c : c \in Chars({}) <=> \E o \in 1..BaseLen : c = <<ts, o>>
  <2>1. \A c : c \in Chars({}) <=> c \in Stamps \X Nat /\ c[1] = ts /\ c[2] \in 1..BaseLen
    BY <1>2, <1>5 DEF Chars
  <2>2. \A c : c \in Stamps \X Nat /\ c[1] = ts /\ c[2] \in 1..BaseLen
                   <=> \E o \in 1..BaseLen : c = <<ts, o>>
    BY <1>3, <1>4
  <2>3. QED
    BY <2>1, <2>2, Zenon
<1>7. \A c \in Chars({}) : c[2] \in 1..BaseLen /\ c = <<ts, c[2]>>
  BY <1>6
<1>8. PICK order : order = {p \in Chars({}) \X Chars({}) : p[1][2] < p[2][2]}
  OBVIOUS
<1>9. IsOrder({}, order)
  <2>1. \A c, d \in Chars({}) : <<c, d>> \in order <=> c[2] < d[2]
    BY <1>8
  <2>2. \A c, d \in Chars({}) : c[2] \in Nat /\ (c[2] = d[2] => c = d)
    BY <1>7
  <2>3. order \subseteq Chars({}) \X Chars({})
    BY <1>8
  <2>4. \A c \in Chars({}) : <<c, c>> \notin order
    BY <2>1, <2>2
  <2>5. \A c, d \in Chars({}) : c = d \/ <<c, d>> \in order \/ <<d, c>> \in order
    <3>1. SUFFICES ASSUME NEW c \in Chars({}), NEW d \in Chars({}),
                          <<c, d>> \notin order, <<d, c>> \notin order
                   PROVE  c = d
      OBVIOUS
    <3>2. c[2] \in Nat /\ d[2] \in Nat /\ (c[2] = d[2] => c = d)
      BY <2>2
    <3>3. ~ (c[2] < d[2]) /\ ~ (d[2] < c[2])
      BY <2>1, <3>1
    <3>4. QED
      BY <3>2, <3>3
  <2>6. \A c, d, e \in Chars({}) :
           <<c, d>> \in order /\ <<d, e>> \in order => <<c, e>> \in order
    <3>1. SUFFICES ASSUME NEW c \in Chars({}), NEW d \in Chars({}), NEW e \in Chars({}),
                          <<c, d>> \in order, <<d, e>> \in order
                   PROVE  <<c, e>> \in order
      OBVIOUS
    <3>2. c[2] \in Nat /\ d[2] \in Nat /\ e[2] \in Nat
      BY <2>2
    <3>3. c[2] < d[2] /\ d[2] < e[2]
      BY <2>1, <3>1
    <3>4. c[2] < e[2]
      BY <3>2, <3>3
    <3>5. QED
      BY <2>1, <3>4
  <2>7. \A c, d \in Chars({}) : c[1] = d[1] /\ c[2] < d[2] => <<c, d>> \in order
    BY <2>1
  <2>8. QED
    BY <2>3, <2>4, <2>5, <2>6, <2>7 DEF IsOrder
<1>10. IsHistory({}, order, {})
  BY <1>5, <1>9 DEF IsHistory
<1>11. PICK b, frags : b = NewBuffer /\ frags = Inserted(ts, BaseLen)
  OBVIOUS
<1>12. b.frags = frags /\ b.undos = {} /\ b.version = Version0
  BY <1>2, <1>11 DEF NewBuffer
<1>13. DOMAIN frags = 1..BaseLen
       /\ \A i \in 1..BaseLen : Char(frags[i]) = <<ts, i>> /\ frags[i].deletions = {}
  BY <1>11 DEF Inserted, Char
<1>14. Observed(Version0, ts)
  BY <1>3 DEF Observed, Version0
<1>15. \A c : c \in Seen({}, Version0) <=> \E o \in 1..BaseLen : c = <<ts, o>>
  <2>1. \A c \in Chars({}) : c[1] = ts
    BY <1>6
  <2>2. QED
    BY <1>6, <1>14, <2>1 DEF Seen
<1>16. TextOf(frags, Version0, {}, order, {})
  <2>1. \A i, j \in 1..BaseLen : i < j => <<Char(frags[i]), Char(frags[j])>> \in order
    <3>1. SUFFICES ASSUME NEW i \in 1..BaseLen, NEW j \in 1..BaseLen, i < j
                   PROVE  <<Char(frags[i]), Char(frags[j])>> \in order
      OBVIOUS
    <3>2. <<ts, i>> \in Chars({}) /\ <<ts, j>> \in Chars({})
      BY <1>6
    <3>3. QED
      BY <1>8, <1>13, <3>1, <3>2
  <2>2. QED
    BY <1>13, <1>15, <2>1 DEF TextOf
<1>17. PartOf(b, {}, order, {})
  <2>1. UndosAt({}, Version0) = {} /\ Causal(Version0, {})
    BY DEF UndosAt, Causal
  <2>2. QED
    BY <1>12, <1>16, <2>1, Zenon DEF PartOf
<1>18. ops = {} /\ \A r \in Replica : buffer[r] = b
  BY <1>11 DEF Init
<1>19. AllParts(buffer, ops, order, {}) /\ IsHistory(ops, order, {})
  BY <1>10, <1>17, <1>18 DEF AllParts
<1>20. QED
  BY <1>1, <1>19 DEF HistoryInv

LEMMA HistoryStep ==
    ASSUME HistoryInv, Next
    PROVE  HistoryInv'
<1>1. PICK r \in Replica :
          \/ \E s, e \in 0..VisibleLen(buffer[r].frags), len \in 0..MaxLen : Edit(r, s, e, len)
          \/ \E op \in Sent("edit") : Undo(r, op.ts)
          \/ \E seq \in Batches({op \in ops : op.ts.replica # r}) : Receive(r, seq)
  BY DEF Next
<1>2. CASE \E s, e \in 0..VisibleLen(buffer[r].frags), len \in 0..MaxLen : Edit(r, s, e, len)
  BY <1>2, EditPart
<1>3. CASE \E op \in Sent("edit") : Undo(r, op.ts)
  <2>1. PICK op \in Sent("edit") : Undo(r, op.ts)
    BY <1>3
  <2>2. op.ts \in Stamps
    BY <2>1 DEF Sent, HistoryInv, ReplicaInv, ReplicaSound, OpsSound, OpTyped
  <2>3. QED
    BY <2>1, <2>2, UndoPart
<1>4. CASE \E seq \in Batches({op \in ops : op.ts.replica # r}) : Receive(r, seq)
  BY <1>4, ReceiveHistory
<1>5. QED
  BY <1>1, <1>2, <1>3, <1>4

(* At every moment there is one order of all characters that were ever       *)
(* inserted, and one record of which edit deleted which of them, and every   *)
(* buffer is the part of both that its version covers: apply_remote_edit     *)
(* finds, by counting, the very place and the very characters that the       *)
(* author had, whatever else was inserted, deleted or undone meanwhile.      *)
THEOREM HistoryInvariance == Spec => []HistoryInv
<1>1. Init => HistoryInv
  BY HistoryInit
<1>2. HistoryInv /\ [Next]_vars => HistoryInv'
  <2>1. ASSUME HistoryInv, UNCHANGED vars
        PROVE  HistoryInv'
    BY <2>1 DEF vars, HistoryInv, ReplicaInv, AllParts
  <2>2. QED
    BY <2>1, HistoryStep
<1>3. QED
  BY <1>1, <1>2, PTL DEF Spec

(* Buffers that cover the same operations are the same.                      *)
LEMMA SameText ==
    ASSUME NEW set, NEW order, IsOrder(set, order), NEW deleted, NEW v, NEW undos,
           NEW f \in Seq(Fragment), TextOf(f, v, set, order, deleted), Current(f, undos),
           NEW g \in Seq(Fragment), TextOf(g, v, set, order, deleted), Current(g, undos)
    PROVE  f = g
<1>1. /\ \A i \in DOMAIN f : Place(set, order, v, Char(f[i])) = i
      /\ \A i \in DOMAIN g : Place(set, order, v, Char(g[i])) = i
  BY OwnPlace
<1>2. \A i \in DOMAIN f : i \in DOMAIN g /\ Char(g[i]) = Char(f[i])
  <2>1. SUFFICES ASSUME NEW i \in DOMAIN f PROVE i \in DOMAIN g /\ Char(g[i]) = Char(f[i])
    OBVIOUS
  <2>2. PICK m \in DOMAIN g : Char(g[m]) = Char(f[i])
    BY DEF TextOf
  <2>3. m = i
    BY <1>1, <2>2
  <2>4. QED
    BY <2>2, <2>3
<1>3. \A i \in DOMAIN g : i \in DOMAIN f
  <2>1. SUFFICES ASSUME NEW i \in DOMAIN g PROVE i \in DOMAIN f
    OBVIOUS
  <2>2. PICK m \in DOMAIN f : Char(f[m]) = Char(g[i])
    BY DEF TextOf
  <2>3. m = i
    BY <1>1, <2>2
  <2>4. QED
    BY <2>2, <2>3
<1>4. ASSUME NEW i \in DOMAIN f
      PROVE  f[i] = g[i]
  <2>1. PICK x \in Fragment, y \in Fragment : x = f[i] /\ y = g[i]
    BY <1>2
  <2>2. i \in DOMAIN g /\ Char(y) = Char(x)
    BY <1>2, <2>1
  <2>3. y.ts = x.ts /\ y.offset = x.offset
    BY <2>2 DEF Char
  <2>4. x.deletions \subseteq Stamps /\ y.deletions \subseteq Stamps
    BY DEF Fragment
  <2>5. \A d \in Stamps : d \in x.deletions <=> d \in y.deletions
    BY <2>1, <2>2, Zenon DEF TextOf
  <2>6. x.deletions = y.deletions
    BY <2>4, <2>5
  <2>7. x.visible = y.visible
    <3>1. x.visible = IsVisible(undos, x) /\ y.visible = IsVisible(undos, y)
      BY <2>1, <2>2, Zenon DEF Current
    <3>2. IsVisible(undos, x) = IsVisible(undos, y)
      BY <2>3, <2>6, Zenon DEF IsVisible
    <3>3. QED
      BY <3>1, <3>2, Zenon
  <2>8. x = [ts |-> x.ts, offset |-> x.offset, deletions |-> x.deletions, visible |-> x.visible]
    BY DEF Fragment
  <2>9. y = [ts |-> y.ts, offset |-> y.offset, deletions |-> y.deletions, visible |-> y.visible]
    BY DEF Fragment
  <2>10. QED
    BY <2>1, <2>3, <2>6, <2>7, <2>8, <2>9, Zenon
<1>5. DOMAIN f = DOMAIN g
  BY <1>2, <1>3
<1>6. f = [i \in DOMAIN f |-> f[i]] /\ g = [i \in DOMAIN g |-> g[i]]
  OBVIOUS
<1>7. QED
  BY <1>4, <1>5, <1>6, Zenon

LEMMA ConvergenceFollows ==
    ASSUME HistoryInv
    PROVE  Convergence
<1>1. PICK order, deleted :
          IsHistory(ops, order, deleted) /\ AllParts(buffer, ops, order, deleted)
  BY DEF HistoryInv
<1>2. IsOrder(ops, order)
  BY <1>1 DEF IsHistory
<1>3. ASSUME NEW q \in Replica, NEW r \in Replica
      PROVE  /\ SameOrder(buffer[q].frags, buffer[r].frags)
             /\ buffer[q].version = buffer[r].version => buffer[q].frags = buffer[r].frags
  <2>1. PICK f, g, v, w, a, b : /\ f = buffer[q].frags /\ g = buffer[r].frags
                                /\ v = buffer[q].version /\ w = buffer[r].version
                                /\ a = buffer[q].undos /\ b = buffer[r].undos
    OBVIOUS
  <2>2. /\ f \in Seq(Fragment) /\ TextOf(f, v, ops, order, deleted) /\ Current(f, a)
        /\ g \in Seq(Fragment) /\ TextOf(g, w, ops, order, deleted) /\ Current(g, b)
        /\ a = UndosAt(ops, v) /\ b = UndosAt(ops, w)
    BY <1>1, <2>1 DEF AllParts, PartOf, HistoryInv, ReplicaInv, ReplicaSound, BufferSound,
                      BufferTyped, TextSound
  <2>3. DOMAIN f \subseteq Nat /\ DOMAIN g \subseteq Nat
    BY <2>2
  <2>4. /\ \A i, j \in DOMAIN f : <<Char(f[i]), Char(f[j])>> \in order <=> i < j
        /\ \A m, n \in DOMAIN g : <<Char(g[m]), Char(g[n])>> \in order <=> m < n
    BY <1>2, <2>2, <2>3, TextOrder
  <2>5. SameOrder(f, g)
    BY <2>4, Zenon DEF SameOrder
  <2>6. v = w => f = g
    BY <1>2, <2>2, SameText
  <2>7. QED
    BY <2>1, <2>5, <2>6, Zenon
<1>4. QED
  BY <1>3, Zenon DEF Convergence

(* Whatever was sent and in whatever order it arrived, any two replicas have *)
(* the characters both know in the same order, and those that have observed  *)
(* the same operations have the same fragments, deleted by the same edits    *)
(* and visible alike.                                                        *)
THEOREM Converges == Spec => []Convergence
  BY ConvergenceFollows, HistoryInvariance, PTL
=============================================================================
