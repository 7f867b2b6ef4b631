--------------------------- MODULE AlertLedgerProofs ---------------------------
(***************************************************************************)
(* What the operations of the ledger keep of it, for every ledger, verdict *)
(* and time, and for any of its limits.                                    *)
(*                                                                         *)
(* Finite sets of numbers come first: the ledger is evicted from by place  *)
(* and by time, and tlapm cannot use the induction theorems of its         *)
(* library, which take an operator; FiniteSetsDescend takes a set in its   *)
(* place.                                                                  *)
(***************************************************************************)
EXTENDS HermesHost, FiniteSetTheorems, FunctionTheorems, SequenceTheorems, TLAPS

-----------------------------------------------------------------------------
(* Finite sets of numbers. *)

\* What holds of a finite set whenever it holds of that set without any one of
\* its elements holds of every finite set: there would be a minimal one without.
LEMMA FiniteSetsDescend ==
    ASSUME NEW S, IsFiniteSet(S), NEW Good,
           \A T \in SUBSET S : (\A x \in T : T \ {x} \in Good) => T \in Good
    PROVE  S \in Good
<1> DEFINE Bad == {T \in SUBSET S : T \notin Good}
<1> SUFFICES ASSUME Bad # {} PROVE FALSE
  OBVIOUS
<1>1. IsWellFoundedOn(StrictSubsetOrdering(S), SUBSET S)
  <2>1. IsWellFoundedOn(StrictSubsetOrdering(S), FiniteSubsetsOf(S))
    BY FS_StrictSubsetOrderingWellFounded
  <2>2. FiniteSubsetsOf(S) = SUBSET S
    BY FS_FiniteSubsetsOfFinite
  <2> QED
    BY <2>1, <2>2
<1>2. PICK T \in Bad : \A U \in Bad : ~ (<<U, T>> \in StrictSubsetOrdering(S))
  <2>1. Bad \subseteq SUBSET S
    OBVIOUS
  <2> HIDE DEF Bad
  <2> QED
    BY <1>1, <2>1, WFMin
<1>3. PICK x \in T : T \ {x} \notin Good
  BY <1>2
<1>4. T \ {x} \in Bad /\ <<T \ {x}, T>> \in StrictSubsetOrdering(S)
  BY <1>2, <1>3 DEF StrictSubsetOrdering
<1> QED
  BY <1>2, <1>4

\* A finite set of integers that is not empty has a greatest element.
LEMMA GreatestExists ==
    ASSUME NEW S \in SUBSET Int, IsFiniteSet(S), S # {}
    PROVE  \E x \in S : \A y \in S : y <= x
<1> DEFINE Good == {T \in SUBSET S : T # {} => \E x \in T : \A y \in T : y <= x}
<1>1. ASSUME NEW T \in SUBSET S, \A x \in T : T \ {x} \in Good
      PROVE  T \in Good
  <2> SUFFICES ASSUME T # {} PROVE \E x \in T : \A y \in T : y <= x
    OBVIOUS
  <2>1. PICK a \in T : TRUE
    OBVIOUS
  <2>2. CASE T = {a}
    BY <2>2
  <2>3. CASE T # {a}
    <3>1. PICK b \in T \ {a} : \A y \in T \ {a} : y <= b
      BY <1>1, <2>1, <2>3
    <3>2. a \in Int /\ b \in Int /\ T \subseteq Int
      OBVIOUS
    <3>3. CASE a <= b
      BY <3>1, <3>2, <3>3
    <3>4. CASE ~(a <= b)
      BY <3>1, <3>2, <3>4
    <3> QED
      BY <3>3, <3>4
  <2> QED
    BY <2>2, <2>3
<1>2. S \in Good
  <2> HIDE DEF Good
  <2> QED
    BY <1>1, FiniteSetsDescend
<1> QED
  BY <1>2

\* Max chooses it.
LEMMA MaxOfFinite ==
    ASSUME NEW S \in SUBSET Int, IsFiniteSet(S), S # {}
    PROVE  Max(S) \in S /\ \A y \in S : y <= Max(S)
<1>1. \E x \in S : \A y \in S : x >= y
  BY GreatestExists
<1> QED
  BY <1>1 DEF Max

Increasing(s, n) == \A i, j \in 1 .. n : i < j => s[i] < s[j]

\* A finite set of integers can be listed in increasing order.
LEMMA AscendingExists ==
    ASSUME NEW S \in SUBSET Int, IsFiniteSet(S)
    PROVE  \E s \in [1 .. Cardinality(S) -> S] : Increasing(s, Cardinality(S))
<1> DEFINE Good == {T \in SUBSET S : \E s \in [1 .. Cardinality(T) -> T] :
                                        Increasing(s, Cardinality(T))}
<1>1. ASSUME NEW T \in SUBSET S, \A x \in T : T \ {x} \in Good
      PROVE  T \in Good
  <2>0. IsFiniteSet(T) /\ Cardinality(T) \in Nat
    BY FS_Subset, FS_CardinalityType
  <2>1. CASE T = {}
    <3>1. Cardinality(T) = 0
      BY <2>1, FS_EmptySet
    <3>2. 1 .. Cardinality(T) = {}
      BY <3>1
    <3>3. [i \in {} |-> 0] \in [1 .. Cardinality(T) -> T]
      BY <3>2
    <3>4. Increasing([i \in {} |-> 0], Cardinality(T))
      BY <3>2 DEF Increasing
    <3> QED
      BY <3>3, <3>4
  <2>2. CASE T # {}
    <3>1. PICK a \in T : \A y \in T : y <= a
      BY <2>0, <2>2, GreatestExists
    <3> DEFINE n == Cardinality(T \ {a})
    <3>2. Cardinality(T) = n + 1 /\ n \in Nat
      <4>1. IsFiniteSet(T \ {a})
        BY <2>0, FS_RemoveElement
      <4>2. Cardinality(T \ {a}) = Cardinality(T) - 1
        BY <2>0, FS_RemoveElement
      <4>3. n \in Nat
        BY <4>1, FS_CardinalityType
      <4> QED
        BY <2>0, <4>2, <4>3
    <3>3. PICK s \in [1 .. n -> T \ {a}] : Increasing(s, n)
      BY <1>1
    <3> HIDE DEF n
    <3> DEFINE u == [i \in 1 .. n + 1 |-> IF i = n + 1 THEN a ELSE s[i]]
    <3>4. u \in [1 .. n + 1 -> T]
      <4>1. ASSUME NEW i \in 1 .. n + 1 PROVE u[i] \in T
        BY <3>2, <3>3
      <4> QED
        BY <4>1
    <3>5. Increasing(u, n + 1)
      <4> SUFFICES ASSUME NEW i \in 1 .. n + 1, NEW j \in 1 .. n + 1, i < j
                   PROVE  u[i] < u[j]
        BY DEF Increasing
      <4>1. i \in 1 .. n /\ u[i] = s[i] /\ s[i] \in T \ {a}
        BY <3>2, <3>3
      <4>2. CASE j = n + 1
        <5>1. u[j] = a /\ s[i] # a /\ s[i] <= a /\ s[i] \in Int /\ a \in Int
          BY <3>1, <4>1, <4>2
        <5> QED
          BY <4>1, <5>1
      <4>3. CASE j # n + 1
        <5>1. j \in 1 .. n
          BY <3>2, <4>3
        <5> QED
          BY <3>2, <3>3, <4>1, <5>1 DEF Increasing
      <4> QED
        BY <4>2, <4>3
    <3> QED
      BY <3>2, <3>4, <3>5
  <2> QED
    BY <2>1, <2>2
<1>2. S \in Good
  <2> HIDE DEF Good
  <2> QED
    BY <1>1, FiniteSetsDescend
<1> QED
  BY <1>2

\* There are n numbers up to n.
LEMMA UpTo ==
    ASSUME NEW n \in Nat
    PROVE  IsFiniteSet(1 .. n) /\ Cardinality(1 .. n) = n
  BY FS_Interval

\* Two values make a finite set.
LEMMA PairFinite ==
    ASSUME NEW x, NEW y
    PROVE  IsFiniteSet({x, y})
<1>1. IsFiniteSet({x})
  BY FS_Singleton
<1>2. IsFiniteSet({x} \cup {y})
  BY <1>1, FS_AddElement
<1> QED
  BY <1>2

\* Ascending lists every element of its set once.
LEMMA AscendingOK ==
    ASSUME NEW S \in SUBSET Int, IsFiniteSet(S)
    PROVE  /\ Cardinality(S) \in Nat
           /\ Ascending(S) \in [1 .. Cardinality(S) -> S]
           /\ Increasing(Ascending(S), Cardinality(S))
           /\ \A i, j \in 1 .. Cardinality(S) :
                 Ascending(S)[i] = Ascending(S)[j] => i = j
           /\ \A x \in S : \E i \in 1 .. Cardinality(S) : Ascending(S)[i] = x
<1> DEFINE n == Cardinality(S)
           a == Ascending(S)
<1>1. n \in Nat
  BY FS_CardinalityType
<1>2. a \in [1 .. n -> S] /\ Increasing(a, n)
  BY AscendingExists DEF Ascending, Increasing
<1> HIDE DEF n, a
<1>3. ASSUME NEW i \in 1 .. n, NEW j \in 1 .. n, a[i] = a[j] PROVE i = j
  <2>1. a[i] \in S /\ a[j] \in S /\ i \in Int /\ j \in Int
    BY <1>1, <1>2
  <2>2. ~(i < j) /\ ~(j < i)
    <3>1. a[i] \in Int /\ a[j] \in Int
      BY <2>1
    <3> QED
      BY <1>2, <1>3, <3>1 DEF Increasing
  <2> QED
    BY <2>1, <2>2
<1>4. a \in Injection(1 .. n, S)
  BY <1>2, <1>3, Fun_IsInj
<1>5. IsFiniteSet(S) /\ Cardinality(1 .. n) = n
  BY <1>1, UpTo
<1>6. a \in Surjection(1 .. n, S)
  BY <1>4, <1>5, FS_Injection DEF n
<1>7. \A x \in S : \E i \in 1 .. n : a[i] = x
  BY <1>6 DEF Surjection
<1> QED
  BY <1>1, <1>2, <1>3, <1>7 DEF n, a

\* The numbers up to n in increasing order are 1, 2, ..., n.
LEMMA AscendingInterval ==
    ASSUME NEW n \in Nat, NEW i \in 1 .. n
    PROVE  Ascending(1 .. n)[i] = i
<1> DEFINE a == Ascending(1 .. n)
           D == {j \in 1 .. n : a[j] # j}
<1>1. 1 .. n \in SUBSET Int /\ IsFiniteSet(1 .. n) /\ Cardinality(1 .. n) = n
  BY FS_Interval
<1>2. /\ a \in [1 .. n -> 1 .. n] /\ Increasing(a, n)
      /\ \A j, k \in 1 .. n : a[j] = a[k] => j = k
      /\ \A x \in 1 .. n : \E j \in 1 .. n : a[j] = x
  BY <1>1, AscendingOK
<1> SUFFICES ASSUME D # {} PROVE FALSE
  OBVIOUS
<1>3. D \in SUBSET Int /\ IsFiniteSet(D)
  BY <1>1, FS_Subset
<1>4. PICK m \in D : \A y \in D : y <= m
  BY <1>3, GreatestExists
<1> HIDE DEF a
<1>5. \A j \in 1 .. n : j > m => a[j] = j
  BY <1>4
<1>6. m \in 1 .. n /\ a[m] \in 1 .. n /\ a[m] # m
  BY <1>2, <1>4
<1>7. a[m] < m
  <2> SUFFICES ASSUME a[m] > m PROVE FALSE
    BY <1>6
  <2>1. a[a[m]] = a[m]
    BY <1>5, <1>6
  <2> QED
    BY <1>2, <1>6, <2>1
<1>8. PICK k \in 1 .. n : a[k] = m
  BY <1>2, <1>6
<1>9. k < m
  BY <1>5, <1>6, <1>8
<1>10. a[k] < a[m]
  BY <1>2, <1>6, <1>9 DEF Increasing
<1> QED
  BY <1>6, <1>7, <1>8, <1>10

\* What a comprehension keeps: elements of the list at distinct places, those
\* that were asked for.
LEMMA KeepingOK ==
    ASSUME NEW T, NEW s \in Seq(T), NEW places \in SUBSET (DOMAIN s)
    PROVE  /\ Keeping(s, places) \in Seq(T)
           /\ Len(Keeping(s, places)) = Cardinality(places)
           /\ Len(Keeping(s, places)) <= Len(s)
           /\ \E a \in [1 .. Len(Keeping(s, places)) -> places] :
                 /\ \A i \in DOMAIN a : Keeping(s, places)[i] = s[a[i]]
                 /\ \A i, j \in DOMAIN a : a[i] = a[j] => i = j
           /\ \A p \in places : \E i \in DOMAIN Keeping(s, places) :
                 Keeping(s, places)[i] = s[p]
           /\ places = DOMAIN s => Keeping(s, places) = s
<1> DEFINE n == Cardinality(places)
           a == Ascending(places)
           k == Keeping(s, places)
<1>1. DOMAIN s = 1 .. Len(s) /\ Len(s) \in Nat /\ s \in [1 .. Len(s) -> T]
  BY LenProperties
<1>2. IsFiniteSet(1 .. Len(s)) /\ Cardinality(1 .. Len(s)) = Len(s)
  BY <1>1, UpTo
<1>3. /\ places \in SUBSET (1 .. Len(s)) /\ IsFiniteSet(places)
      /\ Cardinality(places) <= Len(s)
  BY <1>1, <1>2, FS_Subset
<1>4. places \in SUBSET Int
  BY <1>1
<1>5. /\ n \in Nat /\ a \in [1 .. n -> places]
      /\ \A i, j \in 1 .. n : a[i] = a[j] => i = j
      /\ \A x \in places : \E i \in 1 .. n : a[i] = x
  BY <1>3, <1>4, AscendingOK
<1>6. k = [i \in 1 .. n |-> s[a[i]]]
  BY DEF Keeping
<1> HIDE DEF n, a, k
<1>7. \A i \in 1 .. n : a[i] \in 1 .. Len(s) /\ s[a[i]] \in T
  BY <1>1, <1>3, <1>5
<1>8. k \in Seq(T) /\ Len(k) = n /\ DOMAIN k = 1 .. n
  BY <1>5, <1>6, <1>7
<1>9. \A i \in DOMAIN a : k[i] = s[a[i]]
  BY <1>5, <1>6
<1>10. \A p \in places : \E i \in DOMAIN k : k[i] = s[p]
  BY <1>5, <1>6, <1>8
<1>11. ASSUME places = DOMAIN s PROVE k = s
  <2>1. n = Len(s) /\ places = 1 .. Len(s)
    BY <1>1, <1>2, <1>11 DEF n
  <2>2. \A i \in 1 .. n : a[i] = i
    BY <1>5, <2>1, AscendingInterval DEF a
  <2>3. \A i \in 1 .. n : k[i] = s[i]
    BY <1>6, <2>2
  <2> QED
    BY <1>8, <2>1, <2>3, SeqEqual
<1> QED
  BY <1>3, <1>5, <1>8, <1>9, <1>10, <1>11 DEF n, k

-----------------------------------------------------------------------------
(* Lists of episodes. *)

\* An episode; its count has no bound but the commits, see AtMost.
EpisodeRecord == [since : 1 .. MaxNotices, count : Nat \ {0},
                  resolved : BOOLEAN, seen : Nat]

\* No two episodes of a family have one start.
OneStart(s) == \A m, n \in DOMAIN s : s[m].since = s[n].since => m = n

\* The newest episodes of a family are some of them, as many as are kept, and
\* all of them when there are no more (_prune, __init__.py:186-203).
LEMMA NewestOK ==
    ASSUME NEW T, NEW s \in Seq(T), s # <<>>, MaxEpisodes \in Nat \ {0}
    PROVE  /\ Newest(s) \in Seq(T)
           /\ Len(Newest(s)) \in 1 .. MaxEpisodes
           /\ Range(Newest(s)) \subseteq Range(s)
           /\ OneStart(s) => OneStart(Newest(s))
           /\ Len(s) <= MaxEpisodes => Newest(s) = s
<1> DEFINE first == Max({1, Len(s) - MaxEpisodes + 1})
           k == Newest(s)
<1>1. /\ Len(s) \in Nat \ {0}
      /\ DOMAIN s = 1 .. Len(s)
      /\ \A i \in 1 .. Len(s) : s[i] \in T
  BY LenProperties, EmptySeq
<1>2. /\ first \in {1, Len(s) - MaxEpisodes + 1}
      /\ first >= 1 /\ first >= Len(s) - MaxEpisodes + 1
  <2> DEFINE S == {1, Len(s) - MaxEpisodes + 1}
  <2>1. S \in SUBSET Int /\ S # {}
    BY <1>1
  <2>2. IsFiniteSet(S)
    BY PairFinite
  <2>3. Max(S) \in S /\ \A y \in S : y <= Max(S)
    BY <2>1, <2>2, MaxOfFinite
  <2> QED
    BY <1>1, <2>3
<1> HIDE DEF first
<1>3. first \in 1 .. Len(s)
  BY <1>1, <1>2
<1>4. \A i \in first .. Len(s) : s[i] \in T
  BY <1>1, <1>3
<1>5. /\ k \in Seq(T) /\ Len(k) = Len(s) - first + 1
      /\ \A i \in 1 .. Len(s) - first + 1 : k[i] = s[first + i - 1]
  <2>1. first \in Int /\ Len(s) \in Int /\ first <= Len(s)
    BY <1>1, <1>3
  <2>2. k = SubSeq(s, first, Len(s))
    BY DEF Newest, first
  <2>3. /\ SubSeq(s, first, Len(s)) \in Seq(T)
        /\ Len(SubSeq(s, first, Len(s))) = IF first <= Len(s)
                                          THEN Len(s) - first + 1 ELSE 0
        /\ \A i \in 1 .. Len(s) - first + 1 :
              SubSeq(s, first, Len(s))[i] = s[first + i - 1]
    BY <1>4, <2>1, SubSeqProperties
  <2> QED
    BY <2>1, <2>2, <2>3
<1> HIDE DEF k
<1>6. DOMAIN k = 1 .. Len(s) - first + 1
  BY <1>5
<1>7. Len(k) \in 1 .. MaxEpisodes
  BY <1>1, <1>2, <1>3, <1>5
<1>8. \A i \in DOMAIN k : first + i - 1 \in DOMAIN s /\ k[i] = s[first + i - 1]
  BY <1>1, <1>3, <1>5, <1>6
<1>9. Range(k) \subseteq Range(s)
  BY <1>8 DEF Range
<1>10. ASSUME OneStart(s) PROVE OneStart(k)
  <2> SUFFICES ASSUME NEW i \in DOMAIN k, NEW j \in DOMAIN k,
                      k[i].since = k[j].since
               PROVE  i = j
    BY DEF OneStart
  <2>1. first + i - 1 = first + j - 1
    BY <1>8, <1>10 DEF OneStart
  <2> QED
    BY <1>1, <1>3, <1>6, <2>1
<1>11. ASSUME Len(s) <= MaxEpisodes PROVE k = s
  <2>1. first = 1
    BY <1>1, <1>2, <1>11
  <2>2. \A i \in 1 .. Len(s) : k[i] = s[i]
    BY <1>1, <1>5, <2>1
  <2> QED
    BY <1>1, <1>5, <2>1, <2>2, SeqEqual
<1> QED
  BY <1>5, <1>7, <1>9, <1>10, <1>11 DEF k

-----------------------------------------------------------------------------
(* Sets of numbers. *)

\* A function has no more values than arguments.
LEMMA ImageFinite ==
    ASSUME NEW S, IsFiniteSet(S), NEW h, S \subseteq DOMAIN h
    PROVE  IsFiniteSet({h[x] : x \in S})
<1> DEFINE T == {h[x] : x \in S}
           g == [x \in S |-> h[x]]
<1>1. g \in Surjection(S, T)
  BY DEF Surjection
<1> QED
  BY <1>1, FS_Surjection

\* The places after fewer than N others number at most N, and are all of them
\* when there are no more.
LEMMA FirstPlaces ==
    ASSUME NEW K, IsFiniteSet(K), NEW h \in [K -> Int], NEW N \in Nat,
           \A f, g \in K : h[f] = h[g] => f = g
    PROVE  LET Later(f) == {g \in K : h[g] > h[f]}
               First == {g \in K : Cardinality(Later(g)) < N}
           IN  /\ IsFiniteSet(First) /\ Cardinality(First) <= N
               /\ Cardinality(K) <= N => First = K
<1> DEFINE Later(f) == {g \in K : h[g] > h[f]}
           First == {g \in K : Cardinality(Later(g)) < N}
           rank == [g \in First |-> Cardinality(Later(g))]
<1>1. \A f \in K : IsFiniteSet(Later(f)) /\ Cardinality(Later(f)) \in Nat
  <2> TAKE f \in K
  <2>1. Later(f) \in SUBSET K
    OBVIOUS
  <2>2. IsFiniteSet(Later(f))
    BY <2>1, FS_Subset
  <2> QED
    BY <2>2, FS_CardinalityType
<1>2. ASSUME NEW f \in K, NEW g \in K, h[f] < h[g]
      PROVE  Cardinality(Later(g)) < Cardinality(Later(f))
  <2>1. Later(g) \in SUBSET Later(f)
    BY <1>2
  <2>2. g \in Later(f) /\ g \notin Later(g)
    BY <1>2
  <2>3. Cardinality(Later(g)) <= Cardinality(Later(f))
    BY <1>1, <2>1, FS_Subset
  <2>4. Cardinality(Later(f)) # Cardinality(Later(g))
    BY <1>1, <2>1, <2>2, FS_Subset
  <2>5. Cardinality(Later(f)) \in Nat /\ Cardinality(Later(g)) \in Nat
    BY <1>1
  <2> HIDE DEF Later
  <2> QED
    BY <2>3, <2>4, <2>5
<1>3. ASSUME NEW f \in K
      PROVE  Cardinality(Later(f)) < Cardinality(K)
  <2>1. Later(f) \in SUBSET K /\ f \notin Later(f)
    OBVIOUS
  <2>2. /\ Cardinality(Later(f)) <= Cardinality(K)
        /\ Cardinality(K) # Cardinality(Later(f))
    BY <2>1, FS_Subset
  <2>3. Cardinality(K) \in Nat
    BY FS_CardinalityType
  <2> QED
    BY <1>1, <2>2, <2>3
<1> HIDE DEF Later
<1>4. rank \in [First -> 0 .. N - 1]
  <2>1. ASSUME NEW g \in First PROVE rank[g] \in 0 .. N - 1
    BY <1>1
  <2> QED
    BY <2>1
<1>5. ASSUME NEW f \in First, NEW g \in First, rank[f] = rank[g]
      PROVE  f = g
  <2>1. h[f] \in Int /\ h[g] \in Int /\ f \in K /\ g \in K
    OBVIOUS
  <2>2. Cardinality(Later(f)) = Cardinality(Later(g))
    BY <1>5
  <2>3. ~(h[f] < h[g]) /\ ~(h[g] < h[f])
    BY <1>1, <1>2, <2>1, <2>2
  <2> QED
    BY <2>1, <2>3
<1>6. rank \in Injection(First, 0 .. N - 1)
  <2> HIDE DEF First, rank
  <2> QED
    BY <1>4, <1>5, Fun_IsInj
<1>7. IsFiniteSet(0 .. N - 1) /\ Cardinality(0 .. N - 1) = N
  BY FS_Interval
<1>8. IsFiniteSet(First) /\ Cardinality(First) <= N
  <2> HIDE DEF First, rank
  <2> QED
    BY <1>6, <1>7, FS_Injection
<1>9. ASSUME Cardinality(K) <= N PROVE First = K
  <2>1. Cardinality(K) \in Nat
    BY FS_CardinalityType
  <2> QED
    BY <1>1, <1>3, <1>9, <2>1
<1> QED
  BY <1>8, <1>9 DEF Later

-----------------------------------------------------------------------------
(* One family. *)

\* Every element of s is one of t.
Within(s, t) == \A i \in DOMAIN s : \E j \in DOMAIN t : s[i] = t[j]

\* What is left of the episodes of a family is some of them, and all of them
\* when none is old and they are not too many.
LEMMA YoungOK ==
    ASSUME NEW s \in Seq(EpisodeRecord), NEW now \in Nat,
           MaxEpisodes \in Nat \ {0}, MaxAge \in Nat \ {0}
    PROVE  /\ Young(s, now) \in Seq(EpisodeRecord)
           /\ Len(Young(s, now)) <= MaxEpisodes
           /\ Within(Young(s, now), s)
           /\ OneStart(s) => OneStart(Young(s, now))
           /\ /\ Len(s) \in 1 .. MaxEpisodes
              /\ now <= MaxAge
              => Young(s, now) = s
<1> DEFINE places == {i \in DOMAIN s : now - s[i].seen <= MaxAge}
           k == Keeping(s, places)
<1>1. /\ DOMAIN s = 1 .. Len(s)
      /\ Len(s) \in Nat
      /\ \A i \in DOMAIN s : s[i] \in EpisodeRecord
  BY LenProperties
<1>2. places \in SUBSET (DOMAIN s)
  OBVIOUS
<1>3. /\ k \in Seq(EpisodeRecord) /\ Len(k) <= Len(s)
      /\ \E a \in [1 .. Len(k) -> places] :
            /\ \A i \in DOMAIN a : k[i] = s[a[i]]
            /\ \A i, j \in DOMAIN a : a[i] = a[j] => i = j
      /\ places = DOMAIN s => k = s
  <2> HIDE DEF places
  <2> QED
    BY <1>2, KeepingOK
<1>4. Young(s, now) = Newest(k)
  BY DEF Young
<1>5. PICK a \in [1 .. Len(k) -> places] :
            /\ \A i \in DOMAIN a : k[i] = s[a[i]]
            /\ \A i, j \in DOMAIN a : a[i] = a[j] => i = j
  BY <1>3
<1>6. ASSUME now <= MaxAge PROVE k = s
  <2>1. \A i \in DOMAIN s : s[i].seen \in Nat
    BY <1>1 DEF EpisodeRecord
  <2>2. \A i \in DOMAIN s : now - s[i].seen <= MaxAge
    BY <1>6, <2>1
  <2>3. places = DOMAIN s
    BY <2>2
  <2> QED
    BY <1>3, <2>3
<1> HIDE DEF k
<1>7. DOMAIN k = 1 .. Len(k)
  BY <1>3, LenProperties
<1>8. Within(k, s)
  BY <1>2, <1>5, <1>7 DEF Within
<1>9. ASSUME OneStart(s) PROVE OneStart(k)
  <2> SUFFICES ASSUME NEW i \in DOMAIN k, NEW j \in DOMAIN k,
                      k[i].since = k[j].since
               PROVE  i = j
    BY DEF OneStart
  <2>1. /\ a[i] \in DOMAIN s
        /\ a[j] \in DOMAIN s
        /\ k[i] = s[a[i]]
        /\ k[j] = s[a[j]]
    BY <1>2, <1>5, <1>7
  <2>2. a[i] = a[j]
    BY <1>9, <2>1 DEF OneStart
  <2> QED
    BY <1>5, <1>7, <2>2
<1>10. CASE k = <<>>
  <2>1. Len(k) = 0
    BY <1>10
  <2> DEFINE S == {1, Len(k) - MaxEpisodes + 1}
  <2>9. IsFiniteSet(S)
    BY PairFinite
  <2>2. S \in SUBSET Int /\ S # {} /\ IsFiniteSet(S)
    BY <2>1, <2>9
  <2>3. Max(S) \in Int /\ 1 <= Max(S)
    <3>1. Max(S) \in S /\ \A y \in S : y <= Max(S)
      BY <2>2, MaxOfFinite
    <3> QED
      BY <2>2, <3>1
  <2>4. Newest(k) = SubSeq(k, Max(S), 0)
    BY <2>1 DEF Newest
  <2> HIDE DEF S
  <2>5. SubSeq(k, Max(S), 0) = <<>>
    BY <2>3, SubSeqEmpty
  <2>6. Young(s, now) = <<>>
    BY <1>4, <2>4, <2>5
  <2>7. Len(Young(s, now)) = 0 /\ DOMAIN Young(s, now) = {}
    BY <2>6
  <2>8. ASSUME Len(s) \in 1 .. MaxEpisodes, now <= MaxAge
        PROVE  Young(s, now) = s
    BY <1>6, <2>1, <2>8
  <2>10. Young(s, now) \in Seq(EpisodeRecord)
    BY <2>6, EmptySeq
  <2> QED
    BY <2>7, <2>8, <2>10 DEF Within, OneStart
<1>11. CASE k # <<>>
  <2>1. /\ Newest(k) \in Seq(EpisodeRecord)
        /\ Len(Newest(k)) \in 1 .. MaxEpisodes
        /\ Range(Newest(k)) \subseteq Range(k)
        /\ OneStart(k) => OneStart(Newest(k))
        /\ Len(k) <= MaxEpisodes => Newest(k) = k
    BY <1>3, <1>11, NewestOK
  <2>2. Within(Newest(k), s)
    <3> SUFFICES ASSUME NEW i \in DOMAIN Newest(k)
                 PROVE  \E j \in DOMAIN s : Newest(k)[i] = s[j]
      BY DEF Within
    <3>1. Newest(k)[i] \in Range(k)
      BY <2>1 DEF Range
    <3>2. PICK m \in DOMAIN k : Newest(k)[i] = k[m]
      BY <3>1 DEF Range
    <3> QED
      BY <1>8, <3>2 DEF Within
  <2>3. ASSUME Len(s) \in 1 .. MaxEpisodes, now <= MaxAge
        PROVE  Young(s, now) = s
    BY <1>4, <1>6, <2>1, <2>3
  <2> QED
    BY <1>4, <1>9, <2>1, <2>2, <2>3
<1> QED
  BY <1>10, <1>11

-----------------------------------------------------------------------------
(* A whole ledger. *)

\* A ledger that was written before now.  Two families were never seen at one
\* time, since a commit writes one episode: eviction has no ties to break.
Wellformed(l, now) ==
    /\ DOMAIN l \subseteq Families
    /\ l \in [DOMAIN l -> Seq(EpisodeRecord)]
    /\ \A f \in DOMAIN l : OneStart(l[f])
    /\ \A f \in DOMAIN l : \A i \in DOMAIN l[f] : l[f][i].seen < now
    /\ \A f, g \in DOMAIN l : \A i \in DOMAIN l[f], j \in DOMAIN l[g] :
          l[f][i].seen = l[g][j].seen => f = g

\* Each family is within its limit, and so is the ledger.
Short(l) == \A f \in DOMAIN l : Len(l[f]) \in 1 .. MaxEpisodes

Bounded(l) == Cardinality(DOMAIN l) <= MaxFamilies /\ Short(l)

\* The last time of a family is that of one of its episodes.
LEMMA LastSeenOK ==
    ASSUME NEW s \in Seq(EpisodeRecord), s # <<>>, NEW now \in Nat,
           \A i \in DOMAIN s : s[i].seen < now
    PROVE  \E i \in DOMAIN s : LastSeen(s) = s[i].seen /\ s[i].seen \in Nat
<1> DEFINE S == {e.seen : e \in Range(s)}
<1>1. /\ DOMAIN s = 1 .. Len(s)
      /\ Len(s) \in Nat
      /\ \A i \in DOMAIN s : s[i] \in EpisodeRecord
  BY LenProperties
<1>2. Range(s) \subseteq EpisodeRecord
  BY <1>1 DEF Range
<1>3. S \in SUBSET Nat
  BY <1>2 DEF EpisodeRecord
<1>4. ASSUME NEW x \in S PROVE \E i \in DOMAIN s : x = s[i].seen
  BY DEF Range
<1>5. \A x \in S : x <= now
  <2> TAKE x \in S
  <2>1. PICK i \in DOMAIN s : x = s[i].seen
    BY <1>4
  <2>2. s[i].seen \in Nat /\ s[i].seen < now
    BY <1>1 DEF EpisodeRecord
  <2> QED
    BY <2>1, <2>2
<1>6. IsFiniteSet(S)
  <2> HIDE DEF S
  <2> QED
    BY <1>3, <1>5, FS_BoundedSetOfNaturals
<1>7. S # {}
  <2>1. Len(s) \in Nat \ {0}
    BY EmptySeq
  <2>2. s[1] \in Range(s)
    BY <1>1, <2>1 DEF Range
  <2> QED
    BY <2>2
<1>8. Max(S) \in S
  <2>1. S \in SUBSET Int
    BY <1>3
  <2> HIDE DEF S
  <2> QED
    BY <1>6, <1>7, <2>1, MaxOfFinite
<1>9. LastSeen(s) = Max(S)
  BY DEF LastSeen
<1> QED
  BY <1>3, <1>4, <1>8, <1>9

\* Pruning keeps some of the episodes, no more than the limits, and all of
\* them when none is old and they are not too many.
LEMMA PrunedOK ==
    ASSUME NEW l, NEW now \in Nat, NEW then \in Nat,
           Wellformed(l, now), Short(l), AgentAssumption
    PROVE  /\ Wellformed(Pruned(l, then), now)
           /\ Bounded(Pruned(l, then))
           /\ DOMAIN Pruned(l, then) \subseteq DOMAIN l
           /\ \A f \in DOMAIN Pruned(l, then) : Within(Pruned(l, then)[f], l[f])
           /\ Cardinality(DOMAIN l) <= MaxFamilies /\ then <= MaxAge
                 => Pruned(l, then) = l
<1> DEFINE young == [f \in DOMAIN l |-> Young(l[f], then)]
           kept == {f \in DOMAIN l : young[f] # <<>>}
           last == [f \in kept |-> LastSeen(young[f])]
           Later(f) == {g \in kept : LastSeen(young[g]) > LastSeen(young[f])}
           first == {g \in kept : Cardinality(Later(g)) < MaxFamilies}
           p == Pruned(l, then)
<1>1. /\ MaxEpisodes \in Nat \ {0}
      /\ MaxFamilies \in Nat \ {0}
      /\ MaxAge \in Nat \ {0}
      /\ IsFiniteSet(Families)
  BY DEF AgentAssumption
<1>2. p = [f \in first |-> young[f]]
  BY DEF Pruned
<1>3. ASSUME NEW f \in DOMAIN l
      PROVE  /\ young[f] \in Seq(EpisodeRecord)
             /\ Len(young[f]) <= MaxEpisodes
             /\ Within(young[f], l[f])
             /\ OneStart(young[f])
             /\ then <= MaxAge => young[f] = l[f]
  <2>1. /\ l[f] \in Seq(EpisodeRecord)
        /\ OneStart(l[f])
        /\ Len(l[f]) \in 1 .. MaxEpisodes
    BY DEF Wellformed, Short
  <2> QED
    BY <1>1, <2>1, YoungOK
<1>4. ASSUME NEW f \in DOMAIN l
      PROVE  \A i \in DOMAIN young[f] : young[f][i].seen < now
  BY <1>3 DEF Wellformed, Within
<1>5. \A f \in kept : \E i \in DOMAIN young[f] :
         last[f] = young[f][i].seen /\ young[f][i].seen \in Nat
  <2> TAKE f \in kept
  <2>1. young[f] \in Seq(EpisodeRecord) /\ young[f] # <<>>
    BY <1>3
  <2>2. \A i \in DOMAIN young[f] : young[f][i].seen < now
    BY <1>4
  <2> HIDE DEF young
  <2> QED
    BY <2>1, <2>2, LastSeenOK
<1>6. ASSUME NEW f \in DOMAIN l, NEW g \in DOMAIN l,
             NEW i \in DOMAIN young[f], NEW j \in DOMAIN young[g],
             young[f][i].seen = young[g][j].seen
      PROVE  f = g
  <2>1. PICK m \in DOMAIN l[f], n \in DOMAIN l[g] :
           young[f][i] = l[f][m] /\ young[g][j] = l[g][n]
    BY <1>3 DEF Within
  <2> QED
    BY <1>6, <2>1 DEF Wellformed
<1>7. last \in [kept -> Int] /\ \A f, g \in kept : last[f] = last[g] => f = g
  <2>1. \A f \in kept : last[f] \in Int
    BY <1>5
  <2>2. ASSUME NEW f \in kept, NEW g \in kept, last[f] = last[g] PROVE f = g
    <3>1. PICK i \in DOMAIN young[f] : last[f] = young[f][i].seen
      BY <1>5
    <3>2. PICK j \in DOMAIN young[g] : last[g] = young[g][j].seen
      BY <1>5
    <3> QED
      BY <1>6, <2>2, <3>1, <3>2
  <2> QED
    BY <2>1, <2>2
<1>8. IsFiniteSet(DOMAIN l)
  <2>1. DOMAIN l \in SUBSET Families
    BY DEF Wellformed
  <2> QED
    BY <1>1, <2>1, FS_Subset
<1>9. IsFiniteSet(kept) /\ Cardinality(kept) <= Cardinality(DOMAIN l)
  <2>1. kept \in SUBSET DOMAIN l
    OBVIOUS
  <2> HIDE DEF kept
  <2> QED
    BY <1>8, <2>1, FS_Subset
<1>10. first = {g \in kept :
                   Cardinality({k \in kept : last[k] > last[g]}) < MaxFamilies}
  OBVIOUS
<1> HIDE DEF young
<1>11. /\ IsFiniteSet(first) /\ Cardinality(first) <= MaxFamilies
       /\ Cardinality(kept) <= MaxFamilies => first = kept
  <2> DEFINE First == {g \in kept :
                  Cardinality({k \in kept : last[k] > last[g]}) < MaxFamilies}
  <2>1. MaxFamilies \in Nat
    BY <1>1
  <2> HIDE DEF kept, last
  <2>2. /\ IsFiniteSet(First) /\ Cardinality(First) <= MaxFamilies
        /\ Cardinality(kept) <= MaxFamilies => First = kept
    BY <1>7, <1>9, <2>1, FirstPlaces
  <2> QED
    BY <1>10, <2>2
<1>12. first \subseteq DOMAIN l
  OBVIOUS
<1>13. \A f \in first : young[f] # <<>>
  OBVIOUS
<1>14. ASSUME Cardinality(DOMAIN l) <= MaxFamilies, then <= MaxAge PROVE p = l
  <2>1. \A f \in DOMAIN l : young[f] = l[f]
    BY <1>3, <1>14
  <2>2. \A f \in DOMAIN l : l[f] # <<>>
    BY DEF Short
  <2>3. kept = DOMAIN l
    BY <2>1, <2>2
  <2>4. first = kept
    <3>1. Cardinality(kept) <= MaxFamilies
      BY <1>14, <2>3
    <3> QED
      BY <1>11, <3>1
  <2>5. p = [f \in DOMAIN l |-> l[f]]
    BY <1>2, <2>1, <2>3, <2>4
  <2> QED
    BY <2>5 DEF Wellformed
<1> HIDE DEF p, first, kept
<1>15. DOMAIN p = first /\ \A f \in first : p[f] = young[f]
  BY <1>2
<1>16. Wellformed(p, now)
  <2>1. DOMAIN p \subseteq Families
    BY <1>12, <1>15 DEF Wellformed
  <2>2. p \in [DOMAIN p -> Seq(EpisodeRecord)]
    BY <1>2, <1>3, <1>12
  <2>3. \A f \in DOMAIN p : OneStart(p[f])
    BY <1>3, <1>12, <1>15
  <2>4. \A f \in DOMAIN p : \A i \in DOMAIN p[f] : p[f][i].seen < now
    BY <1>4, <1>12, <1>15
  <2>5. \A f, g \in DOMAIN p : \A i \in DOMAIN p[f], j \in DOMAIN p[g] :
          p[f][i].seen = p[g][j].seen => f = g
    BY <1>6, <1>12, <1>15
  <2> QED
    BY <2>1, <2>2, <2>3, <2>4, <2>5 DEF Wellformed
<1>17. Bounded(p)
  <2>1. \A f \in first : Len(young[f]) \in 1 .. MaxEpisodes
    <3> TAKE f \in first
    <3>1. young[f] \in Seq(EpisodeRecord) /\ Len(young[f]) <= MaxEpisodes
      BY <1>3, <1>12
    <3>2. Len(young[f]) \in Nat \ {0}
      BY <1>13, <3>1, EmptySeq
    <3> QED
      BY <1>1, <3>1, <3>2
  <2> QED
    BY <1>11, <1>15, <2>1 DEF Bounded, Short
<1> QED
  BY <1>3, <1>12, <1>14, <1>15, <1>16, <1>17 DEF p

-----------------------------------------------------------------------------
(* What a commit writes. *)

\* No episode is counted more often than s says.
AtMost(l, s) ==
    \A f \in DOMAIN l : \A i \in DOMAIN l[f] :
        l[f][i].count <= s[<<f, l[f][i].since>>]

\* Find finds the one episode of a start.
LEMMA FindOK ==
    ASSUME NEW l, NEW now, Wellformed(l, now), NEW f, NEW since
    PROVE  /\ Episodes(l, f) \in Seq(EpisodeRecord) /\ OneStart(Episodes(l, f))
           /\ Places(l, f, since) # {} => f \in DOMAIN l
           /\ Places(l, f, since) # {} =>
                 Max(Places(l, f, since)) \in Places(l, f, since)
           /\ \A i \in Places(l, f, since) :
                 Find(l, f, since) = Episodes(l, f)[i]
<1> DEFINE s == Episodes(l, f)
           P == Places(l, f, since)
<1>1. s \in Seq(EpisodeRecord) /\ OneStart(s)
  <2>1. CASE f \in DOMAIN l
    BY <2>1 DEF Wellformed, Episodes
  <2>2. CASE f \notin DOMAIN l
    <3>1. s = <<>>
      BY <2>2 DEF Episodes
    <3>2. s \in Seq(EpisodeRecord) /\ DOMAIN s = {}
      BY <3>1, EmptySeq
    <3> QED
      BY <3>2 DEF OneStart
  <2> QED
    BY <2>1, <2>2
<1>2. DOMAIN s = 1 .. Len(s) /\ Len(s) \in Nat
  BY <1>1, LenProperties
<1>3. P \in SUBSET (1 .. Len(s)) /\ \A i \in P : s[i].since = since
  BY <1>2 DEF Places
<1>4. IsFiniteSet(P) /\ P \in SUBSET Int
  <2>1. IsFiniteSet(1 .. Len(s))
    BY <1>2, UpTo
  <2>2. IsFiniteSet(P)
    BY <1>3, <2>1, FS_Subset
  <2> QED
    BY <1>3, <2>2
<1>5. P # {} => Max(P) \in P
  <2> HIDE DEF P
  <2> QED
    BY <1>4, MaxOfFinite
<1>6. P # {} => f \in DOMAIN l
  BY DEF Places, Episodes
<1>7. \A i \in P : Find(l, f, since) = s[i]
  <2> TAKE i \in P
  <2>1. Max(P) \in P
    BY <1>5
  <2> DEFINE p == Max(P)
  <2>2. p \in P
    BY <2>1
  <2>3. Find(l, f, since) = s[p]
    BY DEF Find
  <2> HIDE DEF p
  <2>4. p = i
    BY <1>1, <1>2, <1>3, <2>2 DEF OneStart
  <2> QED
    BY <2>3, <2>4
<1> QED
  BY <1>1, <1>5, <1>6, <1>7

\* Which episodes c has when start was counted at now in old.
Recounted(old, c, start, now) ==
    /\ \A i \in DOMAIN c :
          \/ /\ c[i].since # start
             /\ \E j \in DOMAIN old : c[i] = old[j]
          \/ /\ c[i].since = start /\ c[i].seen = now
             /\ \/ c[i].count = 1 /\ \A j \in DOMAIN old : old[j].since # start
                \/ \E j \in DOMAIN old : /\ old[j].since = start
                                         /\ c[i].count = old[j].count + 1
    /\ \A j \in DOMAIN old : old[j].since # start =>
          \E i \in DOMAIN c : c[i] = old[j]
    /\ \E i \in DOMAIN c : c[i].since = start

\* The fields of an episode after an update.
LEMMA EpisodeUpdated ==
    ASSUME NEW e \in EpisodeRecord, NEW now \in Nat
    PROVE  /\ [e EXCEPT !.count = @ + 1, !.resolved = FALSE, !.seen = now]
                 = [since |-> e.since, count |-> e.count + 1,
                    resolved |-> FALSE, seen |-> now]
           /\ [e EXCEPT !.resolved = TRUE, !.seen = now]
                 = [since |-> e.since, count |-> e.count,
                    resolved |-> TRUE, seen |-> now]
<1> DEFINE x == [e EXCEPT !.count = @ + 1, !.resolved = FALSE, !.seen = now]
           y == [e EXCEPT !.resolved = TRUE, !.seen = now]
<1>1. /\ x \in EpisodeRecord /\ x.since = e.since /\ x.count = e.count + 1
      /\ x.resolved = FALSE /\ x.seen = now
  <2> DEFINE n == e.count + 1
  <2>1. n \in Nat \ {0}
    BY DEF EpisodeRecord
  <2>2. x = [e EXCEPT !.count = n, !.resolved = FALSE, !.seen = now]
    OBVIOUS
  <2> HIDE DEF n, x
  <2>3. /\ x \in EpisodeRecord /\ x.since = e.since /\ x.count = n
        /\ x.resolved = FALSE /\ x.seen = now
    BY <2>1, <2>2 DEF EpisodeRecord
  <2> QED
    BY <2>3 DEF n
<1>2. /\ y \in EpisodeRecord /\ y.since = e.since /\ y.count = e.count
      /\ y.resolved = TRUE /\ y.seen = now
  BY DEF EpisodeRecord
<1> HIDE DEF x, y
<1>3. x = [since |-> e.since, count |-> e.count + 1,
          resolved |-> FALSE, seen |-> now]
  BY <1>1 DEF EpisodeRecord
<1>4. y = [since |-> e.since, count |-> e.count,
          resolved |-> TRUE, seen |-> now]
  BY <1>2 DEF EpisodeRecord
<1> QED
  BY <1>3, <1>4 DEF x, y

\* A sighting counts the episode of its start again, or adds it.
LEMMA CountedOK ==
    ASSUME NEW l, NEW now \in Nat, Wellformed(l, now),
           NEW v, v.since \in 1 .. MaxNotices
    PROVE  /\ Counted(l, v, now) \in Seq(EpisodeRecord)
           /\ Counted(l, v, now) # <<>>
           /\ OneStart(Counted(l, v, now))
           /\ Recounted(Episodes(l, v.family), Counted(l, v, now), v.since, now)
<1> DEFINE old == Episodes(l, v.family)
           P == Places(l, v.family, v.since)
           c == Counted(l, v, now)
<1>1. /\ old \in Seq(EpisodeRecord) /\ OneStart(old)
      /\ P # {} => Max(P) \in P
  BY FindOK
<1>2. /\ DOMAIN old = 1 .. Len(old) /\ Len(old) \in Nat
      /\ \A j \in DOMAIN old : old[j] \in EpisodeRecord
  BY <1>1, LenProperties
<1>3. P = {j \in DOMAIN old : old[j].since = v.since}
  BY DEF Places
<1>4. CASE P = {}
  <2> DEFINE new == [since |-> v.since, count |-> 1, resolved |-> FALSE,
                     seen |-> now]
  <2>1. new \in EpisodeRecord
    BY DEF EpisodeRecord
  <2>2. c = Append(old, new)
    BY <1>4 DEF Counted
  <2>3. new.since = v.since /\ new.seen = now /\ new.count = 1
    OBVIOUS
  <2> HIDE DEF new, c, old
  <2>4. /\ c \in Seq(EpisodeRecord) /\ Len(c) = Len(old) + 1
        /\ \A j \in 1 .. Len(old) : c[j] = old[j]
        /\ c[Len(old) + 1] = new
    BY <1>1, <2>1, <2>2, AppendProperties
  <2>5. DOMAIN c = 1 .. Len(old) + 1
    BY <1>2, <2>4, LenProperties
  <2>6. \A j \in DOMAIN old : old[j].since # v.since
    BY <1>3, <1>4
  <2>7. \A i \in DOMAIN c : \/ i \in DOMAIN old /\ c[i] = old[i]
                            \/ i = Len(old) + 1 /\ c[i] = new
    BY <1>2, <2>4, <2>5
  <2>8. OneStart(c)
    BY <1>1, <2>3, <2>6, <2>7 DEF OneStart
  <2>9. Recounted(old, c, v.since, now)
    BY <1>2, <2>3, <2>4, <2>5, <2>6, <2>7 DEF Recounted
  <2>10. c # <<>>
    BY <1>2, <2>4
  <2> QED
    BY <2>4, <2>8, <2>9, <2>10 DEF c, old
<1>5. CASE P # {}
  <2> DEFINE p == Max(P)
             r == [since |-> old[p].since, count |-> old[p].count + 1,
                   resolved |-> FALSE, seen |-> now]
  <2>1. p \in DOMAIN old /\ old[p].since = v.since /\ old[p] \in EpisodeRecord
    BY <1>1, <1>2, <1>3, <1>5
  <2>2. c = [old EXCEPT ![p].count = @ + 1,
                       ![p].resolved = FALSE, ![p].seen = now]
    BY <1>5 DEF Counted
  <2> HIDE DEF c, old, P, p
  <2>3. /\ c = [j \in DOMAIN old |-> c[j]]
        /\ \A j \in DOMAIN old : c[j] = IF j = p THEN r ELSE old[j]
    <3>1. c = [old EXCEPT ![p] =
                   [old[p] EXCEPT !.count = @ + 1,
                                  !.resolved = FALSE, !.seen = now]]
      BY <2>1, <2>2
    <3>2. [old[p] EXCEPT !.count = @ + 1, !.resolved = FALSE, !.seen = now] = r
      BY <2>1, EpisodeUpdated
    <3> QED
      BY <2>1, <3>1, <3>2
  <2>4. r \in EpisodeRecord /\ r.since = v.since /\ r.seen = now
        /\ r.count = old[p].count + 1
    BY <2>1 DEF EpisodeRecord
  <2> HIDE DEF r
  <2>5. c \in Seq(EpisodeRecord) /\ DOMAIN c = DOMAIN old
    BY <1>2, <2>3, <2>4
  <2>6. \A j \in DOMAIN old : c[j].since = old[j].since
    BY <2>1, <2>3, <2>4
  <2>7. OneStart(c)
    BY <1>1, <2>5, <2>6 DEF OneStart
  <2>8. \A j \in DOMAIN old : j # p => old[j].since # v.since
    BY <1>1, <2>1 DEF OneStart
  <2>9. Recounted(old, c, v.since, now)
    BY <2>1, <2>3, <2>4, <2>5, <2>8 DEF Recounted
  <2>10. c # <<>>
    <3>1. DOMAIN c # {}
      BY <2>1, <2>5
    <3> QED
      BY <3>1
  <2> QED
    BY <2>5, <2>7, <2>9, <2>10 DEF c, old
<1> QED
  BY <1>4, <1>5

\* The ledger with one family recounted.
LEMMA SightedOK ==
    ASSUME NEW l, NEW now \in Nat, Wellformed(l, now), Short(l),
           AgentAssumption,
           NEW v, v.family \in Families, v.since \in 1 .. MaxNotices
    PROVE  /\ Wellformed(Sighted(l, v, now), now + 1)
           /\ Short(Sighted(l, v, now))
           /\ DOMAIN Sighted(l, v, now) = DOMAIN l \cup {v.family}
           /\ \A f \in DOMAIN l \ {v.family} : Sighted(l, v, now)[f] = l[f]
           /\ Sighted(l, v, now)[v.family] = Newest(Counted(l, v, now))
           /\ Range(Newest(Counted(l, v, now)))
                \subseteq Range(Counted(l, v, now))
           /\ Len(Counted(l, v, now)) <= MaxEpisodes
                => Newest(Counted(l, v, now)) = Counted(l, v, now)
<1> DEFINE m == Sighted(l, v, now)
           c == Counted(l, v, now)
           old == Episodes(l, v.family)
           n == Newest(c)
<1>1. /\ c \in Seq(EpisodeRecord) /\ c # <<>> /\ OneStart(c)
      /\ Recounted(old, c, v.since, now)
  BY CountedOK
<1>2. MaxEpisodes \in Nat \ {0}
  BY DEF AgentAssumption
<1> HIDE DEF c
<1>3. /\ n \in Seq(EpisodeRecord) /\ Len(n) \in 1 .. MaxEpisodes
      /\ Range(n) \subseteq Range(c)
      /\ OneStart(n)
      /\ Len(c) <= MaxEpisodes => n = c
  BY <1>1, <1>2, NewestOK
<1>4. m = [f \in DOMAIN l \cup {v.family} |-> IF f = v.family THEN n ELSE l[f]]
  BY DEF Sighted, c
<1>5. \A i \in DOMAIN n : n[i].seen = now \/ \E j \in DOMAIN old : n[i] = old[j]
  <2> TAKE i \in DOMAIN n
  <2>1. n[i] \in Range(c)
    BY <1>3 DEF Range
  <2>2. PICK k \in DOMAIN c : n[i] = c[k]
    BY <2>1 DEF Range
  <2> QED
    BY <1>1, <2>2 DEF Recounted
<1>6. \A i \in DOMAIN n : n[i].seen = now \/
         (v.family \in DOMAIN l /\
            \E j \in DOMAIN l[v.family] : n[i] = l[v.family][j])
  BY <1>5 DEF Episodes
<1> HIDE DEF n
<1> HIDE DEF m
<1>7. DOMAIN m = DOMAIN l \cup {v.family} /\ m[v.family] = n
      /\ \A f \in DOMAIN l : f # v.family => m[f] = l[f]
  BY <1>4
<1>8. Short(m)
  BY <1>3, <1>7 DEF Short
<1>9. Wellformed(m, now + 1)
  <2>1. DOMAIN m \subseteq Families
    BY <1>7 DEF Wellformed
  <2>2. m \in [DOMAIN m -> Seq(EpisodeRecord)]
    BY <1>3, <1>4 DEF Wellformed
  <2>3. \A f \in DOMAIN m : OneStart(m[f])
    <3> TAKE f \in DOMAIN m
    <3>1. CASE f = v.family
      BY <1>3, <1>7, <3>1
    <3>2. CASE f # v.family
      <4>1. f \in DOMAIN l /\ m[f] = l[f]
        BY <1>7, <3>2
      <4> QED
        BY <4>1 DEF Wellformed
    <3> QED
      BY <3>1, <3>2
  <2>4. ASSUME NEW f \in DOMAIN l, NEW i \in DOMAIN l[f] 
        PROVE  l[f][i].seen \in Nat /\ l[f][i].seen < now
    <3>1. l[f] \in Seq(EpisodeRecord)
      BY DEF Wellformed
    <3>2. l[f][i] \in EpisodeRecord
      BY <3>1
    <3> QED
      BY <3>2 DEF Wellformed, EpisodeRecord
  <2>5. ASSUME NEW f \in DOMAIN m, NEW i \in DOMAIN m[f]
        PROVE  /\ m[f][i].seen < now + 1
               /\ \/ f = v.family /\ m[f][i].seen = now
                  \/ /\ f \in DOMAIN l /\ m[f][i].seen < now
                     /\ \E j \in DOMAIN l[f] : m[f][i] = l[f][j]
    <3>1. CASE f = v.family
      BY <1>6, <1>7, <2>4, <3>1
    <3>2. CASE f # v.family
      BY <1>7, <2>4, <3>2
    <3> QED
      BY <3>1, <3>2
  <2>6. ASSUME NEW f \in DOMAIN m, NEW g \in DOMAIN m, NEW i \in DOMAIN m[f],
               NEW j \in DOMAIN m[g], m[f][i].seen = m[g][j].seen
        PROVE  f = g
    <3>1. \/ f = v.family /\ m[f][i].seen = now
          \/ /\ f \in DOMAIN l /\ m[f][i].seen < now
             /\ \E k \in DOMAIN l[f] : m[f][i] = l[f][k]
      BY <2>5
    <3>2. \/ g = v.family /\ m[g][j].seen = now
          \/ /\ g \in DOMAIN l /\ m[g][j].seen < now
             /\ \E k \in DOMAIN l[g] : m[g][j] = l[g][k]
      BY <2>5
    <3> QED
      BY <2>6, <3>1, <3>2 DEF Wellformed
  <2> QED
    BY <2>1, <2>2, <2>3, <2>5, <2>6 DEF Wellformed
<1>10. /\ Wellformed(m, now + 1) /\ Short(m)
       /\ DOMAIN m = DOMAIN l \cup {v.family}
       /\ \A f \in DOMAIN l : f # v.family => m[f] = l[f]
       /\ m[v.family] = n
  BY <1>7, <1>8, <1>9
<1> QED
  BY <1>3, <1>10 DEF m, n, c

\* A resolved notice changes neither starts nor counts.
LEMMA ResolvedOK ==
    ASSUME NEW l, NEW now \in Nat, Wellformed(l, now), Short(l), NEW v
    PROVE  LET m == Resolved(l, v, now)
           IN  /\ Wellformed(m, now + 1) /\ Short(m)
               /\ DOMAIN m = DOMAIN l
               /\ \A f \in DOMAIN l :
                     /\ DOMAIN m[f] = DOMAIN l[f]
                     /\ \A i \in DOMAIN l[f] : /\ m[f][i].since = l[f][i].since
                                               /\ m[f][i].count = l[f][i].count
<1> DEFINE P == Places(l, v.family, v.since)
           m == Resolved(l, v, now)
<1>0. ASSUME NEW f \in DOMAIN l, NEW i \in DOMAIN l[f] 
      PROVE  /\ l[f][i].seen \in Nat
             /\ l[f][i].seen < now
             /\ l[f][i].seen < now + 1
             /\ l[f][i] \in EpisodeRecord
  <2>1. l[f] \in Seq(EpisodeRecord)
    BY DEF Wellformed
  <2>2. l[f][i] \in EpisodeRecord
    BY <2>1
  <2>3. l[f][i].seen \in Nat /\ l[f][i].seen < now
    BY <2>2 DEF Wellformed, EpisodeRecord
  <2> QED
    BY <2>2, <2>3
<1>1. CASE P = {}
  <2>1. m = l
    BY <1>1 DEF Resolved
  <2>2. Wellformed(l, now + 1)
    BY <1>0 DEF Wellformed
  <2> QED
    BY <2>1, <2>2
<1>2. CASE P # {}
  <2> DEFINE f == v.family
             p == Max(P)
             r == [since |-> l[f][p].since, count |-> l[f][p].count,
                   resolved |-> TRUE, seen |-> now]
  <2>1. f \in DOMAIN l /\ p \in P
    BY <1>2, FindOK
  <2>2. p \in DOMAIN l[f]
    BY <2>1 DEF Places, Episodes
  <2>3. m = [l EXCEPT ![f][p].resolved = TRUE, ![f][p].seen = now]
    BY <1>2 DEF Resolved
  <2>4. l \in [DOMAIN l -> Seq(EpisodeRecord)] /\ l[f] \in Seq(EpisodeRecord)
    BY <2>1 DEF Wellformed
  <2>5. l[f][p] \in EpisodeRecord
    BY <1>0, <2>1, <2>2
  <2> HIDE DEF m, p, f, P
  <2>6. m = [l EXCEPT ![f] = [l[f] EXCEPT ![p] = r]]
    <3>1. m = [l EXCEPT ![f] = [l[f] EXCEPT ![p] =
                   [l[f][p] EXCEPT !.resolved = TRUE, !.seen = now]]]
      BY <2>1, <2>2, <2>3, <2>4
    <3>2. [l[f][p] EXCEPT !.resolved = TRUE, !.seen = now] = r
      BY <2>5, EpisodeUpdated
    <3> QED
      BY <3>1, <3>2
  <2>7. r \in EpisodeRecord /\ r.since = l[f][p].since
        /\ r.count = l[f][p].count
        /\ r.seen = now
    BY <2>5 DEF EpisodeRecord
  <2> HIDE DEF r
  <2> DEFINE u == [l[f] EXCEPT ![p] = r]
  <2>8. /\ u \in Seq(EpisodeRecord)
        /\ Len(u) = Len(l[f])
        /\ DOMAIN u = DOMAIN l[f]
        /\ \A i \in DOMAIN l[f] : u[i] = IF i = p THEN r ELSE l[f][i]
    <3>1. DOMAIN l[f] = 1 .. Len(l[f])
      BY <2>4, LenProperties
    <3>2. /\ u \in Seq(EpisodeRecord) /\ Len(u) = Len(l[f])
          /\ \A i \in 1 .. Len(l[f]) : u[i] = IF i = p THEN r ELSE l[f][i]
      BY <2>2, <2>4, <2>7, <3>1, ExceptSeq
    <3> QED
      BY <3>1, <3>2, LenProperties
  <2>9. /\ DOMAIN m = DOMAIN l
        /\ m[f] = u
        /\ \A g \in DOMAIN l : g # f => m[g] = l[g]
    BY <2>1, <2>6
  <2> HIDE DEF u
  <2>10. Short(m)
    BY <2>1, <2>8, <2>9 DEF Short
  <2>11. \A g \in DOMAIN l :
           /\ DOMAIN m[g] = DOMAIN l[g]
           /\ \A i \in DOMAIN l[g] : /\ m[g][i].since = l[g][i].since
                                     /\ m[g][i].count = l[g][i].count
    BY <2>7, <2>8, <2>9
  <2>12. ASSUME NEW g \in DOMAIN l, NEW i \in DOMAIN m[g]
         PROVE  /\ m[g][i].seen < now + 1
                /\ \/ g = f /\ m[g][i].seen = now
                   \/ m[g][i].seen < now /\ m[g][i] = l[g][i] /\ i \in DOMAIN l[g]
    BY <1>0, <2>7, <2>8, <2>9, <2>11, <2>12
  <2>13. Wellformed(m, now + 1)
    <3>1. DOMAIN m \subseteq Families
      BY <2>9 DEF Wellformed
    <3>2. m \in [DOMAIN m -> Seq(EpisodeRecord)]
      <4>1. \A g \in DOMAIN l : m[g] \in Seq(EpisodeRecord)
        BY <2>4, <2>8, <2>9
      <4>2. m = [g \in DOMAIN l |-> m[g]]
        BY <2>6
      <4> QED
        BY <2>9, <4>1, <4>2
    <3>3. \A g \in DOMAIN m : OneStart(m[g])
      BY <2>9, <2>11 DEF Wellformed, OneStart
    <3>4. \A g \in DOMAIN m : \A i \in DOMAIN m[g] : m[g][i].seen < now + 1
      BY <2>9, <2>12
    <3>5. ASSUME NEW g \in DOMAIN m, NEW h \in DOMAIN m, NEW i \in DOMAIN m[g],
                 NEW j \in DOMAIN m[h], m[g][i].seen = m[h][j].seen
          PROVE  g = h
      <4>1. \/ g = f /\ m[g][i].seen = now
            \/ m[g][i].seen < now /\ m[g][i] = l[g][i] /\ i \in DOMAIN l[g]
        BY <2>9, <2>12
      <4>2. \/ h = f /\ m[h][j].seen = now
            \/ m[h][j].seen < now /\ m[h][j] = l[h][j] /\ j \in DOMAIN l[h]
        BY <2>9, <2>12
      <4> QED
        BY <2>9, <3>5, <4>1, <4>2 DEF Wellformed
    <3> QED
      BY <3>1, <3>2, <3>3, <3>4, <3>5 DEF Wellformed
  <2> QED
    BY <2>9, <2>10, <2>11, <2>13 DEF m
<1> QED
  BY <1>1, <1>2

\* MaxNotices bounds what every behaviour counts.
LEMMA MaxNoticesOK ==
    ASSUME AgentAssumption
    PROVE  /\ MaxNotices \in Nat \ {0}
           /\ \A w \in Worlds : w.notices \in Nat /\ w.notices <= MaxNotices
<1> DEFINE h == [w \in Worlds |-> w.notices]
           S == {h[w] : w \in Worlds}
<1>1. \A w \in Worlds : w.notices \in Nat /\ h[w] = w.notices
  BY DEF AgentAssumption, World
<1>2. IsFiniteSet(Worlds)
  BY DEF AgentAssumption
<1>3. IsFiniteSet(S)
  BY <1>2, ImageFinite
<1>4. IsFiniteSet(S \cup {1})
  BY <1>3, FS_AddElement
<1>5. S \cup {1} = {w.notices : w \in Worlds} \cup {1}
  BY <1>1
<1>6. S \cup {1} \in SUBSET Int
  BY <1>1
<1> DEFINE T == S \cup {1}
<1>7. MaxNotices = Max(T)
  BY <1>5 DEF MaxNotices
<1>8. Max(T) \in T /\ \A y \in T : y <= Max(T)
  <2>1. T # {}
    OBVIOUS
  <2> HIDE DEF T
  <2> QED
    BY <1>4, <1>6, <2>1, MaxOfFinite DEF T
<1>9. 1 \in T /\ T \subseteq Nat /\ \A w \in Worlds : w.notices \in T
  BY <1>1
<1> HIDE DEF T
<1>10. Max(T) \in Nat /\ 1 <= Max(T)
  BY <1>8, <1>9
<1> QED
  BY <1>1, <1>7, <1>8, <1>9, <1>10

\* The commits of each episode after one with verdict v.
Tally(s, v) ==
    IF v.kind = "resolved" THEN s
    ELSE [s EXCEPT ![<<v.family, v.since>>] = @ + 1]

\* A commit adds one to the count of its episode, and a resolved one nothing.
LEMMA TallyOK ==
    ASSUME NEW s \in [Episode -> Nat], NEW v
    PROVE  /\ Tally(s, v) \in [Episode -> Nat]
           /\ \A e \in Episode : Tally(s, v)[e] \in {s[e], s[e] + 1}
           /\ \A e \in Episode : s[e] <= Tally(s, v)[e]
           /\ \A e \in Episode :
                 e # <<v.family, v.since>> => Tally(s, v)[e] = s[e]
           /\ v.kind = "resolved" => Tally(s, v) = s
           /\ v.kind # "resolved" /\ <<v.family, v.since>> \in Episode
                => Tally(s, v)[<<v.family, v.since>>]
                      = s[<<v.family, v.since>>] + 1
<1>1. CASE v.kind = "resolved"
  <2>1. Tally(s, v) = s
    BY <1>1 DEF Tally
  <2> QED
    BY <1>1, <2>1
<1>2. CASE v.kind # "resolved"
  <2>1. Tally(s, v) = [s EXCEPT ![<<v.family, v.since>>] = @ + 1]
    BY <1>2 DEF Tally
  <2> DEFINE x == <<v.family, v.since>>
  <2>2. \A e \in Episode : Tally(s, v)[e] = IF e = x THEN s[e] + 1 ELSE s[e]
    BY <2>1
  <2>3. Tally(s, v) = [e \in Episode |-> Tally(s, v)[e]]
    BY <2>1
  <2> HIDE DEF x
  <2>4. \A e \in Episode : s[e] \in Nat
    OBVIOUS
  <2>5. Tally(s, v) \in [Episode -> Nat]
    BY <2>2, <2>3, <2>4
  <2>6. \A e \in Episode : s[e] <= Tally(s, v)[e]
    BY <2>2, <2>4
  <2> QED
    BY <1>2, <2>2, <2>5, <2>6 DEF x
<1> QED
  BY <1>1, <1>2

\* An episode of a ledger is one that Grafana may announce.
LEMMA EpisodeOf ==
    ASSUME NEW l, NEW now, Wellformed(l, now), NEW f \in DOMAIN l,
           NEW i \in DOMAIN l[f]
    PROVE  /\ l[f][i] \in EpisodeRecord /\ f \in Families
           /\ <<f, l[f][i].since>> \in Episode
           /\ l[f][i].count \in Nat \ {0}
<1>1. l[f] \in Seq(EpisodeRecord) /\ f \in Families
  BY DEF Wellformed
<1>2. l[f][i] \in EpisodeRecord
  BY <1>1
<1>3. l[f][i].since \in 1 .. MaxNotices /\ l[f][i].count \in Nat \ {0}
  BY <1>2 DEF EpisodeRecord
<1> QED
  BY <1>1, <1>2, <1>3 DEF Episode

\* A recounted family counts no more than the commits, this one among them.
LEMMA CountedAtMost ==
    ASSUME NEW l, NEW now \in Nat, Wellformed(l, now),
           NEW s \in [Episode -> Nat], AtMost(l, s),
           NEW v, v.family \in Families, v.since \in 1 .. MaxNotices,
           v.kind # "resolved"
    PROVE  \A i \in DOMAIN Counted(l, v, now) :
              Counted(l, v, now)[i].count
                <= Tally(s, v)[<<v.family, Counted(l, v, now)[i].since>>]
<1> DEFINE c == Counted(l, v, now)
           old == Episodes(l, v.family)
           t == Tally(s, v)
<1>1. c \in Seq(EpisodeRecord) /\ Recounted(old, c, v.since, now)
  BY CountedOK
<1>2. /\ t \in [Episode -> Nat]
      /\ \A e \in Episode : e # <<v.family, v.since>> => t[e] = s[e]
      /\ <<v.family, v.since>> \in Episode
      /\ t[<<v.family, v.since>>] = s[<<v.family, v.since>>] + 1
      /\ s[<<v.family, v.since>>] \in Nat
  BY TallyOK DEF Episode
<1>3. ASSUME NEW j \in DOMAIN old
      PROVE  /\ <<v.family, old[j].since>> \in Episode
             /\ old[j].count <= s[<<v.family, old[j].since>>]
             /\ old[j].count \in Nat
  <2>1. v.family \in DOMAIN l /\ old = l[v.family]
    BY DEF Episodes
  <2> QED
    BY <2>1, EpisodeOf DEF AtMost
<1> HIDE DEF c, old, t
<1> SUFFICES ASSUME NEW i \in DOMAIN c
             PROVE  c[i].count <= t[<<v.family, c[i].since>>]
  BY DEF c, t
<1>4. CASE c[i].since # v.since /\ \E j \in DOMAIN old : c[i] = old[j]
  <2>1. PICK j \in DOMAIN old : c[i] = old[j]
    BY <1>4
  <2>2. <<v.family, old[j].since>> # <<v.family, v.since>>
    BY <1>4, <2>1
  <2>3. t[<<v.family, old[j].since>>] = s[<<v.family, old[j].since>>]
    BY <1>2, <1>3, <2>2
  <2> QED
    BY <1>3, <2>1, <2>3
<1>5. CASE c[i].since = v.since /\ c[i].count = 1
  BY <1>2, <1>5
<1>6. ASSUME c[i].since = v.since, NEW j \in DOMAIN old,
             old[j].since = v.since, c[i].count = old[j].count + 1
      PROVE  c[i].count <= t[<<v.family, c[i].since>>]
  <2>1. old[j].count <= s[<<v.family, v.since>>] /\ old[j].count \in Nat
    BY <1>3, <1>6
  <2> QED
    BY <1>2, <1>6, <2>1
<1> QED
  BY <1>1, <1>4, <1>5, <1>6 DEF Recounted

\* The ledger of a commit before it is pruned.
Written(l, v, now) ==
    IF v.kind = "resolved" THEN Resolved(l, v, now) ELSE Sighted(l, v, now)

\* What a commit prunes is a good ledger whose families are short.
LEMMA WrittenOK ==
    ASSUME NEW l, NEW now \in Nat, Wellformed(l, now), Short(l),
           AgentAssumption,
           NEW s \in [Episode -> Nat], AtMost(l, s),
           NEW v, v.family \in Families, v.since \in 1 .. MaxNotices
    PROVE  /\ Wellformed(Written(l, v, now), now + 1)
           /\ Short(Written(l, v, now))
           /\ AtMost(Written(l, v, now), Tally(s, v))
<1> DEFINE m == Written(l, v, now)
           t == Tally(s, v)
<1>1. CASE v.kind = "resolved"
  <2>1. m = Resolved(l, v, now) /\ t = s
    BY <1>1 DEF Written, Tally
  <2>2. Wellformed(m, now + 1) /\ Short(m)
    BY <2>1, ResolvedOK
  <2>3. /\ DOMAIN m = DOMAIN l
        /\ \A f \in DOMAIN l :
              /\ DOMAIN m[f] = DOMAIN l[f]
              /\ \A i \in DOMAIN l[f] : /\ m[f][i].since = l[f][i].since
                                        /\ m[f][i].count = l[f][i].count
    BY <2>1, ResolvedOK
  <2> HIDE DEF m, t
  <2>4. AtMost(m, t)
    BY <2>1, <2>3 DEF AtMost
  <2> QED
    BY <2>2, <2>4 DEF m, t
<1>2. CASE v.kind # "resolved"
  <2> DEFINE c == Counted(l, v, now)
             n == Newest(c)
  <2>1. m = Sighted(l, v, now)
    BY <1>2 DEF Written
  <2> DEFINE g == Sighted(l, v, now)
  <2>9. /\ Wellformed(g, now + 1) /\ Short(g)
        /\ DOMAIN g = DOMAIN l \cup {v.family}
        /\ \A f \in DOMAIN l \ {v.family} : g[f] = l[f]
        /\ g[v.family] = n
        /\ Range(n) \subseteq Range(c)
    <3>1. Wellformed(g, now + 1) /\ Short(g)
      BY SightedOK
    <3>2. DOMAIN g = DOMAIN l \cup {v.family}
      BY DEF Sighted
    <3>3. \A f \in DOMAIN l \ {v.family} : g[f] = l[f]
      BY SightedOK
    <3>4. g[v.family] = n /\ Range(n) \subseteq Range(c)
      BY SightedOK
    <3> QED
      BY <3>1, <3>2, <3>3, <3>4
  <2> HIDE DEF m, g, n, c
  <2>2. Wellformed(m, now + 1) /\ Short(m)
    BY <2>1, <2>9 DEF g
  <2>3. /\ DOMAIN m = DOMAIN l \cup {v.family}
        /\ \A f \in DOMAIN l \ {v.family} : m[f] = l[f]
        /\ m[v.family] = n
        /\ Range(n) \subseteq Range(c)
    BY <2>1, <2>9 DEF g
  <2>4. \A i \in DOMAIN c : c[i].count <= t[<<v.family, c[i].since>>]
    BY <1>2, CountedAtMost DEF c
  <2>5. /\ t \in [Episode -> Nat] /\ \A e \in Episode : s[e] <= t[e]
    BY TallyOK
  <2> HIDE DEF m, t, n, c
  <2>6. \A i \in DOMAIN n : n[i].count <= t[<<v.family, n[i].since>>]
    <3> TAKE i \in DOMAIN n
    <3>1. n[i] \in Range(c)
      BY <2>3 DEF Range
    <3>2. PICK j \in DOMAIN c : n[i] = c[j]
      BY <3>1 DEF Range
    <3> QED
      BY <2>4, <3>2
  <2>7. ASSUME NEW f \in DOMAIN l, NEW i \in DOMAIN l[f]
        PROVE  l[f][i].count <= t[<<f, l[f][i].since>>]
    <3>1. <<f, l[f][i].since>> \in Episode /\ l[f][i].count \in Nat \ {0}
      BY EpisodeOf
    <3>2. l[f][i].count <= s[<<f, l[f][i].since>>]
      BY DEF AtMost
    <3>3. s[<<f, l[f][i].since>>] \in Nat /\ t[<<f, l[f][i].since>>] \in Nat
          /\ s[<<f, l[f][i].since>>] <= t[<<f, l[f][i].since>>]
      BY <2>5, <3>1
    <3> QED
      BY <3>1, <3>2, <3>3
  <2>8. AtMost(m, t)
    BY <2>3, <2>6, <2>7 DEF AtMost
  <2> QED
    BY <2>2, <2>8 DEF m, t
<1> QED
  BY <1>1, <1>2

\* A commit keeps a ledger within its bounds, and counts at most the sighting.
LEMMA CommitOK ==
    ASSUME NEW l, NEW now \in Nat, Wellformed(l, now), Short(l),
           AgentAssumption,
           NEW s \in [Episode -> Nat], AtMost(l, s),
           NEW v, v.family \in Families, v.since \in 1 .. MaxNotices
    PROVE  /\ Wellformed(Commit(l, v, now), now + 1)
           /\ Bounded(Commit(l, v, now))
           /\ AtMost(Commit(l, v, now), Tally(s, v))
<1> DEFINE m == Written(l, v, now)
           t == Tally(s, v)
           p == Pruned(m, now)
<1>1. Wellformed(m, now + 1) /\ Short(m) /\ AtMost(m, t)
  BY WrittenOK
<1>2. Commit(l, v, now) = p
  BY DEF Commit, Written
<1>3. now + 1 \in Nat
  OBVIOUS
<1> HIDE DEF m
<1>4. /\ Wellformed(p, now + 1) /\ Bounded(p)
      /\ DOMAIN p \subseteq DOMAIN m
      /\ \A f \in DOMAIN p : Within(p[f], m[f])
  BY <1>1, <1>3, PrunedOK
<1> HIDE DEF p, t
<1>5. AtMost(p, t)
  BY <1>1, <1>4 DEF AtMost, Within
<1> QED
  BY <1>2, <1>4, <1>5 DEF t

-----------------------------------------------------------------------------
(* When nothing has to be forgotten. *)

\* What was counted fits the limits of the ledger.
Fits(s) ==
    /\ Cardinality({e[1] : e \in {x \in Episode : s[x] > 0}}) <= MaxFamilies
    /\ \A f \in Families :
          Cardinality({e \in Episode : e[1] = f /\ s[e] > 0}) <= MaxEpisodes

\* Every commit is in the ledger, with its count.
Shows(l, s) ==
    \A e \in Episode : s[e] > 0 =>
        /\ e[1] \in DOMAIN l
        /\ \E i \in DOMAIN l[e[1]] : /\ l[e[1]][i].since = e[2]
                                     /\ l[e[1]][i].count = s[e]

\* Episodes of different starts that were all counted are at most as many as
\* the episodes that were counted.
LEMMA EpisodesFit ==
    ASSUME NEW s \in [Episode -> Nat], Fits(s), AgentAssumption,
           NEW f \in Families, NEW c \in Seq(EpisodeRecord), OneStart(c),
           \A i \in DOMAIN c : c[i].count <= s[<<f, c[i].since>>]
    PROVE  Len(c) <= MaxEpisodes
<1> DEFINE S == {e \in Episode : e[1] = f /\ s[e] > 0}
           h == [i \in 1 .. Len(c) |-> <<f, c[i].since>>]
           k == [n \in 1 .. MaxNotices |-> <<f, n>>]
           K == {k[n] : n \in 1 .. MaxNotices}
<1>1. MaxNotices \in Nat /\ MaxEpisodes \in Nat
  BY MaxNoticesOK DEF AgentAssumption
<1>2. IsFiniteSet(1 .. MaxNotices)
  BY <1>1, UpTo
<1>3. IsFiniteSet(K)
  BY <1>2, ImageFinite
<1>4. S \in SUBSET K
  <2> SUFFICES ASSUME NEW e \in S PROVE e \in K
    OBVIOUS
  <2>1. e[2] \in 1 .. MaxNotices /\ e = <<f, e[2]>>
    BY DEF Episode
  <2> QED
    BY <2>1
<1>5. IsFiniteSet(S)
  BY <1>3, <1>4, FS_Subset
<1>6. Cardinality(S) \in Nat /\ Cardinality(S) <= MaxEpisodes
  BY <1>5, FS_CardinalityType DEF Fits
<1>7. /\ DOMAIN c = 1 .. Len(c) /\ Len(c) \in Nat
      /\ \A i \in DOMAIN c : c[i] \in EpisodeRecord
  BY LenProperties
<1>8. \A i \in 1 .. Len(c) : h[i] \in S
  <2> TAKE i \in 1 .. Len(c)
  <2>1. c[i].since \in 1 .. MaxNotices /\ c[i].count \in Nat \ {0}
    BY <1>7 DEF EpisodeRecord
  <2>2. h[i] = <<f, c[i].since>> /\ h[i] \in Episode /\ h[i][1] = f
    BY <2>1 DEF Episode
  <2>3. s[h[i]] \in Nat /\ c[i].count <= s[h[i]]
    BY <1>7, <2>2
  <2>4. s[h[i]] > 0
    BY <2>1, <2>3
  <2> QED
    BY <2>2, <2>4
<1>9. \A i, j \in 1 .. Len(c) : h[i] = h[j] => i = j
  BY <1>7 DEF OneStart
<1>10. h \in [1 .. Len(c) -> S]
  BY <1>8
<1> HIDE DEF h, S
<1>11. h \in Injection(1 .. Len(c), S)
  BY <1>9, <1>10, Fun_IsInj
<1>12. Cardinality(1 .. Len(c)) <= Cardinality(S)
  BY <1>5, <1>11, FS_Injection
<1>13. Cardinality(1 .. Len(c)) = Len(c)
  BY <1>7, UpTo
<1> QED
  BY <1>1, <1>6, <1>7, <1>12, <1>13

\* The families of a ledger that counts no more than what was counted.
LEMMA FamiliesFit ==
    ASSUME NEW s \in [Episode -> Nat], Fits(s), AgentAssumption,
           NEW l, NEW now, Wellformed(l, now), Short(l), AtMost(l, s)
    PROVE  Cardinality(DOMAIN l) <= MaxFamilies
<1> DEFINE S == {e[1] : e \in {x \in Episode : s[x] > 0}}
<1>1. S \in SUBSET Families
  BY DEF Episode
<1>2. IsFiniteSet(S)
  BY <1>1, FS_Subset DEF AgentAssumption
<1>3. DOMAIN l \in SUBSET S
  <2> SUFFICES ASSUME NEW f \in DOMAIN l PROVE f \in S
    OBVIOUS
  <2>1. l[f] \in Seq(EpisodeRecord) /\ Len(l[f]) \in 1 .. MaxEpisodes
    BY DEF Wellformed, Short
  <2>2. 1 \in DOMAIN l[f]
    BY <2>1 DEF AgentAssumption
  <2> DEFINE e == <<f, l[f][1].since>>
  <2>3. e \in Episode /\ l[f][1].count \in Nat \ {0} /\ l[f][1].count <= s[e]
    BY <2>2, EpisodeOf DEF AtMost
  <2>4. s[e] \in Nat /\ e[1] = f
    BY <2>3
  <2> HIDE DEF e
  <2>5. s[e] > 0
    BY <2>3, <2>4
  <2> QED
    BY <2>3, <2>4, <2>5
<1>4. Cardinality(DOMAIN l) <= Cardinality(S)
  BY <1>2, <1>3, FS_Subset
<1>5. IsFiniteSet(DOMAIN l)
  BY <1>2, <1>3, FS_Subset
<1>6. Cardinality(DOMAIN l) \in Nat /\ Cardinality(S) \in Nat
  BY <1>2, <1>5, FS_CardinalityType
<1>7. Cardinality(S) <= MaxFamilies /\ MaxFamilies \in Nat
  BY DEF Fits, AgentAssumption
<1> QED
  BY <1>4, <1>6, <1>7

\* A commit to a ledger that shows everything shows everything, as long as it
\* fits and nothing is old.
LEMMA CommitShows ==
    ASSUME NEW l, NEW now \in Nat, Wellformed(l, now), Short(l),
           AgentAssumption,
           NEW s \in [Episode -> Nat], AtMost(l, s), Shows(l, s),
           NEW v, v.family \in Families, v.since \in 1 .. MaxNotices,
           Fits(Tally(s, v)), now <= MaxAge
    PROVE  Shows(Commit(l, v, now), Tally(s, v))
<1> DEFINE m == Written(l, v, now)
           t == Tally(s, v)
<1>1. Wellformed(m, now + 1) /\ Short(m) /\ AtMost(m, t)
  BY WrittenOK
<1>2. t \in [Episode -> Nat]
  BY TallyOK
<1>3. Cardinality(DOMAIN m) <= MaxFamilies
  <2> HIDE DEF m, t
  <2> QED
    BY <1>1, <1>2, FamiliesFit DEF t
<1>4. Commit(l, v, now) = m
  <2>1. Commit(l, v, now) = Pruned(m, now)
    BY DEF Commit, Written
  <2>2. now + 1 \in Nat
    OBVIOUS
  <2> HIDE DEF m, t
  <2>3. Pruned(m, now) = m
    BY <1>1, <1>3, <2>2, PrunedOK
  <2> QED
    BY <2>1, <2>3
<1>5. Shows(m, t)
  <2>1. CASE v.kind = "resolved"
    <3>1. m = Resolved(l, v, now) /\ t = s
      BY <2>1 DEF Written, Tally
    <3>2. /\ DOMAIN m = DOMAIN l
          /\ \A f \in DOMAIN l :
                /\ DOMAIN m[f] = DOMAIN l[f]
                /\ \A i \in DOMAIN l[f] : /\ m[f][i].since = l[f][i].since
                                          /\ m[f][i].count = l[f][i].count
      BY <3>1, ResolvedOK
    <3> HIDE DEF m, t
    <3> QED
      BY <3>1, <3>2 DEF Shows
  <2>2. CASE v.kind # "resolved"
    <3> DEFINE c == Counted(l, v, now)
               old == Episodes(l, v.family)
               x == <<v.family, v.since>>
    <3>1. m = Sighted(l, v, now)
      BY <2>2 DEF Written
    <3>2. /\ c \in Seq(EpisodeRecord) /\ OneStart(c)
          /\ Recounted(old, c, v.since, now)
      BY CountedOK
    <3>3. \A i \in DOMAIN c : c[i].count <= t[<<v.family, c[i].since>>]
      BY <2>2, CountedAtMost
    <3>4. Len(c) <= MaxEpisodes
      <4> HIDE DEF c, t
      <4> QED
        BY <1>2, <3>2, <3>3, EpisodesFit DEF t
    <3>5. Sighted(l, v, now)[v.family] = c
      <4>1. Sighted(l, v, now)[v.family] = Newest(c)
        BY DEF Sighted
      <4>2. Len(c) <= MaxEpisodes => Newest(c) = c
        BY SightedOK
      <4> QED
        BY <3>4, <4>1, <4>2
    <3>6. \A f \in DOMAIN l \ {v.family} : Sighted(l, v, now)[f] = l[f]
      BY SightedOK
    <3>7. DOMAIN Sighted(l, v, now) = DOMAIN l \cup {v.family}
      BY DEF Sighted
    <3>8. /\ x \in Episode /\ t[x] = s[x] + 1 /\ s[x] \in Nat
          /\ \A e \in Episode : e # x => t[e] = s[e]
      BY <2>2, TallyOK DEF Episode
    <3>9. ASSUME NEW j \in DOMAIN old
          PROVE  /\ old = l[v.family] /\ v.family \in DOMAIN l
                 /\ old[j].count \in Nat \ {0}
                 /\ <<v.family, old[j].since>> \in Episode
                 /\ old[j].count <= s[<<v.family, old[j].since>>]
      <4>1. old = l[v.family] /\ v.family \in DOMAIN l
        BY DEF Episodes
      <4> QED
        BY <4>1, EpisodeOf DEF AtMost
    <3>10. OneStart(old)
      BY FindOK
    <3>11. v.family \in DOMAIN l => old = l[v.family]
      BY DEF Episodes
    <3> HIDE DEF m, t, c, old
    <3>12. ASSUME NEW e \in Episode, t[e] > 0, e[1] # v.family
           PROVE  /\ e[1] \in DOMAIN m
                  /\ \E i \in DOMAIN m[e[1]] : /\ m[e[1]][i].since = e[2]
                                               /\ m[e[1]][i].count = t[e]
      <4>1. e # x
        BY <3>12
      <4>2. t[e] = s[e]
        BY <3>8, <4>1
      <4>3. /\ e[1] \in DOMAIN l
            /\ \E i \in DOMAIN l[e[1]] : /\ l[e[1]][i].since = e[2]
                                         /\ l[e[1]][i].count = s[e]
        BY <3>12, <4>2 DEF Shows
      <4>4. e[1] \in DOMAIN m /\ m[e[1]] = l[e[1]]
        BY <3>1, <3>6, <3>7, <3>12, <4>3
      <4> QED
        BY <4>2, <4>3, <4>4
    <3>13. ASSUME NEW e \in Episode, t[e] > 0, e[1] = v.family
           PROVE  \E i \in DOMAIN c : c[i].since = e[2] /\ c[i].count = t[e]
      <4>1. e = <<v.family, e[2]>>
        BY <3>13 DEF Episode
      <4>2. CASE e[2] # v.since
        <5>1. e # x
          BY <4>1, <4>2
        <5>2. t[e] = s[e] /\ s[e] > 0
          BY <3>8, <3>13, <5>1
        <5>3. PICK j \in DOMAIN l[v.family] :
                 l[v.family][j].since = e[2] /\ l[v.family][j].count = s[e]
          BY <3>13, <5>2 DEF Shows
        <5>4. v.family \in DOMAIN l
          BY <3>13, <5>2 DEF Shows
        <5>5. PICK i \in DOMAIN c : c[i] = l[v.family][j]
          BY <3>2, <3>11, <4>2, <5>3, <5>4 DEF Recounted
        <5> QED
          BY <5>2, <5>3, <5>5
      <4>3. CASE e[2] = v.since
        <5>1. e = x
          BY <4>1, <4>3
        <5>2. PICK i \in DOMAIN c : c[i].since = v.since
          BY <3>2 DEF Recounted
        <5>3. CASE /\ c[i].count = 1
                   /\ \A j \in DOMAIN old : old[j].since # v.since
          <6>1. s[x] = 0
            <7> SUFFICES ASSUME s[x] > 0 PROVE FALSE
              BY <3>8
            <7>1. /\ v.family \in DOMAIN l
                  /\ \E j \in DOMAIN l[v.family] :
                        l[v.family][j].since = v.since
              BY <3>8 DEF Shows
            <7> QED
              BY <3>11, <5>3, <7>1
          <6> QED
            BY <3>8, <4>3, <5>1, <5>2, <5>3, <6>1
        <5>4. ASSUME NEW j \in DOMAIN old, old[j].since = v.since,
                     c[i].count = old[j].count + 1
              PROVE  c[i].count = t[e]
          <6>1. s[x] > 0 /\ v.family \in DOMAIN l /\ old = l[v.family]
            BY <3>8, <3>9, <5>4
          <6>2. PICK k \in DOMAIN l[v.family] :
                   l[v.family][k].since = v.since /\ l[v.family][k].count = s[x]
            BY <3>8, <6>1 DEF Shows
          <6>3. k = j
            BY <3>10, <5>4, <6>1, <6>2 DEF OneStart
          <6> QED
            BY <3>8, <5>1, <5>4, <6>1, <6>2, <6>3
        <5> QED
          BY <3>2, <4>3, <5>2, <5>3, <5>4 DEF Recounted
      <4> QED
        BY <4>2, <4>3
    <3>14. v.family \in DOMAIN m /\ m[v.family] = c
      BY <3>1, <3>5, <3>7
    <3> QED
      BY <3>12, <3>13, <3>14 DEF Shows
  <2> QED
    BY <2>1, <2>2
<1> QED
  BY <1>4, <1>5

-----------------------------------------------------------------------------
(* The verdict. *)

\* A verdict is one, and calls a notice a repeat only when every instance was
\* counted.
LEMMA ClassifyOK ==
    ASSUME NEW l, NEW now, NEW s \in [Episode -> Nat],
           l # Corrupt => Wellformed(l, now) /\ AtMost(l, s),
           AgentAssumption,
           NEW top \in Nat, top < MaxNotices, \A e \in Episode : s[e] <= top,
           NEW notice \in Seq(InstanceType)
    PROVE  /\ Classify(l, notice) \in VerdictType
           /\ Classify(l, notice).kind # "none" =>
                 /\ Classify(l, notice).family \in Families
                 /\ Classify(l, notice).since \in 1 .. MaxNotices
           /\ notice = <<>> => Classify(l, notice).kind = "none"
           /\ Classify(l, notice).kind = "repeat" =>
                 \A i \in Range(notice) : s[<<i.family, i.since>>] > 0
<1>1. MaxNotices \in Nat \ {0}
  BY MaxNoticesOK
<1>2. /\ DOMAIN notice = 1 .. Len(notice) /\ Len(notice) \in Nat
      /\ \A n \in DOMAIN notice : notice[n] \in InstanceType
  BY LenProperties
<1>3. Range(notice) \subseteq InstanceType
  BY <1>2 DEF Range
<1>4. CASE notice = <<>>
  <2>1. Classify(l, notice) = NoVerdict
    BY <1>4 DEF Classify
  <2>2. NoVerdict \in VerdictType /\ NoVerdict.kind = "none"
    BY <1>1 DEF NoVerdict, VerdictType
  <2> QED
    BY <2>1, <2>2
<1>5. ASSUME notice # <<>>
      PROVE  /\ notice[1].family \in Families
             /\ notice[1].since \in 1 .. MaxNotices
             /\ notice[1] \in Range(notice)
  <2>1. Len(notice) \in Nat \ {0}
    BY <1>5, EmptySeq
  <2>2. 1 \in DOMAIN notice
    BY <1>2, <2>1
  <2>3. notice[1] \in InstanceType
    BY <1>2, <2>2
  <2> QED
    BY <2>2, <2>3 DEF InstanceType, Range
<1>6. ASSUME notice # <<>>,
             NEW kind \in {"unknown", "new", "new_episode", "repeat",
                          "resolved"},
             NEW count \in 0 .. MaxNotices
      PROVE  /\ Verdict(kind, notice, count) \in VerdictType
             /\ Verdict(kind, notice, count).kind = kind
             /\ Verdict(kind, notice, count).family \in Families
             /\ Verdict(kind, notice, count).since \in 1 .. MaxNotices
  <2>1. notice[1].family \in Families /\ notice[1].since \in 1 .. MaxNotices
    BY <1>5, <1>6
  <2>2. notice[1].since \in 0 .. MaxNotices
    BY <1>1, <2>1
  <2> QED
    BY <2>1, <2>2 DEF Verdict, VerdictType
<1>7. CASE notice # <<>> /\ l = Corrupt
  <2>1. Classify(l, notice) = Verdict("unknown", notice, 0)
    BY <1>7 DEF Classify
  <2>2. 0 \in 0 .. MaxNotices
    BY <1>1
  <2> QED
    BY <1>6, <1>7, <2>1, <2>2
<1>8. CASE /\ notice # <<>>
           /\ l # Corrupt
           /\ \A n \in DOMAIN notice : notice[n].resolved
  <2>1. Classify(l, notice) = Verdict("resolved", notice, 0)
    BY <1>8 DEF Classify
  <2>2. 0 \in 0 .. MaxNotices
    BY <1>1
  <2> QED
    BY <1>6, <1>8, <2>1, <2>2
<1>9. CASE /\ notice # <<>>
           /\ l # Corrupt
           /\ ~ \A n \in DOMAIN notice : notice[n].resolved
  <2> DEFINE kinds == {InstanceKind(l, i) : i \in Range(notice)}
             counts == {InstanceCount(l, i) : i \in Range(notice)}
  <2>1. Classify(l, notice) = Verdict(FiringKind(kinds), notice, Max(counts))
    BY <1>9 DEF Classify
  <2>2. Wellformed(l, now) /\ AtMost(l, s)
    BY <1>9
  <2>3. ASSUME NEW i \in Range(notice), Places(l, i.family, i.since) # {}
        PROVE  /\ s[<<i.family, i.since>>] > 0
               /\ Find(l, i.family, i.since).count \in 1 .. top
    <3>1. PICK p \in Places(l, i.family, i.since) : TRUE
      BY <2>3
    <3>2. /\ i.family \in DOMAIN l
          /\ Find(l, i.family, i.since) = Episodes(l, i.family)[p]
      BY <2>2, <2>3, FindOK
    <3>3. Episodes(l, i.family) = l[i.family]
      BY <3>2 DEF Episodes
    <3>4. p \in DOMAIN l[i.family] /\ l[i.family][p].since = i.since
      BY <3>1, <3>3 DEF Places
    <3> DEFINE n == l[i.family][p].count
               e == <<i.family, i.since>>
    <3>5. e \in Episode /\ n \in Nat \ {0}
      BY <2>2, <3>2, <3>4, EpisodeOf
    <3>6. n <= s[e]
      BY <2>2, <3>2, <3>4 DEF AtMost
    <3>7. s[e] \in Nat /\ s[e] <= top
      BY <3>5
    <3>8. Find(l, i.family, i.since).count = n
      BY <3>2, <3>3
    <3> HIDE DEF n, e
    <3>9. s[e] > 0 /\ n \in 1 .. top
      BY <3>5, <3>6, <3>7
    <3> QED
      BY <3>8, <3>9 DEF e
  <2>4. \A i \in Range(notice) : InstanceCount(l, i) \in 1 .. MaxNotices
    <3> TAKE i \in Range(notice)
    <3>1. CASE Open(l, i.family, i.since)
      <4>1. Find(l, i.family, i.since).count \in 1 .. top
        BY <2>3, <3>1 DEF Open
      <4>2. InstanceCount(l, i) = Find(l, i.family, i.since).count + 1
        BY <3>1 DEF InstanceCount
      <4> QED
        BY <1>1, <4>1, <4>2
    <3>2. CASE ~Open(l, i.family, i.since)
      BY <1>1, <3>2 DEF InstanceCount
    <3> QED
      BY <3>1, <3>2
  <2>5. Max(counts) \in 1 .. MaxNotices
    <3>1. counts \in SUBSET (1 .. MaxNotices) /\ counts # {}
      BY <1>5, <1>9, <2>4
    <3>2. IsFiniteSet(1 .. MaxNotices)
      BY <1>1, UpTo
    <3> HIDE DEF counts
    <3>3. IsFiniteSet(counts) /\ counts \in SUBSET Int
      <4>1. IsFiniteSet(counts)
        BY <3>1, <3>2, FS_Subset
      <4> QED
        BY <3>1, <4>1
    <3>4. Max(counts) \in counts
      BY <3>1, <3>3, MaxOfFinite
    <3> QED
      BY <3>1, <3>4
  <2>6. FiringKind(kinds) \in {"new", "new_episode", "repeat"}
    BY DEF FiringKind
  <2>7. ASSUME FiringKind(kinds) = "repeat", NEW i \in Range(notice)
        PROVE  s[<<i.family, i.since>>] > 0
    <3>1. InstanceKind(l, i) \in kinds
      OBVIOUS
    <3>2. "new" \notin kinds /\ "new_episode" \notin kinds
      BY <2>7 DEF FiringKind
    <3>3. InstanceKind(l, i) \notin {"new", "new_episode"}
      BY <3>1, <3>2
    <3>4. Open(l, i.family, i.since)
      BY <3>3 DEF InstanceKind
    <3> QED
      BY <2>3, <3>4 DEF Open
  <2>8. Max(counts) \in 0 .. MaxNotices
    BY <1>1, <2>5
  <2> HIDE DEF kinds, counts
  <2>9. /\ Classify(l, notice) \in VerdictType
        /\ Classify(l, notice).kind = FiringKind(kinds)
        /\ Classify(l, notice).family \in Families
        /\ Classify(l, notice).since \in 1 .. MaxNotices
    BY <1>6, <1>9, <2>1, <2>6, <2>8
  <2> QED
    BY <1>9, <2>7, <2>9
<1> QED
  BY <1>4, <1>7, <1>8, <1>9
=============================================================================
