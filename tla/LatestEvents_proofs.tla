------------------------ MODULE LatestEvents_proofs ------------------------
(***************************************************************************)
(* The latest mode for every chain, every range, every batch size, every   *)
(* number of logs asked for and every capacity: its variables keep their   *)
(* types, a rewind that ends without an error has streamed its whole       *)
(* range, a tip that is canonical vouches for all that was streamed, and a *)
(* collection that has caught up holds the newest logs of the blocks that  *)
(* stand.                                                                  *)
(*                                                                         *)
(* The first part says what the operators of a collection do: NewestFirst  *)
(* lists a set of numbers, and Extend, Prepend and DiscardOrphaned of such *)
(* lists are lists again, of the union and of what is left.  The inductive *)
(* invariant IInv is that of the rewind (RewindInv: what is held has no    *)
(* hole, from the iterator of the descent up to that of the rescan, and    *)
(* the memory of the handler has room for nothing but the tip) and of the  *)
(* collector (CollectorInv).  Vouched adds which blocks can be stale while *)
(* the tip is canonical; it needs FinalityWaits.                           *)
(*                                                                         *)
(* CollectsWhatStands speaks of a collector that may be several messages   *)
(* behind the rewind.  Witnessed therefore has a view of the stream before *)
(* every message on its way: what a consumer holds who has read so far,    *)
(* and how far up the last common ancestor was.  Between two views a batch *)
(* is above or below everything held (Follows), so that to put its logs in *)
(* front or behind is right; the first view is the one the collector has   *)
(* (Gathered), and the last one is where the rewind stands (Streamed).     *)
(***************************************************************************)
EXTENDS LatestEvents, BlockLemmas, FiniteSetTheorems, FunctionTheorems

-----------------------------------------------------------------------------
(* Collections of logs. *)

\* s lists the numbers of A, the newest first.
Lists(s, A) ==
    /\ s \in Seq(Int)
    /\ \A i, j \in 1 .. Len(s) : i < j => s[j] < s[i]
    /\ A = {s[i] : i \in 1 .. Len(s)}

\* The numbers of A above n.
Newer(A, n) == {m \in A : m > n}

\* As many numbers come before the i-th as its index says.
LEMMA ListRanks ==
    ASSUME NEW A, NEW s, Lists(s, A)
    PROVE  /\ IsFiniteSet(A) /\ Cardinality(A) = Len(s) /\ A \subseteq Int
           /\ \A i \in 1 .. Len(s) : Cardinality(Newer(A, s[i])) = i - 1
<1>1. /\ Len(s) \in Nat /\ \A i \in 1 .. Len(s) : s[i] \in Int
      /\ \A i, j \in 1 .. Len(s) : i < j => s[j] < s[i]
    BY ElementOfSeq, LenProperties DEF Lists
<1>2. ASSUME NEW k \in 0 .. Len(s)
      PROVE  /\ IsFiniteSet({s[j] : j \in 1 .. k})
             /\ Cardinality({s[j] : j \in 1 .. k}) = k
  <2> DEFINE P == {s[j] : j \in 1 .. k}
             f == [j \in 1 .. k |-> s[j]]
  <2>1. k \in Nat /\ 1 .. k \subseteq 1 .. Len(s)
    BY <1>1
  <2>2. f \in [1 .. k -> P] /\ \A t \in P : \E j \in 1 .. k : f[j] = t
    OBVIOUS
  <2>3. \A a, b \in 1 .. k : f[a] = f[b] => a = b
    <3> SUFFICES ASSUME NEW a \in 1 .. k, NEW b \in 1 .. k, s[a] = s[b] PROVE a = b
        BY DEF f
    <3>1. a \in 1 .. Len(s) /\ b \in 1 .. Len(s) /\ a \in Int /\ b \in Int
      BY <2>1
    <3>2. ~(s[a] < s[b]) /\ ~(s[b] < s[a])
      BY <1>1, <3>1
    <3> QED
      BY <1>1, <3>1, <3>2
  <2> HIDE DEF f, P
  <2>4. f \in Bijection(1 .. k, P)
    BY <2>2, <2>3, Fun_IsBij
  <2>5. ExistsBijection(1 .. k, P)
    BY <2>4 DEF ExistsBijection
  <2>6. IsFiniteSet(P) /\ Cardinality(P) = k
    BY <2>1, <2>5, FS_CountingElements, FS_NatBijection
  <2> QED
    BY <2>6 DEF P
<1>3. A = {s[j] : j \in 1 .. Len(s)}
    BY DEF Lists
<1>4. IsFiniteSet(A) /\ Cardinality(A) = Len(s)
  <2>1. Len(s) \in 0 .. Len(s)
    BY <1>1
  <2> QED
    BY <1>2, <1>3, <2>1
<1>5. ASSUME NEW i \in 1 .. Len(s) PROVE Cardinality(Newer(A, s[i])) = i - 1
  <2>1. i - 1 \in 0 .. Len(s)
    BY <1>1
  <2>2. Newer(A, s[i]) = {s[j] : j \in 1 .. i - 1}
    <3>1. ASSUME NEW m \in Newer(A, s[i]) PROVE m \in {s[j] : j \in 1 .. i - 1}
      <4>1. PICK j \in 1 .. Len(s) : m = s[j]
        BY <1>3 DEF Newer
      <4>2. s[j] > s[i]
        BY <4>1 DEF Newer
      <4>3. j < i
        BY <1>1, <4>2
      <4> QED
        BY <1>1, <4>1, <4>3
    <3>2. ASSUME NEW j \in 1 .. i - 1 PROVE s[j] \in Newer(A, s[i])
      <4>1. j \in 1 .. Len(s) /\ j < i
        BY <1>1
      <4> QED
        BY <1>1, <1>3, <4>1 DEF Newer
    <3> QED
      BY <3>1, <3>2
  <2> QED
    BY <1>2, <2>1, <2>2
<1> QED
    BY <1>1, <1>3, <1>4, <1>5

\* There is only one such list, the one NewestFirst makes.
LEMMA ListIsNewestFirst ==
    ASSUME NEW A, NEW s, Lists(s, A)
    PROVE  NewestFirst(A) = s
<1>1. /\ Cardinality(A) = Len(s) /\ A = {s[j] : j \in 1 .. Len(s)} /\ Len(s) \in Nat
      /\ \A i \in 1 .. Len(s) : Cardinality(Newer(A, s[i])) = i - 1
    BY ListRanks, LenProperties DEF Lists
<1> DEFINE pick(i) == CHOOSE n \in A : Cardinality(Newer(A, n)) = i - 1
<1>2. ASSUME NEW i \in 1 .. Len(s) PROVE pick(i) = s[i]
  <2>1. \E n \in A : Cardinality(Newer(A, n)) = i - 1
    BY <1>1
  <2>2. pick(i) \in A /\ Cardinality(Newer(A, pick(i))) = i - 1
    BY <2>1
  <2>3. PICK j \in 1 .. Len(s) : pick(i) = s[j]
    BY <1>1, <2>2
  <2>4. j - 1 = i - 1
    BY <1>1, <2>2, <2>3
  <2> QED
    BY <2>3, <2>4
<1>3. NewestFirst(A) = [i \in 1 .. Len(s) |-> pick(i)]
    BY <1>1 DEF NewestFirst, Newer
<1>4. s = [i \in 1 .. Len(s) |-> s[i]]
    BY LenProperties DEF Lists
<1> QED
    BY <1>2, <1>3, <1>4

\* And every finite set of numbers has one.
LEMMA NewestFirstLists ==
    ASSUME NEW A, A \subseteq Int, IsFiniteSet(A)
    PROVE  /\ Lists(NewestFirst(A), A)
           /\ NewestFirst(A) \in Seq(A) /\ Len(NewestFirst(A)) = Cardinality(A)
<1> DEFINE c == Cardinality(A)
           rank == [n \in A |-> Cardinality(Newer(A, n))]
           s == NewestFirst(A)
<1>1. c \in Nat
    BY FS_CardinalityType
<1>2. ASSUME NEW n \in A
      PROVE  /\ Newer(A, n) \in SUBSET A /\ IsFiniteSet(Newer(A, n))
             /\ Cardinality(Newer(A, n)) \in 0 .. c - 1
  <2>1. Newer(A, n) \in SUBSET A /\ n \notin Newer(A, n)
    BY DEF Newer
  <2>2. IsFiniteSet(Newer(A, n)) /\ Cardinality(Newer(A, n)) <= c /\ Cardinality(Newer(A, n)) # c
    BY <2>1, FS_Subset
  <2>3. Cardinality(Newer(A, n)) \in Nat
    BY <2>2, FS_CardinalityType
  <2> QED
    BY <1>1, <2>1, <2>2, <2>3
<1>3. ASSUME NEW n \in A, NEW m \in A, n < m
      PROVE  rank[m] < rank[n]
  <2>1. Newer(A, m) \in SUBSET Newer(A, n) /\ m \in Newer(A, n) /\ m \notin Newer(A, m)
    <3>1. n \in Int /\ m \in Int /\ A \subseteq Int
      OBVIOUS
    <3>2. \A k \in A : k > m => k > n
      BY <1>3, <3>1
    <3>3. m > n /\ ~(m > m)
      BY <1>3, <3>1
    <3> QED
      BY <3>2, <3>3 DEF Newer
  <2>2. Cardinality(Newer(A, m)) <= Cardinality(Newer(A, n)) /\ Cardinality(Newer(A, m)) # Cardinality(Newer(A, n))
    BY <1>2, <2>1, FS_Subset
  <2>3. Cardinality(Newer(A, m)) \in Int /\ Cardinality(Newer(A, n)) \in Int
    BY <1>2
  <2>4. Cardinality(Newer(A, m)) < Cardinality(Newer(A, n))
    BY <2>2, <2>3
  <2> QED
    BY <2>4
<1>4. rank \in [A -> 0 .. c - 1]
    BY <1>2
<1>5. \A n, m \in A : rank[n] = rank[m] => n = m
  <2> SUFFICES ASSUME NEW n \in A, NEW m \in A, rank[n] = rank[m] PROVE n = m
      OBVIOUS
  <2>1. rank[n] \in Int /\ rank[m] \in Int /\ n \in Int /\ m \in Int
    BY <1>4
  <2>2. ~(n < m) /\ ~(m < n)
    BY <1>3, <2>1
  <2> QED
    BY <2>1, <2>2
<1> HIDE DEF rank
<1>6. rank \in Surjection(A, 0 .. c - 1)
  <2>1. rank \in Injection(A, 0 .. c - 1)
    BY <1>4, <1>5, Fun_IsInj
  <2>2. IsFiniteSet(0 .. c - 1) /\ Cardinality(0 .. c - 1) = c
    BY <1>1, FS_Interval
  <2> QED
    BY <2>1, <2>2, FS_Injection
<1>7. ASSUME NEW i \in 1 .. c
      PROVE  s[i] \in A /\ rank[s[i]] = i - 1
  <2>1. i - 1 \in 0 .. c - 1
    BY <1>1
  <2>2. \E n \in A : rank[n] = i - 1
    BY <1>6, <2>1 DEF Surjection
  <2>3. \E n \in A : Cardinality(Newer(A, n)) = i - 1
    BY <2>2 DEF rank
  <2>4. s[i] = CHOOSE n \in A : Cardinality(Newer(A, n)) = i - 1
    BY DEF NewestFirst, Newer
  <2>5. s[i] \in A /\ Cardinality(Newer(A, s[i])) = i - 1
    BY <2>3, <2>4
  <2> QED
    BY <2>5 DEF rank
<1> HIDE DEF s
<1>8. s \in Seq(A) /\ Len(s) = c
  <2> DEFINE pick(i) == CHOOSE n \in A : Cardinality({m \in A : m > n}) = i - 1
  <2>1. s = [i \in 1 .. c |-> pick(i)]
    BY DEF NewestFirst, s
  <2> HIDE DEF pick
  <2>2. \A i \in 1 .. c : pick(i) \in A
    BY <1>7, <2>1
  <2>3. s \in [1 .. c -> A]
    BY <2>1, <2>2
  <2> QED
    BY <1>1, <2>3
<1>9. ASSUME NEW i \in 1 .. c, NEW j \in 1 .. c, i < j
      PROVE  s[j] < s[i]
  <2>1. /\ s[i] \in A /\ s[j] \in A /\ s[i] \in Int /\ s[j] \in Int /\ i \in Int /\ j \in Int
        /\ rank[s[i]] = i - 1 /\ rank[s[j]] = j - 1
    <3>1. s[i] \in A /\ s[j] \in A /\ rank[s[i]] = i - 1 /\ rank[s[j]] = j - 1
      BY <1>7
    <3>2. i \in Int /\ j \in Int
      BY <1>1
    <3> QED
      BY <3>1, <3>2
  <2>2. ~(s[i] < s[j])
    <3>1. s[i] < s[j] => rank[s[j]] < rank[s[i]]
      BY <1>3, <2>1
    <3> QED
      BY <1>9, <2>1, <3>1
  <2>3. s[i] # s[j]
    BY <1>9, <2>1
  <2> QED
    BY <2>1, <2>2, <2>3
<1>10. ASSUME NEW n \in A PROVE \E i \in 1 .. c : s[i] = n
  <2>1. rank[n] \in 0 .. c - 1
    BY <1>4
  <2>2. rank[n] + 1 \in 1 .. c
    BY <1>1, <2>1
  <2>3. s[rank[n] + 1] \in A /\ rank[s[rank[n] + 1]] = (rank[n] + 1) - 1
    BY <1>7, <2>2
  <2>4. rank[s[rank[n] + 1]] = rank[n]
    BY <2>1, <2>3
  <2> QED
    BY <1>5, <2>2, <2>3, <2>4
<1> HIDE DEF c
<1>11. A = {s[i] : i \in 1 .. Len(s)}
    BY <1>7, <1>8, <1>10
<1>12. s \in Seq(Int)
    BY <1>8, SeqMonotonic
<1> QED
    BY <1>8, <1>9, <1>11, <1>12 DEF Lists, s, c

\* The newest of a finite set of numbers.
LEMMA MaxIsNewest ==
    ASSUME NEW A, A \subseteq Int, IsFiniteSet(A), A # {}
    PROVE  Max(A) \in A /\ \A n \in A : n <= Max(A)
<1> DEFINE s == NewestFirst(A)
<1>1. Lists(s, A)
    BY NewestFirstLists
<1> HIDE DEF s
<1>2. /\ Len(s) \in Nat /\ A = {s[i] : i \in 1 .. Len(s)}
      /\ \A i, j \in 1 .. Len(s) : i < j => s[j] < s[i]
    BY <1>1, LenProperties DEF Lists
<1>3. 1 \in 1 .. Len(s)
    BY <1>2
<1>4. \A i \in 1 .. Len(s) : s[i] <= s[1]
  <2> SUFFICES ASSUME NEW i \in 1 .. Len(s) PROVE s[i] <= s[1]
      OBVIOUS
  <2>1. s[i] \in Int /\ s[1] \in Int
    BY <1>2, <1>3
  <2>2. i = 1 \/ 1 < i
    BY <1>2
  <2> QED
    BY <1>2, <1>3, <2>1, <2>2
<1>5. \E m \in A : \A n \in A : m >= n
  <2>1. s[1] \in A /\ \A n \in A : n <= s[1]
    BY <1>2, <1>3, <1>4
  <2>2. \A n \in A : s[1] >= n
    BY <2>1
  <2> QED
    BY <2>1, <2>2
<1>6. Max(A) \in A /\ \A n \in A : Max(A) >= n
    BY <1>5 DEF Max
<1> QED
    BY <1>6

\* At most the first n.
LEMMA FirstOfIs ==
    ASSUME NEW S, NEW s \in Seq(S), NEW n \in Nat
    PROVE  /\ FirstOf(s, n) \in Seq(S)
           /\ Len(FirstOf(s, n)) = (IF n <= Len(s) THEN n ELSE Len(s))
           /\ \A i \in 1 .. Len(FirstOf(s, n)) : FirstOf(s, n)[i] = s[i]
           /\ Len(s) <= n => FirstOf(s, n) = s
<1> DEFINE k == IF n <= Len(s) THEN n ELSE Len(s)
<1>1. Len(s) \in Nat /\ k \in 0 .. Len(s) /\ k \in Int
    BY LenProperties
<1>2. Min({n, Len(s)}) = k
  <2>1. /\ k \in {n, Len(s)} /\ \A y \in {n, Len(s)} : k <= y
    BY <1>1
  <2>2. \A x \in {n, Len(s)} : (\A y \in {n, Len(s)} : x <= y) => x = k
    BY <1>1
  <2> HIDE DEF k
  <2> QED
    BY <2>1, <2>2 DEF Min
<1>3. FirstOf(s, n) = SubSeq(s, 1, k)
    BY <1>2 DEF FirstOf
<1>4. \A i \in 1 .. k : s[i] \in S
    BY <1>1, ElementOfSeq
<1> HIDE DEF k
<1>5. /\ SubSeq(s, 1, k) \in Seq(S)
      /\ Len(SubSeq(s, 1, k)) = IF 1 <= k THEN k - 1 + 1 ELSE 0
      /\ \A i \in 1 .. k - 1 + 1 : SubSeq(s, 1, k)[i] = s[1 + i - 1]
    BY <1>1, <1>4, SubSeqProperties
<1>6. Len(SubSeq(s, 1, k)) = k /\ \A i \in 1 .. k : SubSeq(s, 1, k)[i] = s[i]
    BY <1>1, <1>5
<1>7. Len(s) <= n => k = Len(s)
    BY <1>1 DEF k
<1>8. Len(s) <= n => SubSeq(s, 1, k) = s
    BY <1>7, SubSeqFull
<1> QED
    BY <1>3, <1>5, <1>6, <1>8 DEF k

\* Older logs behind newer ones, and no more than there may be, is the same as
\* the newest of all of them (collect_logs, either way).
LEMMA ExtendIs ==
    ASSUME NEW S, NEW s \in Seq(S), NEW t \in Seq(S), Len(s) <= Count
    PROVE  Extend(s, t) \in Seq(S) /\ Extend(s, t) = FirstOf(s \o t, Count)
<1> DEFINE r == FirstOf(t, Count - Len(s))
           e == s \o r
           f == FirstOf(s \o t, Count)
<1>1. Count \in Nat /\ Len(s) \in Nat /\ Len(t) \in Nat /\ Count - Len(s) \in Nat
    BY CountAssumption, LenProperties
<1>2. /\ r \in Seq(S) /\ Len(r) = (IF Count - Len(s) <= Len(t) THEN Count - Len(s) ELSE Len(t))
      /\ \A i \in 1 .. Len(r) : r[i] = t[i]
    BY <1>1, FirstOfIs
<1> HIDE DEF r
<1>3. /\ e \in Seq(S) /\ Len(e) = Len(s) + Len(r)
      /\ \A i \in 1 .. Len(s) + Len(r) : e[i] = IF i <= Len(s) THEN s[i] ELSE r[i - Len(s)]
    BY <1>2, ConcatProperties
<1>4. /\ s \o t \in Seq(S) /\ Len(s \o t) = Len(s) + Len(t)
      /\ \A i \in 1 .. Len(s) + Len(t) :
            (s \o t)[i] = IF i <= Len(s) THEN s[i] ELSE t[i - Len(s)]
    BY ConcatProperties
<1>5. /\ f \in Seq(S) /\ Len(f) = (IF Count <= Len(s \o t) THEN Count ELSE Len(s \o t))
      /\ \A i \in 1 .. Len(f) : f[i] = (s \o t)[i]
    BY <1>1, <1>4, FirstOfIs
<1> HIDE DEF e, f
<1>6. Len(e) = Len(f)
    BY <1>1, <1>2, <1>3, <1>4, <1>5
<1>7. \A i \in 1 .. Len(e) : e[i] = f[i]
  <2> SUFFICES ASSUME NEW i \in 1 .. Len(e) PROVE e[i] = f[i]
      OBVIOUS
  <2>1. /\ Len(r) \in Nat /\ Len(r) <= Len(t) /\ Len(e) = Len(s) + Len(r) /\ i \in Int
      BY <1>1, <1>2, <1>3
  <2>2. i \in 1 .. Len(s) + Len(r) /\ i \in 1 .. Len(s) + Len(t) /\ i \in 1 .. Len(f)
    BY <1>1, <1>6, <2>1
  <2>3. f[i] = IF i <= Len(s) THEN s[i] ELSE t[i - Len(s)]
    BY <1>4, <1>5, <2>2
  <2>4. e[i] = IF i <= Len(s) THEN s[i] ELSE r[i - Len(s)]
    BY <1>3, <2>2
  <2>5. i > Len(s) => i - Len(s) \in 1 .. Len(r)
    BY <1>1, <2>1, <2>2
  <2> QED
    BY <1>1, <1>2, <2>1, <2>3, <2>4, <2>5
<1>8. e = f
    BY <1>3, <1>5, <1>6, <1>7, SeqEqual
<1> QED
    BY <1>3, <1>8 DEF e, f, r, Extend

\* Newer logs in front of older ones: the newest of all of them.
LEMMA PrependIs ==
    ASSUME NEW S, NEW s \in Seq(S), NEW t \in Seq(S)
    PROVE  Prepend(s, t) \in Seq(S) /\ Prepend(s, t) = FirstOf(t \o s, Count)
<1> DEFINE q == FirstOf(t, Count)
           r == FirstOf(s, Count - Len(q))
           e == q \o r
           w == t \o s
           f == FirstOf(w, Count)
<1>1. Count \in Nat /\ Len(s) \in Nat /\ Len(t) \in Nat
    BY CountAssumption, LenProperties
<1>2. /\ q \in Seq(S) /\ Len(q) = (IF Count <= Len(t) THEN Count ELSE Len(t))
      /\ \A i \in 1 .. Len(q) : q[i] = t[i]
    BY <1>1, FirstOfIs
<1> HIDE DEF q
<1>3. Len(q) \in Nat /\ Count - Len(q) \in Nat
    BY <1>1, <1>2
<1>4. /\ r \in Seq(S)
      /\ Len(r) = (IF Count - Len(q) <= Len(s) THEN Count - Len(q) ELSE Len(s))
      /\ \A i \in 1 .. Len(r) : r[i] = s[i]
    BY <1>3, FirstOfIs
<1> HIDE DEF r
<1>5. /\ e \in Seq(S) /\ Len(e) = Len(q) + Len(r)
      /\ \A i \in 1 .. Len(q) + Len(r) : e[i] = IF i <= Len(q) THEN q[i] ELSE r[i - Len(q)]
  <2>1. q \in Seq(S) /\ r \in Seq(S)
    BY <1>2, <1>4
  <2> QED
    BY <2>1, ConcatProperties
<1>6. /\ w \in Seq(S) /\ Len(w) = Len(t) + Len(s)
      /\ \A i \in 1 .. Len(t) + Len(s) : w[i] = IF i <= Len(t) THEN t[i] ELSE s[i - Len(t)]
    BY ConcatProperties
<1> HIDE DEF w
<1>7. /\ f \in Seq(S) /\ Len(f) = (IF Count <= Len(w) THEN Count ELSE Len(w))
      /\ \A i \in 1 .. Len(f) : f[i] = w[i]
  <2>1. w \in Seq(S)
    BY <1>6
  <2> QED
    BY <1>1, <2>1, FirstOfIs
<1> HIDE DEF e, f
<1>8. /\ Len(q) = (IF Count <= Len(t) THEN Count ELSE Len(t))
         /\ Len(r) = (IF Count - Len(q) <= Len(s) THEN Count - Len(q) ELSE Len(s))
         /\ Len(e) = Len(q) + Len(r)
         /\ Len(f) = (IF Count <= Len(t) + Len(s) THEN Count ELSE Len(t) + Len(s))
  <2>1. Len(q) = (IF Count <= Len(t) THEN Count ELSE Len(t))
    BY <1>2
  <2>2. Len(r) = (IF Count - Len(q) <= Len(s) THEN Count - Len(q) ELSE Len(s))
    BY <1>4
  <2>3. Len(e) = Len(q) + Len(r)
    BY <1>5
  <2>4. Len(w) = Len(t) + Len(s)
    BY <1>6
  <2>5. Len(f) = (IF Count <= Len(w) THEN Count ELSE Len(w))
    BY <1>7
  <2> QED
    BY <2>1, <2>2, <2>3, <2>4, <2>5
<1>9. /\ Len(e) = Len(f) /\ Len(f) \in Nat /\ Len(r) \in Nat
      /\ Len(q) <= Len(t) /\ Len(e) <= Len(t) + Len(s)
      /\ Len(q) = Len(t) \/ Len(r) = 0
  <2> DEFINE lt == Len(t)
             ls == Len(s)
             lq == Len(q)
             lr == Len(r)
  <2>1. lt \in Nat /\ ls \in Nat /\ Count \in Nat
    BY <1>1
  <2>2. Len(e) = lq + lr /\ Len(f) = (IF Count <= lt + ls THEN Count ELSE lt + ls)
    BY <1>8
  <2>3. CASE Count <= lt
    <3>1. lq = Count /\ lr = (IF Count - Count <= ls THEN Count - Count ELSE ls)
      BY <1>8, <2>3
    <3> HIDE DEF lt, ls, lq, lr
    <3>2. lr = 0
      BY <2>1, <3>1
    <3>3. Len(e) = Count /\ Len(f) = Count
      BY <2>1, <2>2, <2>3, <3>1, <3>2
    <3>4. lq <= lt /\ Len(e) <= lt + ls
      BY <2>1, <2>3, <3>1, <3>3
    <3> QED
      BY <2>1, <3>2, <3>3, <3>4 DEF lt, ls, lq, lr
  <2>4. CASE ~(Count <= lt)
    <3>1. lq = lt /\ lr = (IF Count - lt <= ls THEN Count - lt ELSE ls)
      BY <1>8, <2>4
    <3> HIDE DEF lt, ls, lq, lr
    <3>2. lr \in Nat /\ lr <= ls
      BY <2>1, <2>4, <3>1
    <3>3. Len(e) = Len(f) /\ Len(f) \in Nat /\ Len(e) <= lt + ls
      BY <2>1, <2>2, <2>4, <3>1, <3>2
    <3> QED
      BY <3>1, <3>2, <3>3 DEF lt, ls, lq, lr
  <2> QED
    BY <2>3, <2>4
<1>10. \A i \in 1 .. Len(e) : e[i] = f[i]
  <2> SUFFICES ASSUME NEW i \in 1 .. Len(e) PROVE e[i] = f[i]
      OBVIOUS
  <2>1. Len(e) = Len(q) + Len(r) /\ i \in 1 .. Len(f)
    BY <1>8, <1>9
  <2>2. /\ i \in Int /\ i \in 1 .. Len(q) + Len(r) /\ i \in 1 .. Len(t) + Len(s)
        /\ i \in 1 .. Len(f)
    BY <1>1, <1>9, <2>1
  <2>3. f[i] = IF i <= Len(t) THEN t[i] ELSE s[i - Len(t)]
    BY <1>6, <1>7, <2>2
  <2>4. e[i] = IF i <= Len(q) THEN q[i] ELSE r[i - Len(q)]
    BY <1>5, <2>2
  <2>5. CASE i <= Len(q)
    <3>1. i \in 1 .. Len(q) /\ i <= Len(t)
      BY <1>1, <1>3, <1>9, <2>2, <2>5
    <3> QED
      BY <1>2, <2>3, <2>4, <2>5, <3>1
  <2>6. CASE i > Len(q)
    <3>1. i - Len(q) \in 1 .. Len(r)
      BY <1>3, <1>9, <2>2, <2>6
    <3>2. Len(q) = Len(t)
      BY <1>9, <3>1
    <3> QED
      BY <1>1, <1>4, <2>2, <2>3, <2>4, <2>6, <3>1, <3>2
  <2> QED
    BY <1>3, <2>2, <2>5, <2>6
<1>11. e = f
    BY <1>5, <1>7, <1>9, <1>10, SeqEqual
<1> QED
    BY <1>5, <1>11 DEF e, f, w, r, q, Prepend

\* Older numbers behind newer ones.
LEMMA ConcatLists ==
    ASSUME NEW A, NEW s, Lists(s, A), NEW B, NEW t, Lists(t, B),
           \A n \in A, m \in B : m < n
    PROVE  Lists(s \o t, A \cup B)
<1> DEFINE w == s \o t
<1>1. /\ s \in Seq(Int) /\ Len(s) \in Nat /\ A = {s[i] : i \in 1 .. Len(s)}
      /\ \A i, j \in 1 .. Len(s) : i < j => s[j] < s[i]
    BY LenProperties DEF Lists
<1>2. /\ t \in Seq(Int) /\ Len(t) \in Nat /\ B = {t[i] : i \in 1 .. Len(t)}
      /\ \A i, j \in 1 .. Len(t) : i < j => t[j] < t[i]
    BY LenProperties DEF Lists
<1>3. /\ w \in Seq(Int) /\ Len(w) = Len(s) + Len(t)
      /\ \A i \in 1 .. Len(s) + Len(t) : w[i] = IF i <= Len(s) THEN s[i] ELSE t[i - Len(s)]
  <2>1. s \in Seq(Int) /\ t \in Seq(Int)
    BY <1>1, <1>2
  <2> QED
    BY <2>1, ConcatProperties
<1> HIDE DEF w
<1>4. \A i \in 1 .. Len(s) : i \in 1 .. Len(w) /\ w[i] = s[i] /\ s[i] \in A
  <2> SUFFICES ASSUME NEW i \in 1 .. Len(s)
               PROVE  i \in 1 .. Len(w) /\ w[i] = s[i] /\ s[i] \in A
      OBVIOUS
  <2>1. i \in 1 .. Len(s) + Len(t) /\ i <= Len(s)
    BY <1>1, <1>2
  <2> QED
    BY <1>1, <1>3, <2>1
<1>5. \A i \in 1 .. Len(t) : Len(s) + i \in 1 .. Len(w) /\ w[Len(s) + i] = t[i] /\ t[i] \in B
  <2> SUFFICES ASSUME NEW i \in 1 .. Len(t)
               PROVE  Len(s) + i \in 1 .. Len(w) /\ w[Len(s) + i] = t[i] /\ t[i] \in B
      OBVIOUS
  <2>1. /\ Len(s) + i \in 1 .. Len(s) + Len(t) /\ ~(Len(s) + i <= Len(s))
        /\ (Len(s) + i) - Len(s) = i
    BY <1>1, <1>2
  <2>2. w[Len(s) + i] = t[(Len(s) + i) - Len(s)]
    BY <1>3, <2>1
  <2> QED
    BY <1>2, <1>3, <2>1, <2>2
<1>6. \A k \in 1 .. Len(w) : k \in 1 .. Len(s) \/ \E i \in 1 .. Len(t) : k = Len(s) + i
  <2> SUFFICES ASSUME NEW k \in 1 .. Len(w), k \notin 1 .. Len(s)
               PROVE  \E i \in 1 .. Len(t) : k = Len(s) + i
      OBVIOUS
  <2>1. Len(w) = Len(s) + Len(t)
    BY <1>3
  <2>2. k - Len(s) \in 1 .. Len(t) /\ k = Len(s) + (k - Len(s))
    BY <1>1, <1>2, <2>1
  <2> QED
    BY <2>2
<1>7. ASSUME NEW k \in 1 .. Len(w), NEW l \in 1 .. Len(w), k < l
      PROVE  w[l] < w[k]
  <2>1. CASE l \in 1 .. Len(s)
    <3>1. k \in 1 .. Len(s)
      BY <1>1, <1>7, <2>1
    <3> QED
      BY <1>1, <1>4, <1>7, <2>1, <3>1
  <2>2. CASE l \notin 1 .. Len(s)
    <3>1. PICK j \in 1 .. Len(t) : l = Len(s) + j
      BY <1>6, <2>2
    <3>2. w[l] = t[j] /\ t[j] \in B
      BY <1>5, <3>1
    <3>3. CASE k \in 1 .. Len(s)
      BY <1>4, <3>2, <3>3
    <3>4. CASE k \notin 1 .. Len(s)
      <4>1. PICK i \in 1 .. Len(t) : k = Len(s) + i
        BY <1>6, <3>4
      <4>2. i < j
        BY <1>1, <1>7, <3>1, <4>1
      <4>3. w[k] = t[i] /\ t[j] < t[i]
        BY <1>2, <1>5, <4>1, <4>2
      <4> QED
        BY <3>2, <4>3
    <3> QED
      BY <3>3, <3>4
  <2> QED
    BY <2>1, <2>2
<1>8. A \cup B = {w[k] : k \in 1 .. Len(w)}
  <2>1. \A n \in A : \E k \in 1 .. Len(w) : n = w[k]
    BY <1>1, <1>4
  <2>2. \A n \in B : \E k \in 1 .. Len(w) : n = w[k]
    BY <1>2, <1>5
  <2>3. \A k \in 1 .. Len(w) : w[k] \in A \cup B
    BY <1>4, <1>5, <1>6
  <2> QED
    BY <2>1, <2>2, <2>3
<1> QED
    BY <1>3, <1>7, <1>8 DEF Lists, w

\* What discard_logs_from_orphaned_blocks leaves (block_range_handler.rs:389-402).
LEMMA DiscardIs ==
    ASSUME NEW S, S \subseteq Int, NEW s \in Seq(S), NEW a \in Int
    PROVE  /\ DiscardOrphaned(s, a) \in Seq(S) /\ Len(DiscardOrphaned(s, a)) <= Len(s)
           /\ \A A : Lists(s, A) => Lists(DiscardOrphaned(s, a), {n \in A : n <= a})
<1> DEFINE standing == {i \in 1 .. Len(s) : s[i] <= a}
           k == Min(standing \cup {Len(s) + 1})
           d == SubSeq(s, k, Len(s))
<1>1. Len(s) \in Nat /\ s \in Seq(Int)
    BY LenProperties, SeqMonotonic
<1>2. /\ k \in standing \cup {Len(s) + 1}
      /\ \A i \in standing : k <= i
  <2> DEFINE T == standing \cup {Len(s) + 1}
             flip == {Len(s) + 1 - i : i \in T}
  <2>1. flip \in SUBSET (0 .. Len(s)) /\ flip # {} /\ flip \subseteq Int
    BY <1>1
  <2>2. IsFiniteSet(flip)
    <3>1. IsFiniteSet(0 .. Len(s))
      BY <1>1, FS_Interval
    <3> HIDE DEF flip
    <3> QED
      BY <2>1, <3>1, FS_Subset
  <2>3. PICK m \in flip : \A n \in flip : n <= m
    <3> HIDE DEF flip
    <3> QED
      BY <2>1, <2>2, MaxIsNewest
  <2>4. PICK i \in T : m = Len(s) + 1 - i
    OBVIOUS
  <2>5. \A j \in T : i <= j
    <3> SUFFICES ASSUME NEW j \in T PROVE i <= j
        OBVIOUS
    <3>1. Len(s) + 1 - j <= Len(s) + 1 - i
      BY <2>3, <2>4
    <3>2. i \in Int /\ j \in Int
      BY <1>1
    <3> QED
      BY <1>1, <3>1, <3>2
  <2>6. k \in T /\ \A j \in T : k <= j
    <3> HIDE DEF T
    <3>1. k = CHOOSE x \in T : \A y \in T : x <= y
      BY DEF Min, T
    <3> QED
      BY <2>5, <3>1
  <2> QED
    BY <2>6
<1>3. DiscardOrphaned(s, a) = d
    BY DEF DiscardOrphaned
<1>4. k \in 1 .. Len(s) + 1
    BY <1>1, <1>2
<1>5. \A i \in 1 .. Len(s) : s[i] <= a => k <= i
    BY <1>2
<1>6. k <= Len(s) => s[k] <= a
    BY <1>1, <1>2
<1> HIDE DEF k
<1>7. \A i \in k .. Len(s) : i \in 1 .. Len(s) /\ s[i] \in S
  <2> SUFFICES ASSUME NEW i \in k .. Len(s) PROVE i \in 1 .. Len(s) /\ s[i] \in S
      OBVIOUS
  <2>1. i \in 1 .. Len(s)
    BY <1>1, <1>4
  <2> QED
    BY <2>1, ElementOfSeq
<1>8. /\ d \in Seq(S) /\ Len(d) = (IF k <= Len(s) THEN Len(s) - k + 1 ELSE 0)
      /\ \A i \in 1 .. Len(s) - k + 1 : d[i] = s[k + i - 1]
  <2>1. k \in Int /\ Len(s) \in Int
    BY <1>1, <1>4
  <2> QED
    BY <1>7, <2>1, SubSeqProperties
<1> HIDE DEF d
<1>9. Len(d) = Len(s) - k + 1 /\ Len(d) \in Nat /\ Len(d) <= Len(s)
    BY <1>1, <1>4, <1>8
<1>10. ASSUME NEW A, Lists(s, A)
       PROVE  Lists(d, {n \in A : n <= a})
  <2>1. /\ A = {s[i] : i \in 1 .. Len(s)}
        /\ \A i, j \in 1 .. Len(s) : i < j => s[j] < s[i]
    BY <1>10 DEF Lists
  <2>2. \A i \in 1 .. Len(d) : k + i - 1 \in k .. Len(s) /\ d[i] = s[k + i - 1]
    <3> SUFFICES ASSUME NEW i \in 1 .. Len(d)
                 PROVE  k + i - 1 \in k .. Len(s) /\ d[i] = s[k + i - 1]
        OBVIOUS
    <3>1. i \in 1 .. Len(s) - k + 1 /\ k + i - 1 \in k .. Len(s)
      BY <1>1, <1>4, <1>9
    <3> QED
      BY <1>8, <3>1
  <2>3. \A i \in k .. Len(s) : s[i] <= a
    <3> SUFFICES ASSUME NEW i \in k .. Len(s) PROVE s[i] <= a
        OBVIOUS
    <3>1. i \in 1 .. Len(s) /\ k \in 1 .. Len(s) /\ k <= Len(s)
      BY <1>1, <1>4
    <3>2. s[i] \in Int /\ s[k] \in Int /\ s[k] <= a
      BY <1>1, <1>6, <3>1, ElementOfSeq
    <3>3. i = k \/ k < i
      BY <1>4
    <3>4. k < i => s[i] < s[k]
      BY <2>1, <3>1
    <3> QED
      BY <3>2, <3>3, <3>4
  <2>4. \A i \in 1 .. Len(d) : d[i] \in A /\ d[i] <= a
    BY <1>7, <2>1, <2>2, <2>3
  <2>5. \A n \in A : n <= a => \E i \in 1 .. Len(d) : n = d[i]
    <3> SUFFICES ASSUME NEW n \in A, n <= a PROVE \E i \in 1 .. Len(d) : n = d[i]
        OBVIOUS
    <3>1. PICK j \in 1 .. Len(s) : n = s[j]
      BY <2>1
    <3>2. k <= j
      BY <1>5, <3>1
    <3>3. j - k + 1 \in 1 .. Len(d) /\ k + (j - k + 1) - 1 = j
      BY <1>1, <1>4, <1>9, <3>2
    <3> QED
      BY <2>2, <3>1, <3>3
  <2>6. ASSUME NEW i \in 1 .. Len(d), NEW j \in 1 .. Len(d), i < j
        PROVE  d[j] < d[i]
    <3>1. /\ k + i - 1 \in 1 .. Len(s) /\ k + j - 1 \in 1 .. Len(s)
          /\ d[i] = s[k + i - 1] /\ d[j] = s[k + j - 1]
      BY <1>7, <2>2
    <3>2. k + i - 1 < k + j - 1
      BY <1>4, <1>9, <2>6
    <3> QED
      BY <2>1, <3>1, <3>2
  <2>7. {n \in A : n <= a} = {d[i] : i \in 1 .. Len(d)}
    BY <2>4, <2>5
  <2>8. d \in Seq(Int)
    BY <1>8, SeqMonotonic
  <2> QED
    BY <2>6, <2>7, <2>8 DEF Lists
<1> QED
    BY <1>3, <1>8, <1>9, <1>10

-----------------------------------------------------------------------------
(* The iterator of the rewind. *)

\* The iterator has as many batches left as the blocks left need.
CountsDown(i) ==
    HasNext(i) =>
        /\ i.end <= i.current
        /\ i.total_batches - i.batch_count = BatchesFor(i.current - i.end, i.range_size)

\* It does when it is new (range_iterator.rs:66-79).
LEMMA ReverseCounts ==
    ASSUME NEW s \in BlockNumber, NEW e \in BlockNumber, NEW size \in BlockNumber \ {0}, e <= s
    PROVE  LET i == Reverse(s, e, size) IN
           /\ i \in Iterator /\ CountsDown(i) /\ HasNext(i)
           /\ i.current = s /\ i.end = e /\ i.range_size = size
<1>1. s \in Nat /\ e \in Nat /\ size \in Nat \ {0} /\ s - e \in Nat
    BY MaxU64Assumption DEF BlockNumber
<1>2. BatchesFor(s - e, size) \in Nat \ {0}
    BY <1>1, BatchesForFew
<1> QED
    BY <1>1, <1>2 DEF Reverse, Iterator, CountsDown, HasNext

\* And it does from one batch to the next one (range_iterator.rs:81-103).
LEMMA ReverseAdvanceCounts ==
    ASSUME NEW i \in Iterator, CountsDown(i), HasNext(i)
    PROVE  LET b == ReverseBatch(i)
               j == ReverseAdvance(i)
           IN  /\ b.hi = i.current /\ b.lo \in Nat /\ i.end <= b.lo /\ b.lo <= b.hi
               /\ j \in Iterator /\ CountsDown(j)
               /\ j.end = i.end /\ j.range_size = i.range_size
               /\ HasNext(j) => j.current = b.lo - 1
               /\ ~HasNext(j) => b.lo = i.end
<1> DEFINE b == ReverseBatch(i)
           j == ReverseAdvance(i)
<1>1. /\ i.current \in Nat /\ i.end \in Nat /\ i.range_size \in Nat \ {0}
      /\ i.batch_count \in Nat /\ i.total_batches \in Nat
    BY IteratorNumbers
<1>2. /\ i.end <= i.current
      /\ i.total_batches - i.batch_count = BatchesFor(i.current - i.end, i.range_size)
    BY DEF CountsDown
<1>3. /\ b \in [lo : BlockNumber, hi : BlockNumber] /\ b.hi = i.current
      /\ i.end <= b.lo /\ b.lo <= i.current /\ i.current - b.lo < i.range_size
      /\ b.lo = i.end \/ b.lo = i.current - i.range_size + 1
      /\ i.current - i.end < i.range_size => b.lo = i.end
    BY <1>2, ReverseBatchBounds
<1>4. /\ b.lo \in Nat /\ b.hi \in Nat
      /\ SaturatingSub(b.lo, 1) = IF b.lo > 1 THEN b.lo - 1 ELSE 0
    BY <1>3, MaxU64Assumption DEF BlockNumber, SaturatingSub
<1>5. /\ j.current = SaturatingSub(b.lo, 1) /\ j.batch_count = i.batch_count + 1
      /\ j.end = i.end /\ j.range_size = i.range_size
      /\ j.total_batches = i.total_batches /\ j \in Iterator
  <2>1. SaturatingSub(b.lo, 1) \in BlockNumber
    <3>1. b.lo <= MaxU64
      BY <1>3 DEF BlockNumber
    <3> QED
      BY <1>4, <3>1, MaxU64Assumption DEF BlockNumber
  <2> QED
    BY <2>1, ReverseAdvanceFields
<1> HIDE DEF b, j
<1>6. CASE i.current - i.end < i.range_size
  <2>1. i.current - i.end \in Nat
    BY <1>1, <1>2
  <2>2. BatchesFor(i.current - i.end, i.range_size) = 1
    BY <1>1, <1>6, <2>1, BatchesForFew
  <2>3. ~HasNext(j)
    BY <1>1, <1>2, <1>5, <2>2 DEF HasNext
  <2> QED
    BY <1>3, <1>4, <1>5, <1>6, <2>3 DEF CountsDown, b, j
<1>7. CASE i.current - i.end >= i.range_size
  <2>1. i.current - i.end \in Nat /\ i.current - i.end - i.range_size \in Nat
    BY <1>1, <1>2, <1>7
  <2>2. BatchesFor(i.current - i.end - i.range_size, i.range_size)
            = BatchesFor(i.current - i.end, i.range_size) - 1
    BY <1>1, <1>7, <2>1, BatchesForMany
  <2>3. BatchesFor(i.current - i.end - i.range_size, i.range_size) \in Nat \ {0}
    BY <1>1, <2>1, BatchesForFew
  <2>4. b.lo = i.current - i.range_size + 1 /\ b.lo > i.end
    BY <1>1, <1>3, <1>4, <1>7
  <2>5. j.current = i.current - i.range_size /\ j.current = b.lo - 1 /\ j.end <= j.current
    BY <1>1, <1>4, <1>5, <2>4
  <2>6. j.current - j.end = i.current - i.end - i.range_size
    BY <1>1, <1>5, <2>5
  <2>7. j.total_batches - j.batch_count = (i.total_batches - i.batch_count) - 1
    BY <1>1, <1>5
  <2>8. j.total_batches - j.batch_count = BatchesFor(j.current - j.end, j.range_size)
    <3>1. BatchesFor(j.current - j.end, j.range_size)
            = BatchesFor(i.current - i.end, i.range_size) - 1
      BY <1>5, <2>2, <2>6
    <3> QED
      BY <1>2, <2>7, <3>1
  <2>9. HasNext(j)
    <3>1. j.total_batches - j.batch_count \in Nat \ {0}
      BY <1>5, <2>3, <2>6, <2>8
    <3> QED
      BY <1>1, <1>5, <3>1 DEF HasNext
  <2> QED
    BY <1>3, <1>4, <1>5, <2>5, <2>8, <2>9 DEF CountsDown, b, j
<1> QED
    BY <1>1, <1>6, <1>7

-----------------------------------------------------------------------------
(* The rewind. *)

\* The descent has begun.
Rewinds == rewind \in {"next", "check", "tip", "rescan"}
Rescans == rewind \in {"tip", "rescan"}

\* The tip is the highest block of the range, and nothing above it is held.
TopInv ==
    /\ rewind \notin {"start", "over"} => top \in Block /\ bottom <= top.number
    /\ Known(top)
    /\ rewind \in {"start", "finality"} => kept = {}
    /\ \A n \in kept : n <= top.number

\* The iterators and the blocks they have left.
IteratorsInv ==
    /\ Rewinds =>
        /\ down.end = bottom /\ CountsDown(down)
        /\ HasNext(down) => down.current <= top.number
    /\ Rescans =>
        /\ up.end = top.number /\ CountsWhatIsLeft(up)
        /\ up.current \in 1 .. MaxHeight + 1

\* The block above those that the rewind has still to stream, and the highest
\* one that was streamed.
LowEnd == IF HasNext(down) THEN down.current + 1 ELSE bottom
HighEnd == IF Rescans THEN Least(up.current - 1, top.number) ELSE top.number

\* What is held has no hole: a rollback takes from above what a rescan brings
\* back.
WithoutHole ==
    Rewinds => \E lo \in 0 .. MaxHeight + 1 :
                    lo <= LowEnd /\ lo <= HighEnd + 1 /\ kept = lo .. HighEnd

\* The memory of the reorg handler has room for nothing but the tip, so that
\* the common ancestor is always the finalized block.
TipInMemory ==
    /\ buffer = << >> \/ buffer = << top >>
    /\ rewind \in {"start", "finality", "tip"} => buffer = << >>
    /\ step \in {"idle", "detect", "search", "done", "failed"}
    /\ step # "idle" => rewind \in {"check", "over"}
    /\ step \in {"detect", "search"} => rewind = "check" /\ checked = top
    /\ step = "search" => ~Canonical(top)
    /\ verdict # NoBlock =>
        /\ step = "done" /\ buffer = << >>
        /\ verdict.number <= finalized

\* The invariant of the rewind.
RewindInv ==
    /\ HandlerTypeOK /\ ListenerTypeOK /\ RewindTypeOK
    /\ TopInv /\ IteratorsInv /\ WithoutHole /\ TipInMemory /\ RewindCovers

\* The invariant of the node.
NodeInv == ChainTypeOK /\ Timely

-----------------------------------------------------------------------------

\* The constants are numbers.
LEMMA Numbers ==
    /\ MaxHeight \in Nat /\ MaxU64 \in Nat /\ MaxHeight + 1 < MaxU64
    /\ MaxBlockRange \in Nat \ {0} /\ MaxBlockRange \in BlockNumber \ {0}
BY ChainAssumption, MaxU64Assumption, MaxBlockRangeAssumption DEF BlockNumber

\* A block has a number, and numbers of blocks are numbers.
LEMMA BlockNumbers ==
    /\ \A b \in Block : b.number \in 0 .. MaxHeight /\ b # NoBlock
    /\ 0 .. MaxHeight \subseteq Nat /\ 0 .. MaxHeight \subseteq BlockNumber
    /\ \A b \in OptionalBlock : b # NoBlock => b \in Block
BY Numbers, NoBlockIsNone DEF Block, BlockNumber, OptionalBlock

\* No block changes while the node does nothing.
LEMMA Still ==
    ASSUME UNCHANGED chainVars
    PROVE  /\ finalized' = finalized /\ Height' = Height
           /\ ChainTypeOK => ChainTypeOK' 
           /\ Timely => Timely'
           /\ \A b : (Canonical(b)' <=> Canonical(b)) /\ (Known(b)' <=> Known(b))
BY DEF chainVars, Height, ChainTypeOK, Timely, Canonical, BlockAt, Known

\* Nor does the tip.
LEMMA TopStill ==
    ASSUME UNCHANGED <<chainVars, top>>
    PROVE  /\ Known(top) => Known(top)'
           /\ Canonical(top)' <=> Canonical(top)
BY DEF chainVars, Height, Canonical, BlockAt, Known

-----------------------------------------------------------------------------
(* The steps of the rewind. *)

\* Before the start nothing is held.
LEMMA InitRewind == Init => NodeInv /\ RewindInv
<1> SUFFICES ASSUME Init PROVE NodeInv /\ RewindInv
    OBVIOUS
<1>1. NodeInv
  <2>1. ChainTypeOK
    BY ChainInitTypes DEF Init
  <2>2. Timely
    BY ChainAssumption DEF Init, ChainInit, Timely, Height
  <2> QED
    BY <2>1, <2>2 DEF NodeInv
<1>2. /\ rewind = "start" /\ top = NoBlock /\ bottom = 0 /\ checkReorg = FALSE
      /\ down = NoIteration /\ up = NoIteration
      /\ kept = {} /\ stale = {} /\ open = TRUE /\ errored = FALSE
      /\ buffer = << >> /\ step = "idle" /\ checked = NoBlock /\ verdict = NoBlock
    BY DEF Init, RewindInit, ListenerInit, HandlerInit
<1>3. NoIteration \in Iterator
    BY Numbers, BlockNumbers, ForwardCounts DEF NoIteration, BlockNumber
<1>4. HandlerTypeOK /\ ListenerTypeOK /\ RewindTypeOK
  <2>1. WithinCapacity(buffer) /\ buffer \in Seq(Block)
    BY <1>2, CapacityAssumption DEF WithinCapacity
  <2>2. HandlerTypeOK
    BY <1>2, <2>1 DEF HandlerTypeOK, OptionalBlock
  <2>3. ListenerTypeOK
    BY <1>2 DEF ListenerTypeOK
  <2>4. down \in Iterator /\ up \in Iterator /\ bottom \in 0 .. MaxHeight
    BY <1>2, <1>3, Numbers
  <2>5. RewindTypeOK
    BY <1>2, <2>4 DEF RewindTypeOK, OptionalBlock
  <2> QED
    BY <2>2, <2>3, <2>5
<1>5. TopInv /\ IteratorsInv /\ WithoutHole /\ TipInMemory /\ RewindCovers
    BY <1>2 DEF TopInv, IteratorsInv, WithoutHole, TipInMemory, RewindCovers, Rewinds, Rescans, Known
<1> QED
    BY <1>1, <1>4, <1>5 DEF RewindInv

\* stream_rewind (rewind_handler.rs:82-112).
LEMMA StreamRewindInv ==
    ASSUME NodeInv, RewindInv, UNCHANGED chainVars,
           NEW a \in 0 .. MaxHeight, NEW b \in 0 .. MaxHeight, StreamRewind(a, b)
    PROVE  RewindInv'
<1>1. /\ rewind = "start" /\ rewind' = "finality" /\ a <= Height /\ b <= Height
      /\ top' = BlockAt(Greatest(a, b)) /\ bottom' = Least(a, b)
      /\ UNCHANGED <<checkReorg, down, up>> /\ UNCHANGED handlerVars /\ UNCHANGED listenerVars
    BY DEF StreamRewind
<1>2. Greatest(a, b) \in 0 .. Height /\ Least(a, b) \in 0 .. MaxHeight /\ Least(a, b) <= Greatest(a, b)
    BY <1>1, Numbers DEF Greatest, Least
<1>3. /\ top' \in Block /\ top'.number = Greatest(a, b) /\ Known(BlockAt(Greatest(a, b)))
    BY <1>1, <1>2, CanonicalBlocks DEF NodeInv
<1>4. Known(top)'
  <2>1. \A c : Known(c)' <=> Known(c)
    BY Still
  <2>2. PICK t : t = BlockAt(Greatest(a, b))
    OBVIOUS
  <2>3. Known(t)'
    BY <1>3, <2>1, <2>2
  <2> QED
    BY <1>1, <2>2, <2>3 DEF Known, Canonical, BlockAt, Height
<1>5. /\ kept' = {} /\ stale' = {} /\ open' = open /\ errored' = errored
      /\ kept = {} /\ stale = {}
    BY <1>1 DEF listenerVars, RewindInv, TopInv, ListenerTypeOK
<1>6. /\ buffer' = buffer /\ step' = step /\ checked' = checked /\ verdict' = verdict
      /\ step = "idle" /\ verdict = NoBlock
    BY <1>1 DEF handlerVars, RewindInv, TipInMemory
<1>7. HandlerTypeOK' /\ ListenerTypeOK'
    BY <1>5, <1>6, <1>1 DEF RewindInv, HandlerTypeOK, ListenerTypeOK
<1>8. RewindTypeOK'
    BY <1>1, <1>2, <1>3 DEF RewindInv, RewindTypeOK, OptionalBlock
<1>9. TopInv'
    BY <1>1, <1>2, <1>3, <1>4, <1>5 DEF TopInv
<1>10. IteratorsInv' /\ WithoutHole' /\ RewindCovers'
    BY <1>1 DEF IteratorsInv, WithoutHole, RewindCovers, Rewinds, Rescans
<1>11. TipInMemory'
    BY <1>1, <1>6 DEF RewindInv, TipInMemory
<1> QED
    BY <1>7, <1>8, <1>9, <1>10, <1>11 DEF RewindInv

\* The rewind ends, wherever it stands; nothing else changes but the error
\* that is reported.
LEMMA EndsInv ==
    ASSUME NodeInv, RewindInv, UNCHANGED chainVars,
           rewind' = "over", UNCHANGED <<top, bottom, checkReorg, down, up>>,
           UNCHANGED handlerVars, UNCHANGED <<open, kept, stale>>, errored' \in BOOLEAN,
           step \notin {"detect", "search"}, RewindCovers'
    PROVE  RewindInv'
<1>1. /\ buffer' = buffer /\ step' = step /\ checked' = checked /\ verdict' = verdict
    BY DEF handlerVars
<1>2. HandlerTypeOK' /\ ListenerTypeOK'
    BY <1>1 DEF RewindInv, HandlerTypeOK, ListenerTypeOK
<1>3. RewindTypeOK'
    BY DEF RewindInv, RewindTypeOK
<1>4. TopInv'
    BY TopStill DEF RewindInv, TopInv
<1>5. IteratorsInv' /\ WithoutHole'
    BY DEF IteratorsInv, WithoutHole, Rewinds, Rescans
<1>6. TipInMemory'
  <2>1. finalized' = finalized
    BY DEF chainVars
  <2> QED
    BY <1>1, <2>1 DEF RewindInv, TipInMemory
<1> QED
    BY <1>2, <1>3, <1>4, <1>5, <1>6 DEF RewindInv

\* An error is reported at the end (rewind_handler.rs:90-97, 152-158, 188-192).
LEMMA FailsInv ==
    ASSUME NodeInv, RewindInv, UNCHANGED chainVars,
           RewindFails \/ TipCheckFails \/ FetchTipFails
    PROVE  RewindInv'
<1>1. /\ rewind' = "over" /\ UNCHANGED <<top, bottom, checkReorg, down, up>>
      /\ UNCHANGED handlerVars /\ UNCHANGED <<open, kept, stale>>
      /\ errored' = (errored \/ open)
      /\ rewind \in {"start", "tip"} \/ step = "failed"
    BY DEF RewindFails, TipCheckFails, FetchTipFails, ReportError
<1>2. open \in BOOLEAN /\ errored \in BOOLEAN
    BY DEF RewindInv, ListenerTypeOK
<1>3. RewindCovers'
    BY <1>1 DEF RewindCovers
<1>4. errored' \in BOOLEAN
    BY <1>1, <1>2
<1>5. step \notin {"detect", "search"}
    BY <1>1 DEF RewindInv, TipInMemory
<1> QED
    BY <1>1, <1>3, <1>4, <1>5, EndsInv

\* A send finds the channel closed (rewind_handler.rs:136-138, 180-182, 208-210).
LEMMA FindsClosedInv ==
    ASSUME NodeInv, RewindInv, UNCHANGED chainVars, RewindFindsClosed
    PROVE  RewindInv'
<1>1. /\ rewind' = "over" /\ UNCHANGED <<top, bottom, checkReorg, down, up>>
      /\ UNCHANGED handlerVars /\ UNCHANGED <<open, kept, stale, errored>> /\ ~open
      /\ rewind \in {"next", "rescan"} \/ verdict # NoBlock
    BY DEF RewindFindsClosed, listenerVars
<1>2. errored' \in BOOLEAN /\ RewindCovers'
    BY <1>1 DEF RewindInv, ListenerTypeOK, RewindCovers
<1>3. step \notin {"detect", "search"}
    BY <1>1 DEF RewindInv, TipInMemory
<1> QED
    BY <1>1, <1>2, <1>3, EndsInv

\* The finalized block decides on the checks (rewind_handler.rs:116-131).
LEMMA DecideChecksInv ==
    ASSUME NodeInv, RewindInv, UNCHANGED chainVars, DecideChecks
    PROVE  RewindInv'
<1>1. /\ rewind = "finality" /\ rewind' = "next" /\ checkReorg' \in BOOLEAN
      /\ down' = Reverse(top.number, bottom, MaxBlockRange)
      /\ UNCHANGED <<top, bottom, up>> /\ UNCHANGED handlerVars /\ UNCHANGED listenerVars
    BY DEF DecideChecks
<1>2. /\ open' = open /\ kept' = kept /\ stale' = stale /\ errored' = errored /\ kept = {}
    BY <1>1 DEF listenerVars, RewindInv, TopInv
<1>3. /\ buffer' = buffer /\ step' = step /\ checked' = checked /\ verdict' = verdict
    BY <1>1 DEF handlerVars
<1>4. /\ top \in Block /\ bottom <= top.number /\ bottom \in 0 .. MaxHeight
      /\ top.number \in 0 .. MaxHeight /\ top.number \in Nat
    BY <1>1, BlockNumbers DEF RewindInv, TopInv, RewindTypeOK
<1>5. /\ down' \in Iterator /\ CountsDown(down') /\ HasNext(down')
      /\ down'.current = top.number /\ down'.end = bottom
  <2>1. top.number \in BlockNumber /\ bottom \in BlockNumber
    BY <1>4, BlockNumbers
  <2> QED
    BY <1>1, <1>4, <2>1, Numbers, ReverseCounts
<1>6. HandlerTypeOK' /\ ListenerTypeOK'
    BY <1>2, <1>3 DEF RewindInv, HandlerTypeOK, ListenerTypeOK
<1>7. RewindTypeOK'
    BY <1>1, <1>5 DEF RewindInv, RewindTypeOK
<1>8. TopInv'
    BY <1>1, <1>2, <1>4, TopStill DEF RewindInv, TopInv
<1>9. IteratorsInv'
    BY <1>1, <1>4, <1>5 DEF IteratorsInv, Rewinds, Rescans
<1>10. WithoutHole'
  <2>1. LowEnd' = top.number + 1 /\ HighEnd' = top.number
    BY <1>1, <1>5 DEF LowEnd, HighEnd, Rescans
  <2>2. top.number + 1 \in 0 .. MaxHeight + 1 /\ kept' = top.number + 1 .. HighEnd'
    BY <1>2, <1>4, <2>1, Numbers
  <2> QED
    BY <2>1, <2>2, <1>4 DEF WithoutHole
<1>11. TipInMemory' /\ RewindCovers'
    BY <1>1, <1>3 DEF RewindInv, TipInMemory, RewindCovers
<1> QED
    BY <1>6, <1>7, <1>8, <1>9, <1>10, <1>11 DEF RewindInv

-----------------------------------------------------------------------------
(* The descent. *)

\* The batch that comes next (rewind_handler.rs:133-139).
LEMMA DescentBatch ==
    ASSUME RewindInv, rewind = "next", HasNext(down)
    PROVE  LET b == ReverseBatch(down) IN
           /\ b.lo \in 0 .. MaxHeight /\ b.hi \in 0 .. MaxHeight /\ b.lo <= b.hi
           /\ b.hi = down.current /\ b.hi <= top.number /\ top.number \in 0 .. MaxHeight
           /\ bottom <= b.lo /\ bottom \in 0 .. MaxHeight
           /\ ReverseAdvance(down) \in Iterator /\ CountsDown(ReverseAdvance(down))
           /\ ReverseAdvance(down).end = bottom
           /\ HasNext(ReverseAdvance(down)) => ReverseAdvance(down).current = b.lo - 1
           /\ ~HasNext(ReverseAdvance(down)) => b.lo = bottom
<1> DEFINE b == ReverseBatch(down)
<1>1. /\ top \in Block /\ bottom <= top.number /\ down.end = bottom /\ CountsDown(down)
      /\ down.current <= top.number /\ down \in Iterator /\ bottom \in 0 .. MaxHeight
    BY DEF RewindInv, TopInv, IteratorsInv, RewindTypeOK, Rewinds
<1>2. top.number \in 0 .. MaxHeight
    BY <1>1, BlockNumbers
<1>3. /\ b.hi = down.current /\ b.lo \in Nat /\ down.end <= b.lo /\ b.lo <= b.hi
      /\ ReverseAdvance(down) \in Iterator /\ CountsDown(ReverseAdvance(down))
      /\ ReverseAdvance(down).end = down.end
      /\ HasNext(ReverseAdvance(down)) => ReverseAdvance(down).current = b.lo - 1
      /\ ~HasNext(ReverseAdvance(down)) => b.lo = down.end
    BY <1>1, ReverseAdvanceCounts
<1>4. down.current \in Nat
    BY <1>1, IteratorNumbers
<1> HIDE DEF b
<1>5. b.lo \in 0 .. MaxHeight /\ b.hi \in 0 .. MaxHeight
    BY <1>1, <1>2, <1>3, <1>4, Numbers
<1> QED
    BY <1>1, <1>2, <1>3, <1>5 DEF b

\* A batch goes out, and the check of the tip begins (rewind_handler.rs:133-147).
LEMMA SendBatchInv ==
    ASSUME NodeInv, RewindInv, UNCHANGED chainVars, SendBatch
    PROVE  RewindInv'
<1> DEFINE b == ReverseBatch(down)
           B == b.lo .. b.hi
<1>1. /\ rewind = "next" /\ HasNext(down) /\ down' = ReverseAdvance(down) /\ open
      /\ kept' = kept \cup B /\ stale' = (stale \ B) \cup {n \in B : n > Height}
      /\ UNCHANGED <<top, bottom, checkReorg, up, open, errored>>
    BY DEF SendBatch, Deliver, Blocks
<1>2. \/ rewind' = "check" /\ Check(top)
      \/ rewind' = "next" /\ UNCHANGED handlerVars
    BY DEF SendBatch
<1>3. /\ b.lo \in 0 .. MaxHeight /\ b.hi \in 0 .. MaxHeight /\ b.lo <= b.hi
      /\ b.hi = down.current /\ b.hi <= top.number /\ top.number \in 0 .. MaxHeight
      /\ bottom <= b.lo /\ bottom \in 0 .. MaxHeight
      /\ down' \in Iterator /\ CountsDown(down') /\ down'.end = bottom
      /\ HasNext(down') => down'.current = b.lo - 1
      /\ ~HasNext(down') => b.lo = bottom
    BY <1>1, DescentBatch
<1>4. top \in Block
    BY <1>1 DEF RewindInv, TopInv
<1> HIDE DEF b
<1>5. /\ buffer' = buffer /\ verdict' = verdict /\ verdict = NoBlock /\ step = "idle"
      /\ \/ rewind' = "check" /\ step' = "detect" /\ checked' = top
         \/ rewind' = "next" /\ step' = "idle" /\ checked' = checked
    BY <1>1, <1>2 DEF handlerVars, RewindInv, TipInMemory, Check
<1>6. HandlerTypeOK'
    BY <1>4, <1>5 DEF RewindInv, HandlerTypeOK, OptionalBlock
<1>7. ListenerTypeOK'
  <2>1. B \subseteq 0 .. MaxHeight
    BY <1>3, Numbers
  <2> QED
    BY <1>1, <2>1 DEF RewindInv, ListenerTypeOK
<1>8. RewindTypeOK'
    BY <1>1, <1>2, <1>3 DEF RewindInv, RewindTypeOK
<1>9. TopInv'
  <2>1. \A n \in B : n <= top.number
    BY <1>3, Numbers
  <2> QED
    BY <1>1, <1>2, <2>1, TopStill DEF RewindInv, TopInv
<1>10. IteratorsInv'
  <2>1. HasNext(down') => down'.current <= top.number
    BY <1>3, Numbers
  <2> QED
    BY <1>1, <1>2, <1>3, <2>1 DEF IteratorsInv, Rewinds, Rescans
<1>11. WithoutHole'
  <2>1. PICK lo \in 0 .. MaxHeight + 1 :
            lo <= down.current + 1 /\ lo <= top.number + 1 /\ kept = lo .. top.number
    BY <1>1 DEF RewindInv, WithoutHole, Rewinds, Rescans, LowEnd, HighEnd
  <2> DEFINE low == Least(lo, b.lo)
  <2>2. low \in 0 .. MaxHeight + 1 /\ low <= b.lo /\ low <= top.number + 1
    BY <1>3, <2>1, Numbers DEF Least
  <2>3. kept' = low .. top.number
    BY <1>1, <1>3, <2>1, Numbers DEF Least
  <2>4. HighEnd' = top.number /\ LowEnd' = b.lo
    <3>1. HighEnd' = top.number
      BY <1>1, <1>2 DEF HighEnd, Rescans
    <3>2. LowEnd' = IF HasNext(down') THEN down'.current + 1 ELSE bottom
      BY <1>1 DEF LowEnd
    <3>3. b.lo \in Int
      BY <1>3
    <3> QED
      BY <1>3, <3>1, <3>2, <3>3
  <2> QED
    BY <2>2, <2>3, <2>4 DEF WithoutHole
<1>12. TipInMemory'
    BY <1>1, <1>5 DEF RewindInv, TipInMemory
<1>13. RewindCovers'
    BY <1>2 DEF RewindCovers
<1> QED
    BY <1>6, <1>7, <1>8, <1>9, <1>10, <1>11, <1>12, <1>13 DEF RewindInv

\* The rewind is over (rewind_handler.rs:148-151).
LEMMA RewoundInv ==
    ASSUME NodeInv, RewindInv, UNCHANGED chainVars, Rewound
    PROVE  RewindInv'
<1>1. /\ rewind = "next" /\ ~HasNext(down) /\ rewind' = "over"
      /\ UNCHANGED <<top, bottom, checkReorg, down, up>>
      /\ UNCHANGED handlerVars /\ UNCHANGED listenerVars
    BY DEF Rewound
<1>2. UNCHANGED <<open, kept, stale, errored>>
    BY <1>1 DEF listenerVars
<1>3. RewindCovers'
  <2>1. PICK lo \in 0 .. MaxHeight + 1 :
            lo <= bottom /\ kept = lo .. top.number
    BY <1>1 DEF RewindInv, WithoutHole, Rewinds, Rescans, LowEnd, HighEnd
  <2>2. bottom \in 0 .. MaxHeight
    BY DEF RewindInv, RewindTypeOK
  <2>3. lo \in 0 .. bottom
    BY <2>1, <2>2, Numbers
  <2> QED
    BY <1>1, <1>2, <2>1, <2>3 DEF RewindCovers
<1>4. errored' \in BOOLEAN /\ step \notin {"detect", "search"}
    BY <1>1, <1>2 DEF RewindInv, ListenerTypeOK, TipInMemory
<1> QED
    BY <1>1, <1>2, <1>3, <1>4, EndsInv

\* The tip is canonical (rewind_handler.rs:140-147).
LEMMA TipStandsInv ==
    ASSUME NodeInv, RewindInv, UNCHANGED chainVars, TipStands
    PROVE  RewindInv'
<1>1. /\ rewind = "check" /\ rewind' = "next" /\ verdict = NoBlock
      /\ UNCHANGED <<top, bottom, checkReorg, down, up>>
      /\ step' = "idle" /\ verdict' = NoBlock /\ buffer' = buffer /\ checked' = checked
      /\ UNCHANGED listenerVars
    BY DEF TipStands, Answered
<1>2. /\ open' = open /\ kept' = kept /\ stale' = stale /\ errored' = errored
    BY <1>1 DEF listenerVars
<1>3. HandlerTypeOK' /\ ListenerTypeOK'
    BY <1>1, <1>2 DEF RewindInv, HandlerTypeOK, ListenerTypeOK, OptionalBlock
<1>4. RewindTypeOK'
    BY <1>1 DEF RewindInv, RewindTypeOK
<1>5. TopInv'
    BY <1>1, <1>2, TopStill DEF RewindInv, TopInv
<1>6. IteratorsInv'
    BY <1>1 DEF RewindInv, IteratorsInv, Rewinds, Rescans
<1>7. WithoutHole'
    BY <1>1, <1>2 DEF RewindInv, WithoutHole, Rewinds, Rescans, LowEnd, HighEnd
<1>8. TipInMemory' /\ RewindCovers'
    BY <1>1 DEF RewindInv, TipInMemory, RewindCovers
<1> QED
    BY <1>3, <1>4, <1>5, <1>6, <1>7, <1>8 DEF RewindInv

-----------------------------------------------------------------------------
(* The rescan. *)

\* A reorg of the tip: the rescan begins above the common ancestor
\* (rewind_handler.rs:140-147, 172-186).
LEMMA TipReorgedInv ==
    ASSUME NodeInv, RewindInv, UNCHANGED chainVars, TipReorged
    PROVE  RewindInv'
<1> DEFINE a == verdict.number
<1>1. /\ rewind = "check" /\ rewind' = "tip" /\ verdict # NoBlock
      /\ UNCHANGED <<top, bottom, checkReorg, down>>
      /\ up' = Forward(a + 1, top.number, MaxBlockRange)
      /\ step' = "idle" /\ verdict' = NoBlock /\ buffer' = buffer /\ checked' = checked
      /\ kept' = {n \in kept : n <= a} /\ stale' = {n \in stale : n <= a}
      /\ open' = open /\ errored' = errored
    BY DEF TipReorged, Answered, Rollback
<1>2. /\ top \in Block /\ top.number \in 0 .. MaxHeight /\ verdict \in Block /\ a \in 0 .. MaxHeight
      /\ buffer = << >>
    BY <1>1, BlockNumbers DEF RewindInv, TopInv, HandlerTypeOK, TipInMemory
<1> HIDE DEF a
<1>3. /\ up' \in Iterator /\ CountsWhatIsLeft(up') /\ up'.current = a + 1 /\ up'.end = top.number
  <2>1. a + 1 \in BlockNumber /\ top.number \in BlockNumber
    BY <1>2, Numbers DEF BlockNumber
  <2> DEFINE i == Forward(a + 1, top.number, MaxBlockRange)
  <2>2. MaxBlockRange \in BlockNumber \ {0}
    BY Numbers
  <2>3. i \in Iterator /\ CountsWhatIsLeft(i) /\ i.current = a + 1 /\ i.end = top.number
    BY <2>1, <2>2, ForwardCounts
  <2>4. up' = i
    BY <1>1
  <2> HIDE DEF i
  <2> QED
    BY <2>3, <2>4
<1>4. HandlerTypeOK' /\ ListenerTypeOK'
    BY <1>1 DEF RewindInv, HandlerTypeOK, ListenerTypeOK, OptionalBlock
<1>5. RewindTypeOK'
    BY <1>1, <1>3 DEF RewindInv, RewindTypeOK
<1>6. TopInv'
    BY <1>1, TopStill DEF RewindInv, TopInv
<1>7. IteratorsInv'
  <2>1. a + 1 \in 1 .. MaxHeight + 1
    BY <1>2, Numbers
  <2> QED
    BY <1>1, <1>3, <2>1 DEF RewindInv, IteratorsInv, Rewinds, Rescans
<1>8. WithoutHole'
  <2>1. PICK lo \in 0 .. MaxHeight + 1 :
            lo <= LowEnd /\ lo <= top.number + 1 /\ kept = lo .. top.number
    BY <1>1 DEF RewindInv, WithoutHole, Rewinds, Rescans, HighEnd
  <2>2. LowEnd' = LowEnd /\ LowEnd \in Nat
    <3>1. bottom \in Nat /\ down.current \in Nat
      BY BlockNumbers, IteratorNumbers DEF RewindInv, RewindTypeOK
    <3> QED
      BY <1>1, <3>1 DEF LowEnd
  <2>3. HighEnd' = Least(a, top.number)
    <3>1. up'.current - 1 = a
      BY <1>2, <1>3, Numbers
    <3> QED
      BY <1>1, <3>1 DEF HighEnd, Rescans
  <2> DEFINE low == Least(lo, a + 1)
  <2>4. low \in 0 .. MaxHeight + 1 /\ low <= LowEnd /\ low <= Least(a, top.number) + 1
    BY <1>2, <2>1, <2>2, Numbers DEF Least
  <2>5. kept' = low .. Least(a, top.number)
    BY <1>1, <1>2, <2>1, Numbers DEF Least
  <2> QED
    BY <2>2, <2>3, <2>4, <2>5 DEF WithoutHole
<1>9. TipInMemory' /\ RewindCovers'
    BY <1>1, <1>2 DEF RewindInv, TipInMemory, RewindCovers
<1> QED
    BY <1>4, <1>5, <1>6, <1>7, <1>8, <1>9 DEF RewindInv

\* The block that now has the tip's number (rewind_handler.rs:188-195).
LEMMA FetchTipInv ==
    ASSUME NodeInv, RewindInv, UNCHANGED chainVars, FetchTip
    PROVE  RewindInv' /\ Canonical(top)' /\ top'.number = top.number
<1>1. /\ rewind = "tip" /\ rewind' = "rescan" /\ top.number <= Height
      /\ top' = BlockAt(top.number)
      /\ UNCHANGED <<bottom, checkReorg, down, up>>
      /\ UNCHANGED handlerVars /\ UNCHANGED listenerVars
    BY DEF FetchTip
<1>2. /\ open' = open /\ kept' = kept /\ stale' = stale /\ errored' = errored
    BY <1>1 DEF listenerVars
<1>3. /\ buffer' = buffer /\ step' = step /\ checked' = checked /\ verdict' = verdict
      /\ buffer = << >>
    BY <1>1 DEF handlerVars, RewindInv, TipInMemory
<1>4. top \in Block /\ top.number \in 0 .. Height
    BY <1>1, BlockNumbers DEF RewindInv, TopInv
<1>5. PICK t : t = BlockAt(top.number)
    OBVIOUS
<1>6. t \in Block /\ t.number = top.number /\ Canonical(t) /\ Known(t)
    BY <1>4, <1>5, CanonicalBlocks DEF NodeInv
<1>7. Canonical(t)' /\ Known(t)'
    BY <1>6, Still
<1>8. Canonical(top)' /\ Known(top)'
    BY <1>1, <1>5, <1>7 DEF Canonical, Known, BlockAt, Height
<1>9. HandlerTypeOK' /\ ListenerTypeOK'
    BY <1>2, <1>3 DEF RewindInv, HandlerTypeOK, ListenerTypeOK
<1>10. RewindTypeOK'
    BY <1>1, <1>5, <1>6 DEF RewindInv, RewindTypeOK, OptionalBlock
<1>11. TopInv'
    BY <1>1, <1>2, <1>5, <1>6, <1>8 DEF RewindInv, TopInv
<1>12. IteratorsInv'
    BY <1>1, <1>5, <1>6 DEF RewindInv, IteratorsInv, Rewinds, Rescans
<1>13. WithoutHole'
  <2>1. LowEnd' = LowEnd /\ HighEnd' = HighEnd
    BY <1>1, <1>5, <1>6 DEF LowEnd, HighEnd, Rescans
  <2> QED
    BY <1>1, <1>2, <2>1 DEF RewindInv, WithoutHole, Rewinds
<1>14. TipInMemory' /\ RewindCovers'
    BY <1>1, <1>3 DEF RewindInv, TipInMemory, RewindCovers
<1> QED
    BY <1>1, <1>5, <1>6, <1>8, <1>9, <1>10, <1>11, <1>12, <1>13, <1>14 DEF RewindInv

\* The batch of a rescan that comes next (rewind_handler.rs:197-207).
LEMMA RescanBatch ==
    ASSUME RewindInv, rewind = "rescan", HasNext(up)
    PROVE  LET b == ForwardBatch(up) IN
           /\ b.lo \in 1 .. MaxHeight /\ b.hi \in 0 .. MaxHeight /\ b.lo <= b.hi
           /\ b.lo = up.current /\ b.hi <= top.number /\ top.number \in 0 .. MaxHeight
           /\ ForwardAdvance(up) \in Iterator /\ CountsWhatIsLeft(ForwardAdvance(up))
           /\ ForwardAdvance(up).end = up.end
           /\ ForwardAdvance(up).current = b.hi + 1
           /\ HighEnd = up.current - 1
<1> DEFINE b == ForwardBatch(up)
<1>1. /\ top \in Block /\ up.end = top.number /\ CountsWhatIsLeft(up) /\ up \in Iterator
      /\ up.current \in 1 .. MaxHeight + 1
    BY DEF RewindInv, TopInv, IteratorsInv, RewindTypeOK, Rescans
<1>2. top.number \in 0 .. MaxHeight
    BY <1>1, BlockNumbers
<1>3. up.current <= up.end /\ up.end < MaxU64
    BY <1>1, <1>2, HasNextIffLeft, Numbers
<1>4. /\ b.lo = up.current /\ b.hi \in Nat /\ up.current <= b.hi /\ b.hi <= up.end
      /\ ForwardAdvance(up) \in Iterator /\ CountsWhatIsLeft(ForwardAdvance(up))
      /\ ForwardAdvance(up).current = b.hi + 1 /\ ForwardAdvance(up).end = up.end
    BY <1>1, <1>3, AdvanceCounts
<1> HIDE DEF b
<1>5. b.lo \in 1 .. MaxHeight /\ b.hi \in 0 .. MaxHeight
    BY <1>1, <1>2, <1>3, <1>4, Numbers
<1>6. HighEnd = up.current - 1
    BY <1>1, <1>2, <1>3, Numbers DEF HighEnd, Rescans, Least
<1> QED
    BY <1>1, <1>2, <1>4, <1>5, <1>6 DEF b

\* A batch of a rescan goes out (rewind_handler.rs:197-207).
LEMMA SendRescanBatchInv ==
    ASSUME NodeInv, RewindInv, UNCHANGED chainVars, SendRescanBatch
    PROVE  RewindInv'
<1> DEFINE b == ForwardBatch(up)
           B == b.lo .. b.hi
<1>1. /\ rewind = "rescan" /\ rewind' = "rescan" /\ HasNext(up) /\ up' = ForwardAdvance(up) /\ open
      /\ kept' = kept \cup B /\ stale' = (stale \ B) \cup {n \in B : n > Height}
      /\ UNCHANGED <<top, bottom, checkReorg, down, open, errored>> /\ UNCHANGED handlerVars
    BY DEF SendRescanBatch, Deliver, Blocks
<1>2. /\ b.lo \in 1 .. MaxHeight /\ b.hi \in 0 .. MaxHeight /\ b.lo <= b.hi
      /\ b.lo = up.current /\ b.hi <= top.number /\ top.number \in 0 .. MaxHeight
      /\ up' \in Iterator /\ CountsWhatIsLeft(up') /\ up'.end = up.end
      /\ up'.current = b.hi + 1 /\ HighEnd = up.current - 1
    BY <1>1, RescanBatch
<1> HIDE DEF b
<1>3. /\ buffer' = buffer /\ step' = step /\ checked' = checked /\ verdict' = verdict
    BY <1>1 DEF handlerVars
<1>4. HandlerTypeOK'
    BY <1>3 DEF RewindInv, HandlerTypeOK
<1>5. ListenerTypeOK'
  <2>1. B \subseteq 0 .. MaxHeight
    BY <1>2, Numbers
  <2> QED
    BY <1>1, <2>1 DEF RewindInv, ListenerTypeOK
<1>6. RewindTypeOK'
    BY <1>1, <1>2 DEF RewindInv, RewindTypeOK
<1>7. TopInv'
  <2>1. \A n \in B : n <= top.number
    BY <1>2, Numbers
  <2> QED
    BY <1>1, <2>1, TopStill DEF RewindInv, TopInv
<1>8. IteratorsInv'
  <2>1. up'.current \in 1 .. MaxHeight + 1
    BY <1>2, Numbers
  <2> QED
    BY <1>1, <1>2, <2>1 DEF RewindInv, IteratorsInv, Rewinds, Rescans
<1>9. WithoutHole'
  <2>1. PICK lo \in 0 .. MaxHeight + 1 :
            lo <= LowEnd /\ lo <= up.current /\ kept = lo .. up.current - 1
    <3>1. PICK lo \in 0 .. MaxHeight + 1 :
              lo <= LowEnd /\ lo <= HighEnd + 1 /\ kept = lo .. HighEnd
      BY <1>1 DEF RewindInv, WithoutHole, Rewinds
    <3>2. up.current - 1 + 1 = up.current
      BY <1>2, Numbers
    <3> QED
      BY <1>2, <3>1, <3>2
  <2>2. LowEnd' = LowEnd
    BY <1>1 DEF LowEnd
  <2>3. HighEnd' = b.hi
    <3>1. up'.current - 1 = b.hi /\ Least(b.hi, top.number) = b.hi
      BY <1>2, Numbers DEF Least
    <3> QED
      BY <1>1, <3>1 DEF HighEnd, Rescans
  <2>4. kept' = lo .. b.hi /\ lo <= b.hi + 1
    BY <1>1, <1>2, <2>1, Numbers
  <2> QED
    BY <2>1, <2>2, <2>3, <2>4 DEF WithoutHole
<1>10. TipInMemory' /\ RewindCovers'
    BY <1>1, <1>3 DEF RewindInv, TipInMemory, RewindCovers
<1> QED
    BY <1>4, <1>5, <1>6, <1>7, <1>8, <1>9, <1>10 DEF RewindInv

\* The rewind goes on where it was (rewind_handler.rs:212-225).
LEMMA RescannedInv ==
    ASSUME NodeInv, RewindInv, UNCHANGED chainVars, Rescanned
    PROVE  RewindInv' /\ HighEnd' = HighEnd
<1>1. /\ rewind = "rescan" /\ rewind' = "next" /\ ~HasNext(up) /\ up' = NoIteration
      /\ UNCHANGED <<top, bottom, checkReorg, down>>
      /\ UNCHANGED handlerVars /\ UNCHANGED listenerVars
    BY DEF Rescanned
<1>2. /\ open' = open /\ kept' = kept /\ stale' = stale /\ errored' = errored
    BY <1>1 DEF listenerVars
<1>3. /\ buffer' = buffer /\ step' = step /\ checked' = checked /\ verdict' = verdict
    BY <1>1 DEF handlerVars
<1>4. NoIteration \in Iterator
    BY Numbers, BlockNumbers, ForwardCounts DEF NoIteration, BlockNumber
<1>5. HandlerTypeOK' /\ ListenerTypeOK'
    BY <1>2, <1>3 DEF RewindInv, HandlerTypeOK, ListenerTypeOK
<1>6. RewindTypeOK'
    BY <1>1, <1>4 DEF RewindInv, RewindTypeOK
<1>7. TopInv'
    BY <1>1, <1>2, TopStill DEF RewindInv, TopInv
<1>8. IteratorsInv'
    BY <1>1 DEF RewindInv, IteratorsInv, Rewinds, Rescans
<1>9. HighEnd = top.number
  <2>1. /\ CountsWhatIsLeft(up) /\ up \in Iterator /\ up.end = top.number /\ top \in Block
    BY <1>1 DEF RewindInv, TopInv, IteratorsInv, RewindTypeOK, Rescans
  <2>2. up.current > top.number /\ up.current \in Nat /\ top.number \in Nat
    BY <1>1, <2>1, HasNextIffLeft, IteratorNumbers
  <2> QED
    BY <1>1, <2>2 DEF HighEnd, Rescans, Least
<1>10. HighEnd' = top.number /\ LowEnd' = LowEnd
    BY <1>1 DEF HighEnd, LowEnd, Rescans
<1>11. WithoutHole'
    BY <1>1, <1>2, <1>9, <1>10 DEF RewindInv, WithoutHole, Rewinds
<1>12. TipInMemory' /\ RewindCovers'
    BY <1>1, <1>3 DEF RewindInv, TipInMemory, RewindCovers
<1> QED
    BY <1>5, <1>6, <1>7, <1>8, <1>9, <1>10, <1>11, <1>12 DEF RewindInv

-----------------------------------------------------------------------------
(* The check of the tip. *)

\* A step of the check: the memory holds the tip or nothing, so that the search
\* for an ancestor ends with the finalized block (reorg_handler.rs:77-186).
LEMMA CheckingInv ==
    ASSUME NodeInv, RewindInv, UNCHANGED chainVars, Checking
    PROVE  RewindInv'
<1>1. /\ CheckStep /\ UNCHANGED <<rewind, top, bottom, checkReorg, down, up>>
      /\ UNCHANGED <<open, kept, stale, errored>>
    BY DEF Checking, rewindVars, listenerVars
<1>2. /\ step \in {"detect", "search"} /\ rewind = "check" /\ checked = top /\ top \in Block
      /\ buffer = << >> \/ buffer = << top >>
      /\ verdict = NoBlock /\ step # "confirm"
  <2>1. step \in {"detect", "search", "confirm"}
    BY <1>1 DEF CheckStep, DetectCanonical, DetectReorg, Discard, FindAncestor, Confirm, FallBack,
           CheckFails
  <2> QED
    BY <2>1 DEF RewindInv, TipInMemory, TopInv
<1>3. HandlerInv' /\ HandlerTypeOK'
  <2>1. HandlerInv
    BY <1>2 DEF HandlerInv, RewindInv
  <2> QED
    BY <1>1, <2>1, CheckStepInv DEF HandlerInv, NodeInv
<1>4. ListenerTypeOK'
    BY <1>1 DEF RewindInv, ListenerTypeOK
<1>5. RewindTypeOK'
    BY <1>1 DEF RewindInv, RewindTypeOK
<1>6. TopInv'
    BY <1>1, TopStill DEF RewindInv, TopInv
<1>7. IteratorsInv'
    BY <1>1 DEF RewindInv, IteratorsInv, Rewinds, Rescans
<1>8. WithoutHole'
  <2>1. LowEnd' = LowEnd /\ HighEnd' = HighEnd
    BY <1>1 DEF LowEnd, HighEnd, Rescans
  <2> QED
    BY <1>1, <2>1 DEF RewindInv, WithoutHole, Rewinds
<1>9. RewindCovers'
    BY <1>1, <1>2 DEF RewindCovers
<1>10. TipInMemory'
  <2>1. rewind' = "check" /\ top' = top /\ finalized' = finalized /\ (Canonical(top)' <=> Canonical(top))
    BY <1>1, <1>2, TopStill DEF chainVars
  <2>2. CASE DetectCanonical
    <3>1. /\ step' = "done" /\ verdict' = NoBlock
          /\ buffer' = IF Duplicate(top) THEN buffer ELSE Push(buffer, top)
      BY <1>2, <2>2 DEF DetectCanonical, Return
    <3>2. buffer' = << >> \/ buffer' = << top >>
      <4>1. CASE buffer = << >>
        <5>1. Push(buffer, top) = << >> \/ Push(buffer, top) = << top >>
          BY <4>1, CapacityAssumption DEF Push
        <5> QED
          BY <3>1, <4>1, <5>1
      <4>2. CASE buffer = << top >>
        BY <3>1, <4>2 DEF Duplicate, Back
      <4> QED
        BY <1>2, <4>1, <4>2
    <3> QED
      BY <2>1, <3>1, <3>2 DEF TipInMemory
  <2>3. CASE DetectReorg
    <3>1. step' = "search" /\ ~Canonical(top) /\ UNCHANGED <<buffer, checked, verdict>>
      BY <1>2, <2>3 DEF DetectReorg
    <3> QED
      BY <1>2, <2>1, <3>1 DEF TipInMemory
  <2>4. CASE Discard
    <3>1. step = "search" /\ buffer # << >> /\ buffer' = PopBack(buffer)
          /\ UNCHANGED <<step, checked, verdict>> /\ ~Canonical(top)
      BY <2>4 DEF Discard, RewindInv, TipInMemory
    <3>2. buffer' = << >>
      <4>1. buffer = << top >>
        BY <1>2, <3>1
      <4> QED
        BY <3>1, <4>1 DEF PopBack
    <3> QED
      BY <1>2, <2>1, <3>1, <3>2 DEF TipInMemory
  <2>5. CASE FindAncestor
    <3>1. step = "search" /\ buffer # << >> /\ Canonical(Back(buffer)) /\ ~Canonical(top)
      BY <2>5 DEF FindAncestor, RewindInv, TipInMemory
    <3>2. Back(buffer) = top
      BY <1>2, <3>1 DEF Back
    <3> QED
      BY <3>1, <3>2
  <2>6. CASE Confirm
    BY <1>2, <2>6 DEF Confirm
  <2>7. CASE FallBack
    <3>1. /\ step' = "done" /\ verdict' = BlockAt(finalized) /\ buffer' = << >>
          /\ BlockAt(finalized).number = finalized
      BY <2>7 DEF FallBack, Return, BlockAt
    <3>2. finalized \in Nat
      BY LenProperties DEF NodeInv, ChainTypeOK, Height
    <3>3. verdict'.number <= finalized'
      BY <2>1, <3>1, <3>2
    <3> QED
      BY <2>1, <3>1, <3>3 DEF TipInMemory
  <2>8. CASE CheckFails
    BY <1>2, <2>1, <2>8 DEF CheckFails, TipInMemory
  <2> QED
    BY <1>1, <2>2, <2>3, <2>4, <2>5, <2>6, <2>7, <2>8 DEF CheckStep
<1> QED
    BY <1>3, <1>4, <1>5, <1>6, <1>7, <1>8, <1>9, <1>10 DEF RewindInv

-----------------------------------------------------------------------------
(* The node and the consumer. *)

\* Whatever happens to the chain, if a tip that is not canonical stays so.
LEMMA ChainMovesInv ==
    ASSUME RewindInv, UNCHANGED rewindVars, UNCHANGED handlerVars,
           UNCHANGED <<open, kept, errored>>, stale' \in SUBSET kept,
           top \in Block => Known(top)' /\ (Canonical(top)' => Canonical(top)),
           finalized \in Nat, finalized' \in Nat, finalized <= finalized'
    PROVE  RewindInv'
<1>1. /\ UNCHANGED <<rewind, top, bottom, checkReorg, down, up>>
      /\ UNCHANGED <<buffer, step, checked, verdict>>
    BY DEF rewindVars, handlerVars
<1>2. top \notin Block => top = NoBlock
    BY BlockNumbers DEF RewindInv, RewindTypeOK
<1>3. Known(top)'
    BY <1>1, <1>2 DEF Known
<1>4. HandlerTypeOK' /\ ListenerTypeOK' /\ RewindTypeOK'
    BY <1>1 DEF RewindInv, HandlerTypeOK, ListenerTypeOK, RewindTypeOK
<1>5. TopInv'
    BY <1>1, <1>3 DEF RewindInv, TopInv
<1>6. IteratorsInv' /\ RewindCovers'
    BY <1>1 DEF RewindInv, IteratorsInv, Rewinds, Rescans, RewindCovers
<1>7. WithoutHole'
  <2>1. LowEnd' = LowEnd /\ HighEnd' = HighEnd
    BY <1>1 DEF LowEnd, HighEnd, Rescans
  <2> QED
    BY <1>1, <2>1 DEF RewindInv, WithoutHole, Rewinds
<1>8. TipInMemory'
  <2>1. step = "search" => ~Canonical(top)'
    BY DEF RewindInv, TipInMemory, TopInv
  <2>2. verdict # NoBlock => verdict.number <= finalized'
    <3> SUFFICES ASSUME verdict # NoBlock PROVE verdict.number <= finalized'
        OBVIOUS
    <3>1. verdict.number <= finalized /\ verdict \in Block
      BY BlockNumbers DEF RewindInv, TipInMemory, HandlerTypeOK
    <3>2. verdict.number \in Nat
      BY <3>1, BlockNumbers
    <3> QED
      BY <3>1, <3>2
  <2> QED
    BY <1>1, <2>1, <2>2 DEF RewindInv, TipInMemory
<1> QED
    BY <1>4, <1>5, <1>6, <1>7, <1>8 DEF RewindInv

-----------------------------------------------------------------------------
(* The node. *)

\* The chain changes under what was streamed (NodeMines, NodeReorgs,
\* NodeFinalizes): the invariants of the node and of the rewind stand.
LEMMA MinesInv == ASSUME NodeInv, RewindInv, NodeMines PROVE NodeInv' /\ RewindInv'
<1>1. /\ Mine /\ UNCHANGED handlerVars /\ UNCHANGED listenerVars /\ UNCHANGED rewindVars
    BY DEF NodeMines
<1>2. /\ Timely' /\ finalized' = finalized
      /\ \A b \in Block : Known(b) => Known(b)' /\ (Canonical(b)' <=> Canonical(b))
    BY <1>1, MineBlocks DEF NodeInv
<1>3. NodeInv'
    BY <1>1, <1>2, MineTypes DEF NodeInv
<1>4. /\ UNCHANGED <<open, kept, errored>> /\ stale' \in SUBSET kept /\ top' = top
    BY <1>1 DEF listenerVars, rewindVars, RewindInv, ListenerTypeOK
<1>5. top \in Block => Known(top)' /\ (Canonical(top)' => Canonical(top))
  <2>1. PICK t : t = top
    OBVIOUS
  <2>2. t \in Block => Known(t)' /\ (Canonical(t)' <=> Canonical(t))
    BY <1>2, <2>1 DEF RewindInv, TopInv
  <2> QED
    BY <1>4, <2>1, <2>2 DEF Known, Canonical, BlockAt, Height
<1>6. finalized \in Nat
    BY LenProperties DEF NodeInv, ChainTypeOK, Height
<1>7. finalized' \in Nat /\ finalized <= finalized'
    BY <1>2, <1>6
<1> QED
    BY <1>1, <1>3, <1>4, <1>5, <1>6, <1>7, ChainMovesInv

\* A reorg.
LEMMA ReorgsInv ==
    ASSUME NodeInv, RewindInv, NEW fork \in 0 .. MaxHeight, NEW tip \in 0 .. MaxHeight,
           NodeReorgs(fork, tip)
    PROVE  NodeInv' /\ RewindInv'
<1>1. /\ Reorg(fork, tip) /\ UNCHANGED handlerVars /\ UNCHANGED rewindVars
      /\ stale' = stale \cup {n \in kept : n > fork} /\ UNCHANGED <<open, kept, errored>>
    BY DEF NodeReorgs, Orphan
<1>2. /\ Timely' /\ finalized' = finalized
      /\ \A b \in Block : Known(b) =>
            Known(b)' /\ (Canonical(b)' <=> (Canonical(b) /\ b.number <= fork))
    BY <1>1, ReorgBlocks DEF NodeInv
<1>3. NodeInv'
    BY <1>1, <1>2, ReorgTypes DEF NodeInv
<1>4. stale' \in SUBSET kept /\ top' = top
    BY <1>1 DEF rewindVars, RewindInv, ListenerTypeOK
<1>5. top \in Block => Known(top)' /\ (Canonical(top)' => Canonical(top))
  <2>1. PICK t : t = top
    OBVIOUS
  <2>2. t \in Block => Known(t)' /\ (Canonical(t)' => Canonical(t))
    BY <1>2, <2>1 DEF RewindInv, TopInv
  <2> QED
    BY <1>4, <2>1, <2>2 DEF Known, Canonical, BlockAt, Height
<1>6. finalized \in Nat
    BY LenProperties DEF NodeInv, ChainTypeOK, Height
<1>7. finalized' \in Nat /\ finalized <= finalized'
    BY <1>2, <1>6
<1> QED
    BY <1>1, <1>3, <1>4, <1>5, <1>6, <1>7, ChainMovesInv

\* A block becomes final.
LEMMA FinalizesInv ==
    ASSUME NodeInv, RewindInv, NEW n \in 1 .. MaxHeight, NodeFinalizes(n)
    PROVE  NodeInv' /\ RewindInv'
<1>1. /\ Finalize(n) /\ UNCHANGED handlerVars /\ UNCHANGED rewindVars /\ UNCHANGED listenerVars
    BY DEF NodeFinalizes
<1>2. /\ Timely' /\ finalized' = n
      /\ \A b : (Canonical(b)' <=> Canonical(b)) /\ (Known(b)' <=> Known(b))
    BY <1>1, FinalizeBlocks DEF NodeInv
<1>3. NodeInv'
    BY <1>1, <1>2, FinalizeTypes DEF NodeInv
<1>4. /\ UNCHANGED <<open, kept, errored>> /\ stale' \in SUBSET kept /\ top' = top
    BY <1>1 DEF listenerVars, rewindVars, RewindInv, ListenerTypeOK
<1>5. top \in Block => Known(top)' /\ (Canonical(top)' => Canonical(top))
  <2>1. PICK t : t = top
    OBVIOUS
  <2>2. t \in Block => Known(t)' /\ (Canonical(t)' <=> Canonical(t))
    BY <1>2, <2>1 DEF RewindInv, TopInv
  <2> QED
    BY <1>4, <2>1, <2>2 DEF Known, Canonical, BlockAt, Height
<1>6. finalized \in Nat /\ Height \in Nat
    BY LenProperties DEF NodeInv, ChainTypeOK, Height
<1>7. finalized' \in Nat /\ finalized <= finalized'
    BY <1>1, <1>2, <1>6, Numbers DEF Finalize
<1> QED
    BY <1>1, <1>3, <1>4, <1>5, <1>6, <1>7, ChainMovesInv

\* The receiver is dropped.
LEMMA DropsInv ==
    ASSUME NodeInv, RewindInv, UNCHANGED chainVars, UNCHANGED rewindVars, UNCHANGED handlerVars,
           DropReceiver
    PROVE  RewindInv'
<1>1. /\ UNCHANGED <<rewind, top, bottom, checkReorg, down, up>>
      /\ UNCHANGED <<buffer, step, checked, verdict>> /\ UNCHANGED <<kept, stale, errored>>
      /\ open' = FALSE
    BY DEF rewindVars, handlerVars, DropReceiver
<1>2. HandlerTypeOK' /\ ListenerTypeOK' /\ RewindTypeOK'
    BY <1>1 DEF RewindInv, HandlerTypeOK, ListenerTypeOK, RewindTypeOK
<1>3. TopInv'
    BY <1>1, TopStill DEF RewindInv, TopInv
<1>4. IteratorsInv' /\ RewindCovers'
    BY <1>1 DEF RewindInv, IteratorsInv, Rewinds, Rescans, RewindCovers
<1>5. WithoutHole'
  <2>1. LowEnd' = LowEnd /\ HighEnd' = HighEnd
    BY <1>1 DEF LowEnd, HighEnd, Rescans
  <2> QED
    BY <1>1, <2>1 DEF RewindInv, WithoutHole, Rewinds
<1>6. TipInMemory'
  <2>1. finalized' = finalized /\ (Canonical(top)' <=> Canonical(top))
    BY <1>1, TopStill DEF chainVars
  <2> QED
    BY <1>1, <2>1 DEF RewindInv, TipInMemory
<1> QED
    BY <1>2, <1>3, <1>4, <1>5, <1>6 DEF RewindInv

\* Nothing happens to the node and to the rewind.
LEMMA OutsideInv ==
    ASSUME NodeInv, RewindInv, UNCHANGED chainVars, UNCHANGED handlerVars,
           UNCHANGED listenerVars, UNCHANGED rewindVars
    PROVE  NodeInv' /\ RewindInv'
<1>1. NodeInv' /\ finalized \in Nat /\ finalized' = finalized
  <2>1. finalized \in Nat /\ finalized' = finalized
    BY LenProperties DEF NodeInv, ChainTypeOK, Height, chainVars
  <2> QED
    BY <2>1, Still DEF NodeInv
<1>2. /\ UNCHANGED <<open, kept, errored>> /\ stale' \in SUBSET kept /\ top' = top
    BY DEF listenerVars, rewindVars, RewindInv, ListenerTypeOK
<1>3. Known(top)' /\ (Canonical(top)' => Canonical(top))
    BY <1>2, TopStill DEF RewindInv, TopInv
<1>4. finalized' \in Nat /\ finalized <= finalized'
    BY <1>1
<1> QED
    BY <1>1, <1>2, <1>3, <1>4, ChainMovesInv

-----------------------------------------------------------------------------
(* The types of the collector. *)

\* Before the start there is nothing.
Unstarted ==
    /\ open /\ collector = "waiting" /\ pipe = << >> /\ collected = << >> /\ ancestor = NoAncestor
    /\ ~warned /\ ~overlapped

\* Only a collector that is over drops its stream.
CollectorInv ==
    /\ logs \subseteq 0 .. Height
    /\ pipe \in Seq(Message) /\ Len(pipe) <= PipeCapacity
    /\ IsCollection(collected, 0 .. MaxHeight)
    /\ ancestor \in {NoAncestor} \cup 0 .. MaxHeight
    /\ collector \in {"waiting", "collecting", "sending", "over"}
    /\ warned \in BOOLEAN /\ overlapped \in BOOLEAN
    /\ rewind = "start" => Unstarted
    /\ collector \in {"collecting", "sending"} => open

\* The inductive invariant.
IInv == NodeInv /\ RewindInv /\ CollectorInv

\* The inductive invariant says what the runs check.
LEMMA WhatIsChecked == IInv => TypeOK /\ RewindCovers
BY DEF IInv, NodeInv, RewindInv, CollectorInv, TypeOK

\* Before the start.
LEMMA InitInv == Init => IInv
<1> SUFFICES ASSUME Init PROVE CollectorInv
    BY InitRewind DEF IInv
<1>1. /\ logs \subseteq 1 .. InitialHeight /\ pipe = << >> /\ collected = << >>
      /\ ancestor = NoAncestor /\ collector = "waiting" /\ warned = FALSE /\ overlapped = FALSE
      /\ open = TRUE
    BY DEF Init, ListenerInit
<1>2. Height = InitialHeight
    BY ChainAssumption DEF Init, ChainInit, Height
<1>3. logs \subseteq 0 .. Height
    BY <1>1, <1>2, ChainAssumption
<1>4. Len(pipe) <= PipeCapacity /\ IsCollection(collected, 0 .. MaxHeight)
    BY <1>1, LatestAssumption, CountAssumption DEF IsCollection
<1>5. pipe \in Seq(Message) /\ ancestor \in {NoAncestor} \cup 0 .. MaxHeight
    BY <1>1
<1>6. Unstarted
    BY <1>1 DEF Unstarted
<1> QED
    BY <1>1, <1>3, <1>4, <1>5, <1>6 DEF CollectorInv

\* What goes into the pipe fits.
LEMMA SendTypes ==
    ASSUME CollectorInv, NEW m \in Message, Send(m)
    PROVE  /\ pipe' = Append(pipe, m) /\ pipe' \in Seq(Message) /\ Len(pipe') = Len(pipe) + 1
           /\ Len(pipe') <= PipeCapacity /\ pipe'[Len(pipe) + 1] = m
           /\ \A i \in 1 .. Len(pipe) : pipe'[i] = pipe[i]
<1>1. /\ pipe \in Seq(Message) /\ Len(pipe) \in Nat /\ Len(pipe) < PipeCapacity
      /\ pipe' = Append(pipe, m) /\ PipeCapacity \in Nat
    BY LenProperties, LatestAssumption DEF CollectorInv, Send
<1>2. /\ Append(pipe, m) \in Seq(Message) /\ Len(Append(pipe, m)) = Len(pipe) + 1
      /\ Append(pipe, m)[Len(pipe) + 1] = m
      /\ \A i \in 1 .. Len(pipe) : Append(pipe, m)[i] = pipe[i]
    BY <1>1, AppendProperties
<1> QED
    BY <1>1, <1>2

\* A message carries numbers of blocks.
LEMMA MessageTypes ==
    /\ \A r : r.lo \in 0 .. MaxHeight /\ r.hi \in 0 .. MaxHeight => BlocksMessage(r) \in Message
    /\ \A n \in 0 .. MaxHeight : ReorgMessage(n) \in Message
    /\ ErrorMessage \in Message
<1>1. 0 \in 0 .. MaxHeight
    BY Numbers
<1> QED
    BY <1>1 DEF BlocksMessage, ReorgMessage, ErrorMessage, Message

\* The rewind sends, and the collector stays as it is.
LEMMA SendsInv ==
    ASSUME CollectorInv, rewind # "start", rewind' # "start", open' = open,
           UNCHANGED chainVars, UNCHANGED logs, UNCHANGED collectorVars, overlapped' \in BOOLEAN,
           pipe' \in Seq(Message), Len(pipe') <= PipeCapacity
    PROVE  CollectorInv'
BY DEF CollectorInv, chainVars, collectorVars, Height, IsCollection

\* The pipe moves on by a message.
LEMMA TakeTypes ==
    ASSUME CollectorInv, NEW kind, Take(kind)
    PROVE  /\ collector = "collecting" /\ pipe # << >> /\ Head(pipe) = pipe[1] /\ Head(pipe) \in Message
           /\ Head(pipe).kind = kind
           /\ pipe' = Tail(pipe) /\ pipe' \in Seq(Message) /\ Len(pipe') = Len(pipe) - 1
           /\ Len(pipe') <= PipeCapacity /\ Len(pipe) \in Nat \ {0}
           /\ \A i \in 1 .. Len(pipe') : pipe'[i] = pipe[i + 1]
<1>1. /\ pipe \in Seq(Message) /\ Len(pipe) \in Nat /\ Len(pipe) <= PipeCapacity /\ pipe # << >>
      /\ PipeCapacity \in Nat
    BY LenProperties, LatestAssumption DEF CollectorInv, Take
<1>2. /\ Head(pipe) \in Message /\ Head(pipe) = pipe[1]
      /\ Tail(pipe) \in Seq(Message) /\ Len(Tail(pipe)) = Len(pipe) - 1
      /\ \A i \in 1 .. Len(Tail(pipe)) : Tail(pipe)[i] = pipe[i + 1]
    BY <1>1, HeadTailProperties
<1>3. Len(pipe) # 0
    BY <1>1, EmptySeq
<1> QED
    BY <1>1, <1>2, <1>3 DEF Take

\* The logs of a batch, and what the collector makes of them
\* (block_range_handler.rs:281-306).
LEMMA LogsAre ==
    ASSUME NodeInv, CollectorInv
    PROVE  /\ LogsInHand \in SUBSET (0 .. MaxHeight) /\ LogsInHand \subseteq Int
           /\ IsFiniteSet(LogsInHand)
           /\ NewestFirst(LogsInHand) \in Seq(0 .. MaxHeight)
           /\ Lists(NewestFirst(LogsInHand), LogsInHand)
<1>1. Height \in Nat /\ Height <= MaxHeight /\ logs \subseteq 0 .. Height
    BY LenProperties DEF NodeInv, CollectorInv, ChainTypeOK, Height
<1>2. LogsInHand \in SUBSET (0 .. MaxHeight) /\ LogsInHand \subseteq Int
  <2>1. LogsInHand \subseteq logs
    BY DEF LogsInHand
  <2>2. 0 .. Height \subseteq 0 .. MaxHeight /\ 0 .. MaxHeight \subseteq Int
    BY <1>1, Numbers
  <2> QED
    BY <1>1, <2>1, <2>2
<1>3. IsFiniteSet(LogsInHand)
  <2>1. IsFiniteSet(0 .. MaxHeight)
    BY Numbers, FS_Interval
  <2> QED
    BY <1>2, <2>1, FS_Subset
<1>4. /\ Lists(NewestFirst(LogsInHand), LogsInHand)
      /\ NewestFirst(LogsInHand) \in Seq(LogsInHand)
    BY <1>2, <1>3, NewestFirstLists
<1> QED
    BY <1>2, <1>3, <1>4, SeqMonotonic

\* Extended in either way, a collection stays one.
LEMMA CollectionGrows ==
    ASSUME NEW s, IsCollection(s, 0 .. MaxHeight), NEW t \in Seq(0 .. MaxHeight)
    PROVE  /\ IsCollection(Extend(s, t), 0 .. MaxHeight)
           /\ IsCollection(Prepend(s, t), 0 .. MaxHeight)
<1>1. s \in Seq(0 .. MaxHeight) /\ Len(s) <= Count /\ Count \in Nat
    BY CountAssumption DEF IsCollection
<1>2. /\ Extend(s, t) \in Seq(0 .. MaxHeight) /\ Extend(s, t) = FirstOf(s \o t, Count)
      /\ Prepend(s, t) \in Seq(0 .. MaxHeight) /\ Prepend(s, t) = FirstOf(t \o s, Count)
    BY <1>1, ExtendIs, PrependIs
<1>3. \A w \in Seq(0 .. MaxHeight) : Len(FirstOf(w, Count)) <= Count
  <2> SUFFICES ASSUME NEW w \in Seq(0 .. MaxHeight) PROVE Len(FirstOf(w, Count)) <= Count
      OBVIOUS
  <2>1. Len(FirstOf(w, Count)) = IF Count <= Len(w) THEN Count ELSE Len(w)
    BY <1>1, FirstOfIs
  <2>2. Len(w) \in Nat
    BY LenProperties
  <2> QED
    BY <1>1, <2>1, <2>2
<1>4. s \o t \in Seq(0 .. MaxHeight) /\ t \o s \in Seq(0 .. MaxHeight)
    BY <1>1, ConcatProperties
<1> QED
    BY <1>2, <1>3, <1>4 DEF IsCollection

\* The task of the collector is over.
LEMMA CollectorEndsInv ==
    ASSUME CollectorInv, CollectorEnds, rewind' = rewind, rewind # "start",
           UNCHANGED chainVars, logs' = logs, overlapped' = overlapped,
           pipe' \in Seq(Message), Len(pipe') <= PipeCapacity
    PROVE  CollectorInv'
<1>1. IsCollection(<< >>, 0 .. MaxHeight)
    BY CountAssumption DEF IsCollection
<1> QED
    BY <1>1 DEF CollectorInv, CollectorEnds, chainVars, Height, IsCollection

\* A batch with logs is collected.
LEMMA CollectLogsInv == ASSUME IInv, CollectLogs PROVE CollectorInv'
<1>1. /\ Take("blocks") /\ UNCHANGED warned /\ UNCHANGED <<logs, overlapped>>
      /\ ancestor' = AncestorAfter(LogsInHand)
      /\ collected' = IF ShouldPrepend(ancestor') THEN Prepend(collected, NewestFirst(LogsInHand))
                      ELSE Extend(collected, NewestFirst(LogsInHand))
      /\ collector' = IF Len(collected') >= Count THEN "sending" ELSE collector
      /\ UNCHANGED chainVars /\ UNCHANGED listenerVars /\ UNCHANGED rewindVars
    BY DEF CollectLogs, Outside
<1>2. CollectorInv /\ NodeInv
    BY DEF IInv
<1>3. collector = "collecting" /\ pipe' \in Seq(Message) /\ Len(pipe') <= PipeCapacity
    BY <1>1, <1>2, TakeTypes
<1>4. IsCollection(collected, 0 .. MaxHeight)' 
  <2>1. IsCollection(collected, 0 .. MaxHeight)
    BY <1>2 DEF CollectorInv
  <2>2. NewestFirst(LogsInHand) \in Seq(0 .. MaxHeight)
    BY <1>2, LogsAre
  <2>3. IsCollection(collected', 0 .. MaxHeight)
    BY <1>1, <2>1, <2>2, CollectionGrows
  <2> QED
    BY <2>3 DEF IsCollection
<1>5. ancestor' \in {NoAncestor} \cup 0 .. MaxHeight
    BY <1>1, <1>2 DEF AncestorAfter, CollectorInv
<1>6. /\ Height' = Height /\ open' = open /\ rewind' = rewind /\ rewind # "start" /\ open
      /\ collector' \in {"collecting", "sending"}
    BY <1>1, <1>2, <1>3 DEF chainVars, Height, listenerVars, rewindVars, CollectorInv, Unstarted
<1> QED
    BY <1>1, <1>2, <1>3, <1>4, <1>5, <1>6 DEF CollectorInv

\* The logs above a common ancestor go.
LEMMA DiscardOnReorgInv == ASSUME IInv, DiscardOnReorg PROVE CollectorInv'
<1>1. /\ Take("reorg") /\ UNCHANGED <<collector, warned>> /\ UNCHANGED <<logs, overlapped>>
      /\ ancestor' = Head(pipe).lo /\ collected' = DiscardOrphaned(collected, Head(pipe).lo)
      /\ UNCHANGED chainVars /\ UNCHANGED listenerVars /\ UNCHANGED rewindVars
    BY DEF DiscardOnReorg, Outside
<1>2. CollectorInv
    BY DEF IInv
<1>3. /\ collector = "collecting" /\ pipe' \in Seq(Message) /\ Len(pipe') <= PipeCapacity
      /\ Head(pipe) \in Message
    BY <1>1, <1>2, TakeTypes
<1>4. Head(pipe).lo \in 0 .. MaxHeight /\ Head(pipe).lo \in Int
    BY <1>3, Numbers DEF Message
<1>5. IsCollection(collected, 0 .. MaxHeight)'
  <2>1. collected \in Seq(0 .. MaxHeight) /\ Len(collected) <= Count /\ 0 .. MaxHeight \subseteq Int
    BY <1>2 DEF CollectorInv, IsCollection
  <2>2. collected' \in Seq(0 .. MaxHeight) /\ Len(collected') <= Len(collected)
    BY <1>1, <1>4, <2>1, DiscardIs
  <2>3. Len(collected') \in Nat /\ Len(collected) \in Nat /\ Count \in Nat
    BY <2>1, <2>2, LenProperties, CountAssumption
  <2>4. Len(collected') <= Count
    BY <2>1, <2>2, <2>3
  <2> QED
    BY <2>2, <2>4 DEF IsCollection
<1>6. /\ Height' = Height /\ open' = open /\ rewind' = rewind /\ rewind # "start" /\ open
    BY <1>1, <1>2, <1>3 DEF chainVars, Height, listenerVars, rewindVars, CollectorInv, Unstarted
<1> QED
    BY <1>1, <1>2, <1>3, <1>4, <1>5, <1>6 DEF CollectorInv

\* The other steps of the collector.
LEMMA CollectorMovesInv ==
    ASSUME IInv, SkipBatch \/ PassError \/ StreamEnds \/ SendCollected \/ StreamDropped
    PROVE  CollectorInv'
<1>1. CollectorInv
    BY DEF IInv
<1>2. CASE SkipBatch
  <2>1. /\ Take("blocks") /\ UNCHANGED collectorVars /\ UNCHANGED <<logs, overlapped>>
        /\ UNCHANGED chainVars /\ UNCHANGED listenerVars /\ UNCHANGED rewindVars
    BY <1>2 DEF SkipBatch, Outside
  <2>2. collector = "collecting" /\ pipe' \in Seq(Message) /\ Len(pipe') <= PipeCapacity
    BY <1>1, <2>1, TakeTypes
  <2>3. rewind # "start" /\ rewind' = rewind /\ open' = open
    BY <1>1, <2>1, <2>2 DEF CollectorInv, Unstarted, rewindVars, listenerVars
  <2>4. overlapped' \in BOOLEAN
    BY <1>1, <2>1 DEF CollectorInv
  <2> QED
    BY <1>1, <2>1, <2>2, <2>3, <2>4, SendsInv
<1>3. CASE PassError
  <2>1. /\ \E kind \in {"blocks", "reorg", "error"} : Take(kind)
        /\ \/ warned' = TRUE /\ UNCHANGED <<collected, ancestor, collector>>
           \/ CollectorEnds
        /\ UNCHANGED <<logs, overlapped>>
        /\ UNCHANGED chainVars /\ UNCHANGED listenerVars /\ UNCHANGED rewindVars
    BY <1>3 DEF PassError, Outside
  <2>2. collector = "collecting" /\ pipe' \in Seq(Message) /\ Len(pipe') <= PipeCapacity
    BY <1>1, <2>1, TakeTypes
  <2>3. rewind # "start" /\ rewind' = rewind /\ open' = open /\ Height' = Height
    BY <1>1, <2>1, <2>2 DEF CollectorInv, Unstarted, rewindVars, listenerVars, chainVars, Height
  <2>4. CASE CollectorEnds
    BY <1>1, <2>1, <2>2, <2>3, <2>4, CollectorEndsInv
  <2>5. CASE warned' = TRUE /\ UNCHANGED <<collected, ancestor, collector>>
    BY <1>1, <2>1, <2>2, <2>3, <2>5 DEF CollectorInv, IsCollection
  <2> QED
    BY <2>1, <2>4, <2>5
<1>4. CASE StreamEnds
  <2>1. /\ collector = "collecting" /\ collector' = "sending" /\ rewind # "start" /\ open
        /\ UNCHANGED <<pipe, collected, ancestor, warned>> /\ UNCHANGED <<logs, overlapped>>
        /\ rewind' = rewind /\ open' = open /\ Height' = Height
    BY <1>1, <1>4 DEF StreamEnds, Outside, CollectorInv, rewindVars, listenerVars, chainVars, Height
  <2> QED
    BY <1>1, <2>1 DEF CollectorInv, IsCollection
<1>5. CASE SendCollected
  <2>1. /\ CollectorEnds /\ UNCHANGED pipe /\ UNCHANGED <<logs, overlapped>> /\ UNCHANGED chainVars
        /\ rewind' = rewind /\ rewind # "start"
    BY <1>1, <1>5 DEF SendCollected, Outside, CollectorInv, Unstarted, rewindVars
  <2>2. pipe' \in Seq(Message) /\ Len(pipe') <= PipeCapacity
    BY <1>1, <2>1 DEF CollectorInv
  <2> QED
    BY <1>1, <2>1, <2>2, CollectorEndsInv
<1>6. CASE StreamDropped
  <2>1. /\ collector = "over" /\ pipe' = << >> /\ rewind' = rewind /\ rewind # "start"
        /\ UNCHANGED <<logs, overlapped>> /\ UNCHANGED collectorVars /\ Height' = Height
    BY <1>1, <1>6 DEF StreamDropped, CollectorInv, Unstarted, rewindVars, chainVars, Height
  <2>2. UNCHANGED <<collected, ancestor, collector, warned>>
    BY <2>1 DEF collectorVars
  <2>3. pipe' \in Seq(Message) /\ Len(pipe') <= PipeCapacity
    BY <2>1, LatestAssumption
  <2> QED
    BY <1>1, <2>1, <2>2, <2>3 DEF CollectorInv, IsCollection
<1> QED
    BY <1>2, <1>3, <1>4, <1>5, <1>6

-----------------------------------------------------------------------------
(* Every step keeps the invariant. *)

\* The node.
LEMMA EnvironmentInv == ASSUME IInv, Environment PROVE IInv'
<1>1. /\ collector \in {"collecting", "sending"} /\ NodeInv /\ RewindInv /\ CollectorInv
    BY DEF Environment, IInv
<1>2. Height \in Nat
    BY <1>1, LenProperties DEF NodeInv, ChainTypeOK, Height
<1>3. ASSUME Idle, rewind' = rewind, open' = open, logs' \subseteq 0 .. Height'
      PROVE  CollectorInv'
  <2>1. UNCHANGED <<pipe, collected, ancestor, collector, warned, overlapped>>
    BY <1>3 DEF Idle, collectorVars
  <2>2. rewind # "start"
    BY <1>1 DEF CollectorInv, Unstarted
  <2> QED
    BY <1>1, <1>3, <2>1, <2>2 DEF CollectorInv, IsCollection
<1>4. CASE NodeMines
  <2>1. /\ Mine /\ logs' \in {logs, logs \cup {Height + 1}} /\ Idle /\ rewind' = rewind /\ open' = open
    BY <1>4 DEF NodeMines, rewindVars, listenerVars
  <2>2. Height' = Height + 1
    BY <1>1, <2>1, MineBlocks DEF NodeInv
  <2>3. logs' \subseteq 0 .. Height'
    BY <1>1, <1>2, <2>1, <2>2 DEF CollectorInv
  <2>4. CollectorInv'
    BY <1>3, <2>1, <2>3
  <2> QED
    BY <1>1, <1>4, <2>4, MinesInv DEF IInv
<1>5. ASSUME NEW fork \in 0 .. MaxHeight, NEW tip \in 0 .. MaxHeight, NodeReorgs(fork, tip)
      PROVE  IInv'
  <2>1. /\ Reorg(fork, tip) /\ Idle /\ rewind' = rewind /\ open' = open
        /\ \E new \in {{}, fork + 1 .. tip} : logs' = {n \in logs : n <= fork} \cup new
    BY <1>5 DEF NodeReorgs, Orphan, rewindVars
  <2>2. Height' = tip /\ fork + 1 <= tip
    <3>1. Height' = tip
      BY <1>1, <2>1, ReorgBlocks DEF NodeInv
    <3> QED
      BY <2>1, <3>1, Numbers DEF Reorg
  <2>3. logs' \subseteq 0 .. Height'
    <3>1. {n \in logs : n <= fork} \subseteq 0 .. tip
      <4>1. \A n \in logs : n \in Nat
        BY <1>1, <1>2 DEF CollectorInv
      <4>2. fork \in Nat /\ tip \in Nat
        BY Numbers
      <4> QED
        BY <2>2, <4>1, <4>2
    <3>2. fork + 1 .. tip \subseteq 0 .. tip
      BY Numbers
    <3> QED
      BY <2>1, <2>2, <3>1, <3>2
  <2>4. CollectorInv'
    BY <1>3, <2>1, <2>3
  <2> QED
    BY <1>1, <1>5, <2>4, ReorgsInv DEF IInv
<1>6. ASSUME NEW n \in 1 .. MaxHeight, NodeFinalizes(n)
      PROVE  IInv'
  <2>1. /\ Idle /\ rewind' = rewind /\ open' = open /\ logs' = logs /\ Height' = Height
    BY <1>6 DEF NodeFinalizes, Finalize, rewindVars, listenerVars, Height
  <2>2. CollectorInv'
    BY <1>1, <1>3, <2>1 DEF CollectorInv
  <2> QED
    BY <1>1, <1>6, <2>2, FinalizesInv DEF IInv
<1> QED
    BY <1>4, <1>5, <1>6 DEF Environment

\* The start of the rewind.
LEMMA StartInv ==
    ASSUME IInv, NEW a \in 0 .. MaxHeight, NEW b \in 0 .. MaxHeight, StartLatest(a, b)
    PROVE  IInv'
<1>1. NodeInv /\ RewindInv /\ CollectorInv
    BY DEF IInv
<1>2. /\ StreamRewind(a, b) /\ collector' = "collecting" /\ UNCHANGED chainVars
      /\ UNCHANGED <<logs, pipe, collected, ancestor, warned, overlapped>>
    BY DEF StartLatest
<1>3. NodeInv' /\ RewindInv'
    BY <1>1, <1>2, Still, StreamRewindInv DEF NodeInv
<1>4. rewind = "start" /\ rewind' = "finality" /\ open' = open
    BY <1>2 DEF StreamRewind, listenerVars
<1>5. CollectorInv'
  <2>1. Height' = Height /\ open
    BY <1>1, <1>2, <1>4 DEF chainVars, Height, CollectorInv, Unstarted
  <2> QED
    BY <1>1, <1>2, <1>4, <2>1 DEF CollectorInv, IsCollection
<1> QED
    BY <1>3, <1>5 DEF IInv

\* The start fails.
LEMMA StartFailsInv == ASSUME IInv, StartFails PROVE IInv'
<1>1. NodeInv /\ RewindInv /\ CollectorInv
    BY DEF IInv
<1>2. /\ RewindFails /\ collector' = "over" /\ UNCHANGED chainVars
      /\ UNCHANGED <<logs, pipe, collected, ancestor, warned, overlapped>> /\ rewind' = "over"
    BY DEF StartFails, RewindFails
<1>3. NodeInv' /\ RewindInv'
    BY <1>1, <1>2, Still, FailsInv DEF NodeInv
<1>4. CollectorInv'
    BY <1>1, <1>2 DEF CollectorInv, IsCollection, chainVars, Height
<1> QED
    BY <1>3, <1>4 DEF IInv

\* The steps of the rewind that send.
LEMMA SendingInv ==
    ASSUME IInv, Descend \/ AnnounceReorg \/ Rescan \/ RewindGivesUp
    PROVE  IInv'
<1>1. NodeInv /\ RewindInv /\ CollectorInv
    BY DEF IInv
<1>2. CASE Descend
  <2> DEFINE b == ReverseBatch(down)
  <2>1. /\ SendBatch /\ Send(BlocksMessage(b)) /\ UNCHANGED chainVars /\ UNCHANGED logs
        /\ UNCHANGED collectorVars
        /\ overlapped' = (overlapped \/ Blocks(b) \cap kept # {})
    BY <1>2 DEF Descend
  <2>2. rewind = "next" /\ HasNext(down) /\ open' = open /\ rewind' # "start"
    BY <2>1 DEF SendBatch, Deliver
  <2>3. b.lo \in 0 .. MaxHeight /\ b.hi \in 0 .. MaxHeight
    BY <1>1, <2>2, DescentBatch
  <2>4. BlocksMessage(b) \in Message
    <3> HIDE DEF b
    <3> QED
      BY <2>3, MessageTypes
  <2>5. pipe' \in Seq(Message) /\ Len(pipe') <= PipeCapacity
    BY <1>1, <2>1, <2>4, SendTypes
  <2>6. overlapped' \in BOOLEAN
    BY <1>1, <2>1 DEF CollectorInv
  <2>7. CollectorInv'
    BY <1>1, <2>1, <2>2, <2>5, <2>6, SendsInv
  <2> QED
    BY <1>1, <2>1, <2>7, Still, SendBatchInv DEF IInv, NodeInv
<1>3. CASE AnnounceReorg
  <2>1. /\ TipReorged /\ Send(ReorgMessage(verdict.number)) /\ UNCHANGED chainVars /\ UNCHANGED logs
        /\ UNCHANGED collectorVars /\ overlapped' = overlapped
    BY <1>3 DEF AnnounceReorg
  <2>2. rewind = "check" /\ open' = open /\ rewind' = "tip" /\ verdict # NoBlock
    BY <2>1 DEF TipReorged, Rollback
  <2>3. verdict.number \in 0 .. MaxHeight
    BY <1>1, <2>2, BlockNumbers DEF RewindInv, HandlerTypeOK
  <2>4. pipe' \in Seq(Message) /\ Len(pipe') <= PipeCapacity
    BY <1>1, <2>1, <2>3, MessageTypes, SendTypes
  <2>5. overlapped' \in BOOLEAN
    BY <1>1, <2>1 DEF CollectorInv
  <2>6. CollectorInv'
    BY <1>1, <2>1, <2>2, <2>4, <2>5, SendsInv
  <2> QED
    BY <1>1, <2>1, <2>6, Still, TipReorgedInv DEF IInv, NodeInv
<1>4. CASE Rescan
  <2> DEFINE b == ForwardBatch(up)
  <2>1. /\ SendRescanBatch /\ Send(BlocksMessage(b)) /\ UNCHANGED chainVars /\ UNCHANGED logs
        /\ UNCHANGED collectorVars /\ overlapped' = overlapped
    BY <1>4 DEF Rescan
  <2>2. rewind = "rescan" /\ HasNext(up) /\ open' = open /\ rewind' = "rescan"
    BY <2>1 DEF SendRescanBatch, Deliver
  <2>3. b.lo \in 1 .. MaxHeight /\ b.hi \in 0 .. MaxHeight
    BY <1>1, <2>2, RescanBatch
  <2>4. BlocksMessage(b) \in Message
    <3> HIDE DEF b
    <3>1. b.lo \in 0 .. MaxHeight
      BY <2>3, Numbers
    <3> QED
      BY <2>3, <3>1, MessageTypes
  <2>5. pipe' \in Seq(Message) /\ Len(pipe') <= PipeCapacity
    BY <1>1, <2>1, <2>4, SendTypes
  <2>6. overlapped' \in BOOLEAN
    BY <1>1, <2>1 DEF CollectorInv
  <2>7. CollectorInv'
    BY <1>1, <2>1, <2>2, <2>5, <2>6, SendsInv
  <2> QED
    BY <1>1, <2>1, <2>7, Still, SendRescanBatchInv DEF IInv, NodeInv
<1>5. CASE RewindGivesUp
  <2>1. /\ TipCheckFails \/ FetchTipFails
        /\ IF open THEN Send(ErrorMessage) ELSE UNCHANGED pipe
        /\ UNCHANGED chainVars /\ UNCHANGED logs /\ UNCHANGED collectorVars /\ overlapped' = overlapped
    BY <1>5 DEF RewindGivesUp
  <2>2. rewind # "start" /\ open' = open /\ rewind' = "over"
    BY <2>1 DEF TipCheckFails, FetchTipFails, ReportError
  <2>3. pipe' \in Seq(Message) /\ Len(pipe') <= PipeCapacity
    <3>1. CASE Send(ErrorMessage)
      BY <1>1, <3>1, MessageTypes, SendTypes
    <3>2. CASE UNCHANGED pipe
      BY <1>1, <3>2 DEF CollectorInv
    <3> QED
      BY <2>1, <3>1, <3>2
  <2>4. overlapped' \in BOOLEAN
    BY <1>1, <2>1 DEF CollectorInv
  <2>5. CollectorInv'
    BY <1>1, <2>1, <2>2, <2>3, <2>4, SendsInv
  <2> QED
    BY <1>1, <2>1, <2>5, Still, FailsInv DEF IInv, NodeInv
<1> QED
    BY <1>2, <1>3, <1>4, <1>5

\* The steps of the rewind that send nothing.
LEMMA SilentInv == ASSUME IInv, RewindGoesOn PROVE IInv'
<1>1. /\ NodeInv /\ RewindInv /\ CollectorInv /\ RewindSilently
      /\ UNCHANGED chainVars /\ UNCHANGED latestVars
    BY DEF IInv, RewindGoesOn
<1>2. RewindInv'
  <2>1. CASE DecideChecks
    BY <1>1, <2>1, DecideChecksInv
  <2>2. CASE Rewound
    BY <1>1, <2>2, RewoundInv
  <2>3. CASE TipStands
    BY <1>1, <2>3, TipStandsInv
  <2>4. CASE FetchTip
    BY <1>1, <2>4, FetchTipInv
  <2>5. CASE Rescanned
    BY <1>1, <2>5, RescannedInv
  <2>6. CASE RewindFindsClosed
    BY <1>1, <2>6, FindsClosedInv
  <2>7. CASE Checking
    BY <1>1, <2>7, CheckingInv
  <2> QED
    BY <1>1, <2>1, <2>2, <2>3, <2>4, <2>5, <2>6, <2>7 DEF RewindSilently
<1>3. rewind # "start" /\ rewind' # "start" /\ open' = open
  <2>1. CASE Checking
    <3>1. step # "idle"
      BY <2>1 DEF Checking, CheckStep, DetectCanonical, DetectReorg, Discard, FindAncestor, Confirm,
                  FallBack, CheckFails
    <3> QED
      BY <1>1, <2>1, <3>1 DEF Checking, rewindVars, listenerVars, RewindInv, TipInMemory
  <2>2. CASE ~Checking
    <3>1. rewind # "start" /\ rewind' # "start" /\ UNCHANGED listenerVars
      BY <1>1, <2>2 DEF RewindSilently, DecideChecks, Rewound, TipStands, FetchTip, Rescanned,
                        RewindFindsClosed, RewindInv, TipInMemory
    <3> QED
      BY <3>1 DEF listenerVars
  <2> QED
    BY <2>1, <2>2
<1>4. CollectorInv'
  <2>1. UNCHANGED <<logs, overlapped, pipe>> /\ UNCHANGED collectorVars
    BY <1>1 DEF latestVars
  <2>2. overlapped' \in BOOLEAN /\ pipe' \in Seq(Message) /\ Len(pipe') <= PipeCapacity
    BY <1>1, <2>1 DEF CollectorInv
  <2> QED
    BY <1>1, <1>3, <2>1, <2>2, SendsInv
<1> QED
    BY <1>1, <1>2, <1>4, Still DEF IInv, NodeInv

\* The collector.
LEMMA CollectingInv == ASSUME IInv, Collecting PROVE IInv'
<1>1. NodeInv /\ RewindInv
    BY DEF IInv
<1>2. CollectorInv'
    BY CollectLogsInv, DiscardOnReorgInv, CollectorMovesInv DEF Collecting
<1>3. NodeInv' /\ RewindInv'
  <2>1. CASE StreamDropped
    <3>1. /\ UNCHANGED chainVars /\ UNCHANGED handlerVars /\ UNCHANGED rewindVars /\ DropReceiver
      BY <2>1 DEF StreamDropped
    <3> QED
      BY <1>1, <3>1, Still, DropsInv DEF NodeInv
  <2>2. CASE ~StreamDropped
    <3>1. Outside
      BY <2>2 DEF Collecting, CollectLogs, SkipBatch, DiscardOnReorg, PassError, StreamEnds, SendCollected
    <3>2. /\ UNCHANGED chainVars /\ UNCHANGED handlerVars /\ UNCHANGED rewindVars
          /\ UNCHANGED listenerVars
      BY <3>1 DEF Outside
    <3> QED
      BY <1>1, <3>2, OutsideInv
  <2> QED
    BY <2>1, <2>2
<1> QED
    BY <1>2, <1>3 DEF IInv

\* The invariant is inductive.
LEMMA NextInv == IInv /\ [Next]_vars => IInv'
<1> SUFFICES ASSUME IInv, [Next]_vars PROVE IInv'
    OBVIOUS
<1>1. CASE UNCHANGED vars
  <2>1. /\ UNCHANGED chainVars /\ UNCHANGED handlerVars /\ UNCHANGED rewindVars
        /\ UNCHANGED listenerVars /\ UNCHANGED latestVars
    BY <1>1 DEF vars
  <2>2. /\ UNCHANGED <<logs, pipe, collected, ancestor, collector, warned, overlapped>>
        /\ Height' = Height /\ rewind' = rewind /\ open' = open
    BY <2>1 DEF latestVars, collectorVars, chainVars, Height, rewindVars, listenerVars
  <2>3. CollectorInv'
    BY <2>2 DEF IInv, CollectorInv, IsCollection, Unstarted
  <2> QED
    BY <2>1, <2>3, OutsideInv DEF IInv
<1>2. CASE Environment
    BY <1>2, EnvironmentInv
<1>3. CASE Rewinding
    BY <1>3, StartInv, StartFailsInv, SendingInv, SilentInv DEF Rewinding
<1>4. CASE Collecting
    BY <1>4, CollectingInv
<1> QED
    BY <1>1, <1>2, <1>3, <1>4 DEF Next

\* The invariant of the latest mode.
THEOREM LatestInvariant == Spec => []IInv
<1>1. Init => IInv
    BY InitInv
<1>2. IInv /\ [Next]_vars => IInv'
    BY NextInv
<1> QED
    BY <1>1, <1>2, PTL DEF Spec

\* Every variable has its type: a collection never holds more than `count` logs,
\* also while a rescan puts newer ones in front (TypeOK,
\* block_range_handler.rs:433-455).
THEOREM LatestTypes == Spec => []TypeOK
<1>1. IInv => TypeOK
    BY WhatIsChecked
<1> QED
    BY <1>1, LatestInvariant, PTL

\* A rewind that ends without an error leaves a consumer that rolls back with
\* the whole range and no hole (RewindCovers, rewind_handler.rs:133-225).
THEOREM LatestRewindCovers == Spec => []RewindCovers
<1>1. IInv => RewindCovers
    BY WhatIsChecked
<1> QED
    BY <1>1, LatestInvariant, PTL

-----------------------------------------------------------------------------
(* The tip vouches for the range. *)

\* As long as the tip is canonical nothing that was streamed is stale: a reorg
\* that replaces any of it replaces the tip.  Once it was rolled back to the
\* finalized block, nothing is that can be replaced.
Vouched ==
    /\ \A n \in stale : n > finalized
    /\ rewind = "tip" => stale = {} /\ \A n \in kept : n <= finalized
    /\ rewind # "tip" /\ Canonical(top) => stale = {}

\* Nothing that has no number is canonical.
LEMMA NoneIsNotCanonical == ChainTypeOK => ~Canonical(NoBlock)
<1> SUFFICES ASSUME ChainTypeOK PROVE NoBlock.number \notin 0 .. Height
    BY DEF Canonical
<1>1. NoBlock.number = -1 /\ Height \in Nat
    BY LenProperties DEF NoBlock, ChainTypeOK, Height
<1> QED
    BY <1>1

\* A reorg that replaces what is held replaces the tip, and no block becomes final
\* under an orphan.
LEMMA EnvironmentVouched ==
    ASSUME FinalityWaits, IInv, Vouched, Environment
    PROVE  Vouched'
<1>1. /\ NodeInv /\ RewindInv /\ top \in OptionalBlock /\ kept \in SUBSET (0 .. MaxHeight)
      /\ stale \in SUBSET kept /\ Known(top) /\ (\A n \in kept : n <= top.number)
    BY DEF IInv, RewindInv, RewindTypeOK, ListenerTypeOK, TopInv
<1>2. \A n \in kept : n \in Nat
    BY <1>1, BlockNumbers
<1>3. finalized \in Nat
    BY <1>1, LenProperties DEF NodeInv, ChainTypeOK, Height
<1>4. PICK t : t = top
    OBVIOUS
<1>5. Canonical(top) => t \in Block /\ Known(t)
    BY <1>1, <1>4, NoneIsNotCanonical DEF NodeInv, OptionalBlock
<1>6. ASSUME top' = top, ChainTypeOK', Canonical(top)'
      PROVE  t \in Block /\ Known(t) /\ Canonical(t)'
  <2>1. Canonical(t)'
    BY <1>4, <1>6 DEF Canonical, BlockAt, Height
  <2>2. t # NoBlock
    <3>1. ASSUME t = NoBlock PROVE FALSE
      <4>1. t.number = -1 /\ Height' \in Nat
        BY <1>6, <3>1, LenProperties DEF NoBlock, ChainTypeOK, Height
      <4> QED
        BY <2>1, <4>1 DEF Canonical
    <3> QED
      BY <3>1
  <2> QED
    BY <1>1, <1>4, <2>1, <2>2, BlockNumbers
<1>7. CASE NodeMines
  <2>1. /\ Mine /\ UNCHANGED <<kept, stale>> /\ rewind' = rewind /\ top' = top
    BY <1>7 DEF NodeMines, listenerVars, rewindVars
  <2>2. /\ ChainTypeOK' /\ finalized' = finalized
        /\ \A b \in Block : Known(b) => (Canonical(b)' <=> Canonical(b))
    BY <1>1, <2>1, MineTypes, MineBlocks DEF NodeInv
  <2>3. Canonical(top)' => Canonical(top)
    BY <1>4, <1>6, <2>1, <2>2
  <2> QED
    BY <2>1, <2>2, <2>3 DEF Vouched
<1>8. ASSUME NEW fork \in 0 .. MaxHeight, NEW tip \in 0 .. MaxHeight, NodeReorgs(fork, tip)
      PROVE  Vouched'
  <2>1. /\ Reorg(fork, tip) /\ stale' = stale \cup {n \in kept : n > fork}
        /\ rewind' = rewind /\ top' = top /\ kept' = kept
    BY <1>8 DEF NodeReorgs, Orphan, rewindVars
  <2>2. /\ ChainTypeOK' /\ finalized' = finalized /\ finalized <= fork
        /\ \A b \in Block : Known(b) =>
                (Canonical(b)' <=> (Canonical(b) /\ b.number <= fork))
    BY <1>1, <2>1, ReorgTypes, ReorgBlocks DEF NodeInv
  <2>3. fork \in Nat
    BY Numbers
  <2>4. \A n \in stale' : n > finalized
    BY <1>1, <1>2, <1>3, <2>1, <2>2, <2>3 DEF Vouched
  <2>5. rewind = "tip" => stale' = {} /\ \A n \in kept : n <= finalized
    <3> SUFFICES ASSUME rewind = "tip" PROVE stale' = {} /\ \A n \in kept : n <= finalized
        OBVIOUS
    <3>1. stale = {} /\ \A n \in kept : n <= finalized
      BY DEF Vouched
    <3>2. \A n \in kept : ~(n > fork)
      BY <1>2, <1>3, <2>2, <2>3, <3>1
    <3> QED
      BY <2>1, <3>1, <3>2
  <2>6. rewind # "tip" /\ Canonical(top)' => stale' = {}
    <3> SUFFICES ASSUME rewind # "tip", Canonical(top)' PROVE stale' = {}
        OBVIOUS
    <3>1. t \in Block /\ Canonical(t) /\ t.number <= fork
      BY <1>6, <2>1, <2>2
    <3>2. stale = {} /\ t.number \in Nat
      BY <1>4, <3>1, BlockNumbers DEF Vouched
    <3>3. \A n \in kept : ~(n > fork)
      BY <1>1, <1>2, <1>4, <2>3, <3>1, <3>2
    <3> QED
      BY <2>1, <3>2, <3>3
  <2> QED
    BY <2>1, <2>2, <2>4, <2>5, <2>6 DEF Vouched
<1>9. ASSUME NEW n \in 1 .. MaxHeight, NodeFinalizes(n)
      PROVE  Vouched'
  <2>1. /\ Finalize(n) /\ UNCHANGED <<kept, stale>> /\ rewind' = rewind /\ top' = top
        /\ \A orphan \in stale : n < orphan
    BY <1>9 DEF NodeFinalizes, Unsettled, listenerVars, rewindVars
  <2>2. /\ ChainTypeOK' /\ finalized' = n
        /\ \A b : (Canonical(b)' <=> Canonical(b))
    BY <1>1, <2>1, FinalizeTypes, FinalizeBlocks DEF NodeInv
  <2>3. Canonical(top)' => Canonical(top)
    BY <1>4, <1>6, <2>1, <2>2
  <2>4. n \in Nat /\ finalized < n
    BY <1>3, <2>1, Numbers, LenProperties DEF Finalize, NodeInv, ChainTypeOK, Height
  <2>5. \A m \in stale : m > n
    BY <1>1, <1>2, <2>1, <2>4
  <2>6. (\A m \in kept : m <= finalized) => \A m \in kept : m <= n
    BY <1>2, <1>3, <2>4
  <2> QED
    BY <2>1, <2>2, <2>3, <2>5, <2>6 DEF Vouched
<1> QED
    BY <1>7, <1>8, <1>9 DEF Environment

\* A batch does not go stale while the tip stands.
LEMMA DeliveryVouched ==
    ASSUME IInv, Vouched, UNCHANGED chainVars, UNCHANGED top, rewind # "tip", rewind' # "tip",
           NEW lo \in 0 .. MaxHeight, NEW hi \in 0 .. MaxHeight, hi <= top.number, top \in Block,
           stale' = (stale \ (lo .. hi)) \cup {n \in lo .. hi : n > Height}
    PROVE  Vouched'
<1>1. finalized' = finalized /\ Height' = Height /\ (Canonical(top)' <=> Canonical(top))
    BY TopStill, Still
<1>2. finalized \in Nat /\ Height \in Nat /\ finalized <= Height
    BY LenProperties DEF IInv, NodeInv, ChainTypeOK, Height
<1>3. lo \in Nat /\ hi \in Nat /\ top.number \in Nat
    BY BlockNumbers
<1>4. \A n \in stale' : n > finalized
  <2>1. \A n \in lo .. hi : n > Height => n > finalized
    BY <1>2, <1>3
  <2> QED
    BY <2>1 DEF Vouched
<1>5. Canonical(top) => stale' = {}
  <2> SUFFICES ASSUME Canonical(top) PROVE stale' = {}
      OBVIOUS
  <2>1. stale = {} /\ top.number <= Height
    BY CanonicalIs DEF Vouched
  <2>2. \A n \in lo .. hi : ~(n > Height)
    BY <1>2, <1>3, <2>1
  <2> QED
    BY <2>1, <2>2
<1> QED
    BY <1>1, <1>4, <1>5 DEF Vouched

\* Nothing is streamed, and the tip is the same.
LEMMA QuietVouched ==
    ASSUME Vouched, UNCHANGED chainVars, UNCHANGED <<top, kept, stale>>,
           rewind # "tip" => rewind' # "tip"
    PROVE  Vouched'
<1>1. finalized' = finalized /\ (Canonical(top)' <=> Canonical(top))
    BY TopStill, Still
<1> QED
    BY <1>1 DEF Vouched

\* The rewind: after a reorg only what is final is held, and the tip is fetched anew.
LEMMA RewindingVouched ==
    ASSUME IInv, Vouched, Rewinding
    PROVE  Vouched'
<1>0. /\ NodeInv /\ RewindInv /\ UNCHANGED chainVars
  <2>1. UNCHANGED chainVars
    BY DEF Rewinding, StartLatest, StartFails, Descend, AnnounceReorg, Rescan, RewindGivesUp, RewindGoesOn
  <2> QED
    BY <2>1 DEF IInv
<1>1. ASSUME NEW a \in 0 .. MaxHeight, NEW b \in 0 .. MaxHeight, StartLatest(a, b)
      PROVE  Vouched'
  <2>1. rewind = "start" /\ rewind' = "finality" /\ UNCHANGED listenerVars
    BY <1>1 DEF StartLatest, StreamRewind
  <2>2. stale = {} /\ stale' = {}
    BY <1>0, <2>1 DEF listenerVars, RewindInv, TopInv, ListenerTypeOK
  <2> QED
    BY <2>1, <2>2 DEF Vouched
<1>2. CASE StartFails
    BY <1>0, <1>2, QuietVouched DEF StartFails, RewindFails, ReportError
<1>3. CASE Descend
  <2> DEFINE b == ReverseBatch(down)
  <2>1. /\ rewind = "next" /\ HasNext(down) /\ rewind' # "tip" /\ top' = top
        /\ stale' = (stale \ (b.lo .. b.hi)) \cup {n \in b.lo .. b.hi : n > Height}
    BY <1>3 DEF Descend, SendBatch, Deliver, Blocks
  <2>2. b.lo \in 0 .. MaxHeight /\ b.hi \in 0 .. MaxHeight /\ b.hi <= top.number
    BY <1>0, <2>1, DescentBatch
  <2>3. top \in Block
    BY <1>0, <2>1 DEF RewindInv, TopInv
  <2> HIDE DEF b
  <2> QED
    BY <1>0, <2>1, <2>2, <2>3, DeliveryVouched
<1>4. CASE AnnounceReorg
  <2> DEFINE a == verdict.number
  <2>1. /\ rewind' = "tip" /\ verdict # NoBlock
        /\ kept' = {n \in kept : n <= a} /\ stale' = {n \in stale : n <= a}
    BY <1>4 DEF AnnounceReorg, TipReorged, Rollback
  <2>2. a <= finalized /\ a \in Nat /\ finalized \in Nat /\ finalized' = finalized
    <3>1. verdict \in Block /\ a <= finalized
      BY <1>0, <2>1, BlockNumbers DEF RewindInv, TipInMemory, HandlerTypeOK
    <3>2. finalized \in Nat
      BY <1>0, LenProperties DEF NodeInv, ChainTypeOK, Height
    <3> QED
      BY <1>0, <3>1, <3>2, BlockNumbers DEF chainVars
  <2>3. \A n \in kept : n \in Nat
    BY <1>0, BlockNumbers DEF RewindInv, ListenerTypeOK
  <2>4. stale \in SUBSET kept
    BY <1>0 DEF RewindInv, ListenerTypeOK
  <2>5. \A n \in stale : ~(n <= a)
    BY <2>2, <2>3, <2>4 DEF Vouched
  <2>6. \A n \in kept : n <= a => n <= finalized
    BY <2>2, <2>3
  <2>7. stale' = {} /\ \A n \in kept' : n <= finalized'
    BY <2>1, <2>2, <2>5, <2>6
  <2> QED
    BY <2>1, <2>7 DEF Vouched
<1>5. CASE Rescan
  <2> DEFINE b == ForwardBatch(up)
  <2>1. /\ rewind = "rescan" /\ HasNext(up) /\ rewind' # "tip" /\ top' = top
        /\ stale' = (stale \ (b.lo .. b.hi)) \cup {n \in b.lo .. b.hi : n > Height}
    BY <1>5 DEF Rescan, SendRescanBatch, Deliver, Blocks
  <2>2. b.lo \in 0 .. MaxHeight /\ b.hi \in 0 .. MaxHeight /\ b.hi <= top.number
    <3>1. b.lo \in 1 .. MaxHeight /\ b.hi \in 0 .. MaxHeight /\ b.hi <= top.number
      BY <1>0, <2>1, RescanBatch
    <3> HIDE DEF b
    <3> QED
      BY <3>1, Numbers
  <2>3. top \in Block
    BY <1>0, <2>1 DEF RewindInv, TopInv
  <2> HIDE DEF b
  <2> QED
    BY <1>0, <2>1, <2>2, <2>3, DeliveryVouched
<1>6. CASE RewindGivesUp
    BY <1>0, <1>6, QuietVouched DEF RewindGivesUp, TipCheckFails, FetchTipFails, ReportError
<1>7. CASE RewindGoesOn
  <2>1. RewindSilently
    BY <1>7 DEF RewindGoesOn
  <2>2. CASE FetchTip
    <3>1. /\ rewind = "tip" /\ rewind' = "rescan" /\ UNCHANGED <<kept, stale>>
      BY <2>2 DEF FetchTip, listenerVars
    <3>2. stale' = {}
      BY <3>1 DEF Vouched
    <3> QED
      BY <3>1, <3>2 DEF Vouched
  <2>3. CASE ~FetchTip
    <3>1. UNCHANGED <<top, kept, stale>> /\ (rewind # "tip" => rewind' # "tip")
      BY <2>1, <2>3 DEF RewindSilently, DecideChecks, Rewound, TipStands, Rescanned,
                        RewindFindsClosed, Checking, rewindVars, listenerVars
    <3> QED
      BY <1>0, <3>1, QuietVouched
  <2> QED
    BY <2>2, <2>3
<1> QED
    BY <1>1, <1>2, <1>3, <1>4, <1>5, <1>6, <1>7 DEF Rewinding

\* Vouched is inductive, given IInv.
LEMMA NextVouched ==
    ASSUME FinalityWaits, IInv, Vouched, [Next]_vars
    PROVE  Vouched'
<1>1. CASE Environment
    BY <1>1, EnvironmentVouched
<1>2. CASE Rewinding
    BY <1>2, RewindingVouched
<1>3. CASE Collecting \/ UNCHANGED vars
  <2>1. UNCHANGED chainVars /\ UNCHANGED <<top, kept, stale, rewind>>
    BY <1>3 DEF Collecting, CollectLogs, SkipBatch, DiscardOnReorg, PassError, StreamEnds, SendCollected,
                StreamDropped, DropReceiver, Outside, vars, listenerVars, rewindVars
  <2> QED
    BY <2>1, QuietVouched
<1> QED
    BY <1>1, <1>2, <1>3 DEF Next

\* Nothing is held.
LEMMA InitVouched == ASSUME Init PROVE Vouched
BY DEF Init, RewindInit, ListenerInit, Vouched

\* So it always holds.
LEMMA AlwaysVouched == ASSUME FinalityWaits PROVE Spec => []Vouched
<1>1. Init => Vouched
    BY InitVouched
<1>2. IInv /\ Vouched /\ [Next]_vars => Vouched'
    BY NextVouched
<1> QED
    BY <1>1, <1>2, LatestInvariant, PTL DEF Spec

\* When the check finds the tip canonical, no block that was streamed before is
\* stale (TipVouchesForAll, rewind_handler.rs:140-147, 183-203).
THEOREM LatestTipVouchesForAll == ASSUME FinalityWaits PROVE Spec => TipVouchesForAll
<1>1. ASSUME IInv, Vouched, [Next]_vars, step = "detect", step' = "done"
      PROVE  stale = {}
  <2>1. Canonical(checked)
    <3>1. CheckStep
      BY <1>1 DEF Next, Environment, NodeMines, NodeReorgs, NodeFinalizes, Rewinding, StartLatest,
                  StartFails, Descend, AnnounceReorg, Rescan, RewindGivesUp, RewindGoesOn, Collecting,
                  StreamDropped, CollectLogs, SkipBatch, DiscardOnReorg, PassError, StreamEnds,
                  SendCollected, Outside, vars, handlerVars, StreamRewind, RewindFails, SendBatch, Check,
                  TipReorged, Answered, SendRescanBatch, TipCheckFails, FetchTipFails, RewindSilently,
                  DecideChecks, Rewound, TipStands, FetchTip, Rescanned, RewindFindsClosed, Checking
    <3> QED
      BY <1>1, <3>1 DEF CheckStep, DetectCanonical, DetectReorg, Discard, FindAncestor, Confirm,
                        FallBack, CheckFails
  <2>2. checked = top /\ rewind = "check"
    BY <1>1 DEF IInv, RewindInv, TipInMemory
  <2>3. Canonical(top)
    <3>1. PICK t : t = top
      OBVIOUS
    <3> QED
      BY <2>1, <2>2 DEF Canonical
  <2> QED
    BY <1>1, <2>2, <2>3 DEF Vouched
<1>2. IInv /\ Vouched /\ [Next]_vars => [step = "detect" /\ step' = "done" => stale = {}]_vars
    BY <1>1
<1> QED
    BY <1>2, LatestInvariant, AlwaysVouched, PTL DEF Spec, TipVouchesForAll

-----------------------------------------------------------------------------
(* What the collection becomes. *)

\* The collection of the numbers in C.
CollectionOf(C) == FirstOf(NewestFirst(C), Count)

\* A set of block numbers, newest first.
LEMMA NumbersList ==
    ASSUME NEW C \in SUBSET (0 .. MaxHeight)
    PROVE  /\ C \subseteq Int /\ IsFiniteSet(C) /\ Lists(NewestFirst(C), C)
           /\ NewestFirst(C) \in Seq(Int) /\ Len(NewestFirst(C)) \in Nat
           /\ CollectionOf(C) \in Seq(Int)
           /\ Len(CollectionOf(C)) = (IF Count <= Len(NewestFirst(C)) THEN Count ELSE Len(NewestFirst(C)))
           /\ \A i \in 1 .. Len(CollectionOf(C)) : CollectionOf(C)[i] = NewestFirst(C)[i]
           /\ Len(CollectionOf(C)) < Count => CollectionOf(C) = NewestFirst(C)
<1>1. C \subseteq Int
    BY Numbers
<1>2. IsFiniteSet(C)
  <2>1. IsFiniteSet(0 .. MaxHeight)
    BY Numbers, FS_Interval
  <2> QED
    BY <2>1, FS_Subset
<1>3. Lists(NewestFirst(C), C)
    BY <1>1, <1>2, NewestFirstLists
<1> DEFINE s == NewestFirst(C)
           f == CollectionOf(C)
<1>4. s \in Seq(Int) /\ Len(s) \in Nat
    BY <1>3, LenProperties DEF Lists
<1>5. /\ f \in Seq(Int) /\ Len(f) = (IF Count <= Len(s) THEN Count ELSE Len(s))
      /\ \A i \in 1 .. Len(f) : f[i] = s[i]
      /\ Len(s) <= Count => f = s
  <2> HIDE DEF s
  <2> QED
    BY <1>4, CountAssumption, FirstOfIs DEF CollectionOf, s
<1> HIDE DEF s, f
<1>6. Len(f) < Count => f = s
    BY <1>4, <1>5, CountAssumption
<1>7. f \in Seq(Int) /\ Len(f) = (IF Count <= Len(s) THEN Count ELSE Len(s))
    BY <1>5
<1>8. \A i \in 1 .. Len(f) : f[i] = s[i]
    BY <1>5
<1> QED
    BY <1>1, <1>2, <1>3, <1>4, <1>6, <1>7, <1>8 DEF s, f

\* Beyond the first n it does not matter what follows.
LEMMA FirstOfConcat ==
    ASSUME NEW t \in Seq(Int), NEW s \in Seq(Int), NEW n \in Nat
    PROVE  FirstOf(t \o FirstOf(s, n), n) = FirstOf(t \o s, n)
<1> DEFINE r == FirstOf(s, n)
           v == t \o r
           w == t \o s
           f == FirstOf(v, n)
           g == FirstOf(w, n)
<1>1. Len(t) \in Nat /\ Len(s) \in Nat
    BY LenProperties
<1>2. /\ r \in Seq(Int) /\ Len(r) = (IF n <= Len(s) THEN n ELSE Len(s))
      /\ \A i \in 1 .. Len(r) : r[i] = s[i]
    BY FirstOfIs
<1> HIDE DEF r
<1>3. /\ v \in Seq(Int) /\ Len(v) = Len(t) + Len(r)
      /\ \A i \in 1 .. Len(t) + Len(r) : v[i] = IF i <= Len(t) THEN t[i] ELSE r[i - Len(t)]
    BY <1>2, ConcatProperties
<1>4. /\ w \in Seq(Int) /\ Len(w) = Len(t) + Len(s)
      /\ \A i \in 1 .. Len(t) + Len(s) : w[i] = IF i <= Len(t) THEN t[i] ELSE s[i - Len(t)]
    BY ConcatProperties
<1> HIDE DEF v, w
<1>5. /\ f \in Seq(Int) /\ Len(f) = (IF n <= Len(v) THEN n ELSE Len(v))
      /\ \A i \in 1 .. Len(f) : f[i] = v[i]
    BY <1>3, FirstOfIs
<1>6. /\ g \in Seq(Int) /\ Len(g) = (IF n <= Len(w) THEN n ELSE Len(w))
      /\ \A i \in 1 .. Len(g) : g[i] = w[i]
    BY <1>4, FirstOfIs
<1> HIDE DEF f, g
<1>7. Len(f) = Len(g) /\ Len(f) \in Nat /\ Len(f) <= Len(t) + Len(r) /\ Len(f) <= Len(t) + Len(s)
  <2>1. /\ Len(r) = (IF n <= Len(s) THEN n ELSE Len(s))
        /\ Len(f) = (IF n <= Len(t) + Len(r) THEN n ELSE Len(t) + Len(r))
        /\ Len(g) = (IF n <= Len(t) + Len(s) THEN n ELSE Len(t) + Len(s))
    BY <1>2, <1>3, <1>4, <1>5, <1>6
  <2>2. CASE n <= Len(s)
    <3>1. Len(r) = n
      BY <2>1, <2>2
    <3>2. n <= Len(t) + Len(r) /\ n <= Len(t) + Len(s)
      BY <1>1, <2>2, <3>1
    <3>3. Len(f) = n /\ Len(g) = n
      BY <2>1, <3>2
    <3> QED
      BY <3>2, <3>3
  <2>3. CASE ~(n <= Len(s))
    <3>1. Len(r) = Len(s)
      BY <2>1, <2>3
    <3>2. Len(f) = Len(g) /\ Len(f) = (IF n <= Len(t) + Len(s) THEN n ELSE Len(t) + Len(s))
      BY <2>1, <3>1
    <3>3. Len(f) \in Nat /\ Len(f) <= Len(t) + Len(s)
      BY <1>1, <3>2
    <3> QED
      BY <3>1, <3>2, <3>3
  <2> QED
    BY <2>2, <2>3
<1>8. ASSUME NEW i \in 1 .. Len(f) PROVE f[i] = g[i]
  <2>1. i \in 1 .. Len(t) + Len(r) /\ i \in 1 .. Len(t) + Len(s)
    BY <1>1, <1>2, <1>7
  <2>2. f[i] = v[i] /\ g[i] = w[i]
    BY <1>5, <1>6, <1>7
  <2>3. CASE i <= Len(t)
    BY <1>3, <1>4, <2>1, <2>2, <2>3
  <2>4. CASE ~(i <= Len(t))
    <3>1. i - Len(t) \in 1 .. Len(r)
      BY <1>1, <1>2, <2>1, <2>4
    <3> QED
      BY <1>2, <1>3, <1>4, <2>1, <2>2, <2>4, <3>1
  <2> QED
    BY <2>3, <2>4
<1>9. f = g
    BY <1>5, <1>6, <1>7, <1>8, SeqEqual
<1> QED
    BY <1>9 DEF f, g, v, w, r

\* Newer logs in front of a collection.
LEMMA PrependCollects ==
    ASSUME NEW C \in SUBSET (0 .. MaxHeight), NEW A \in SUBSET (0 .. MaxHeight),
           \A c \in C, a \in A : c < a
    PROVE  Prepend(CollectionOf(C), NewestFirst(A)) = CollectionOf(C \cup A)
<1> DEFINE s == NewestFirst(C)
           t == NewestFirst(A)
           f == CollectionOf(C)
<1>1. /\ s \in Seq(Int) /\ Lists(s, C) /\ f \in Seq(Int) /\ f = FirstOf(s, Count)
    BY NumbersList DEF CollectionOf
<1>2. t \in Seq(Int) /\ Lists(t, A)
    BY NumbersList
<1> HIDE DEF s, t, f
<1>3. Prepend(f, t) = FirstOf(t \o f, Count)
    BY <1>1, <1>2, PrependIs
<1>4. FirstOf(t \o f, Count) = FirstOf(t \o s, Count)
    BY <1>1, <1>2, CountAssumption, FirstOfConcat
<1>5. Lists(t \o s, A \cup C)
    BY <1>1, <1>2, ConcatLists
<1>6. NewestFirst(A \cup C) = t \o s
    BY <1>5, ListIsNewestFirst
<1>7. A \cup C = C \cup A
    OBVIOUS
<1> QED
    BY <1>3, <1>4, <1>6, <1>7 DEF CollectionOf, s, t, f

\* Older logs behind one that is not complete.
LEMMA ExtendCollects ==
    ASSUME NEW C \in SUBSET (0 .. MaxHeight), NEW A \in SUBSET (0 .. MaxHeight),
           \A c \in C, a \in A : a < c, Len(CollectionOf(C)) < Count
    PROVE  Extend(CollectionOf(C), NewestFirst(A)) = CollectionOf(C \cup A)
<1> DEFINE s == NewestFirst(C)
           t == NewestFirst(A)
<1>1. /\ s \in Seq(Int) /\ Lists(s, C) /\ CollectionOf(C) = s /\ Len(s) < Count /\ Len(s) \in Nat
    BY NumbersList
<1>2. t \in Seq(Int) /\ Lists(t, A)
    BY NumbersList
<1> HIDE DEF s, t
<1>3. Len(s) <= Count
    BY <1>1, CountAssumption
<1>4. Extend(s, t) = FirstOf(s \o t, Count)
    BY <1>1, <1>2, <1>3, ExtendIs
<1>5. Lists(s \o t, C \cup A)
    BY <1>1, <1>2, ConcatLists
<1>6. NewestFirst(C \cup A) = s \o t
    BY <1>5, ListIsNewestFirst
<1>7. Extend(CollectionOf(C), t) = Extend(s, t)
    BY <1>1
<1> QED
    BY <1>4, <1>6, <1>7 DEF CollectionOf, t

\* Without the logs above a common ancestor.
LEMMA DiscardCollects ==
    ASSUME NEW C \in SUBSET (0 .. MaxHeight), NEW a \in 0 .. MaxHeight,
           Len(CollectionOf(C)) < Count
    PROVE  /\ DiscardOrphaned(CollectionOf(C), a) = CollectionOf({n \in C : n <= a})
           /\ Len(CollectionOf({n \in C : n <= a})) < Count
<1> DEFINE s == NewestFirst(C)
           D == {n \in C : n <= a}
           d == DiscardOrphaned(s, a)
<1>1. /\ s \in Seq(Int) /\ Lists(s, C) /\ CollectionOf(C) = s /\ Len(s) < Count /\ Len(s) \in Nat
    BY NumbersList
<1>2. a \in Int /\ D \in SUBSET (0 .. MaxHeight)
  <2>1. a \in Int
    BY Numbers
  <2>2. D \in SUBSET (0 .. MaxHeight)
    OBVIOUS
  <2> QED
    BY <2>1, <2>2
<1> HIDE DEF s
<1>3. d \in Seq(Int) /\ Len(d) <= Len(s) /\ Lists(d, D)
    BY <1>1, <1>2, DiscardIs
<1> HIDE DEF d, D
<1>4. NewestFirst(D) = d
    BY <1>3, ListIsNewestFirst
<1>5. Len(d) \in Nat /\ Len(d) < Count /\ Len(d) <= Count
    BY <1>1, <1>3, LenProperties, CountAssumption
<1>6. CollectionOf(D) = d
  <2>1. FirstOf(d, Count) = d
    BY <1>3, <1>5, CountAssumption, FirstOfIs
  <2> QED
    BY <1>4, <2>1 DEF CollectionOf
<1>7. DiscardOrphaned(CollectionOf(C), a) = d
    BY <1>1 DEF d
<1> QED
    BY <1>5, <1>6, <1>7 DEF D

-----------------------------------------------------------------------------
(* What a consumer holds who has read the pipe up to a message. *)

\* The blocks, the common ancestor of the last reorg (the highest number before
\* the first one), and whether nothing but a rescan came after it.
View == [blocks : SUBSET (0 .. MaxHeight), common : 0 .. MaxHeight, rescan : BOOLEAN]

\* From one message to the next one.  A batch of a rescan is above all blocks
\* and above the common ancestor, one of the descent is below all and not above
\* the common ancestor.
Follows(v, m, w) ==
    \/ /\ m.kind = "blocks"
       /\ w.blocks = v.blocks \cup (m.lo .. m.hi) /\ w.common = v.common
       /\ \/ /\ v.rescan /\ w.rescan
             /\ v.common < m.lo /\ \A n \in v.blocks : n < m.lo
          \/ /\ ~w.rescan
             /\ m.hi <= v.common /\ \A n \in v.blocks : m.hi < n
    \/ /\ m.kind = "reorg"
       /\ w.blocks = {n \in v.blocks : n <= m.lo} /\ w.common = m.lo /\ w.rescan
    \/ m.kind = "error" /\ w = v

\* No reorg that is on its way takes block n, from the i-th message on.
Survives(p, i, n) == \A j \in i .. Len(p) : p[j].kind = "reorg" => n <= p[j].lo

\* The views before each message and after the last one: then the consumer
\* holds K, and already holds what no reorg will take.
Chained(view, p, K) ==
    /\ \A i \in 1 .. Len(p) : Follows(view[i], p[i], view[i + 1])
    /\ view[Len(p) + 1].blocks = K
    /\ \A i \in 1 .. Len(p) + 1 : \A n \in view[i].blocks : Survives(p, i, n) => n \in K

\* The message leaves of K what is in L.
Leaves(m, K, L) == \A n \in K : (m.kind = "reorg" => n <= m.lo) => n \in L

\* One more message.
LEMMA SurvivesAppend ==
    ASSUME NEW p \in Seq(Message), NEW m \in Message, NEW n, NEW i \in 1 .. Len(p) + 1
    PROVE  Survives(Append(p, m), i, n) <=>
                Survives(p, i, n) /\ (m.kind = "reorg" => n <= m.lo)
<1> DEFINE q == Append(p, m)
<1>1. /\ Len(q) = Len(p) + 1 /\ Len(p) \in Nat /\ q[Len(p) + 1] = m
      /\ \A j \in 1 .. Len(p) : q[j] = p[j]
    BY AppendProperties, LenProperties
<1> HIDE DEF q
<1>2. \A j : j \in i .. Len(q) <=> j \in i .. Len(p) \/ j = Len(p) + 1
    BY <1>1
<1>3. \A j \in i .. Len(p) : j \in 1 .. Len(p)
    BY <1>1
<1>4. Survives(q, i, n) <=> Survives(p, i, n) /\ (m.kind = "reorg" => n <= m.lo)
    BY <1>1, <1>2, <1>3 DEF Survives
<1> QED
    BY <1>4 DEF q

\* The views before it stay, and there is one after it.
LEMMA ChainAppend ==
    ASSUME NEW p \in Seq(Message), NEW view \in [1 .. Len(p) + 1 -> View],
           NEW K, Chained(view, p, K),
           NEW m \in Message, NEW w \in View,
           Follows(view[Len(p) + 1], m, w), Leaves(m, K, w.blocks)
    PROVE  \E more :
                /\ more \in [1 .. Len(Append(p, m)) + 1 -> View]
                /\ Chained(more, Append(p, m), w.blocks)
                /\ more[1] = view[1] /\ more[Len(Append(p, m)) + 1] = w
<1> DEFINE q == Append(p, m)
           more == [i \in 1 .. Len(q) + 1 |-> IF i <= Len(p) + 1 THEN view[i] ELSE w]
<1>1. /\ Len(q) = Len(p) + 1 /\ Len(p) \in Nat /\ q[Len(p) + 1] = m
      /\ \A j \in 1 .. Len(p) : q[j] = p[j]
    BY AppendProperties, LenProperties
<1> HIDE DEF q
<1>2. /\ \A i \in 1 .. Len(p) + 1 : more[i] = view[i]
      /\ more[Len(p) + 2] = w
    BY <1>1
<1>3. more \in [1 .. Len(q) + 1 -> View]
  <2>1. ASSUME NEW i \in 1 .. Len(q) + 1 PROVE (IF i <= Len(p) + 1 THEN view[i] ELSE w) \in View
    <3>1. i <= Len(p) + 1 => i \in 1 .. Len(p) + 1
      BY <1>1
    <3> QED
      BY <3>1
  <2> QED
    BY <2>1
<1> HIDE DEF more
<1>4. ASSUME NEW i \in 1 .. Len(q) PROVE Follows(more[i], q[i], more[i + 1])
  <2>1. CASE i \in 1 .. Len(p)
    <3>1. i \in 1 .. Len(p) + 1 /\ i + 1 \in 1 .. Len(p) + 1
      BY <1>1, <2>1
    <3>2. more[i] = view[i] /\ more[i + 1] = view[i + 1] /\ q[i] = p[i]
      BY <1>1, <1>2, <2>1, <3>1
    <3>3. Follows(view[i], p[i], view[i + 1])
      BY <2>1 DEF Chained
    <3> QED
      BY <3>2, <3>3
  <2>2. CASE i = Len(p) + 1
    <3>1. Len(p) + 1 \in 1 .. Len(p) + 1 /\ i + 1 = Len(p) + 2
      BY <1>1, <2>2
    <3>2. more[i] = view[Len(p) + 1] /\ more[i + 1] = w /\ q[i] = m
      BY <1>1, <1>2, <2>2, <3>1
    <3> QED
      BY <3>2
  <2> QED
    BY <1>1, <2>1, <2>2
<1>5. more[Len(q) + 1] = w /\ Len(q) + 1 = Len(p) + 2
    BY <1>1, <1>2
<1>6. ASSUME NEW i \in 1 .. Len(q) + 1, NEW n \in more[i].blocks, Survives(q, i, n)
      PROVE  n \in w.blocks
  <2>1. CASE i \in 1 .. Len(p) + 1
    <3>1. n \in view[i].blocks
      BY <1>2, <1>6, <2>1
    <3>2. Survives(p, i, n) /\ (m.kind = "reorg" => n <= m.lo)
      BY <1>6, <2>1, SurvivesAppend DEF q
    <3>3. n \in K
      BY <2>1, <3>1, <3>2 DEF Chained
    <3> QED
      BY <3>2, <3>3 DEF Leaves
  <2>2. CASE i = Len(p) + 2
    BY <1>2, <1>6, <2>2
  <2> QED
    BY <1>1, <2>1, <2>2
<1>7. Chained(more, q, w.blocks)
    BY <1>4, <1>5, <1>6 DEF Chained
<1>8. more[1] = view[1]
    BY <1>1, <1>2
<1> QED
    BY <1>3, <1>5, <1>7, <1>8 DEF q

\* One message less.
LEMMA SurvivesTail ==
    ASSUME NEW p \in Seq(Message), p # << >>, NEW n
    PROVE  /\ Survives(p, 1, n) <=>
                    Survives(Tail(p), 1, n) /\ (Head(p).kind = "reorg" => n <= Head(p).lo)
           /\ \A i \in 1 .. Len(p) : Survives(Tail(p), i, n) <=> Survives(p, i + 1, n)
<1> DEFINE q == Tail(p)
<1>1. /\ Len(q) = Len(p) - 1 /\ Len(p) \in Nat /\ Len(p) # 0 /\ Head(p) = p[1]
      /\ \A j \in 1 .. Len(q) : q[j] = p[j + 1]
    BY HeadTailProperties, LenProperties, EmptySeq
<1> HIDE DEF q
<1>2. ASSUME NEW i \in 1 .. Len(p) PROVE Survives(q, i, n) <=> Survives(p, i + 1, n)
  <2>1. ASSUME Survives(p, i + 1, n), NEW j \in i .. Len(q), q[j].kind = "reorg"
        PROVE  n <= q[j].lo
    <3>1. j + 1 \in i + 1 .. Len(p) /\ q[j] = p[j + 1]
      BY <1>1
    <3> QED
      BY <2>1, <3>1 DEF Survives
  <2>2. ASSUME Survives(q, i, n), NEW j \in i + 1 .. Len(p), p[j].kind = "reorg"
        PROVE  n <= p[j].lo
    <3>1. j - 1 \in i .. Len(q) /\ j - 1 \in 1 .. Len(q) /\ (j - 1) + 1 = j
      BY <1>1
    <3>2. q[j - 1] = p[j]
      BY <1>1, <3>1
    <3> QED
      BY <2>2, <3>1, <3>2 DEF Survives
  <2> QED
    BY <2>1, <2>2 DEF Survives
<1>3. Survives(p, 1, n) <=> Survives(p, 2, n) /\ (p[1].kind = "reorg" => n <= p[1].lo)
  <2>1. \A j : j \in 1 .. Len(p) <=> j \in 2 .. Len(p) \/ j = 1
    BY <1>1
  <2> QED
    BY <2>1 DEF Survives
<1>4. Survives(q, 1, n) <=> Survives(p, 2, n)
  <2>1. 1 \in 1 .. Len(p) /\ 1 + 1 = 2
    BY <1>1
  <2>2. Survives(q, 1, n) <=> Survives(p, 1 + 1, n)
    BY <1>2, <2>1
  <2> QED
    BY <2>1, <2>2
<1> QED
    BY <1>1, <1>2, <1>3, <1>4 DEF q

\* The first view is dropped with it.
LEMMA ChainTail ==
    ASSUME NEW p \in Seq(Message), p # << >>, NEW view \in [1 .. Len(p) + 1 -> View],
           NEW K, Chained(view, p, K)
    PROVE  \E rest \in [1 .. Len(Tail(p)) + 1 -> View] :
                /\ Chained(rest, Tail(p), K)
                /\ view[1] \in View /\ Follows(view[1], Head(p), rest[1])
                /\ rest[Len(Tail(p)) + 1] = view[Len(p) + 1]
<1> DEFINE q == Tail(p)
           rest == [i \in 1 .. Len(q) + 1 |-> view[i + 1]]
<1>1. /\ Len(q) = Len(p) - 1 /\ Len(p) \in Nat /\ Len(p) # 0 /\ Head(p) = p[1]
      /\ \A j \in 1 .. Len(q) : q[j] = p[j + 1]
    BY HeadTailProperties, LenProperties, EmptySeq
<1> HIDE DEF q
<1>2. \A i \in 1 .. Len(q) + 1 : i \in 1 .. Len(p) /\ i + 1 \in 1 .. Len(p) + 1
    BY <1>1
<1>3. rest \in [1 .. Len(q) + 1 -> View] /\ \A i \in 1 .. Len(q) + 1 : rest[i] = view[i + 1]
    BY <1>2
<1> HIDE DEF rest
<1>4. ASSUME NEW i \in 1 .. Len(q) PROVE Follows(rest[i], q[i], rest[i + 1])
  <2>1. i + 1 \in 1 .. Len(p) /\ i \in 1 .. Len(q) + 1 /\ i + 1 \in 1 .. Len(q) + 1
    BY <1>1
  <2>2. rest[i] = view[i + 1] /\ rest[i + 1] = view[i + 1 + 1] /\ q[i] = p[i + 1]
    BY <1>1, <1>3, <2>1
  <2>3. Follows(view[i + 1], p[i + 1], view[i + 1 + 1])
    BY <2>1 DEF Chained
  <2> QED
    BY <2>2, <2>3
<1>5. rest[Len(q) + 1] = view[Len(p) + 1] /\ view[Len(p) + 1].blocks = K
  <2>1. Len(q) + 1 \in 1 .. Len(q) + 1 /\ Len(q) + 1 + 1 = Len(p) + 1
    BY <1>1
  <2> QED
    BY <1>3, <2>1 DEF Chained
<1>6. ASSUME NEW i \in 1 .. Len(q) + 1, NEW n \in rest[i].blocks, Survives(q, i, n)
      PROVE  n \in K
  <2>1. i \in 1 .. Len(p) /\ i + 1 \in 1 .. Len(p) + 1 /\ n \in view[i + 1].blocks
    BY <1>2, <1>3, <1>6
  <2>2. Survives(p, i + 1, n)
    BY <1>6, <2>1, SurvivesTail DEF q
  <2> QED
    BY <2>1, <2>2 DEF Chained
<1>7. Chained(rest, q, K)
    BY <1>4, <1>5, <1>6 DEF Chained
<1>8. Follows(view[1], Head(p), rest[1]) /\ view[1] \in View
  <2>1. 1 \in 1 .. Len(p) /\ 1 \in 1 .. Len(q) + 1 /\ 1 \in 1 .. Len(p) + 1
    BY <1>1
  <2>2. Follows(view[1], p[1], view[1 + 1]) /\ rest[1] = view[1 + 1]
    BY <1>3, <2>1 DEF Chained
  <2> QED
    BY <1>1, <2>1, <2>2
<1> QED
    BY <1>3, <1>5, <1>7, <1>8 DEF q

-----------------------------------------------------------------------------
(* The collection and what is on its way to it. *)

\* The collection is promised.
Live == collector \in {"collecting", "sending"} /\ ~warned /\ ~overlapped

\* A block that the chain does not reach any more is stale.
Above == \A n \in kept : n > Height => n \in stale

\* Where the rewind stands, as the last view has it.
Streamed(w) ==
    /\ Rescans => w.rescan /\ w.common < up.current
    /\ rewind \notin {"start", "over"} => w.common + 1 .. HighEnd \subseteq kept

\* What the collector has, whose view is v: the newest numbers of C, and C is
\* right about every block that stays.
Gathered(v, C) ==
    /\ C \subseteq v.blocks
    /\ collected = CollectionOf(C)
    /\ collector = "collecting" => Len(collected) < Count
    /\ ancestor \in {NoAncestor, v.common}
    /\ v.rescan => ancestor = v.common
    /\ \A n \in v.blocks : Survives(pipe, 1, n) /\ n \notin stale => (n \in C <=> n \in logs)

\* The views, of which v is the first and w the last one, and what was collected.
Witness(view, C, v, w) ==
    /\ view \in [1 .. Len(pipe) + 1 -> View] /\ C \in SUBSET (0 .. MaxHeight)
    /\ v = view[1] /\ w = view[Len(pipe) + 1]
    /\ Chained(view, pipe, kept) /\ Streamed(w) /\ Gathered(v, C)

\* There is such a witness.
Witnessed ==
    /\ Above
    /\ Live => \E view, C, v, w : Witness(view, C, v, w)

\* The collection is right when it has caught up.
LEMMA WitnessedCollects == ASSUME IInv, Witnessed PROVE CollectsWhatStands
<1> SUFFICES ASSUME collector \in {"collecting", "sending"}, Collected, stale = {}, ~warned, ~overlapped
             PROVE  collected = FirstOf(NewestFirst(logs \cap kept), Count)
    BY DEF CollectsWhatStands
<1>1. PICK view, C, v, w : Witness(view, C, v, w)
    BY DEF Witnessed, Live
<1>2. pipe = << >> /\ Len(pipe) = 0
    BY DEF Collected
<1>3. v.blocks = kept
  <2>1. v = view[1] /\ view[Len(pipe) + 1].blocks = kept /\ Len(pipe) + 1 = 1
    BY <1>1, <1>2 DEF Witness, Chained
  <2> QED
    BY <2>1
<1>4. \A n : Survives(pipe, 1, n)
  <2>1. \A j : j \notin 1 .. Len(pipe)
    BY <1>2
  <2> QED
    BY <2>1 DEF Survives
<1>5. C \subseteq kept /\ \A n \in kept : n \in C <=> n \in logs
    BY <1>1, <1>3, <1>4 DEF Witness, Gathered
<1>6. C = logs \cap kept
    BY <1>5
<1> QED
    BY <1>1, <1>6 DEF Witness, Gathered, CollectionOf

\* What the next state needs.
LEMMA WitnessNext ==
    ASSUME Above',
           NEW view, NEW C \in SUBSET (0 .. MaxHeight), NEW v, NEW w,
           view \in [1 .. Len(pipe') + 1 -> View], v = view[1], w = view[Len(pipe') + 1],
           Chained(view, pipe', kept'), Streamed(w)', Gathered(v, C)'
    PROVE  Witnessed'
<1>1. Chained(view, pipe, kept)'
    BY DEF Chained, Survives
<1>2. Witness(view, C, v, w)'
    BY <1>1 DEF Witness
<1> QED
    BY <1>2 DEF Witnessed

\* What the steps need to know of the sets.
LEMMA Sets ==
    ASSUME IInv
    PROVE  /\ Height \in Nat /\ MaxHeight \in Nat
           /\ kept \in SUBSET (0 .. MaxHeight) /\ kept \subseteq Nat
           /\ stale \in SUBSET kept /\ logs \subseteq 0 .. Height
           /\ pipe \in Seq(Message) /\ Len(pipe) \in Nat
           /\ NodeInv /\ RewindInv /\ CollectorInv
<1>1. NodeInv /\ RewindInv /\ CollectorInv
    BY DEF IInv
<1>2. Height \in Nat /\ pipe \in Seq(Message) /\ Len(pipe) \in Nat
    BY <1>1, LenProperties DEF NodeInv, ChainTypeOK, Height, CollectorInv
<1>3. kept \in SUBSET (0 .. MaxHeight) /\ stale \in SUBSET kept
    BY <1>1 DEF RewindInv, ListenerTypeOK
<1>4. kept \subseteq Nat
    BY <1>3, BlockNumbers
<1> QED
    BY <1>1, <1>2, <1>3, <1>4, Numbers DEF CollectorInv

\* What no reorg on its way will take is held.
LEMMA SurvivorsKept ==
    ASSUME IInv, NEW view, NEW C, NEW v, NEW w, Witness(view, C, v, w)
    PROVE  /\ v \in View /\ w \in View /\ w.blocks = kept
           /\ \A n \in v.blocks : Survives(pipe, 1, n) => n \in kept
<1>1. /\ view \in [1 .. Len(pipe) + 1 -> View] /\ Len(pipe) \in Nat
      /\ v = view[1] /\ w = view[Len(pipe) + 1] /\ Chained(view, pipe, kept)
    BY Sets DEF Witness
<1>2. 1 \in 1 .. Len(pipe) + 1 /\ Len(pipe) + 1 \in 1 .. Len(pipe) + 1
    BY <1>1
<1> QED
    BY <1>1, <1>2 DEF Chained

\* The rewind stands where it stood.
LEMMA StreamedStill ==
    ASSUME NEW w, Streamed(w), kept' = kept,
           Rescans' => Rescans /\ up' = up,
           rewind' \notin {"start", "over"} => rewind \notin {"start", "over"} /\ HighEnd' = HighEnd
    PROVE  Streamed(w)'
BY DEF Streamed

\* Nothing moves in the pipe, and what stands has the logs that it had.
LEMMA QuietWitnessed ==
    ASSUME IInv, Witnessed, Above', kept' = kept, Live' => Live,
           Live => UNCHANGED <<pipe, collected, ancestor>>,
           collector' = "collecting" => collector = "collecting",
           \A n \in kept : n \notin stale' => n \notin stale /\ (n \in logs' <=> n \in logs),
           \A w : Streamed(w) => Streamed(w)'
    PROVE  Witnessed'
<1>1. CASE Live
  <2>1. PICK view, C, v, w : Witness(view, C, v, w)
    BY <1>1 DEF Witnessed
  <2>2. /\ view \in [1 .. Len(pipe) + 1 -> View] /\ C \in SUBSET (0 .. MaxHeight)
        /\ v = view[1] /\ w = view[Len(pipe) + 1]
        /\ Chained(view, pipe, kept) /\ Streamed(w) /\ Gathered(v, C)
    BY <2>1 DEF Witness
  <2>3. \A n \in v.blocks : Survives(pipe, 1, n) => n \in kept
    BY <2>1, SurvivorsKept
  <2>4. pipe' = pipe /\ collected' = collected /\ ancestor' = ancestor
    BY <1>1
  <2>5. Gathered(v, C)'
    <3>1. \A n : Survives(pipe, 1, n)' <=> Survives(pipe, 1, n)
      BY <2>4 DEF Survives
    <3>2. ASSUME NEW n \in v.blocks, Survives(pipe, 1, n), n \notin stale'
          PROVE  n \in C <=> n \in logs'
      <4>1. n \in kept
        BY <2>3, <3>2
      <4> QED
        BY <2>2, <3>2, <4>1 DEF Gathered
    <3>3. collected' = CollectionOf(C) /\ C \subseteq v.blocks
      BY <2>2, <2>4 DEF Gathered
    <3>4. collector' = "collecting" => Len(collected') < Count
      BY <2>2, <2>4 DEF Gathered
    <3>5. ancestor' \in {NoAncestor, v.common} /\ (v.rescan => ancestor' = v.common)
      BY <2>2, <2>4 DEF Gathered
    <3> QED
      BY <3>1, <3>2, <3>3, <3>4, <3>5 DEF Gathered
  <2>6. Chained(view, pipe', kept') /\ view \in [1 .. Len(pipe') + 1 -> View] /\ w = view[Len(pipe') + 1]
    BY <2>2, <2>4
  <2>7. Streamed(w)'
    BY <2>2
  <2> QED
    BY <2>2, <2>5, <2>6, <2>7, WitnessNext
<1>2. CASE ~Live
    BY <1>2 DEF Witnessed
<1> QED
    BY <1>1, <1>2

\* A message goes into the pipe.
LEMMA SendWitnessed ==
    ASSUME IInv, Above', NEW view, NEW C, NEW v, NEW w, Witness(view, C, v, w),
           NEW m \in Message, Send(m), NEW x \in View, x.blocks = kept', Follows(w, m, x),
           Streamed(x)', UNCHANGED <<logs, collected, ancestor, collector>>,
           \A n \in kept : (m.kind = "reorg" => n <= m.lo) =>
                n \in kept' /\ (n \notin stale' => n \notin stale)
    PROVE  Witnessed'
<1>1. /\ view \in [1 .. Len(pipe) + 1 -> View] /\ C \in SUBSET (0 .. MaxHeight)
      /\ v = view[1] /\ w = view[Len(pipe) + 1]
      /\ Chained(view, pipe, kept) /\ Gathered(v, C)
    BY DEF Witness
<1>2. /\ \A n \in v.blocks : Survives(pipe, 1, n) => n \in kept
      /\ pipe \in Seq(Message) /\ Len(pipe) \in Nat /\ 1 \in 1 .. Len(pipe) + 1
    BY SurvivorsKept, Sets
<1>3. PICK q : q = Append(pipe, m)
    OBVIOUS
<1>4. pipe' = q
    BY <1>3, SendTypes DEF IInv
<1>5. x.blocks = kept' /\ Leaves(m, kept, x.blocks)
    BY DEF Leaves
<1>6. PICK more :
            /\ more \in [1 .. Len(q) + 1 -> View]
            /\ Chained(more, q, x.blocks) /\ more[1] = view[1] /\ more[Len(q) + 1] = x
  <2>1. Follows(view[Len(pipe) + 1], m, x)
    BY <1>1
  <2>2. /\ pipe \in Seq(Message) /\ view \in [1 .. Len(pipe) + 1 -> View]
        /\ Chained(view, pipe, kept)
    BY <1>1, <1>2
  <2> QED
    BY <1>3, <1>5, <2>1, <2>2, ChainAppend
<1>7. \A n : Survives(q, 1, n) => Survives(pipe, 1, n) /\ (m.kind = "reorg" => n <= m.lo)
    BY <1>2, <1>3, SurvivesAppend
<1>8. Gathered(v, C)'
  <2>1. \A n : Survives(pipe, 1, n)' <=> Survives(q, 1, n)
    BY <1>4 DEF Survives
  <2>2. ASSUME NEW n \in v.blocks, Survives(q, 1, n), n \notin stale'
        PROVE  n \in C <=> n \in logs'
    <3>1. Survives(pipe, 1, n) /\ (m.kind = "reorg" => n <= m.lo)
      BY <1>7, <2>2
    <3>2. n \in kept
      BY <1>2, <3>1
    <3>3. n \notin stale
      BY <2>2, <3>1, <3>2
    <3> QED
      BY <1>1, <3>1, <3>3 DEF Gathered
  <2>3. collected' = collected /\ ancestor' = ancestor /\ collector' = collector
    OBVIOUS
  <2>4. collected' = CollectionOf(C) /\ C \subseteq v.blocks
    BY <1>1, <2>3 DEF Gathered
  <2>5. collector' = "collecting" => Len(collected') < Count
    BY <1>1, <2>3 DEF Gathered
  <2>6. ancestor' \in {NoAncestor, v.common} /\ (v.rescan => ancestor' = v.common)
    BY <1>1, <2>3 DEF Gathered
  <2> QED
    BY <2>1, <2>2, <2>4, <2>5, <2>6 DEF Gathered
<1>9. /\ more \in [1 .. Len(pipe') + 1 -> View] /\ v = more[1] /\ x = more[Len(pipe') + 1]
      /\ Chained(more, pipe', kept')
    BY <1>1, <1>4, <1>5, <1>6
<1> QED
    BY <1>1, <1>8, <1>9, WitnessNext

\* Before the start there is nothing to show.
LEMMA InitWitnessed == ASSUME Init PROVE Witnessed
<1>1. kept = {} /\ collector = "waiting"
    BY DEF Init, ListenerInit
<1> QED
    BY <1>1 DEF Witnessed, Above, Live

\* The chain changes: what is not stale is below the fork.
LEMMA EnvironmentWitnessed == ASSUME IInv, Witnessed, Environment PROVE Witnessed'
<1>1. /\ Height \in Nat /\ kept \subseteq Nat /\ stale \in SUBSET kept /\ logs \subseteq 0 .. Height
      /\ NodeInv /\ Above
    BY Sets DEF Witnessed
<1>2. ASSUME Idle, UNCHANGED rewindVars, kept' = kept, Above',
             \A n \in kept : n \notin stale' => n \notin stale /\ (n \in logs' <=> n \in logs)
      PROVE  Witnessed'
  <2>1. /\ UNCHANGED <<pipe, collected, ancestor, collector, warned, overlapped>>
        /\ UNCHANGED <<rewind, top, up>>
    BY <1>2 DEF Idle, collectorVars, rewindVars
  <2>2. HighEnd' = HighEnd /\ (Rescans' <=> Rescans)
    BY <2>1 DEF HighEnd, Rescans
  <2>3. \A w : Streamed(w) => Streamed(w)'
    BY <1>2, <2>1, <2>2, StreamedStill
  <2>4. (Live' <=> Live) /\ collector' = collector
    BY <2>1 DEF Live
  <2> QED
    BY <1>2, <2>1, <2>3, <2>4, QuietWitnessed
<1>3. CASE NodeMines
  <2>1. /\ Mine /\ logs' \in {logs, logs \cup {Height + 1}} /\ Idle /\ UNCHANGED rewindVars
        /\ kept' = kept /\ stale' = stale
    BY <1>3 DEF NodeMines, listenerVars
  <2>2. Height' = Height + 1
    BY <1>1, <2>1, MineBlocks DEF NodeInv
  <2>3. Above'
    <3>1. \A n \in kept : n > Height + 1 => n > Height
      BY <1>1
    <3> QED
      BY <1>1, <2>1, <2>2, <3>1 DEF Above
  <2>4. \A n \in kept : n \notin stale => (n \in logs' <=> n \in logs)
    <3>1. \A n \in kept : n \notin stale => n # Height + 1
      BY <1>1 DEF Above
    <3> QED
      BY <2>1, <3>1
  <2> QED
    BY <1>2, <2>1, <2>3, <2>4
<1>4. ASSUME NEW fork \in 0 .. MaxHeight, NEW tip \in 0 .. MaxHeight, NodeReorgs(fork, tip)
      PROVE  Witnessed'
  <2>1. /\ Reorg(fork, tip) /\ stale' = stale \cup {n \in kept : n > fork}
        /\ Idle /\ UNCHANGED rewindVars /\ kept' = kept
        /\ \E new \in {{}, fork + 1 .. tip} : logs' = {n \in logs : n <= fork} \cup new
    BY <1>4 DEF NodeReorgs, Orphan
  <2>2. Height' = tip /\ fork + 1 <= tip /\ fork \in Nat /\ tip \in Nat
    <3>1. Height' = tip
      BY <1>1, <2>1, ReorgBlocks DEF NodeInv
    <3> QED
      BY <2>1, <3>1, Numbers DEF Reorg
  <2>3. Above'
    <3>1. \A n \in kept : n > tip => n > fork
      BY <1>1, <2>2
    <3> QED
      BY <2>1, <2>2, <3>1 DEF Above
  <2>4. \A n \in kept : n \notin stale' => n \notin stale /\ (n \in logs' <=> n \in logs)
    <3>1. \A n \in kept : n \notin stale' => n \notin stale /\ n <= fork
      BY <1>1, <2>1, <2>2
    <3>2. \A n \in kept : n <= fork => n \notin fork + 1 .. tip
      BY <1>1, <2>2
    <3> QED
      BY <2>1, <3>1, <3>2
  <2> QED
    BY <1>2, <2>1, <2>3, <2>4
<1>5. ASSUME NEW n \in 1 .. MaxHeight, NodeFinalizes(n)
      PROVE  Witnessed'
  <2>1. /\ Idle /\ UNCHANGED rewindVars /\ kept' = kept /\ stale' = stale /\ logs' = logs
        /\ Height' = Height
    BY <1>5 DEF NodeFinalizes, Finalize, listenerVars, Height
  <2>2. Above'
    BY <1>1, <2>1 DEF Above
  <2> QED
    BY <1>2, <2>1, <2>2
<1> QED
    BY <1>3, <1>4, <1>5 DEF Environment

\* A batch that is above the chain is stale on arrival.
LEMMA DeliveryAbove ==
    ASSUME Above, Height' = Height, NEW B, kept' = kept \cup B,
           stale' = (stale \ B) \cup {n \in B : n > Height}
    PROVE  Above'
BY DEF Above

\* Before the first batch.
LEMMA StartWitnessed ==
    ASSUME IInv, Witnessed, NEW a \in 0 .. MaxHeight, NEW b \in 0 .. MaxHeight, StartLatest(a, b)
    PROVE  Witnessed'
<1>1. /\ StreamRewind(a, b) /\ UNCHANGED chainVars /\ UNCHANGED <<logs, pipe, collected, ancestor>>
    BY DEF StartLatest
<1>2. /\ rewind = "start" /\ rewind' = "finality" /\ kept' = kept /\ stale' = stale
      /\ Height' = Height
    BY <1>1 DEF StreamRewind, listenerVars, chainVars, Height
<1>3. kept = {} /\ pipe = << >> /\ collected = << >> /\ ancestor = NoAncestor /\ Len(pipe) = 0
    BY <1>2 DEF IInv, RewindInv, TopInv, CollectorInv, Unstarted
<1>4. Above'
    BY <1>2, <1>3 DEF Above
<1> DEFINE v == [blocks |-> {}, common |-> MaxHeight, rescan |-> FALSE]
           view == [i \in 1 .. Len(pipe') + 1 |-> v]
<1>5. v \in View /\ v.blocks = {} /\ v.common = MaxHeight /\ v.rescan = FALSE
    BY Numbers DEF View
<1>6. Len(pipe') = 0 /\ 1 .. Len(pipe') + 1 = {1}
    BY <1>1, <1>3
<1>7. view \in [1 .. Len(pipe') + 1 -> View] /\ view[1] = v /\ view[Len(pipe') + 1] = v
    BY <1>5, <1>6
<1> HIDE DEF v, view
<1>8. Chained(view, pipe', kept')
  <2>1. \A i : i \notin 1 .. Len(pipe')
    BY <1>6
  <2>2. view[Len(pipe') + 1].blocks = kept'
    BY <1>2, <1>3, <1>5, <1>7
  <2>3. \A i \in 1 .. Len(pipe') + 1 : view[i].blocks = {}
    BY <1>5, <1>6, <1>7
  <2> QED
    BY <2>1, <2>2, <2>3 DEF Chained
<1>9. Streamed(v)'
  <2>1. HighEnd' \in 0 .. MaxHeight /\ ~Rescans'
    <3>1. RewindInv'
      BY <1>1, StreamRewindInv DEF IInv
    <3>2. top' \in Block
      BY <1>2, <3>1 DEF RewindInv, TopInv
    <3>3. top'.number \in 0 .. MaxHeight
      BY <3>2, BlockNumbers
    <3> QED
      BY <1>2, <3>3 DEF HighEnd, Rescans
  <2>2. MaxHeight + 1 .. HighEnd' = {}
    BY <2>1, Numbers
  <2> QED
    BY <1>5, <2>1, <2>2 DEF Streamed
<1>10. Gathered(v, {})'
  <2>1. CollectionOf({}) = << >>
    <3>1. /\ Lists(NewestFirst({}), {}) /\ NewestFirst({}) \in Seq(Int)
          /\ Len(NewestFirst({})) \in Nat
          /\ CollectionOf({}) \in Seq(Int)
          /\ Len(CollectionOf({})) =
                (IF Count <= Len(NewestFirst({})) THEN Count ELSE Len(NewestFirst({})))
      BY NumbersList
    <3>2. Len(NewestFirst({})) = 0
      <4>1. \A i \in 1 .. Len(NewestFirst({})) : FALSE
        BY <3>1 DEF Lists
      <4>2. Len(NewestFirst({})) > 0 => 1 \in 1 .. Len(NewestFirst({}))
        BY <3>1
      <4> QED
        BY <3>1, <4>1, <4>2
    <3>3. Len(CollectionOf({})) = 0
      BY <3>1, <3>2, CountAssumption
    <3> QED
      BY <3>1, <3>3, EmptySeq
  <2>2. collected' = << >> /\ ancestor' = NoAncestor /\ Len(<< >>) < Count
    BY <1>1, <1>3, CountAssumption
  <2> QED
    BY <1>5, <2>1, <2>2 DEF Gathered
<1>11. {} \in SUBSET (0 .. MaxHeight)
    OBVIOUS
<1> QED
    BY <1>4, <1>7, <1>8, <1>9, <1>10, <1>11, WitnessNext

\* A batch of the descent is below all that is held, unless it overlaps; and it
\* is not above the last common ancestor, or it would be held.
LEMMA DescendWitnessed == ASSUME IInv, Witnessed, Descend PROVE Witnessed'
<1> DEFINE b == ReverseBatch(down)
           B == b.lo .. b.hi
<1>1. /\ SendBatch /\ Send(BlocksMessage(b)) /\ UNCHANGED chainVars /\ UNCHANGED logs
      /\ UNCHANGED collectorVars
      /\ overlapped' = (overlapped \/ Blocks(b) \cap kept # {})
    BY DEF Descend
<1>2. /\ rewind = "next" /\ HasNext(down) /\ rewind' \in {"next", "check"}
      /\ kept' = kept \cup B /\ stale' = (stale \ B) \cup {n \in B : n > Height}
      /\ top' = top /\ up' = up
    BY <1>1 DEF SendBatch, Deliver, Blocks
<1>3. /\ b.lo \in 0 .. MaxHeight /\ b.hi \in 0 .. MaxHeight /\ b.lo <= b.hi
      /\ b.hi = down.current /\ b.hi <= top.number /\ top.number \in 0 .. MaxHeight
    BY <1>2, DescentBatch DEF IInv
<1>4. /\ UNCHANGED <<collected, ancestor, collector, warned, logs>> /\ Height' = Height
    BY <1>1 DEF collectorVars, chainVars, Height
<1>5. Above'
    BY <1>2, <1>4, DeliveryAbove DEF Witnessed
<1>6. overlapped' = (overlapped \/ B \cap kept # {})
    BY <1>1 DEF Blocks
<1>7. Send([kind |-> "blocks", lo |-> b.lo, hi |-> b.hi])
    BY <1>1 DEF BlocksMessage
<1> HIDE DEF b
<1>8. CASE Live'
  <2>1. Live /\ B \cap kept = {}
    BY <1>4, <1>6, <1>8 DEF Live
  <2>2. PICK view, C, v, w : Witness(view, C, v, w)
    BY <2>1 DEF Witnessed
  <2>3. w \in View /\ w.blocks = kept /\ Streamed(w)
    BY <2>2, SurvivorsKept DEF Witness
  <2>4. HighEnd = top.number /\ HighEnd' = top.number /\ LowEnd = b.hi + 1
    BY <1>2, <1>3 DEF HighEnd, LowEnd, Rescans
  <2>5. PICK lo \in 0 .. MaxHeight + 1 :
            lo <= b.hi + 1 /\ lo <= top.number + 1 /\ kept = lo .. top.number
    BY <1>2, <2>4 DEF IInv, RewindInv, WithoutHole, Rewinds
  <2>6. b.hi \in B /\ b.hi \notin kept
    <3>1. b.hi \in B
      BY <1>3, Numbers
    <3> QED
      BY <2>1, <3>1
  <2>7. \A n \in kept : b.hi < n
    <3>1. lo = b.hi + 1
      BY <1>3, <2>5, <2>6, Numbers
    <3> QED
      BY <1>3, <2>5, <3>1, Numbers
  <2>8. b.hi <= w.common
    <3>1. w.common \in 0 .. MaxHeight /\ w.common + 1 .. top.number \subseteq kept
      BY <1>2, <2>3, <2>4 DEF Streamed, View
    <3>2. b.hi \notin w.common + 1 .. top.number
      BY <2>6, <3>1
    <3> QED
      BY <1>3, <3>1, <3>2, Numbers
  <2>m. PICK m : m = [kind |-> "blocks", lo |-> b.lo, hi |-> b.hi]
    OBVIOUS
  <2>x. PICK x : x = [blocks |-> kept \cup B, common |-> w.common, rescan |-> FALSE]
    OBVIOUS
  <2>9. m \in Message /\ m.kind = "blocks" /\ m.lo = b.lo /\ m.hi = b.hi /\ Send(m)
    BY <1>3, <1>7, <2>m DEF Message
  <2>10. x \in View /\ x.blocks = kept \cup B /\ x.common = w.common /\ x.rescan = FALSE
    <3>1. kept \cup B \in SUBSET (0 .. MaxHeight)
      <4>1. B \subseteq 0 .. MaxHeight
        BY <1>3, Numbers
      <4> QED
        BY <4>1, Sets
    <3> QED
      BY <2>3, <2>x, <3>1 DEF View
  <2>11. Follows(w, m, x)
    BY <2>3, <2>7, <2>8, <2>9, <2>10 DEF Follows
  <2>12. Streamed(x)'
    <3>1. ~Rescans'
      BY <1>2 DEF Rescans
    <3>2. w.common + 1 .. HighEnd' \subseteq kept'
      BY <1>2, <2>3, <2>4 DEF Streamed
    <3> QED
      BY <2>10, <3>1, <3>2 DEF Streamed
  <2>13. \A n \in kept : n \in kept' /\ (n \notin stale' => n \notin stale)
    BY <1>2, <2>1
  <2>14. x.blocks = kept'
    BY <1>2, <2>10
  <2> QED
    BY <1>4, <1>5, <2>2, <2>9, <2>10, <2>11, <2>12, <2>13, <2>14, SendWitnessed
<1>9. CASE ~Live'
    BY <1>5, <1>9 DEF Witnessed
<1> QED
    BY <1>8, <1>9

\* A batch of a rescan is above all that is held.
LEMMA RescanWitnessed == ASSUME IInv, Witnessed, Rescan PROVE Witnessed'
<1> DEFINE b == ForwardBatch(up)
           B == b.lo .. b.hi
<1>1. /\ SendRescanBatch /\ Send(BlocksMessage(b)) /\ UNCHANGED chainVars /\ UNCHANGED logs
      /\ UNCHANGED collectorVars /\ overlapped' = overlapped
    BY DEF Rescan
<1>2. /\ rewind = "rescan" /\ HasNext(up) /\ rewind' = "rescan" /\ up' = ForwardAdvance(up)
      /\ kept' = kept \cup B /\ stale' = (stale \ B) \cup {n \in B : n > Height}
      /\ top' = top
    BY <1>1 DEF SendRescanBatch, Deliver, Blocks
<1>3. /\ b.lo \in 1 .. MaxHeight /\ b.hi \in 0 .. MaxHeight /\ b.lo <= b.hi
      /\ b.lo = up.current /\ b.hi <= top.number /\ top.number \in 0 .. MaxHeight
      /\ up'.current = b.hi + 1 /\ HighEnd = up.current - 1
    BY <1>2, RescanBatch DEF IInv
<1>4. /\ UNCHANGED <<collected, ancestor, collector, warned, logs>> /\ Height' = Height
    BY <1>1 DEF collectorVars, chainVars, Height
<1>5. Above'
    BY <1>2, <1>4, DeliveryAbove DEF Witnessed
<1>6. Send([kind |-> "blocks", lo |-> b.lo, hi |-> b.hi])
    BY <1>1 DEF BlocksMessage
<1> HIDE DEF b
<1>7. CASE Live'
  <2>1. Live
    BY <1>1, <1>4, <1>7 DEF Live
  <2>2. PICK view, C, v, w : Witness(view, C, v, w)
    BY <2>1 DEF Witnessed
  <2>3. w \in View /\ w.blocks = kept /\ Streamed(w)
    BY <2>2, SurvivorsKept DEF Witness
  <2>4. \A n \in kept : n < b.lo
    <3>1. PICK lo \in 0 .. MaxHeight + 1 : kept = lo .. up.current - 1
      BY <1>2, <1>3 DEF IInv, RewindInv, WithoutHole, Rewinds
    <3> QED
      BY <1>3, <3>1, Numbers
  <2>5. w.rescan /\ w.common < b.lo /\ w.common \in 0 .. MaxHeight
    BY <1>2, <1>3, <2>3 DEF Streamed, Rescans, View
  <2>m. PICK m : m = [kind |-> "blocks", lo |-> b.lo, hi |-> b.hi]
    OBVIOUS
  <2>x. PICK x : x = [blocks |-> kept \cup B, common |-> w.common, rescan |-> TRUE]
    OBVIOUS
  <2>6. m \in Message /\ m.kind = "blocks" /\ m.lo = b.lo /\ m.hi = b.hi /\ Send(m)
    <3>1. b.lo \in 0 .. MaxHeight
      BY <1>3, Numbers
    <3> QED
      BY <1>3, <1>6, <2>m, <3>1 DEF Message
  <2>7. x \in View /\ x.blocks = kept \cup B /\ x.common = w.common /\ x.rescan = TRUE
    <3>1. kept \cup B \in SUBSET (0 .. MaxHeight)
      <4>1. B \subseteq 0 .. MaxHeight
        BY <1>3, Numbers
      <4> QED
        BY <4>1, Sets
    <3> QED
      BY <2>5, <2>x, <3>1 DEF View
  <2>8. Follows(w, m, x)
    BY <2>3, <2>4, <2>5, <2>6, <2>7 DEF Follows
  <2>9. Streamed(x)'
    <3>1. w.common < up'.current
      BY <1>3, <2>5, Numbers
    <3>2. HighEnd' <= b.hi
      <4>1. up'.current - 1 = b.hi
        BY <1>3, Numbers
      <4>2. Rescans' /\ Least(b.hi, top.number) = b.hi
        BY <1>2, <1>3, Numbers DEF Rescans, Least
      <4> QED
        BY <1>2, <1>3, <4>1, <4>2, Numbers DEF HighEnd
    <3>3. w.common + 1 .. HighEnd \subseteq kept
      BY <1>2, <2>3 DEF Streamed
    <3>4. w.common + 1 .. HighEnd' \subseteq kept'
      <4>1. HighEnd' \in Int
        <5>1. HighEnd' = Least(up'.current - 1, top.number)
          BY <1>2 DEF HighEnd, Rescans
        <5> QED
          BY <1>3, <5>1, Numbers DEF Least
      <4>2. \A n \in w.common + 1 .. HighEnd' : n \in w.common + 1 .. HighEnd \/ n \in B
        BY <1>3, <2>5, <3>2, <4>1, Numbers
      <4> QED
        BY <1>2, <3>3, <4>2
    <3> QED
      BY <2>7, <3>1, <3>4 DEF Streamed
  <2>10. \A n \in kept : n \in kept' /\ (n \notin stale' => n \notin stale)
    <3>1. \A n \in kept : n \notin B
      <4>1. kept \subseteq Nat
        BY Sets
      <4> QED
        BY <1>3, <2>4, <4>1, Numbers
    <3> QED
      BY <1>2, <3>1
  <2>11. x.blocks = kept'
    BY <1>2, <2>7
  <2> QED
    BY <1>4, <1>5, <2>2, <2>6, <2>7, <2>8, <2>9, <2>10, <2>11, SendWitnessed
<1>8. CASE ~Live'
    BY <1>5, <1>8 DEF Witnessed
<1> QED
    BY <1>7, <1>8

\* A reorg leaves what is not above the common ancestor.
LEMMA AnnounceWitnessed == ASSUME IInv, Witnessed, AnnounceReorg PROVE Witnessed'
<1>1. PICK a : a = verdict.number
    OBVIOUS
<1>2. /\ TipReorged /\ Send(ReorgMessage(a)) /\ UNCHANGED chainVars /\ UNCHANGED logs
      /\ UNCHANGED collectorVars /\ overlapped' = overlapped
    BY <1>1 DEF AnnounceReorg
<1>3. /\ rewind = "check" /\ rewind' = "tip" /\ verdict # NoBlock /\ top' = top
      /\ kept' = {n \in kept : n <= a} /\ stale' = {n \in stale : n <= a}
      /\ up' = Forward(a + 1, top.number, MaxBlockRange)
    BY <1>1, <1>2 DEF TipReorged, Rollback
<1>4. /\ UNCHANGED <<collected, ancestor, collector, warned, logs>> /\ Height' = Height
    BY <1>2 DEF collectorVars, chainVars, Height
<1>5. /\ verdict \in Block /\ a \in 0 .. MaxHeight /\ top \in Block /\ top.number \in 0 .. MaxHeight
    BY <1>1, <1>3, BlockNumbers DEF IInv, RewindInv, TopInv, HandlerTypeOK
<1>6. Above'
    BY <1>3, <1>4 DEF Witnessed, Above
<1>7. up'.current = a + 1
  <2>1. a + 1 \in BlockNumber /\ top.number \in BlockNumber /\ MaxBlockRange \in BlockNumber \ {0}
    BY <1>5, Numbers DEF BlockNumber
  <2> DEFINE i == Forward(a + 1, top.number, MaxBlockRange)
  <2>2. i.current = a + 1
    BY <2>1, ForwardCounts
  <2> QED
    BY <1>3, <2>2
<1>8. CASE Live'
  <2>1. Live
    BY <1>2, <1>4, <1>8 DEF Live
  <2>2. PICK view, C, v, w : Witness(view, C, v, w)
    BY <2>1 DEF Witnessed
  <2>3. w \in View /\ w.blocks = kept
    BY <2>2, SurvivorsKept
  <2>m. PICK m : m = ReorgMessage(a)
    OBVIOUS
  <2>x. PICK x : x = [blocks |-> {n \in kept : n <= a}, common |-> a, rescan |-> TRUE]
    OBVIOUS
  <2>4. m \in Message /\ m.kind = "reorg" /\ m.lo = a /\ Send(m)
    BY <1>2, <1>5, <2>m DEF ReorgMessage, Message
  <2>5. x \in View /\ x.blocks = {n \in kept : n <= a} /\ x.common = a /\ x.rescan = TRUE
    <3>1. {n \in kept : n <= a} \in SUBSET (0 .. MaxHeight)
      BY Sets
    <3> QED
      BY <1>5, <2>x, <3>1 DEF View
  <2>6. Follows(w, m, x)
    BY <2>3, <2>4, <2>5 DEF Follows
  <2>7. Streamed(x)'
    <3>1. x.common < up'.current
      BY <1>5, <1>7, <2>5, Numbers
    <3>2. HighEnd' \in Int /\ HighEnd' <= a
      <4>1. up'.current - 1 = a
        BY <1>5, <1>7, Numbers
      <4>2. HighEnd' = Least(a, top.number)
        BY <1>3, <4>1 DEF HighEnd, Rescans
      <4> QED
        BY <1>5, <4>2, Numbers DEF Least
    <3>3. x.common + 1 .. HighEnd' = {}
      BY <1>5, <2>5, <3>2, Numbers
    <3> QED
      BY <2>5, <3>1, <3>3 DEF Streamed
  <2>8. \A n \in kept : (m.kind = "reorg" => n <= m.lo) =>
                n \in kept' /\ (n \notin stale' => n \notin stale)
    BY <1>3, <2>4
  <2>9. x.blocks = kept'
    BY <1>3, <2>5
  <2> QED
    BY <1>4, <1>6, <2>2, <2>4, <2>5, <2>6, <2>7, <2>8, <2>9, SendWitnessed
<1>9. CASE ~Live'
    BY <1>6, <1>9 DEF Witnessed
<1> QED
    BY <1>8, <1>9

\* An error goes to an open channel.
LEMMA GivesUpWitnessed == ASSUME IInv, Witnessed, RewindGivesUp PROVE Witnessed'
<1>1. /\ rewind' = "over" /\ kept' = kept /\ stale' = stale
      /\ IF open THEN Send(ErrorMessage) ELSE UNCHANGED pipe
      /\ UNCHANGED chainVars /\ UNCHANGED logs /\ UNCHANGED collectorVars /\ overlapped' = overlapped
    BY DEF RewindGivesUp, TipCheckFails, FetchTipFails, ReportError
<1>2. /\ UNCHANGED <<collected, ancestor, collector, warned, logs>> /\ Height' = Height
    BY <1>1 DEF collectorVars, chainVars, Height
<1>3. Above'
    BY <1>1, <1>2 DEF Witnessed, Above
<1>4. CASE Live'
  <2>1. Live /\ open
    BY <1>1, <1>2, <1>4 DEF Live, IInv, CollectorInv
  <2>2. PICK view, C, v, w : Witness(view, C, v, w)
    BY <2>1 DEF Witnessed
  <2>3. w \in View /\ w.blocks = kept
    BY <2>2, SurvivorsKept
  <2>m. PICK m : m = ErrorMessage
    OBVIOUS
  <2>4. m \in Message /\ m.kind = "error" /\ Send(m)
    BY <1>1, <2>1, <2>m, MessageTypes DEF ErrorMessage
  <2>5. Follows(w, m, w)
    BY <2>4 DEF Follows
  <2>6. Streamed(w)'
    BY <1>1 DEF Streamed, Rescans
  <2>7. \A n \in kept : n \in kept' /\ (n \notin stale' => n \notin stale)
    BY <1>1
  <2>8. w.blocks = kept'
    BY <1>1, <2>3
  <2> QED
    BY <1>2, <1>3, <2>2, <2>3, <2>4, <2>5, <2>6, <2>7, <2>8, SendWitnessed
<1>5. CASE ~Live'
    BY <1>3, <1>5 DEF Witnessed
<1> QED
    BY <1>4, <1>5

\* The rewind, those of its steps that send nothing included.
LEMMA RewindingWitnessed == ASSUME IInv, Witnessed, Rewinding PROVE Witnessed'
<1>1. ASSUME UNCHANGED chainVars, UNCHANGED <<kept, stale>> PROVE Above'
  <2>1. Height' = Height
    BY <1>1 DEF chainVars, Height
  <2> QED
    BY <1>1, <2>1 DEF Witnessed, Above
<1>2. CASE StartFails
  <2>1. UNCHANGED chainVars /\ UNCHANGED <<kept, stale>> /\ collector' = "over"
    BY <1>2 DEF StartFails, RewindFails, ReportError
  <2> QED
    BY <1>1, <2>1 DEF Witnessed, Live
<1>3. CASE RewindGoesOn
  <2>1. /\ RewindSilently /\ UNCHANGED chainVars /\ UNCHANGED latestVars
    BY <1>3 DEF RewindGoesOn
  <2>2. /\ UNCHANGED <<kept, stale>> /\ UNCHANGED <<logs, pipe, collected, ancestor, collector, warned, overlapped>>
    BY <2>1 DEF RewindSilently, DecideChecks, Rewound, TipStands, FetchTip, Rescanned,
                RewindFindsClosed, Checking, listenerVars, latestVars, collectorVars
  <2>3. /\ Rescans' => Rescans /\ up' = up
        /\ rewind' \notin {"start", "over"} => rewind \notin {"start", "over"} /\ HighEnd' = HighEnd
    <3>1. CASE FetchTip
      <4>1. /\ rewind = "tip" /\ rewind' = "rescan" /\ up' = up
        BY <3>1 DEF FetchTip
      <4>2. top'.number = top.number
        BY <2>1, <3>1, FetchTipInv DEF IInv
      <4> QED
        BY <4>1, <4>2 DEF Rescans, HighEnd
    <3>2. CASE Rescanned
      <4>1. HighEnd' = HighEnd
        BY <2>1, <3>2, RescannedInv DEF IInv
      <4>2. rewind = "rescan" /\ rewind' = "next"
        BY <3>2 DEF Rescanned
      <4> QED
        BY <4>1, <4>2 DEF Rescans
    <3>3. CASE ~FetchTip /\ ~Rescanned
      <4>1. /\ top' = top /\ up' = up
            /\ \/ rewind \in {"finality", "check"} /\ rewind' = "next"
               \/ rewind' = "over" \/ rewind' = rewind
        BY <2>1, <3>3 DEF RewindSilently, DecideChecks, Rewound, TipStands, RewindFindsClosed,
                          Checking, rewindVars
      <4> QED
        BY <4>1 DEF Rescans, HighEnd
    <3> QED
      BY <3>1, <3>2, <3>3
  <2>4. \A w : Streamed(w) => Streamed(w)'
    BY <2>2, <2>3, StreamedStill
  <2>5. (Live' <=> Live) /\ Above'
    BY <1>1, <2>1, <2>2 DEF Live
  <2> QED
    BY <2>2, <2>4, <2>5, QuietWitnessed
<1> QED
    BY <1>2, <1>3, StartWitnessed, DescendWitnessed, AnnounceWitnessed, RescanWitnessed, GivesUpWitnessed
       DEF Rewinding

\* A message is taken from the pipe.
LEMMA TakeWitnessed ==
    ASSUME IInv, NEW kind, Take(kind), Outside,
           NEW view, NEW C, NEW v, NEW w, Witness(view, C, v, w), Above,
           NEW x, NEW D \in SUBSET (0 .. MaxHeight), Gathered(x, D)',
           \E rest : /\ rest \in [1 .. Len(Tail(pipe)) + 1 -> View]
                     /\ Chained(rest, Tail(pipe), kept)
                     /\ x = rest[1] /\ rest[Len(Tail(pipe)) + 1] = w
    PROVE  Witnessed'
<1>1. PICK rest : /\ rest \in [1 .. Len(Tail(pipe)) + 1 -> View]
                  /\ Chained(rest, Tail(pipe), kept)
                  /\ x = rest[1] /\ rest[Len(Tail(pipe)) + 1] = w
    OBVIOUS
<1>2. pipe' = Tail(pipe) /\ kept' = kept /\ stale' = stale /\ Height' = Height
    BY DEF Take, Outside, listenerVars, chainVars, Height
<1>3. UNCHANGED <<rewind, top, up>>
    BY DEF Outside, rewindVars
<1>4. Above'
    BY <1>2 DEF Above
<1>5. Streamed(w)'
  <2>1. HighEnd' = HighEnd /\ (Rescans' <=> Rescans)
    BY <1>3 DEF HighEnd, Rescans
  <2> QED
    BY <1>2, <1>3, <2>1, StreamedStill DEF Witness
<1>6. /\ rest \in [1 .. Len(pipe') + 1 -> View] /\ Chained(rest, pipe', kept')
      /\ w = rest[Len(pipe') + 1]
    BY <1>1, <1>2
<1> QED
    BY <1>1, <1>4, <1>5, <1>6, WitnessNext

\* The view after the first message.
LEMMA FirstView ==
    ASSUME IInv, pipe # << >>, NEW view, NEW C, NEW v, NEW w, Witness(view, C, v, w)
    PROVE  \E x :
            /\ v \in View /\ x \in View /\ Follows(v, Head(pipe), x)
            /\ \E rest : /\ rest \in [1 .. Len(Tail(pipe)) + 1 -> View]
                         /\ Chained(rest, Tail(pipe), kept)
                         /\ x = rest[1] /\ rest[Len(Tail(pipe)) + 1] = w
<1>1. /\ pipe \in Seq(Message) /\ view \in [1 .. Len(pipe) + 1 -> View]
      /\ Chained(view, pipe, kept) /\ v = view[1] /\ w = view[Len(pipe) + 1]
    BY Sets DEF Witness
<1>2. PICK rest \in [1 .. Len(Tail(pipe)) + 1 -> View] :
                /\ Chained(rest, Tail(pipe), kept)
                /\ view[1] \in View /\ Follows(view[1], Head(pipe), rest[1])
                /\ rest[Len(Tail(pipe)) + 1] = view[Len(pipe) + 1]
    BY <1>1, ChainTail
<1>3. rest[1] \in View
  <2>1. Len(Tail(pipe)) \in Nat
    <3>1. Tail(pipe) \in Seq(Message)
      BY <1>1, HeadTailProperties
    <3> QED
      BY <3>1, LenProperties
  <2>2. 1 \in 1 .. Len(Tail(pipe)) + 1
    BY <2>1
  <2> QED
    BY <1>2, <2>2
<1> QED
    BY <1>1, <1>2, <1>3

\* What the collector is right about after a batch.
LEMMA BatchSurvivors ==
    ASSUME IInv, pipe # << >>, Head(pipe).kind = "blocks", NEW v, NEW C, Gathered(v, C),
           NEW x, x.blocks = v.blocks \cup (Head(pipe).lo .. Head(pipe).hi)
    PROVE  /\ C \cup LogsInHand \subseteq x.blocks
           /\ \A n \in x.blocks : Survives(Tail(pipe), 1, n) /\ n \notin stale =>
                    (n \in C \cup LogsInHand <=> n \in logs)
<1> DEFINE m == Head(pipe)
<1>1. /\ m \in Message /\ pipe \in Seq(Message)
  <2>1. pipe \in Seq(Message)
    BY Sets
  <2> QED
    BY <2>1, HeadTailProperties
<1>2. m.lo \in Nat /\ m.hi \in Nat /\ logs \subseteq Nat
  <2>1. m.lo \in 0 .. MaxHeight /\ m.hi \in 0 .. MaxHeight
    BY <1>1 DEF Message
  <2>2. logs \subseteq 0 .. Height /\ Height \in Nat
    BY Sets
  <2> QED
    BY <2>1, <2>2, Numbers
<1>3. \A n : n \in LogsInHand <=> n \in logs /\ n \in m.lo .. m.hi
  <2>1. LogsInHand = {n \in logs : m.lo <= n /\ n <= m.hi}
    BY DEF LogsInHand
  <2> HIDE DEF m
  <2>2. \A n \in logs : n \in Nat
    BY <1>2
  <2>3. \A n \in logs : n \in m.lo .. m.hi <=> m.lo <= n /\ n <= m.hi
    BY <1>2, <2>2
  <2> QED
    BY <2>1, <2>3
<1>4. \A n : Survives(Tail(pipe), 1, n) => Survives(pipe, 1, n)
    BY <1>1, SurvivesTail
<1> HIDE DEF m
<1>5. x.blocks = v.blocks \cup (m.lo .. m.hi)
    BY DEF m
<1>6. C \subseteq v.blocks /\ \A n \in v.blocks : Survives(pipe, 1, n) /\ n \notin stale => (n \in C <=> n \in logs)
    BY DEF Gathered
<1> QED
    BY <1>3, <1>4, <1>5, <1>6

\* A batch without logs.
LEMMA SkipWitnessed == ASSUME IInv, Witnessed, SkipBatch PROVE Witnessed'
<1>1. /\ Take("blocks") /\ LogsInHand = {} /\ UNCHANGED <<collected, ancestor, collector, warned>>
      /\ Outside /\ overlapped' = overlapped
    BY DEF SkipBatch, Outside, collectorVars
<1>2. pipe # << >> /\ Head(pipe).kind = "blocks" /\ pipe' = Tail(pipe) /\ stale' = stale /\ logs' = logs
    BY <1>1 DEF Take, Outside, listenerVars
<1>3. CASE Live
  <2>1. PICK view, C, v, w : Witness(view, C, v, w)
    BY <1>3 DEF Witnessed
  <2>2. PICK x :
            /\ v \in View /\ x \in View /\ Follows(v, Head(pipe), x)
            /\ \E rest : /\ rest \in [1 .. Len(Tail(pipe)) + 1 -> View]
                         /\ Chained(rest, Tail(pipe), kept)
                         /\ x = rest[1] /\ rest[Len(Tail(pipe)) + 1] = w
    BY <1>2, <2>1, FirstView
  <2>3. /\ x.blocks = v.blocks \cup (Head(pipe).lo .. Head(pipe).hi) /\ x.common = v.common
        /\ x.rescan => v.rescan
    BY <1>2, <2>2 DEF Follows
  <2>4. Gathered(v, C) /\ C \in SUBSET (0 .. MaxHeight)
    BY <2>1 DEF Witness
  <2>5. /\ C \subseteq x.blocks
        /\ \A n \in x.blocks : Survives(Tail(pipe), 1, n) /\ n \notin stale => (n \in C <=> n \in logs)
    <3>1. C \cup LogsInHand = C
      BY <1>1
    <3> QED
      BY <1>2, <2>3, <2>4, <3>1, BatchSurvivors
  <2>6. Gathered(x, C)'
    <3>1. \A n : Survives(pipe, 1, n)' <=> Survives(Tail(pipe), 1, n)
      BY <1>2 DEF Survives
    <3>2. collected' = collected /\ ancestor' = ancestor /\ collector' = collector
      BY <1>1
    <3>3. collected' = CollectionOf(C) /\ (collector' = "collecting" => Len(collected') < Count)
      BY <2>4, <3>2 DEF Gathered
    <3>4. ancestor' \in {NoAncestor, x.common} /\ (x.rescan => ancestor' = x.common)
      BY <2>3, <2>4, <3>2 DEF Gathered
    <3> QED
      BY <1>2, <2>5, <3>1, <3>3, <3>4 DEF Gathered
  <2> QED
    BY <1>1, <2>1, <2>2, <2>4, <2>6, TakeWitnessed DEF Witnessed
<1>4. CASE ~Live
  <2>1. ~Live'
    BY <1>1, <1>4 DEF Live
  <2>2. Above'
    BY <1>1 DEF Witnessed, Above, Outside, listenerVars, chainVars, Height
  <2> QED
    BY <2>1, <2>2 DEF Witnessed
<1> QED
    BY <1>3, <1>4

\* A batch with logs.  If it comes from a rescan, its logs are above the ancestor,
\* which stays, and they go in front; if not, none is, and they go behind.
LEMMA CollectWitnessed == ASSUME IInv, Witnessed, CollectLogs PROVE Witnessed'
<1> DEFINE A == LogsInHand
<1>1. /\ Take("blocks") /\ A # {} /\ Outside /\ warned' = warned /\ overlapped' = overlapped
      /\ ancestor' = AncestorAfter(A)
      /\ collected' = IF ShouldPrepend(ancestor') THEN Prepend(collected, NewestFirst(A))
                      ELSE Extend(collected, NewestFirst(A))
      /\ collector' = IF Len(collected') >= Count THEN "sending" ELSE collector
    BY DEF CollectLogs, Outside
<1>2. /\ pipe # << >> /\ Head(pipe).kind = "blocks" /\ pipe' = Tail(pipe) /\ stale' = stale /\ logs' = logs
      /\ collector = "collecting"
    BY <1>1 DEF Take, Outside, listenerVars
<1>3. A \in SUBSET (0 .. MaxHeight) /\ A \subseteq Int /\ IsFiniteSet(A)
    BY LogsAre DEF IInv
<1>4. PICK m : m = Head(pipe)
    OBVIOUS
<1>5. m.lo \in 0 .. MaxHeight /\ m.hi \in 0 .. MaxHeight /\ m.kind = "blocks"
  <2>1. m \in Message
    BY <1>2, <1>4, Sets, HeadTailProperties
  <2> QED
    BY <1>2, <1>4, <2>1 DEF Message
<1>6. \A n \in A : m.lo <= n /\ n <= m.hi
    BY <1>4 DEF LogsInHand
<1>7. PICK B : B = A
    OBVIOUS
<1> HIDE DEF A
<1>8. Max(A) \in A
    BY <1>1, <1>3, MaxIsNewest
<1>9. CASE Live
  <2>1. PICK view, C, v, w : Witness(view, C, v, w)
    BY <1>9 DEF Witnessed
  <2>2. PICK x :
            /\ v \in View /\ x \in View /\ Follows(v, Head(pipe), x)
            /\ \E rest : /\ rest \in [1 .. Len(Tail(pipe)) + 1 -> View]
                         /\ Chained(rest, Tail(pipe), kept)
                         /\ x = rest[1] /\ rest[Len(Tail(pipe)) + 1] = w
    BY <1>2, <2>1, FirstView
  <2>3. Follows(v, m, x) /\ v.common \in 0 .. MaxHeight
    BY <1>4, <2>2 DEF View
  <2>4. x.blocks = v.blocks \cup (m.lo .. m.hi) /\ x.common = v.common
    BY <1>5, <2>3 DEF Follows
  <2>5. /\ C \in SUBSET (0 .. MaxHeight) /\ C \subseteq v.blocks /\ collected = CollectionOf(C)
        /\ Len(collected) < Count /\ ancestor \in {NoAncestor, v.common}
        /\ v.rescan => ancestor = v.common
    BY <1>2, <2>1 DEF Witness, Gathered
  <2>6. /\ C \cup A \subseteq x.blocks
        /\ \A n \in x.blocks : Survives(Tail(pipe), 1, n) /\ n \notin stale =>
                (n \in C \cup A <=> n \in logs)
    <3>1. Gathered(v, C)
      BY <2>1 DEF Witness
    <3> QED
      BY <1>2, <1>4, <2>4, <3>1, BatchSurvivors DEF A
  <2>7. /\ collected' = CollectionOf(C \cup A)
        /\ ancestor' \in {NoAncestor, x.common} /\ (x.rescan => ancestor' = x.common)
    <3>1. Max(A) \in Int /\ m.lo <= Max(A) /\ Max(A) <= m.hi /\ NoAncestor = -1
      BY <1>3, <1>6, <1>8 DEF NoAncestor
    <3>2. CASE v.rescan /\ x.rescan /\ v.common < m.lo /\ \A n \in v.blocks : n < m.lo
      <4>1. ancestor = v.common /\ ancestor # NoAncestor
        BY <2>3, <2>5, <3>1, <3>2, Numbers
      <4>2. ~(Max(A) <= ancestor)
        BY <1>5, <2>3, <3>1, <3>2, <4>1, Numbers
      <4>3. ancestor' = v.common /\ ShouldPrepend(ancestor')
        BY <1>1, <4>1, <4>2 DEF AncestorAfter, ShouldPrepend
      <4>4. collected' = Prepend(CollectionOf(C), NewestFirst(A))
        BY <1>1, <2>5, <4>3
      <4>5. \A c \in C, a \in A : c < a
        <5>0. \A c \in C : c \in Int
          BY <2>5, Numbers
        <5>1. \A c \in C : c \in Int /\ c < m.lo
          BY <2>5, <3>2, <5>0
        <5>2. \A a \in A : a \in Int /\ m.lo <= a
          BY <1>3, <1>6
        <5> QED
          BY <1>5, <5>1, <5>2, Numbers
      <4>6. collected' = CollectionOf(C \cup A)
        BY <1>3, <2>5, <4>4, <4>5, PrependCollects
      <4> QED
        BY <2>4, <4>3, <4>6
    <3>3. CASE ~x.rescan /\ m.hi <= v.common /\ \A n \in v.blocks : m.hi < n
      <4>1. ancestor' = NoAncestor
        <5>1. CASE ancestor = NoAncestor
          BY <1>1, <5>1 DEF AncestorAfter
        <5>2. CASE ancestor # NoAncestor
          <6>1. Max(A) <= ancestor
            BY <1>5, <2>3, <2>5, <3>1, <3>3, <5>2, Numbers
          <6> QED
            BY <1>1, <5>2, <6>1 DEF AncestorAfter
        <5> QED
          BY <5>1, <5>2
      <4>2. collected' = Extend(CollectionOf(C), NewestFirst(A))
        BY <1>1, <2>5, <4>1 DEF ShouldPrepend
      <4>3. \A c \in C, a \in A : a < c
        <5>0. \A c \in C : c \in Int
          BY <2>5, Numbers
        <5>1. \A c \in C : c \in Int /\ m.hi < c
          BY <2>5, <3>3, <5>0
        <5>2. \A a \in A : a \in Int /\ a <= m.hi
          BY <1>3, <1>6
        <5> QED
          BY <1>5, <5>1, <5>2, Numbers
      <4>4. Len(CollectionOf(C)) < Count
        BY <2>5
      <4>5. collected' = CollectionOf(C \cup A)
        BY <1>3, <2>5, <4>2, <4>3, <4>4, ExtendCollects
      <4> QED
        BY <3>3, <4>1, <4>5
    <3> QED
      BY <1>5, <2>3, <3>2, <3>3 DEF Follows
  <2>8. Gathered(x, C \cup B)'
    <3>1. \A n : Survives(pipe, 1, n)' <=> Survives(Tail(pipe), 1, n)
      BY <1>2 DEF Survives
    <3>2. collector' = "collecting" => Len(collected') < Count
      <4>1. Len(collected') \in Nat
        <5>1. C \cup A \in SUBSET (0 .. MaxHeight)
          BY <1>3, <2>5
        <5>2. CollectionOf(C \cup A) \in Seq(Int)
          BY <5>1, NumbersList
        <5> QED
          BY <2>7, <5>2, LenProperties
      <4> QED
        BY <1>1, <4>1, CountAssumption
    <3>3. collected' = CollectionOf(C \cup B)
      BY <1>7, <2>7
    <3>4. /\ C \cup B \subseteq x.blocks
          /\ \A n \in x.blocks : Survives(Tail(pipe), 1, n) /\ n \notin stale =>
                (n \in C \cup B <=> n \in logs)
      BY <1>7, <2>6
    <3> QED
      BY <1>2, <2>7, <3>1, <3>2, <3>3, <3>4 DEF Gathered
  <2>9. C \cup B \in SUBSET (0 .. MaxHeight)
    BY <1>3, <1>7, <2>5
  <2> QED
    BY <1>1, <2>1, <2>2, <2>8, <2>9, TakeWitnessed DEF Witnessed
<1>10. CASE ~Live
  <2>1. ~Live'
    BY <1>1, <1>2, <1>10 DEF Live
  <2>2. Above'
    BY <1>1 DEF Witnessed, Above, Outside, listenerVars, chainVars, Height
  <2> QED
    BY <2>1, <2>2 DEF Witnessed
<1> QED
    BY <1>9, <1>10

\* A reorg: what is left are the newest logs of what is left.
LEMMA DiscardWitnessed == ASSUME IInv, Witnessed, DiscardOnReorg PROVE Witnessed'
<1>1. PICK a : a = Head(pipe).lo
    OBVIOUS
<1>2. /\ Take("reorg") /\ Outside /\ collector' = collector /\ warned' = warned
      /\ ancestor' = a /\ collected' = DiscardOrphaned(collected, a) /\ overlapped' = overlapped
    BY <1>1 DEF DiscardOnReorg, Outside
<1>3. /\ pipe # << >> /\ Head(pipe).kind = "reorg" /\ pipe' = Tail(pipe) /\ stale' = stale /\ logs' = logs
      /\ collector = "collecting"
    BY <1>2 DEF Take, Outside, listenerVars
<1>4. a \in 0 .. MaxHeight
  <2>1. Head(pipe) \in Message
    BY <1>3, Sets, HeadTailProperties
  <2> QED
    BY <1>1, <2>1 DEF Message
<1>5. CASE Live
  <2>1. PICK view, C, v, w : Witness(view, C, v, w)
    BY <1>5 DEF Witnessed
  <2>2. PICK x :
            /\ v \in View /\ x \in View /\ Follows(v, Head(pipe), x)
            /\ \E rest : /\ rest \in [1 .. Len(Tail(pipe)) + 1 -> View]
                         /\ Chained(rest, Tail(pipe), kept)
                         /\ x = rest[1] /\ rest[Len(Tail(pipe)) + 1] = w
    BY <1>3, <2>1, FirstView
  <2>3. x.blocks = {n \in v.blocks : n <= a} /\ x.common = a
    BY <1>1, <1>3, <2>2 DEF Follows
  <2>4. /\ C \in SUBSET (0 .. MaxHeight) /\ C \subseteq v.blocks /\ collected = CollectionOf(C)
        /\ Len(collected) < Count
        /\ \A n \in v.blocks : Survives(pipe, 1, n) /\ n \notin stale => (n \in C <=> n \in logs)
    BY <1>3, <2>1 DEF Witness, Gathered
  <2>5. PICK D : D = {n \in C : n <= a}
    OBVIOUS
  <2>6. collected' = CollectionOf(D) /\ Len(collected') < Count
    <3>1. Len(CollectionOf(C)) < Count
      BY <2>4
    <3>2. /\ DiscardOrphaned(CollectionOf(C), a) = CollectionOf({n \in C : n <= a})
          /\ Len(CollectionOf({n \in C : n <= a})) < Count
      BY <1>4, <2>4, <3>1, DiscardCollects
    <3> QED
      BY <1>2, <2>4, <2>5, <3>2
  <2>7. \A n : Survives(pipe, 1, n) <=> Survives(Tail(pipe), 1, n) /\ n <= a
    <3>1. pipe \in Seq(Message)
      BY Sets
    <3> QED
      BY <1>1, <1>3, <3>1, SurvivesTail
  <2>8. Gathered(x, D)'
    <3>1. \A n : Survives(pipe, 1, n)' <=> Survives(Tail(pipe), 1, n)
      BY <1>3 DEF Survives
    <3>2. /\ D \subseteq x.blocks
          /\ \A n \in x.blocks : Survives(Tail(pipe), 1, n) /\ n \notin stale => (n \in D <=> n \in logs)
      BY <2>3, <2>4, <2>5, <2>7
    <3> QED
      BY <1>2, <1>3, <2>3, <2>6, <3>1, <3>2 DEF Gathered
  <2>9. D \in SUBSET (0 .. MaxHeight)
    BY <2>4, <2>5
  <2> QED
    BY <1>2, <2>1, <2>2, <2>8, <2>9, TakeWitnessed DEF Witnessed
<1>6. CASE ~Live
  <2>1. ~Live'
    BY <1>2, <1>6 DEF Live
  <2>2. Above'
    BY <1>2 DEF Witnessed, Above, Outside, listenerVars, chainVars, Height
  <2> QED
    BY <2>1, <2>2 DEF Witnessed
<1> QED
    BY <1>5, <1>6

\* The collector.
LEMMA CollectingWitnessed == ASSUME IInv, Witnessed, Collecting PROVE Witnessed'
<1>1. /\ UNCHANGED chainVars /\ UNCHANGED rewindVars /\ UNCHANGED <<kept, stale, logs, overlapped>>
    BY DEF Collecting, CollectLogs, SkipBatch, DiscardOnReorg, PassError, StreamEnds, SendCollected,
           StreamDropped, DropReceiver, Outside, listenerVars
<1>2. Above'
    BY <1>1 DEF Witnessed, Above, chainVars, Height
<1>3. CASE PassError \/ SendCollected \/ StreamDropped
  <2>1. ~Live'
    BY <1>3 DEF PassError, SendCollected, StreamDropped, CollectorEnds, collectorVars, Live
  <2> QED
    BY <1>2, <2>1 DEF Witnessed
<1>4. CASE StreamEnds
  <2>1. /\ UNCHANGED <<pipe, collected, ancestor, warned>> /\ collector = "collecting"
        /\ collector' = "sending"
    BY <1>4 DEF StreamEnds
  <2>2. UNCHANGED <<rewind, top, up>>
    BY <1>1 DEF rewindVars
  <2>3. HighEnd' = HighEnd /\ (Rescans' <=> Rescans)
    BY <2>2 DEF HighEnd, Rescans
  <2>4. \A w : Streamed(w) => Streamed(w)'
    BY <1>1, <2>2, <2>3, StreamedStill
  <2>5. Live' => Live
    BY <1>1, <2>1 DEF Live
  <2> QED
    BY <1>1, <1>2, <2>1, <2>4, <2>5, QuietWitnessed
<1> QED
    BY <1>3, <1>4, CollectWitnessed, SkipWitnessed, DiscardWitnessed DEF Collecting

\* Witnessed is inductive, given IInv.
LEMMA NextWitnessed == IInv /\ Witnessed /\ [Next]_vars => Witnessed'
<1> SUFFICES ASSUME IInv, Witnessed, [Next]_vars PROVE Witnessed'
    OBVIOUS
<1>1. CASE UNCHANGED vars
  <2>1. /\ UNCHANGED chainVars /\ UNCHANGED <<kept, stale, rewind, top, up>>
        /\ UNCHANGED <<logs, pipe, collected, ancestor, collector, warned, overlapped>>
    BY <1>1 DEF vars, listenerVars, rewindVars, latestVars, collectorVars
  <2>2. HighEnd' = HighEnd /\ (Rescans' <=> Rescans) /\ (Live' <=> Live)
    BY <2>1 DEF HighEnd, Rescans, Live
  <2>3. \A w : Streamed(w) => Streamed(w)'
    BY <2>1, <2>2, StreamedStill
  <2>4. Above'
    BY <2>1 DEF Witnessed, Above, chainVars, Height
  <2> QED
    BY <2>1, <2>2, <2>3, <2>4, QuietWitnessed
<1> QED
    BY <1>1, EnvironmentWitnessed, RewindingWitnessed, CollectingWitnessed DEF Next

\* A collection that has caught up with the stream holds the newest logs of the
\* blocks that stand, unless the listener was told of an error or the descent
\* went over blocks of a rescan once more (CollectsWhatStands,
\* block_range_handler.rs:265-306).
THEOREM LatestCollectsWhatStands == Spec => []CollectsWhatStands
<1>1. Init => Witnessed
    BY InitWitnessed
<1>2. IInv /\ Witnessed /\ [Next]_vars => Witnessed'
    BY NextWitnessed
<1>3. IInv /\ Witnessed => CollectsWhatStands
    BY WitnessedCollects
<1> QED
    BY <1>1, <1>2, <1>3, LatestInvariant, PTL DEF Spec
=============================================================================
