-------------------------- MODULE WindowListProofs ---------------------------
(***************************************************************************)
(* Proofs about the lists of the window: the list of notifications and the *)
(* activity feed, which are read in pages and refreshed at their top, and  *)
(* the schedule modal, whose columns are read, edited and merged.  They    *)
(* hold for any values of the constants that each part's assumptions       *)
(* allow.                                                                  *)
(*                                                                         *)
(* Each part has the component's inductive invariant, the lemma that each  *)
(* of its actions keeps it, and what it says of the component's promises.  *)
(* FrontendProofs carries the results over to the window as a whole.       *)
(***************************************************************************)
EXTENDS Naturals, Sequences, FiniteSets, Subsequences, WellFoundedInduction, FiniteSetTheorems, SequenceTheorems, TLAPS

CONSTANTS
  None,
  ListSeeded, ListPage, ListRecords, ListCalls,
  FeedSeeded, FeedPage, FeedRecords, FeedReads, AtMs, Grouped,
  ScheduleAnimes, ScheduleDays, Boards, MaxCards, MaxMoves, MaxWrites

VARIABLES
  archived, changes, events, calls, made, view, rows, cursor, more, fetching, loading, seen,
  crossed, overlapped, misplaced, gapped,
  lines, inserted, regrouped, seams, query, status, shown, requestId, loadingMore, due, source, torn, taken, behind,
  placed, active, modified, board, order, applying, command, result

List == INSTANCE NotificationList WITH
  Seeded <- ListSeeded, PageSize <- ListPage, MaxRecords <- ListRecords, MaxCalls <- ListCalls
Feed == INSTANCE ActivityFeed WITH
  Seeded <- FeedSeeded, PageSize <- FeedPage, MaxRecords <- FeedRecords, MaxCalls <- FeedReads
Schedule == INSTANCE ScheduleDraft WITH Animes <- ScheduleAnimes, Days <- ScheduleDays

-----------------------------------------------------------------------------
(* Lists of records: the newest of a set, the highest first, and what is     *)
(* left of a list, in its order.                                             *)

Below == {p \in Nat \X Nat : p[1] < p[2]}

LEMMA BelowIsLess == Below = OpToRel(<, Nat)
BY Zenon DEF Below, OpToRel

LEMMA HasLeast ==
  ASSUME NEW S \in SUBSET Nat, S # {}
  PROVE  \E n \in S : \A m \in S : n <= m
<1>1. \E n \in S : \A m \in S : <<m, n>> \notin OpToRel(<, Nat)
  BY NatLessThanWellFounded, WFMin, Zenon
<1>2. PICK n \in S : \A m \in S : <<m, n>> \notin Below
  BY <1>1, BelowIsLess, Zenon
<1>3. ASSUME NEW m \in S PROVE n <= m
  <2>1. <<m, n>> \in Nat \X Nat /\ <<m, n>>[1] = m /\ <<m, n>>[2] = n
    OBVIOUS
  <2>2. ~(m < n)
    BY <1>2, <2>1, Zenon DEF Below
  <2> QED
    BY <2>2
<1> QED
  BY <1>3

\* The values of a sequence, which comes before which, and how many are above one.
On(s) == {s[k] : k \in 1..Len(s)}
Before(s, x, y) == \E i, j \in 1..Len(s) : i < j /\ s[i] = x /\ s[j] = y
Falls(s) == \A x, y : Before(s, x, y) => x > y
Above(S, r) == {s \in S : s > r}
Rank(S, r) == Cardinality(Above(S, r))

LEMMA Ranks ==
  ASSUME NEW N \in Nat, NEW S \in SUBSET (1..N)
  PROVE  /\ IsFiniteSet(S) /\ Cardinality(S) \in Nat /\ \A r \in S : r \in Nat
         /\ \A r : IsFiniteSet(Above(S, r)) /\ Rank(S, r) \in Nat
         /\ \A r \in S : Rank(S, r) < Cardinality(S)
         /\ \A x, y \in S : x > y => Rank(S, x) < Rank(S, y)
<1>1. IsFiniteSet(S) /\ \A r : IsFiniteSet(Above(S, r)) /\ IsFiniteSet(Above(S, r) \cup {r})
  <2>1. IsFiniteSet(1..N)
    BY FS_Interval
  <2>2. IsFiniteSet(S)
    BY <2>1, FS_Subset
  <2>3. ASSUME NEW r PROVE IsFiniteSet(Above(S, r)) /\ IsFiniteSet(Above(S, r) \cup {r})
    <3>1. Above(S, r) \in SUBSET S
      BY DEF Above
    <3> QED
      BY <2>2, <3>1, FS_Subset, FS_AddElement
  <2> QED
    BY <2>2, <2>3
<1>2. Cardinality(S) \in Nat /\ \A r : Rank(S, r) \in Nat
  BY <1>1, FS_CardinalityType DEF Rank
<1>3. ASSUME NEW T \in SUBSET S, NEW r \in S, Above(S, r) \cup {r} \subseteq T
      PROVE  Rank(S, r) < Cardinality(T)
  <2>1. r \notin Above(S, r)
    BY DEF Above
  <2>2. Cardinality(Above(S, r) \cup {r}) = Rank(S, r) + 1
    BY <1>1, <2>1, FS_AddElement DEF Rank
  <2>3. IsFiniteSet(T) /\ Cardinality(T) \in Nat
    BY <1>1, FS_Subset, FS_CardinalityType
  <2>4. Cardinality(Above(S, r) \cup {r}) <= Cardinality(T)
    BY <1>3, <2>3, FS_Subset
  <2> QED
    BY <1>2, <2>2, <2>3, <2>4
<1>4. ASSUME NEW r \in S PROVE Rank(S, r) < Cardinality(S)
  <2>1. Above(S, r) \cup {r} \subseteq S
    BY DEF Above
  <2> QED
    BY <1>3, <2>1
<1>6. \A r \in S : r \in Nat
  OBVIOUS
<1>5. ASSUME NEW x \in S, NEW y \in S, x > y PROVE Rank(S, x) < Rank(S, y)
  <2>1. Above(S, x) \cup {x} \subseteq Above(S, y) /\ Above(S, y) \in SUBSET S
    <3>1. x \in Nat /\ y \in Nat
      BY <1>6
    <3>2. \A z \in S : z \in Nat /\ (z > x => z > y)
      BY <1>5, <1>6, <3>1
    <3> QED
      BY <1>5, <3>2 DEF Above
  <2> QED
    BY <1>3, <2>1 DEF Rank
<1> QED
  BY <1>1, <1>2, <1>4, <1>5, <1>6

\* Each count below the size of the set is that of one of its members.
LEMMA RankIsTaken ==
  ASSUME NEW N \in Nat, NEW S \in SUBSET (1..N), NEW k \in Nat, k < Cardinality(S)
  PROVE  \E r \in S : Rank(S, r) = k
<1> DEFINE M == {i \in 0..N : Rank(S, i) <= k}
<1>1. (\A r : Rank(S, r) \in Nat) /\ Cardinality(S) \in Nat /\ IsFiniteSet(Above(S, N))
  BY Ranks
<1>0. \A r \in S : r \in Nat /\ r >= 1 /\ r <= N
  OBVIOUS
<1>2. N \in M
  <2>1. Above(S, N) = {}
    <3>1. \A r \in S : ~(r > N)
      BY <1>0
    <3> QED
      BY <3>1 DEF Above
  <2> QED
    BY <2>1, FS_EmptySet DEF Rank
<1>3. PICK i \in M : \A m \in M : i <= m
  <2>1. M \in SUBSET Nat
    OBVIOUS
  <2> HIDE DEF M
  <2> QED
    BY <1>2, <2>1, HasLeast
<1>4. i # 0
  <2>1. Above(S, 0) = S
    <3>1. \A r \in S : r > 0
      BY <1>0
    <3> QED
      BY <3>1 DEF Above
  <2>2. Rank(S, 0) > k
    BY <1>1, <2>1 DEF Rank
  <2> QED
    BY <1>1, <1>3, <2>2
<1>5. i - 1 \in 0..N /\ Rank(S, i - 1) > k
  <2>1. i - 1 \in 0..N /\ i - 1 \notin M
    BY <1>3, <1>4
  <2> QED
    BY <1>1, <2>1
<1>6. Above(S, i - 1) = Above(S, i) \cup (IF i \in S THEN {i} ELSE {})
  <2>1. i \in Nat /\ i >= 1
    BY <1>3, <1>4
  <2>2. \A r \in S : r > i - 1 <=> (r > i \/ r = i)
    BY <1>0, <2>1
  <2> QED
    BY <2>2 DEF Above
<1>7. i \in S
  <2> SUFFICES ASSUME i \notin S PROVE FALSE
    OBVIOUS
  <2>1. Rank(S, i - 1) = Rank(S, i)
    BY <1>6 DEF Rank
  <2> QED
    BY <1>3, <1>5, <2>1, <1>1
<1>8. Rank(S, i - 1) = Rank(S, i) + 1
  <2>1. i \notin Above(S, i) /\ IsFiniteSet(Above(S, i))
    BY <1>3, Ranks DEF Above
  <2>2. Above(S, i - 1) = Above(S, i) \cup {i}
    BY <1>6, <1>7
  <2> QED
    BY <2>1, <2>2, FS_AddElement DEF Rank
<1>9. Rank(S, i) = k
  BY <1>1, <1>3, <1>5, <1>8
<1> QED
  BY <1>7, <1>9

LEMMA NewestIs ==
  ASSUME NEW N \in Nat, NEW S \in SUBSET (1..N), NEW n \in Nat
  PROVE  /\ Newest(S, n) \in Seq(S)
         /\ Len(Newest(S, n)) = IF n < Cardinality(S) THEN n ELSE Cardinality(S)
         /\ \A i \in 1..Len(Newest(S, n)) : Newest(S, n)[i] \in S /\ Rank(S, Newest(S, n)[i]) = i - 1
<1>1. PICK m : m = IF n < Cardinality(S) THEN n ELSE Cardinality(S)
  OBVIOUS
<1>2. m \in Nat /\ m <= Cardinality(S) /\ Cardinality(S) \in Nat
  <2>1. Cardinality(S) \in Nat
    BY Ranks
  <2> QED
    BY <1>1, <2>1
<1>3. ASSUME NEW i \in 1..m
      PROVE  /\ (CHOOSE r \in S : Rank(S, r) = i - 1) \in S
             /\ Rank(S, CHOOSE r \in S : Rank(S, r) = i - 1) = i - 1
  <2>1. i - 1 \in Nat /\ i - 1 < Cardinality(S)
    BY <1>2
  <2>2. \E r \in S : Rank(S, r) = i - 1
    BY <2>1, RankIsTaken
  <2> QED
    BY <2>2
<1>4. Newest(S, n) = [i \in 1..m |-> CHOOSE r \in S : Rank(S, r) = i - 1]
  BY <1>1 DEF Newest, Rank, Above
<1> DEFINE w == [i \in 1..m |-> CHOOSE r \in S : Rank(S, r) = i - 1]
<1>5. \A i \in 1..m : w[i] \in S /\ Rank(S, w[i]) = i - 1
  BY <1>3
<1>6. w \in Seq(S) /\ Len(w) = m
  <2>1. w \in [1..m -> S]
    BY <1>5
  <2> HIDE DEF w
  <2>2. w \in Seq(S)
    BY <1>2, <2>1
  <2> QED
    BY <1>2, <2>1, <2>2
<1> HIDE DEF w
<1>7. Newest(S, n) = w
  BY <1>4 DEF w
<1> QED
  BY <1>1, <1>5, <1>6, <1>7

LEMMA NewestFacts ==
  ASSUME NEW N \in Nat, NEW S \in SUBSET (1..N), NEW n \in Nat
  PROVE  /\ Newest(S, n) \in Seq(S) /\ Falls(Newest(S, n))
         /\ On(Newest(S, n)) = {r \in S : Rank(S, r) < n}
<1>1. PICK w : w = Newest(S, n)
  OBVIOUS
<1>2. /\ w \in Seq(S) /\ Len(w) = IF n < Cardinality(S) THEN n ELSE Cardinality(S)
      /\ \A i \in 1..Len(w) : w[i] \in S /\ Rank(S, w[i]) = i - 1
  BY <1>1, NewestIs
<1>3. /\ Cardinality(S) \in Nat /\ \A r : Rank(S, r) \in Nat
      /\ \A r \in S : Rank(S, r) < Cardinality(S) /\ r \in Nat
      /\ \A x, y \in S : x > y => Rank(S, x) < Rank(S, y)
  BY Ranks
<1>4. Falls(w)
  <2> SUFFICES ASSUME NEW i \in 1..Len(w), NEW j \in 1..Len(w), i < j PROVE w[i] > w[j]
    BY DEF Falls, Before
  <2>1. w[i] \in 1..N /\ w[j] \in 1..N /\ w[i] \in S /\ w[j] \in S
    BY <1>2
  <2>2. Rank(S, w[i]) = i - 1 /\ Rank(S, w[j]) = j - 1
    BY <1>2
  <2>3. Rank(S, w[i]) < Rank(S, w[j])
    BY <1>2, <2>2
  <2>4. w[i] # w[j] /\ ~(w[j] > w[i])
    BY <1>3, <2>1, <2>3
  <2> QED
    BY <2>1, <2>4
<1>5. ASSUME NEW r \in S, Rank(S, r) < n PROVE r \in On(w)
  <2>1. Rank(S, r) \in Nat /\ Rank(S, r) + 1 \in 1..Len(w)
    BY <1>2, <1>3, <1>5
  <2>2. w[Rank(S, r) + 1] \in S /\ Rank(S, w[Rank(S, r) + 1]) = Rank(S, r)
    BY <1>2, <2>1
  <2>3. w[Rank(S, r) + 1] = r
    <3>1. r \in 1..N /\ w[Rank(S, r) + 1] \in 1..N
      BY <2>2
    <3>2. PICK x \in S : x = w[Rank(S, r) + 1] /\ Rank(S, x) = Rank(S, r)
      BY <2>2
    <3>3. ~(r > x) /\ ~(x > r)
      BY <1>3, <3>2
    <3> QED
      BY <3>1, <3>2, <3>3
  <2> QED
    BY <2>1, <2>3 DEF On
<1>6. ASSUME NEW i \in 1..Len(w) PROVE w[i] \in S /\ Rank(S, w[i]) < n
  BY <1>2, <1>3
<1> QED
  BY <1>1, <1>2, <1>4, <1>5, <1>6 DEF On

\* The newest page of a set that has more.
LEMMA NewestPage ==
  ASSUME NEW N \in Nat, NEW S \in SUBSET (1..N), NEW n \in Nat \ {0}, Cardinality(S) > n
  PROVE  /\ Cardinality(On(Newest(S, n))) = n
         /\ Newest(S, n)[n] \in On(Newest(S, n))
         /\ \A r \in S : r \notin On(Newest(S, n)) => r < Newest(S, n)[n]
         /\ \A r \in On(Newest(S, n)) : r >= Newest(S, n)[n]
<1>1. PICK w : w = Newest(S, n)
  OBVIOUS
<1>2. /\ w \in Seq(S) /\ Cardinality(S) \in Nat /\ Len(w) = n /\ n \in 1..Len(w)
      /\ \A i \in 1..Len(w) : w[i] \in S /\ Rank(S, w[i]) = i - 1
  <2>1. Cardinality(S) \in Nat
    BY Ranks
  <2>2. /\ w \in Seq(S) /\ Len(w) = IF n < Cardinality(S) THEN n ELSE Cardinality(S)
        /\ \A i \in 1..Len(w) : w[i] \in S /\ Rank(S, w[i]) = i - 1
    BY <1>1, NewestIs
  <2> QED
    BY <2>1, <2>2
<1>3. On(w) = {r \in S : Rank(S, r) < n}
  BY <1>1, NewestFacts
<1>4. w[n] \in S /\ Rank(S, w[n]) = n - 1 /\ w[n] \in On(w)
  BY <1>2 DEF On
<1>5. /\ \A r : Rank(S, r) \in Nat
      /\ \A x, y \in S : x > y => Rank(S, x) < Rank(S, y)
  BY Ranks
<1>6. ASSUME NEW r \in S PROVE r \in On(w) <=> r >= w[n]
  <2>1. r \in 1..N /\ w[n] \in 1..N
    BY <1>4
  <2>2. r > w[n] => Rank(S, r) < n
    <3>1. r > w[n] => Rank(S, r) < Rank(S, w[n])
      BY <1>4, <1>5
    <3>2. Rank(S, r) \in Nat /\ Rank(S, w[n]) = n - 1
      BY <1>4, <1>5
    <3> QED
      BY <3>1, <3>2
  <2>3. r < w[n] => ~(Rank(S, r) < n)
    <3>1. w[n] > r => Rank(S, w[n]) < Rank(S, r)
      BY <1>4, <1>5
    <3>2. Rank(S, r) \in Nat /\ Rank(S, w[n]) = n - 1
      BY <1>4, <1>5
    <3> QED
      BY <2>1, <3>1, <3>2
  <2> QED
    BY <1>3, <1>4, <2>1, <2>2, <2>3
<1>7. On(w) = Above(S, w[n]) \cup {w[n]} /\ w[n] \notin Above(S, w[n])
  <2>1. \A r \in S : r \in Nat
    OBVIOUS
  <2>2. \A r \in On(w) : r \in S
    BY <1>3
  <2>3. PICK x \in S : x = w[n]
    BY <1>4
  <2>4. \A r \in S : r \in On(w) <=> (r > x \/ r = x)
    BY <1>6, <2>1, <2>3
  <2>5. ~(x > x)
    BY <2>1
  <2> QED
    BY <2>2, <2>3, <2>4, <2>5 DEF Above
<1>8. Cardinality(On(w)) = n
  <2>1. PICK A : A = Above(S, w[n])
    OBVIOUS
  <2>2. IsFiniteSet(A) /\ Cardinality(A) = n - 1
    BY <1>4, <2>1, Ranks DEF Rank
  <2>3. Cardinality(A \cup {w[n]}) = Cardinality(A) + 1
    BY <1>7, <2>1, <2>2, FS_AddElement
  <2> QED
    BY <1>7, <2>1, <2>2, <2>3
<1>9. \A r \in S : r \in 1..N
  OBVIOUS
<1>10. w[n] \in 1..N
  BY <1>4
<1> QED
  <2>1. \A r \in S : r \notin On(w) => r < w[n]
    BY <1>6, <1>9, <1>10
  <2>2. \A r \in On(w) : r >= w[n]
    BY <1>3, <1>6
  <2> QED
    BY <1>1, <1>4, <1>8, <2>1, <2>2

LEMMA NewestOfAll ==
  ASSUME NEW N \in Nat, NEW S \in SUBSET (1..N), NEW n \in Nat, n >= Cardinality(S)
  PROVE  On(Newest(S, n)) = S
<1>1. /\ Cardinality(S) \in Nat
      /\ \A r \in S : Rank(S, r) \in Nat /\ Rank(S, r) < Cardinality(S)
  BY Ranks
<1>2. \A r \in S : Rank(S, r) < n
  BY <1>1
<1>3. On(Newest(S, n)) = {r \in S : Rank(S, r) < n}
  BY NewestFacts
<1> QED
  BY <1>2, <1>3

\* What is left of a sequence.
LEMMA WithoutFacts ==
  ASSUME NEW T, NEW s \in Seq(T), NEW off
  PROVE  /\ Without(s, off) \in Seq(T) /\ On(Without(s, off)) = On(s) \ off
         /\ \A x, y : Before(Without(s, off), x, y) => Before(s, x, y) /\ x \notin off /\ y \notin off
<1> DEFINE K == {k \in 1..Len(s) : s[k] \notin off}
<1>1. PICK b : b = Newest(K, Cardinality(K))
  OBVIOUS
<1>2. Len(s) \in Nat /\ K \in SUBSET (1..Len(s))
  OBVIOUS
<1>3. Without(s, off) = [i \in 1..Len(b) |-> s[b[Len(b) + 1 - i]]]
  BY <1>1 DEF Without
<1>4. PICK w : w = [i \in 1..Len(b) |-> s[b[Len(b) + 1 - i]]]
  OBVIOUS
<1>5. /\ b \in Seq(K) /\ Falls(b) /\ On(b) = K
  <2> HIDE DEF K
  <2>1. Cardinality(K) \in Nat
    BY <1>2, Ranks
  <2>2. b \in Seq(K) /\ Falls(b)
    BY <1>1, <1>2, <2>1, NewestFacts
  <2>3. On(b) = K
    <3>1. Cardinality(K) >= Cardinality(K)
      BY <2>1
    <3> QED
      BY <1>1, <1>2, <2>1, <3>1, NewestOfAll
  <2> QED
    BY <2>2, <2>3
<1>6. Len(b) \in Nat /\ \A i \in 1..Len(b) : b[i] \in K
  BY <1>5
<1>7. \A i \in 1..Len(b) : Len(b) + 1 - i \in 1..Len(b) /\ Len(b) + 1 - (Len(b) + 1 - i) = i
  BY <1>6
<1>8. \A i \in 1..Len(b) : w[i] = s[b[Len(b) + 1 - i]] /\ w[i] \in T /\ w[i] \notin off
          /\ w[i] \in On(s)
  <2> SUFFICES ASSUME NEW i \in 1..Len(b) PROVE w[i] = s[b[Len(b) + 1 - i]] /\ w[i] \in T
          /\ w[i] \notin off /\ w[i] \in On(s)
    OBVIOUS
  <2>1. b[Len(b) + 1 - i] \in K
    BY <1>6, <1>7
  <2> QED
    BY <1>4, <2>1 DEF On
<1>9. w \in Seq(T) /\ Len(w) = Len(b)
  <2>1. w \in [1..Len(b) -> T]
    BY <1>4, <1>8
  <2>2. w \in Seq(T)
    BY <1>6, <2>1
  <2> QED
    BY <1>6, <2>1, <2>2
<1>10. ASSUME NEW x \in On(s), x \notin off PROVE x \in On(w)
  <2>1. PICK k \in 1..Len(s) : s[k] = x
    BY DEF On
  <2>2. k \in On(b)
    BY <1>5, <1>10, <2>1
  <2>3. PICK i \in 1..Len(b) : b[i] = k
    BY <2>2 DEF On
  <2>4. w[Len(b) + 1 - i] = x
    BY <1>7, <1>8, <2>1, <2>3
  <2> QED
    BY <1>7, <1>9, <2>4 DEF On
<1>11. ASSUME NEW i \in 1..Len(w), NEW j \in 1..Len(w), i < j
       PROVE  Before(s, w[i], w[j]) /\ w[i] \notin off /\ w[j] \notin off
  <2>1. /\ i \in 1..Len(b) /\ j \in 1..Len(b)
        /\ Len(b) + 1 - i \in 1..Len(b) /\ Len(b) + 1 - j \in 1..Len(b)
              /\ Len(b) + 1 - j < Len(b) + 1 - i
    BY <1>6, <1>7, <1>9, <1>11
  <2>2. Before(b, b[Len(b) + 1 - j], b[Len(b) + 1 - i])
    BY <2>1 DEF Before
  <2>3. b[Len(b) + 1 - j] > b[Len(b) + 1 - i]
    BY <1>5, <2>2 DEF Falls
  <2>4. b[Len(b) + 1 - i] \in K /\ b[Len(b) + 1 - j] \in K
    BY <1>6, <2>1
  <2>5. b[Len(b) + 1 - i] \in 1..Len(s) /\ b[Len(b) + 1 - j] \in 1..Len(s)
            /\ b[Len(b) + 1 - i] < b[Len(b) + 1 - j]
    BY <1>2, <2>3, <2>4
  <2>6. w[i] = s[b[Len(b) + 1 - i]] /\ w[j] = s[b[Len(b) + 1 - j]] /\ w[i] \notin off /\ w[j] \notin off
    BY <1>8, <2>1
  <2> QED
    BY <2>5, <2>6 DEF Before
<1>12. Without(s, off) = w
  BY <1>3, <1>4
<1>13. On(w) = On(s) \ off
  BY <1>8, <1>9, <1>10 DEF On
<1>14. ASSUME NEW x, NEW y, Before(w, x, y) PROVE Before(s, x, y) /\ x \notin off /\ y \notin off
  <2>1. PICK i, j \in 1..Len(w) : i < j /\ w[i] = x /\ w[j] = y
    BY <1>14 DEF Before
  <2> QED
    BY <1>11, <2>1
<1> QED
  BY <1>9, <1>12, <1>13, <1>14

\* Two sequences put together.
LEMMA Joined ==
  ASSUME NEW T, NEW s \in Seq(T), NEW t \in Seq(T)
  PROVE  /\ s \o t \in Seq(T) /\ On(s \o t) = On(s) \cup On(t)
         /\ \A x, y : Before(s \o t, x, y) => Before(s, x, y) \/ Before(t, x, y)
               \/ (x \in On(s) /\ y \in On(t))
<1>1. PICK u : u = s \o t
  OBVIOUS
<1>2. /\ u \in Seq(T) /\ Len(s) \in Nat /\ Len(t) \in Nat /\ Len(u) = Len(s) + Len(t)
      /\ \A i \in 1..Len(s) : u[i] = s[i]
      /\ \A i \in 1..Len(t) : u[Len(s) + i] = t[i] /\ Len(s) + i \in 1..Len(u)
  BY <1>1
<1>3. \A i \in 1..Len(u) : (i \in 1..Len(s) /\ u[i] = s[i])
          \/ (i > Len(s) /\ i - Len(s) \in 1..Len(t) /\ u[i] = t[i - Len(s)])
  <2> SUFFICES ASSUME NEW i \in 1..Len(u), ~(i \in 1..Len(s))
          PROVE i > Len(s) /\ i - Len(s) \in 1..Len(t) /\ u[i] = t[i - Len(s)]
    BY <1>2
  <2>1. i > Len(s) /\ i - Len(s) \in 1..Len(t) /\ Len(s) + (i - Len(s)) = i
    BY <1>2
  <2> QED
    BY <1>2, <2>1
<1>4. On(u) = On(s) \cup On(t)
  <2>1. ASSUME NEW i \in 1..Len(s) PROVE s[i] \in On(u)
    <3>1. i \in 1..Len(u) /\ u[i] = s[i]
      BY <1>2
    <3> QED
      BY <3>1 DEF On
  <2>2. ASSUME NEW i \in 1..Len(t) PROVE t[i] \in On(u)
    BY <1>2 DEF On
  <2>3. ASSUME NEW i \in 1..Len(u) PROVE u[i] \in On(s) \cup On(t)
    BY <1>3 DEF On
  <2> QED
    BY <2>1, <2>2, <2>3 DEF On
<1>5. ASSUME NEW i \in 1..Len(u), NEW j \in 1..Len(u), i < j
      PROVE  Before(s, u[i], u[j]) \/ Before(t, u[i], u[j]) \/ (u[i] \in On(s) /\ u[j] \in On(t))
  <2>1. CASE j \in 1..Len(s)
    BY <1>2, <1>5, <2>1 DEF Before
  <2>2. CASE ~(j \in 1..Len(s))
    <3>1. j > Len(s) /\ j - Len(s) \in 1..Len(t) /\ u[j] = t[j - Len(s)]
      BY <1>3, <2>2
    <3>2. CASE i \in 1..Len(s)
      BY <1>2, <3>1, <3>2 DEF On
    <3>3. CASE ~(i \in 1..Len(s))
      <4>1. i - Len(s) \in 1..Len(t) /\ u[i] = t[i - Len(s)] /\ i - Len(s) < j - Len(s)
        BY <1>2, <1>3, <1>5, <3>1, <3>3
      <4> QED
        BY <3>1, <4>1 DEF Before
    <3> QED
      BY <3>2, <3>3
  <2> QED
    BY <2>1, <2>2
<1>6. \A x, y : Before(u, x, y) => Before(s, x, y) \/ Before(t, x, y) \/ (x \in On(s) /\ y \in On(t))
  BY <1>5 DEF Before
<1> QED
  BY <1>1, <1>2, <1>4, <1>6

\* A set has one sequence that falls.
LEMMA FallsOnce ==
  ASSUME NEW N \in Nat, NEW S \in SUBSET (1..N), NEW s \in Seq(S), Falls(s), On(s) = S
  PROVE  s = Newest(S, Cardinality(S))
<1>1. Len(s) \in Nat /\ \A k \in 1..Len(s) : s[k] \in S /\ s[k] \in 1..N
  <2>1. Len(s) \in Nat /\ \A k \in 1..Len(s) : s[k] \in S
    OBVIOUS
  <2> QED
    BY <2>1
<1>2. \A i, j \in 1..Len(s) : i < j => s[i] > s[j]
  BY DEF Falls, Before
<1>3. IsFiniteSet(S) /\ \A r : IsFiniteSet(Above(S, r))
  BY Ranks
<1> DEFINE M == {k \in 1..Len(s) : Rank(S, s[k]) # k - 1}
<1>4. ASSUME M # {} PROVE FALSE
  <2>1. M \in SUBSET Nat
    OBVIOUS
  <2>2. PICK k \in M : \A m \in M : k <= m
    <3> HIDE DEF M
    <3> QED
      BY <1>4, <2>1, HasLeast
  <2>3. CASE k = 1
    <3>1. Above(S, s[1]) = {}
      <4> SUFFICES ASSUME NEW x \in S, x > s[1] PROVE FALSE
        BY DEF Above
      <4>1. PICK j \in 1..Len(s) : s[j] = x
        BY DEF On
      <4>2. j # 1 /\ 1 \in 1..Len(s)
        BY <1>1, <4>1
      <4>3. s[1] > s[j]
        BY <1>2, <4>2
      <4> QED
        BY <1>1, <4>1, <4>2, <4>3
    <3>2. Rank(S, s[1]) = 0
      BY <3>1, FS_EmptySet DEF Rank
    <3> QED
      BY <2>2, <2>3, <3>2
  <2>4. CASE k # 1
    <3>1. k - 1 \in 1..Len(s) /\ k - 1 \notin M
      BY <1>1, <2>2, <2>4
    <3>2. Rank(S, s[k - 1]) = k - 2
      BY <3>1
    <3>3. Above(S, s[k]) = Above(S, s[k - 1]) \cup {s[k - 1]}
      <4>1. s[k - 1] > s[k] /\ s[k] \in 1..N /\ s[k - 1] \in 1..N /\ s[k - 1] \in S
        BY <1>1, <1>2, <2>2, <3>1
      <4>2. ASSUME NEW x \in S, x > s[k] PROVE x > s[k - 1] \/ x = s[k - 1]
        <5>1. PICK j \in 1..Len(s) : s[j] = x
          BY DEF On
        <5>2. ~(k < j) /\ j # k
          <6>1. k \in 1..Len(s)
            BY <2>2
          <6>2. k < j => s[k] > s[j]
            BY <1>2, <6>1
          <6> QED
            BY <1>1, <4>1, <4>2, <5>1, <6>2
        <5>3. j < k - 1 \/ j = k - 1
          BY <1>1, <2>2, <5>2
        <5> QED
          BY <1>2, <3>1, <5>1, <5>3
      <4>3. ASSUME NEW x \in S, x > s[k - 1] PROVE x > s[k]
        <5>1. x \in 1..N
          OBVIOUS
        <5> QED
          BY <4>1, <4>3, <5>1
      <4> QED
        BY <4>1, <4>2, <4>3 DEF Above
    <3>4. Rank(S, s[k]) = Rank(S, s[k - 1]) + 1
      <4>1. s[k - 1] \notin Above(S, s[k - 1])
        <5>1. s[k - 1] \in 1..N
          BY <1>1, <3>1
        <5> QED
          BY <5>1 DEF Above
      <4>2. PICK A, x : A = Above(S, s[k - 1]) /\ x = s[k - 1]
        OBVIOUS
      <4>3. IsFiniteSet(A) /\ Cardinality(A \cup {x}) = Cardinality(A) + 1
        BY <1>3, <4>1, <4>2, FS_AddElement
      <4> QED
        BY <3>3, <4>2, <4>3 DEF Rank
    <3> QED
      BY <1>1, <2>2, <2>4, <3>2, <3>4
  <2> QED
    BY <2>3, <2>4
<1>5. \A k \in 1..Len(s) : Rank(S, s[k]) = k - 1
  BY <1>4
<1>6. Len(s) = Cardinality(S)
  <2>1. CASE Len(s) = 0
    <3>1. S = {}
      BY <2>1 DEF On
    <3> QED
      BY <2>1, <3>1, FS_EmptySet
  <2>2. CASE Len(s) # 0
    <3> DEFINE L == Len(s)
    <3>1. L \in 1..Len(s) /\ s[L] \in S /\ s[L] \in 1..N
      BY <1>1, <2>2
    <3> HIDE DEF L
    <3>2. S = Above(S, s[L]) \cup {s[L]}
      <4>1. ASSUME NEW x \in S PROVE x > s[L] \/ x = s[L]
        <5>1. PICK j \in 1..Len(s) : s[j] = x
          BY DEF On
        <5>2. j < L \/ j = L
          BY <1>1, <5>1 DEF L
        <5> QED
          BY <1>2, <3>1, <5>1, <5>2
      <4> QED
        BY <3>1, <4>1 DEF Above
    <3>3. s[L] \notin Above(S, s[L])
      BY <3>1 DEF Above
    <3>4. Cardinality(S) = Rank(S, s[L]) + 1
      BY <1>3, <3>2, <3>3, FS_AddElement DEF Rank
    <3> QED
      BY <1>1, <1>5, <3>1, <3>4 DEF L
  <2> QED
    BY <2>1, <2>2
<1>7. PICK w : w = Newest(S, Cardinality(S))
  OBVIOUS
<1>8. /\ w \in Seq(S) /\ Len(w) = Len(s)
      /\ \A i \in 1..Len(w) : w[i] \in S /\ Rank(S, w[i]) = i - 1
  <2>1. PICK n : n = Cardinality(S)
    OBVIOUS
  <2>2. n \in Nat /\ Len(s) = n /\ ~(n < n)
    BY <1>1, <1>6, <2>1
  <2>3. /\ w \in Seq(S) /\ Len(w) = IF n < Cardinality(S) THEN n ELSE Cardinality(S)
        /\ \A i \in 1..Len(w) : w[i] \in S /\ Rank(S, w[i]) = i - 1
    <3>1. w = Newest(S, n)
      BY <1>7, <2>1
    <3> QED
      BY <2>2, <3>1, NewestIs
  <2> QED
    BY <2>1, <2>2, <2>3
<1>9. ASSUME NEW i \in 1..Len(s) PROVE w[i] = s[i]
  <2>1. w[i] \in S /\ Rank(S, w[i]) = i - 1 /\ Rank(S, s[i]) = i - 1 /\ s[i] \in S
    BY <1>1, <1>5, <1>8
  <2>2. ~(w[i] > s[i]) /\ ~(s[i] > w[i])
    <3>1. \A x, y \in S : x > y => Rank(S, x) < Rank(S, y)
      BY Ranks
    <3>2. PICK x \in S, y \in S : x = w[i] /\ y = s[i] /\ Rank(S, x) = i - 1 /\ Rank(S, y) = i - 1
      BY <2>1
    <3>3. ~(Rank(S, x) < Rank(S, y)) /\ ~(Rank(S, y) < Rank(S, x))
      BY <3>2
    <3> QED
      BY <3>1, <3>2, <3>3
  <2>3. w[i] \in 1..N /\ s[i] \in 1..N
    BY <2>1
  <2> QED
    BY <2>2, <2>3
<1>10. w = s
  <2>1. /\ w \in [1..Len(w) -> S] /\ s \in [1..Len(s) -> S]
    BY <1>8
  <2> QED
    BY <1>8, <1>9, <2>1
<1> QED
  BY <1>7, <1>10

-----------------------------------------------------------------------------
(* The list of notifications.  A page was right when it was served: a record *)
(* it has is still of its view or its archiving is still to be heard, and    *)
(* one it has not is older, or newer and still to be asked for.  That of an  *)
(* earlier commit than the screen knows, or will know, is passed by.         *)

ListAssumptions ==
  ListSeeded \in Nat /\ ListRecords \in Nat /\ ListSeeded <= ListRecords /\ ListPage \in Nat \ {0}

Fetches == {"replace", "append"}
ListCall == [ticket : Nat, kind : List!Pages \cup {"archive", "restore"}, view : List!Views, before :
    Nat,
             ids : SUBSET Nat, served : BOOLEAN, page : Seq(Nat), next : Nat, at : Nat]
ListEvent == [kind : {"push", "archived"}, ids : SUBSET Nat, at : Nat]

Known == Len(archived)
Current(v) == {i \in 1..Known : archived[i] = (v = "archived")}
Pending == On(events)
\* The records a page was asked about that are in its view now, and those it answers for:
\* they are on it, or older and it is not the last.
Sought(c) == {i \in Current(c.view) : c.before = 0 \/ i < c.before}
Has(c, i) == i \in On(c.page) \/ (c.next # 0 /\ i < c.next)

\* A call, and an event, when there are n records, k commits and m calls.
PageOk(c, n) ==
  /\ On(c.page) \in SUBSET (1..n) /\ Falls(c.page) /\ c.next <= n
  /\ \A i \in On(c.page) : i >= c.next /\ (c.before = 0 \/ i < c.before)
  /\ c.next # 0 => Cardinality(On(c.page)) = ListPage
CallOk(c, n, k, m) ==
  /\ c \in ListCall /\ c.ticket \in 1..m /\ c.at <= k /\ c.before <= n /\ c.ids \in SUBSET (1..n)
  /\ c.kind \in List!Pages => (c.before = 0 <=> c.kind # "append")
  /\ c.kind \in List!Pages /\ c.served => PageOk(c, n)
EventOk(e, n, k) == e \in ListEvent /\ e.ids \in SUBSET (1..n) /\ e.at \in 1..k

ListTypes ==
  /\ archived \in Seq(BOOLEAN) /\ Known \in ListSeeded..ListRecords
  /\ changes \in Nat /\ made \in Nat /\ seen \in 0..changes /\ view \in List!Views
  /\ rows \in Seq(Nat) /\ On(rows) \in SUBSET (1..Known) /\ cursor \in 0..Known /\ more = (cursor # 0)
  /\ fetching \in BOOLEAN /\ loading \in BOOLEAN /\ crossed \in BOOLEAN /\ overlapped \in BOOLEAN
  /\ misplaced \in BOOLEAN /\ gapped \in BOOLEAN
ListEvents == events \in Seq(ListEvent) /\ \A e \in Pending : EventOk(e, Known, changes)
ListCallsOk == \A c \in calls : CallOk(c, Known, changes, made)

\* One page is fetched at a time, and it follows the rows or replaces them.
OneFetch ==
  ~overlapped =>
    /\ \A c, d \in calls : c.kind \in Fetches /\ d.kind \in Fetches => c = d
    /\ \A c \in calls : /\ c.kind \in Fetches => fetching = TRUE
                        /\ c.kind = "append" => c.before = cursor /\ c.view = view
    /\ \A x : ~Before(rows, x, x)
    /\ \A i \in On(rows) : i >= cursor

\* What is shown is, or will be, of a later commit than the one named.
Passed(t) ==
  t < changes /\ (\/ t < seen
                  \/ \E d \in calls : d.kind = "replace" /\ (d.served => t < d.at)
                  \/ \E d \in calls : d.kind = "restore" /\ d.served /\ t < d.at)
Outdone(c) == Passed(c.at) \/ (c.at < changes /\ c.view # view)

\* A record is still to be asked for, or to be heard of as archived, since a commit.
Asks(e, v) == e.kind = "push" \/ v = "archived"
Brings(d, i, v, t) ==
  d.kind = "refresh" /\ d.view = v /\ IF d.served THEN d.at > t /\ Has(d, i) ELSE t < changes
Coming(i, v, t) == (\E e \in Pending : Asks(e, v) /\ e.at > t) \/ \E d \in calls : Brings(d, i, v, t)
Leaving(i, t) == \E e \in Pending : e.kind = "archived" /\ i \in e.ids /\ e.at > t

\* A record is newer than all of a page and on nothing read before it.
Newer(c, i) ==
  /\ c.before = 0 /\ i \notin On(rows) /\ \A p \in On(c.page) : p < i
  /\ \A d \in calls : d.kind \in List!Pages /\ d.served /\ d.view = c.view /\ i \in On(d.page)
        => c.at < d.at
Sound(c) ==
  /\ \A i \in On(c.page) : i \in Current(c.view) \/ (c.view = "active" /\ Leaving(i, c.at))
  /\ \A i \in Sought(c) : Has(c, i) \/ (Coming(i, c.view, c.at) /\ (c.view = "active" => Newer(c, i)))

Straight == ~crossed /\ ~overlapped /\ ~misplaced
PagesSound ==
  Straight => \A c \in calls : c.kind \in List!Pages /\ c.served => Outdone(c) \/ Sound(c)
EventsSound ==
  \A e \in Pending : e.kind = "archived" => Passed(e.at) \/ e.ids \in SUBSET Current("archived")

Settled == \A d \in calls : d.kind # "replace" /\ ~(d.kind = "restore" /\ d.served)
RowsAreActive ==
  /\ \A i \in On(rows) : i \in Current("active") \/ Leaving(i, 0)
  /\ \A x, y \in Current("active") : Before(rows, x, y) => x > y
  /\ ~gapped => \A i \in Current("active") : i >= cursor /\ i \notin On(rows) =>
       (\A r \in On(rows) : r < i) /\ \E t \in Nat : Coming(i, "active", t)
RowsAreArchived ==
  /\ On(rows) \in SUBSET Current("archived")
  /\ \A i \in Current("archived") : Rank(Current("archived"), i) < ListPage /\ i \notin On(rows) =>
       \E t \in Nat : Coming(i, "archived", t)
RowsSound ==
  Straight /\ Settled => (view = "active" => RowsAreActive) /\ (view = "archived" => RowsAreArchived)

ListTyped == ListTypes /\ ListEvents /\ ListCallsOk
ListInv == ListTyped /\ OneFetch /\ PagesSound /\ EventsSound /\ RowsSound

\* The operators of the component are those of this module.
LEMMA ListNames ==
  ASSUME NEW s, NEW S, NEW n
  PROVE  /\ List!Newest(S, n) = Newest(S, n) /\ List!Without(s, S) = Without(s, S)
         /\ List!Cardinality(S) = Cardinality(S)
         /\ s \in Seq(Nat) => List!Range(s) = On(s)
<1>1. \A T, m : List!Newest(T, m) = Newest(T, m) /\ List!Cardinality(T) = Cardinality(T)
  BY DEF List!Newest, Newest, List!Cardinality, Cardinality
<1>2. List!Without(s, S) = Without(s, S)
  BY <1>1 DEF List!Without, Without
<1>3. s \in Seq(Nat) => List!Range(s) = On(s)
  BY DEF List!Range, On
<1> QED
  BY <1>1, <1>2, <1>3

LEMMA ListMatches ==
  ASSUME NEW v, NEW b
  PROVE  List!Matching(v, b) = {i \in Current(v) : b = 0 \/ i < b}
BY DEF List!Matching, List!Ids, Current, Known

LEMMA BeforeOn ==
  ASSUME NEW s, NEW x, NEW y, Before(s, x, y) PROVE x \in On(s) /\ y \in On(s)
BY DEF Before, On

LEMMA CurrentIs ==
  ASSUME ListTypes, NEW v
  PROVE  Current(v) \in SUBSET (1..Known) /\ Known \in Nat
BY DEF Current, ListTypes, ListAssumptions

\* More records, commits and calls.
LEMMA CallStays ==
  ASSUME NEW n \in Nat, NEW k \in Nat, NEW m \in Nat, NEW n2 \in Nat, NEW k2 \in Nat, NEW m2 \in Nat,
         n <= n2, k <= k2, m <= m2, NEW c, CallOk(c, n, k, m)
  PROVE  CallOk(c, n2, k2, m2)
<1>1. c \in ListCall /\ c.at \in Nat /\ c.before \in Nat /\ c.next \in Nat /\ 1..n \in SUBSET (1..n2)
      /\ c.kind \in List!Pages \cup {"archive", "restore"}
  BY DEF CallOk, ListCall
<1>2. PageOk(c, n) => PageOk(c, n2)
  BY <1>1 DEF PageOk
<1>3. c.ticket \in 1..m2 /\ c.at <= k2 /\ c.before <= n2 /\ c.ids \in SUBSET (1..n2)
  BY <1>1 DEF CallOk
<1> QED
  BY <1>1, <1>2, <1>3 DEF CallOk

LEMMA EventStays ==
  ASSUME NEW n \in Nat, NEW k \in Nat, NEW n2 \in Nat, NEW k2 \in Nat, n <= n2, k <= k2, NEW e,
         EventOk(e, n, k)
  PROVE  EventOk(e, n2, k2)
BY DEF EventOk

\* The events after one more is told and after the first is heard.
LEMMA Announced ==
  ASSUME NEW q \in Seq(ListEvent), NEW e \in ListEvent
  PROVE  Append(q, e) \in Seq(ListEvent) /\ On(Append(q, e)) = On(q) \cup {e}
<1>1. PICK u : u = Append(q, e)
  OBVIOUS
<1>2. /\ u \in Seq(ListEvent) /\ Len(q) \in Nat /\ Len(u) = Len(q) + 1 /\ u[Len(q) + 1] = e
      /\ \A i \in 1..Len(q) : u[i] = q[i] /\ i \in 1..Len(u)
  BY <1>1
<1>3. Len(q) + 1 \in 1..Len(u)
  BY <1>2
<1>4. \A i \in 1..Len(u) : i \in 1..Len(q) \/ i = Len(q) + 1
  BY <1>2
<1> QED
  BY <1>1, <1>2, <1>3, <1>4 DEF On

LEMMA Heard ==
  ASSUME NEW q \in Seq(ListEvent), q # <<>>
  PROVE  /\ Tail(q) \in Seq(ListEvent) /\ Head(q) \in On(q)
         /\ On(Tail(q)) \in SUBSET On(q) /\ \A e \in On(q) : e = Head(q) \/ e \in On(Tail(q))
<1>1. PICK t : t = Tail(q)
  OBVIOUS
<1>2. /\ Len(q) \in Nat /\ Len(q) >= 1 /\ t \in Seq(ListEvent) /\ Len(t) = Len(q) - 1 /\ Head(q) = q[1]
      /\ \A i \in 1..Len(t) : i + 1 \in 1..Len(q) /\ t[i] = q[i + 1]
  BY <1>1
<1>3. \A j \in 1..Len(q) : j = 1 \/ (j - 1 \in 1..Len(t) /\ t[j - 1] = q[j])
  <2> SUFFICES ASSUME NEW j \in 1..Len(q), j # 1 PROVE j - 1 \in 1..Len(t) /\ t[j - 1] = q[j]
    OBVIOUS
  <2>1. j - 1 \in 1..Len(t) /\ (j - 1) + 1 = j
    BY <1>2
  <2> QED
    BY <1>2, <2>1
<1>4. 1 \in 1..Len(q)
  BY <1>2
<1> QED
  BY <1>1, <1>2, <1>3, <1>4 DEF On

\* What was passed by stays so: a page that replaces the rows tells them what it knew, and
\* a restore is followed by one.
StaysPassed ==
  /\ seen <= seen' /\ changes <= changes'
  /\ \A d \in calls : /\ d.kind = "replace" /\ ~d.served =>
                           \E x \in calls' : x.kind = "replace" /\ (x.served => changes <= x.at)
                      /\ d.kind = "replace" /\ d.served => d \in calls' \/ d.at <= seen'
                      /\ d.kind = "restore" /\ d.served =>
                           d \in calls' \/ \E x \in calls' : x.kind = "replace" /\ ~x.served

LEMMA PassedStays ==
  ASSUME ListTyped, seen' \in Nat, changes' \in Nat, \A x \in calls' : x.at \in Nat, StaysPassed,
         NEW t \in Nat, Passed(t)
  PROVE  Passed(t)'
<1>1. changes \in Nat /\ seen \in Nat /\ t < changes /\ t < changes'
  BY DEF ListTyped, ListTypes, StaysPassed, Passed
<1>2. CASE t < seen
  BY <1>1, <1>2 DEF StaysPassed, Passed
<1>3. ASSUME NEW d \in calls, d.kind = "replace", d.served => t < d.at PROVE Passed(t)'
  <2>1. d.at \in Nat
    BY DEF ListTyped, ListCallsOk, CallOk, ListCall
  <2>2. CASE d.served
    BY <1>1, <1>3, <2>1, <2>2 DEF StaysPassed, Passed
  <2>3. CASE ~d.served
    <3>1. PICK x \in calls' : x.kind = "replace" /\ (x.served => changes <= x.at)
      BY <1>3, <2>3 DEF StaysPassed
    <3>2. x.served => t < x.at
      BY <1>1, <3>1
    <3> QED
      BY <1>1, <3>1, <3>2 DEF Passed
  <2> QED
    BY <2>2, <2>3
<1>4. ASSUME NEW d \in calls, d.kind = "restore", d.served, t < d.at PROVE Passed(t)'
  <2>1. d \in calls' \/ \E x \in calls' : x.kind = "replace" /\ ~x.served
    BY <1>4 DEF StaysPassed
  <2> QED
    BY <1>1, <1>4, <2>1 DEF Passed
<1> QED
  BY <1>2, <1>3, <1>4 DEF Passed

\* And what is still to come: a refresh that is served has the record, or one that is not
\* the newest of what there is.
StaysComing(i, v) ==
  /\ changes <= changes' /\ Pending \in SUBSET Pending'
  /\ \A d \in calls : d.kind = "refresh" /\ d.view = v =>
       d \in calls' \/ \E x \in calls' : ~d.served /\ x.kind = "refresh" /\ x.view = v /\ x.served
                                         /\ changes <= x.at /\ Has(x, i)

LEMMA ComingStays ==
  ASSUME ListTyped, changes' \in Nat, \A x \in calls' : x.at \in Nat, NEW i, NEW v, NEW t \in Nat,
         StaysComing(i, v), Coming(i, v, t)
  PROVE  Coming(i, v, t)'
<1>1. CASE \E e \in Pending : Asks(e, v) /\ e.at > t
  BY <1>1 DEF StaysComing, Coming, Asks
<1>2. ASSUME NEW d \in calls, Brings(d, i, v, t) PROVE Coming(i, v, t)'
  <2>1. changes \in Nat /\ (~d.served => t < changes)
    BY <1>2 DEF ListTyped, ListTypes, Brings
  <2>2. CASE d \in calls'
    <3>1. ~d.served => t < changes'
      BY <2>1 DEF StaysComing
    <3>2. Brings(d, i, v, t)'
      BY <1>2, <3>1 DEF Brings, Has
    <3> QED
      BY <2>2, <3>2 DEF Coming
  <2>3. CASE d \notin calls'
    <3>1. PICK x \in calls' : ~d.served /\ x.kind = "refresh" /\ x.view = v /\ x.served
              /\ changes <= x.at /\ Has(x, i)
      BY <1>2, <2>3 DEF StaysComing, Brings
    <3>2. x.at > t
      BY <2>1, <3>1
    <3>3. Brings(x, i, v, t)'
      BY <3>1, <3>2 DEF Brings, Has
    <3> QED
      BY <3>3 DEF Coming
  <2> QED
    BY <2>2, <2>3
<1> QED
  BY <1>1, <1>2 DEF Coming

LEMMA LeavingStays ==
  ASSUME Pending \in SUBSET Pending', NEW i, NEW t, Leaving(i, t) PROVE Leaving(i, t)'
BY DEF Leaving

\* A record still to come changed after the commit it is named with.
LEMMA ComesLater ==
  ASSUME ListTyped, NEW i, NEW v, NEW t \in Nat, Coming(i, v, t) PROVE t < changes
<1>1. \A e \in Pending : e.at \in Nat /\ e.at <= changes
  BY DEF ListTyped, ListTypes, ListEvents, EventOk
<1>2. \A d \in calls : d.at \in Nat /\ d.at <= changes
  BY DEF ListTyped, ListCallsOk, CallOk, ListCall
<1>3. changes \in Nat
  BY DEF ListTyped, ListTypes
<1> QED
  BY <1>1, <1>2, <1>3 DEF Coming, Brings

\* What is known of the state of the list.
LEMMA ListFacts ==
  ASSUME ListTyped
  PROVE  /\ changes \in Nat /\ made \in Nat /\ seen \in Nat /\ seen <= changes /\ Known \in Nat
         /\ \A c \in calls : c.at \in Nat /\ c.at <= changes /\ c.served \in BOOLEAN
               /\ c.before \in Nat /\ c.next \in Nat
         /\ \A e \in Pending : e.at \in Nat /\ e.at <= changes /\ e.at >= 1
<1>1. changes \in Nat /\ made \in Nat /\ seen \in Nat /\ seen <= changes /\ Known \in Nat
  BY DEF ListTyped, ListTypes, Known
<1>2. \A c \in calls : c.at \in Nat /\ c.at <= changes /\ c.served \in BOOLEAN /\ c.before \in Nat
          /\ c.next \in Nat
  BY DEF ListTyped, ListCallsOk, CallOk, ListCall
<1>3. \A e \in Pending : e.at \in Nat /\ e.at <= changes /\ e.at >= 1
  BY <1>1 DEF ListTyped, ListEvents, EventOk
<1> QED
  BY <1>1, <1>2, <1>3

LEMMA OutdoneStays ==
  ASSUME ListTyped, seen' \in Nat, changes' \in Nat, \A x \in calls' : x.at \in Nat, StaysPassed,
         view' = view \/ \E x \in calls' : x.kind = "replace" /\ ~x.served,
         NEW c, c.at \in Nat, Outdone(c)
  PROVE  Outdone(c)'
<1>1. Passed(c.at) => Passed(c.at)'
  BY PassedStays
<1>2. changes \in Nat /\ changes <= changes'
  BY ListFacts DEF StaysPassed
<1>3. CASE c.at < changes /\ c.view # view
  <2>1. c.at < changes'
    BY <1>2, <1>3
  <2>2. CASE view' = view
    BY <1>3, <2>1, <2>2 DEF Outdone
  <2>3. CASE \E x \in calls' : x.kind = "replace" /\ ~x.served
    BY <2>1, <2>3 DEF Outdone, Passed
  <2> QED
    BY <2>2, <2>3
<1> QED
  BY <1>1, <1>3 DEF Outdone

LEMMA ListInit == ASSUME ListAssumptions, List!Init PROVE ListInv
<1>1. PICK c : c = [ticket |-> 1, kind |-> "replace", view |-> "active", before |-> 0, ids |-> {},
                    served |-> FALSE, page |-> <<>>, next |-> 0, at |-> 0]
  OBVIOUS
<1>2. calls = {c} /\ c.kind = "replace" /\ ~c.served
  BY <1>1 DEF List!Init
<1>3. archived \in Seq(BOOLEAN) /\ Known = ListSeeded /\ Known \in Nat
  <2>1. archived \in [1..ListSeeded -> BOOLEAN] /\ ListSeeded \in Nat
    BY DEF List!Init, ListAssumptions
  <2> QED
    BY <2>1 DEF Known
<1>4. ListTypes
  <2>1. On(rows) = {}
    BY DEF List!Init, On
  <2>2. Known \in ListSeeded..ListRecords
    BY <1>3 DEF ListAssumptions
  <2>3. /\ changes = 0 /\ made = 1 /\ seen = 0 /\ view = "active" /\ rows = <<>> /\ cursor = 0
              /\ more = FALSE
        /\ fetching = TRUE /\ loading = TRUE /\ crossed = FALSE /\ overlapped = FALSE
              /\ misplaced = FALSE /\ gapped = FALSE
    BY DEF List!Init
  <2>4. rows \in Seq(Nat) /\ On(rows) \in SUBSET (1..Known) /\ cursor \in 0..Known
            /\ more = (cursor # 0) /\ seen \in 0..changes
    <3>1. <<>> \in Seq(Nat) /\ 0 \in 0..0 /\ 0 \in 0..Known
      BY <1>3
    <3>2. more = (cursor # 0)
      BY <2>3
    <3> QED
      BY <2>1, <2>3, <3>1, <3>2
  <2> QED
    BY <1>3, <2>2, <2>3, <2>4 DEF ListTypes, List!Views
<1>5. Pending = {} /\ ListEvents
  BY DEF List!Init, Pending, On, ListEvents
<1>6. CallOk(c, Known, changes, made)
  BY <1>1, <1>3 DEF List!Init, CallOk, ListCall, List!Pages, List!Views
<1>7. ListTyped
  BY <1>2, <1>4, <1>5, <1>6 DEF ListTyped, ListCallsOk
<1>8. OneFetch
  <2>1. On(rows) = {} /\ \A x : ~Before(rows, x, x)
    BY DEF List!Init, On, Before
  <2>2. fetching = TRUE
    BY DEF List!Init
  <2> QED
    BY <1>2, <2>1, <2>2 DEF OneFetch
<1>9. PagesSound /\ EventsSound /\ RowsSound
  BY <1>2, <1>5 DEF PagesSound, EventsSound, RowsSound, Settled
<1> QED
  BY <1>7, <1>8, <1>9 DEF ListInv

LEMMA NewCall ==
  ASSUME ListTyped, NEW k \in List!Pages \cup {"archive", "restore"}, NEW v \in List!Views,
         NEW b \in 0..Known, NEW ids \in SUBSET (1..Known), k \in List!Pages
             => (b = 0 <=> k # "append"),
         NEW n, n = List!Call(k, v, b, ids)
  PROVE  /\ CallOk(n, Known, changes, made + 1) /\ ~n.served
         /\ n.kind = k /\ n.view = v /\ n.before = b /\ n.ids = ids
<1>1. changes \in Nat /\ made \in Nat /\ Known \in Nat
  BY ListFacts
<1>2. /\ n.kind = k /\ n.view = v /\ n.before = b /\ n.ids = ids /\ n.served = FALSE /\ n.at = 0
      /\ n.page = <<>> /\ n.next = 0 /\ n.ticket = made + 1
  BY DEF List!Call
<1>3. ids \in SUBSET Nat
  BY <1>1
<1>4. n \in ListCall
  BY <1>1, <1>3 DEF List!Call, ListCall
<1> QED
  BY <1>1, <1>2, <1>4 DEF CallOk

\* A step that asks: a call is added, those whose answer asked are taken off.  An event
\* that is heard asks for a refresh of the view it is heard in.
Asking(n, off) ==
  /\ calls' = (calls \ off) \cup {n} /\ off \in SUBSET calls /\ \A c \in off : c.kind \notin List!Pages
  /\ CallOk(n, Known, changes, made') /\ ~n.served /\ made' = made + 1
  /\ archived' = archived /\ changes' = changes /\ rows' = rows /\ cursor' = cursor /\ more' = more
  /\ seen' = seen /\ crossed' = crossed /\ misplaced' = misplaced /\ gapped' = gapped
  /\ fetching' \in BOOLEAN /\ loading' \in BOOLEAN /\ overlapped' \in BOOLEAN /\ view' \in List!Views
  /\ (fetching => fetching') /\ (overlapped => overlapped')
  /\ (view' = view /\ off = {}) \/ n.kind = "replace"
  /\ n.kind \in Fetches => fetching' = TRUE
        /\ (overlapped' \/ \A c \in calls \ off : c.kind \notin Fetches)
  /\ n.kind = "append" => n.before = cursor /\ n.view = view'
  /\ events' \in Seq(ListEvent) /\ Pending' \in SUBSET Pending
  /\ \A e \in Pending : e \in Pending' \/ (view' = view /\ n.kind = "refresh" /\ n.view = view
        /\ Asks(e, view))

LEMMA AskingKeeps ==
  ASSUME ListInv, NEW n, NEW off, Asking(n, off)
  PROVE  ListInv'
<1> USE DEF Asking
<1>1. ListTyped /\ OneFetch /\ PagesSound /\ EventsSound /\ RowsSound
  BY DEF ListInv
<1>2. /\ changes \in Nat /\ made \in Nat /\ seen \in Nat /\ Known \in Nat /\ Known' = Known
      /\ \A c \in calls : c.at \in Nat /\ c.at <= changes /\ c.served \in BOOLEAN
      /\ \A e \in Pending : e.at \in Nat /\ e.at <= changes /\ e.at >= 1
  BY <1>1, ListFacts DEF Known
<1>3. ListTyped'
  <2>1. ListTypes'
    BY <1>1 DEF ListTyped, ListTypes, Known
  <2>2. ListEvents'
    BY <1>1, <1>2 DEF ListTyped, ListEvents
  <2>3. ASSUME NEW c \in calls' PROVE CallOk(c, Known, changes, made')
    <3>1. CASE c = n
      BY <3>1
    <3>2. CASE c \in calls
      <4>1. CallOk(c, Known, changes, made)
        BY <1>1, <3>2 DEF ListTyped, ListCallsOk
      <4> QED
        BY <1>2, <4>1, CallStays
    <3> QED
      BY <3>1, <3>2
  <2>4. ListCallsOk'
    BY <1>2, <2>3 DEF ListCallsOk
  <2> QED
    BY <2>1, <2>2, <2>4 DEF ListTyped
<1>4. seen' \in Nat /\ changes' \in Nat /\ n.at \in Nat /\ \A x \in calls' : x.at \in Nat
  <2>1. n.at \in Nat
    BY DEF CallOk, ListCall
  <2> QED
    BY <1>2, <2>1
<1>5. StaysPassed
  <2>1. \A d \in calls : d.kind = "replace" => d \in calls'
    BY DEF List!Pages
  <2>2. \A d \in calls : d.kind = "restore" => d \in calls' \/ (n.kind = "replace" /\ ~n.served)
    OBVIOUS
  <2> QED
    BY <1>2, <2>1, <2>2 DEF StaysPassed
<1>6. view' = view \/ \E x \in calls' : x.kind = "replace" /\ ~x.served
  OBVIOUS
<1>7. ASSUME NEW i, NEW v \in List!Views, NEW t \in Nat, Coming(i, v, t)
      PROVE  Coming(i, v, t)' \/ (t < changes /\ v # view /\ view' = view)
  <2>1. ASSUME NEW e \in Pending, Asks(e, v), e.at > t
               PROVE Coming(i, v, t)' \/ (t < changes /\ v # view /\ view' = view)
    <3>1. t < changes
      BY <1>2, <2>1
    <3>2. CASE e \in Pending'
      BY <2>1, <3>2 DEF Coming
    <3>3. CASE v = view /\ n.kind = "refresh" /\ n.view = view
      <4>1. Brings(n, i, v, t)'
        BY <3>1, <3>3 DEF Brings
      <4> QED
        BY <4>1 DEF Coming
    <3> QED
      BY <3>1, <3>2, <3>3
  <2>2. ASSUME NEW d \in calls, Brings(d, i, v, t) PROVE Coming(i, v, t)'
    <3>1. d \in calls'
      BY <2>2 DEF Brings, List!Pages
    <3>2. Brings(d, i, v, t)'
      BY <2>2 DEF Brings, Has
    <3> QED
      BY <3>1, <3>2 DEF Coming
  <2> QED
    BY <1>7, <2>1, <2>2 DEF Coming
<1>8. ASSUME NEW i, NEW t \in Nat, Leaving(i, t)
      PROVE  Leaving(i, t)' \/ (t < changes /\ view = "archived" /\ view' = view)
  <2>1. PICK e \in Pending : e.kind = "archived" /\ i \in e.ids /\ e.at > t
    BY <1>8 DEF Leaving
  <2>2. t < changes
    BY <1>2, <2>1
  <2>3. e \in Pending' \/ (view' = view /\ view = "archived")
    BY <2>1 DEF Asks
  <2> QED
    BY <2>1, <2>2, <2>3 DEF Leaving
<1>9. OneFetch'
  <2> SUFFICES ASSUME ~overlapped' PROVE OneFetch'
    BY DEF OneFetch
  <2>1. /\ \A c, d \in calls : c.kind \in Fetches /\ d.kind \in Fetches => c = d
        /\ \A c \in calls : /\ c.kind \in Fetches => fetching = TRUE
                            /\ c.kind = "append" => c.before = cursor /\ c.view = view
        /\ \A x : ~Before(rows, x, x)
        /\ \A i \in On(rows) : i >= cursor
    BY <1>1 DEF OneFetch
  <2>2. \A c, d \in calls' : c.kind \in Fetches /\ d.kind \in Fetches => c = d
    BY <2>1
  <2>3. \A c \in calls' : c.kind \in Fetches => fetching' = TRUE
    BY <2>1
  <2>4. \A c \in calls' : c.kind = "append" => c.before = cursor' /\ c.view = view'
    <3> SUFFICES ASSUME NEW c \in calls', c.kind = "append" PROVE c.before = cursor' /\ c.view = view'
      OBVIOUS
    <3>1. CASE c = n
      BY <3>1
    <3>2. CASE c \in calls \ off
      <4>1. n.kind # "replace"
        BY <3>2 DEF Fetches
      <4> QED
        BY <2>1, <3>2, <4>1
    <3> QED
      BY <3>1, <3>2
  <2> QED
    BY <2>1, <2>2, <2>3, <2>4 DEF OneFetch
<1>10. ASSUME Straight', NEW c \in calls', c.kind \in List!Pages, c.served, ~Outdone(c)'
       PROVE  Sound(c)'
  <2>1. c \in calls /\ c.view \in List!Views /\ c.at \in Nat
    BY <1>1, <1>10 DEF ListTyped, ListCallsOk, CallOk, ListCall
  <2>2. Sound(c)
    <3>1. Straight
      BY <1>10 DEF Straight
    <3>2. ~Outdone(c)
      BY <1>1, <1>4, <1>5, <1>6, <1>10, <2>1, OutdoneStays
    <3> QED
      BY <1>1, <1>10, <2>1, <3>1, <3>2 DEF PagesSound
  <2>3. c.at < changes => c.view = view'
    BY <1>10 DEF Outdone
  <2>4. \A v : Current(v)' = Current(v)
    BY DEF Current, Known
  <2>5. ASSUME NEW i \in On(c.page) PROVE i \in Current(c.view)
               \/ (c.view = "active" /\ Leaving(i, c.at)')
    <3>1. i \in Current(c.view) \/ (c.view = "active" /\ Leaving(i, c.at))
      BY <2>2 DEF Sound
    <3>2. c.view = "active" /\ Leaving(i, c.at) => Leaving(i, c.at)'
      BY <1>8, <2>1, <2>3
    <3> QED
      BY <3>1, <3>2
  <2>6. ASSUME NEW i \in Sought(c) PROVE Has(c, i)
               \/ (Coming(i, c.view, c.at)' /\ (c.view = "active" => Newer(c, i)'))
    <3>1. Has(c, i) \/ (Coming(i, c.view, c.at) /\ (c.view = "active" => Newer(c, i)))
      BY <2>2 DEF Sound
    <3>2. Coming(i, c.view, c.at) => Coming(i, c.view, c.at)'
      BY <1>7, <2>1, <2>3
    <3>3. Newer(c, i) => Newer(c, i)'
      BY DEF Newer
    <3> QED
      BY <3>1, <3>2, <3>3
  <2>7. Sought(c)' = Sought(c) /\ \A i : Has(c, i)' <=> Has(c, i)
    BY <2>4 DEF Sought, Has
  <2> QED
    BY <2>4, <2>5, <2>6, <2>7 DEF Sound
<1>11. PagesSound'
  BY <1>10 DEF PagesSound
<1>12. EventsSound'
  <2> SUFFICES ASSUME NEW e \in Pending', e.kind = "archived"
          PROVE Passed(e.at)' \/ e.ids \in SUBSET Current("archived")'
    BY DEF EventsSound
  <2>1. Passed(e.at) \/ e.ids \in SUBSET Current("archived")
    BY <1>1 DEF EventsSound
  <2>2. Current("archived")' = Current("archived")
    BY DEF Current, Known
  <2>3. Passed(e.at) => Passed(e.at)'
    BY <1>1, <1>2, <1>4, <1>5, PassedStays
  <2> QED
    BY <2>1, <2>2, <2>3
<1>13. RowsSound'
  <2> SUFFICES ASSUME Straight', Settled' PROVE (view = "active" => RowsAreActive)'
          /\ (view = "archived" => RowsAreArchived)'
    BY DEF RowsSound
  <2>1. n.kind # "replace" /\ view' = view /\ off = {}
    BY DEF Settled
  <2>2. Straight /\ Settled
    BY <2>1 DEF Straight, Settled
  <2>3. \A v : Current(v)' = Current(v)
    BY DEF Current, Known
  <2>4. CASE view = "active"
    <3>1. RowsAreActive
      BY <1>1, <2>2, <2>4 DEF RowsSound
    <3>2. \A i : Leaving(i, 0) => Leaving(i, 0)'
      BY <1>8, <2>4
    <3>3. \A i : (\E t \in Nat : Coming(i, "active", t)) => (\E t \in Nat : Coming(i, "active", t)')
      BY <1>7, <2>4 DEF List!Views
    <3>4. RowsAreActive'
      BY <2>3, <3>1, <3>2, <3>3 DEF RowsAreActive
    <3> QED
      BY <2>1, <2>4, <3>4
  <2>5. CASE view = "archived"
    <3>1. RowsAreArchived
      BY <1>1, <2>2, <2>5 DEF RowsSound
    <3>3. \A i : (\E t \in Nat : Coming(i, "archived", t)) => (\E t \in Nat : Coming(i, "archived", t)')
      BY <1>7, <2>5 DEF List!Views
    <3>4. RowsAreArchived'
      BY <2>3, <3>1, <3>3 DEF RowsAreArchived
    <3> QED
      BY <2>1, <2>5, <3>4
  <2> QED
    BY <2>1, <2>4, <2>5
<1> QED
  BY <1>3, <1>9, <1>11, <1>12, <1>13 DEF ListInv

LEMMA FetchAsks ==
  ASSUME ListInv, NEW off \in SUBSET calls, \A c \in off : c.kind \notin List!Pages,
         NEW k \in Fetches, NEW v \in List!Views, NEW b \in 0..Known, b = 0 <=> k # "append",
         List!Fetch(calls \ off, k, v, b), view' \in List!Views, (view' = view /\ off = {})
             \/ k = "replace",
         k = "append" => ~fetching /\ b = cursor /\ v = view,
         UNCHANGED <<archived, changes, events, rows, cursor, more, seen, crossed, misplaced, gapped>>
  PROVE  ListInv'
<1>1. ListTyped /\ OneFetch /\ k \in List!Pages
  BY DEF ListInv, Fetches, List!Pages
<1>2. PICK n : n = List!Call(k, v, b, {})
  OBVIOUS
<1>3. CallOk(n, Known, changes, made + 1) /\ ~n.served /\ n.kind = k /\ n.view = v /\ n.before = b
  <2>1. {} \in SUBSET (1..Known)
    OBVIOUS
  <2> QED
    BY <1>1, <1>2, <2>1, NewCall
<1>4. /\ calls' = (calls \ off) \cup {n} /\ made' = made + 1 /\ fetching' = TRUE /\ loading' = TRUE
      /\ overlapped' = (overlapped \/ (k = "replace" /\ \E c \in calls \ off :
            c.kind \in {"replace", "append"}))
  BY <1>2 DEF List!Fetch
<1>5. /\ archived' = archived /\ changes' = changes /\ events' = events /\ rows' = rows
            /\ cursor' = cursor
      /\ more' = more /\ seen' = seen /\ crossed' = crossed /\ misplaced' = misplaced
            /\ gapped' = gapped
  OBVIOUS
<1>6. events \in Seq(ListEvent) /\ overlapped \in BOOLEAN
  BY <1>1 DEF ListTyped, ListEvents, ListTypes
<1>7. overlapped' \/ \A c \in calls \ off : c.kind \notin Fetches
  <2>1. CASE k = "replace"
    BY <1>4, <2>1 DEF Fetches
  <2>2. CASE k = "append"
    <3>1. ~overlapped => \A c \in calls : c.kind \notin Fetches
      BY <1>1, <2>2 DEF OneFetch
    <3> QED
      BY <1>4, <3>1
  <2> QED
    BY <2>1, <2>2 DEF Fetches
<1>8. Asking(n, off)
  <2>1. Pending' = Pending
    BY <1>5 DEF Pending
  <2>2. overlapped' \in BOOLEAN /\ (overlapped => overlapped')
    BY <1>4, <1>6
  <2>3. made' = made + 1 /\ CallOk(n, Known, changes, made')
    BY <1>3, <1>4
  <2>4. /\ n.kind \in Fetches => fetching' = TRUE
              /\ (overlapped' \/ \A c \in calls \ off : c.kind \notin Fetches)
        /\ n.kind = "append" => n.before = cursor /\ n.view = view'
        /\ (view' = view /\ off = {}) \/ n.kind = "replace"
    <3>1. n.kind = "append" => n.before = cursor /\ n.view = view'
      BY <1>3
    <3> QED
      BY <1>3, <1>4, <1>7, <3>1
  <2> HIDE DEF Fetches
  <2> QED
    BY <1>3, <1>4, <1>5, <1>6, <2>1, <2>2, <2>3, <2>4 DEF Asking
<1> QED
  BY <1>8, AskingKeeps

LEMMA LoadMoreKeeps ==
  ASSUME ListInv, List!LoadMore PROVE ListInv'
<1>1. cursor \in 0..Known /\ cursor # 0 /\ view \in List!Views
  BY DEF ListInv, ListTyped, ListTypes, List!LoadMore
<1>2. /\ List!Fetch(calls \ {}, "append", view, cursor) /\ ~fetching /\ view' = view
      /\ UNCHANGED <<archived, changes, events, rows, cursor, more, seen, crossed, misplaced, gapped>>
  <2>1. calls \ {} = calls
    OBVIOUS
  <2> QED
    BY <2>1 DEF List!LoadMore, List!store
<1>3. "append" \in Fetches /\ {} \in SUBSET calls
  BY DEF Fetches
<1> QED
  BY <1>1, <1>2, <1>3, FetchAsks

LEMMA SwitchViewKeeps ==
  ASSUME ListInv, NEW v \in List!Views, List!SwitchView(v) PROVE ListInv'
<1>1. 0 \in 0..Known
  <2>1. Known \in Nat
    BY ListFacts DEF ListInv
  <2> QED
    BY <2>1
<1>2. /\ List!Fetch(calls \ {}, "replace", v, 0) /\ view' = v
      /\ UNCHANGED <<archived, changes, events, rows, cursor, more, seen, crossed, misplaced, gapped>>
  <2>1. calls \ {} = calls
    OBVIOUS
  <2> QED
    BY <2>1 DEF List!SwitchView, List!store
<1>3. "replace" \in Fetches /\ {} \in SUBSET calls
  BY DEF Fetches
<1> QED
  BY <1>1, <1>2, <1>3, FetchAsks

LEMMA BulkDoneKeeps ==
  ASSUME ListInv, NEW c \in calls, List!BulkDone(c) PROVE ListInv'
<1>1. 0 \in 0..Known /\ view \in List!Views /\ c.view \in List!Views
  <2>1. Known \in Nat
    BY ListFacts DEF ListInv
  <2> QED
    BY <2>1 DEF ListInv, ListTyped, ListTypes, ListCallsOk, CallOk, ListCall
<1>2. /\ List!Fetch(calls \ {c}, "replace", c.view, 0) /\ view' = view /\ c.kind \notin List!Pages
      /\ UNCHANGED <<archived, changes, events, rows, cursor, more, seen, crossed, misplaced, gapped>>
  BY DEF List!BulkDone, List!store, List!Pages
<1>3. "replace" \in Fetches /\ {c} \in SUBSET calls
  BY DEF Fetches
<1> QED
  BY <1>1, <1>2, <1>3, FetchAsks

LEMMA BulkKeeps ==
  ASSUME ListInv, NEW ids \in SUBSET On(rows), List!Bulk(ids) PROVE ListInv'
<1>1. ListTyped /\ view \in List!Views /\ ids \in SUBSET (1..Known) /\ 0 \in 0..Known
  <2>1. Known \in Nat
    BY ListFacts DEF ListInv
  <2> QED
    BY <2>1 DEF ListInv, ListTyped, ListTypes
<1>2. PICK k \in {"archive", "restore"} : k = IF view = "active" THEN "archive" ELSE "restore"
  OBVIOUS
<1>3. PICK n : n = List!Call(k, view, 0, ids)
  OBVIOUS
<1>4. CallOk(n, Known, changes, made + 1) /\ ~n.served /\ n.kind = k
  BY <1>1, <1>2, <1>3, NewCall DEF List!Pages
<1>5. calls' = (calls \ {}) \cup {n} /\ made' = made + 1
  BY <1>2, <1>3 DEF List!Bulk
<1>6. /\ archived' = archived /\ changes' = changes /\ events' = events /\ rows' = rows
            /\ cursor' = cursor
      /\ more' = more /\ seen' = seen /\ crossed' = crossed /\ misplaced' = misplaced
            /\ gapped' = gapped
      /\ fetching' = fetching /\ loading' = loading /\ overlapped' = overlapped /\ view' = view
  BY DEF List!Bulk, List!store, List!list, List!history
<1>7. events \in Seq(ListEvent) /\ overlapped \in BOOLEAN /\ fetching \in BOOLEAN /\ loading \in BOOLEAN
  BY <1>1 DEF ListTyped, ListEvents, ListTypes
<1>8. n.kind \notin Fetches /\ n.kind # "append"
  BY <1>4 DEF Fetches
<1>9. Asking(n, {})
  <2>1. Pending' = Pending
    BY <1>6 DEF Pending
  <2> QED
    BY <1>1, <1>4, <1>5, <1>6, <1>7, <1>8, <2>1 DEF Asking
<1> QED
  BY <1>9, AskingKeeps

\* An event that asks for a refresh of the view.
LEMMA EventAsks ==
  ASSUME ListInv, List!EventArrives, ~(Head(events).kind = "archived" /\ view = "active")
  PROVE  ListInv'
<1>1. ListTyped /\ view \in List!Views /\ 0 \in 0..Known /\ {} \in SUBSET (1..Known)
  <2>1. Known \in Nat
    BY ListFacts DEF ListInv
  <2> QED
    BY <2>1 DEF ListInv, ListTyped, ListTypes
<1>2. PICK n : n = List!Call("refresh", view, 0, {})
  OBVIOUS
<1>3. CallOk(n, Known, changes, made + 1) /\ ~n.served /\ n.kind = "refresh" /\ n.view = view
  <2>1. "refresh" \in List!Pages
    BY DEF List!Pages
  <2> QED
    BY <1>1, <1>2, <2>1, NewCall
<1>4. calls' = (calls \ {}) \cup {n} /\ made' = made + 1 /\ events # <<>> /\ events' = Tail(events)
  BY <1>2 DEF List!EventArrives
<1>5. /\ archived' = archived /\ changes' = changes /\ rows' = rows /\ cursor' = cursor
      /\ more' = more /\ seen' = seen /\ crossed' = crossed /\ misplaced' = misplaced
            /\ gapped' = gapped
      /\ fetching' = fetching /\ loading' = loading /\ overlapped' = overlapped /\ view' = view
  BY DEF List!EventArrives, List!store
<1>6. events \in Seq(ListEvent) /\ overlapped \in BOOLEAN /\ fetching \in BOOLEAN /\ loading \in BOOLEAN
  BY <1>1 DEF ListTyped, ListEvents, ListTypes
<1>7. n.kind \notin Fetches /\ n.kind # "append"
  BY <1>3 DEF Fetches
<1>8. Asks(Head(events), view)
  <2>1. Head(events) \in ListEvent
    BY <1>4, <1>6
  <2> QED
    BY <1>1, <2>1 DEF Asks, ListEvent, List!Views
<1>9. /\ events' \in Seq(ListEvent) /\ Pending' \in SUBSET Pending
      /\ \A e \in Pending : e = Head(events) \/ e \in Pending'
  BY <1>4, <1>6, Heard DEF Pending
<1>10. Asking(n, {})
  BY <1>1, <1>3, <1>4, <1>5, <1>6, <1>7, <1>8, <1>9 DEF Asking
<1> QED
  BY <1>10, AskingKeeps

\* The records after one more is written.
LEMMA Written ==
  ASSUME ListTyped, archived' = Append(archived, FALSE)
  PROVE  /\ archived' \in Seq(BOOLEAN) /\ Known' = Known + 1
         /\ Current("active")' = Current("active") \cup {Known + 1}
               /\ Current("archived")' = Current("archived")
<1>1. archived \in Seq(BOOLEAN) /\ Known \in Nat
  BY ListFacts DEF ListTyped, ListTypes
<1>2. PICK a : a = Append(archived, FALSE)
  OBVIOUS
<1>3. a \in Seq(BOOLEAN) /\ Len(a) = Known + 1 /\ a[Known + 1] = FALSE /\ \A i \in 1..Known :
          a[i] = archived[i]
  BY <1>1, <1>2 DEF Known
<1>4. \A i : i \in 1..(Known + 1) <=> (i \in 1..Known \/ i = Known + 1)
  BY <1>1
<1>5. Current("active")' = {i \in 1..(Known + 1) : a[i] = FALSE}
          /\ Current("active") = {i \in 1..Known : archived[i] = FALSE}
  BY <1>2, <1>3 DEF Current, Known
<1>6. Current("archived")' = {i \in 1..(Known + 1) : a[i] = TRUE}
          /\ Current("archived") = {i \in 1..Known : archived[i] = TRUE}
  BY <1>2, <1>3 DEF Current, Known
<1> QED
  BY <1>2, <1>3, <1>4, <1>5, <1>6 DEF Known

\* A step of the store that is announced: a record is written, or some are archived.
Announcing(e) ==
  /\ changes' = changes + 1 /\ events' = Append(events, e) /\ e.at = changes + 1 /\ e \in ListEvent
  /\ archived' \in Seq(BOOLEAN) /\ Known' \in ListSeeded..ListRecords
  /\ e.ids \in SUBSET (1..Known')
  /\ \/ /\ e.kind = "push" /\ e.ids = {} /\ Known' = Known + 1
        /\ Current("active")' = Current("active") \cup {Known + 1}
              /\ Current("archived")' = Current("archived")
     \/ /\ e.kind = "archived" /\ Known' = Known
        /\ Current("active")' = Current("active") \ e.ids
              /\ Current("archived")' = Current("archived") \cup e.ids
  /\ \A c \in calls : c.kind # "archive" => c \in calls'
  /\ \A c \in calls' : (c.kind # "archive" => c \in calls) /\ CallOk(c, Known', changes', made)
  /\ view' = view /\ made' = made /\ rows' = rows /\ cursor' = cursor /\ more' = more
        /\ fetching' = fetching
  /\ loading' = loading /\ seen' = seen /\ crossed' = crossed /\ overlapped' = overlapped
  /\ misplaced' = misplaced /\ gapped' = gapped

LEMMA AnnouncingKeeps ==
  ASSUME ListInv, NEW e, Announcing(e)
  PROVE  ListInv'
<1>1. ListTyped /\ OneFetch /\ PagesSound /\ EventsSound /\ RowsSound
  BY DEF ListInv
<1>2. /\ changes \in Nat /\ made \in Nat /\ seen \in Nat /\ seen <= changes /\ Known \in Nat
      /\ \A c \in calls : c.at \in Nat /\ c.at <= changes /\ c.served \in BOOLEAN /\ c.before \in Nat
      /\ \A x \in Pending : x.at \in Nat /\ x.at <= changes /\ x.at >= 1
  BY <1>1, ListFacts
<1>3. /\ changes' = changes + 1 /\ e.at = changes + 1 /\ Known' \in Nat /\ Known <= Known'
      /\ view' = view /\ rows' = rows /\ cursor' = cursor /\ seen' = seen
      /\ \A c \in calls : c.kind # "archive" => c \in calls'
      /\ \A c \in calls' : c.kind # "archive" => c \in calls
  <2>1. Known' = Known \/ Known' = Known + 1
    BY DEF Announcing
  <2> QED
    BY <1>2, <2>1 DEF Announcing
<1>4. Pending' = Pending \cup {e} /\ events' \in Seq(ListEvent)
  BY <1>1, Announced DEF ListTyped, ListEvents, Pending, Announcing
<1>5. ListTyped'
  <2>1. On(rows) \in SUBSET (1..Known') /\ cursor \in 0..Known' /\ seen \in 0..changes'
    BY <1>1, <1>2, <1>3 DEF ListTyped, ListTypes
  <2>2. ListTypes'
    BY <1>1, <2>1 DEF ListTyped, ListTypes, Announcing, Known
  <2>3. ASSUME NEW x \in Pending' PROVE EventOk(x, Known', changes')
    <3>1. CASE x \in Pending
      <4>1. EventOk(x, Known, changes)
        BY <1>1, <3>1 DEF ListTyped, ListEvents
      <4> QED
        BY <1>2, <1>3, <4>1, EventStays
    <3>2. CASE x = e
      BY <1>2, <1>3, <3>2 DEF EventOk, Announcing
    <3> QED
      BY <1>4, <3>1, <3>2
  <2>4. ListEvents'
    BY <1>4, <2>3 DEF ListEvents
  <2>5. ListCallsOk'
    BY DEF ListCallsOk, Announcing
  <2> QED
    BY <2>2, <2>4, <2>5 DEF ListTyped
<1>6. seen' \in Nat /\ changes' \in Nat /\ \A x \in calls' : x.at \in Nat
  <2>1. \A x \in calls' : x.at \in Nat
    BY DEF Announcing, CallOk, ListCall
  <2> QED
    BY <1>2, <1>3, <2>1
<1>7. StaysPassed
  BY <1>2, <1>3 DEF StaysPassed
<1>8. \A i, v, t : t \in Nat /\ Coming(i, v, t) => Coming(i, v, t)'
  <2>1. \A i, v : StaysComing(i, v)
    BY <1>2, <1>3, <1>4 DEF StaysComing
  <2> QED
    BY <1>1, <1>6, <2>1, ComingStays
<1>9. \A i, t : Leaving(i, t) => Leaving(i, t)'
  BY <1>4 DEF Leaving
<1>10. \A t \in Nat : t <= changes => (\A i, v : Asks(e, v) => Coming(i, v, t)')
                                      /\ (\A i : e.kind = "archived" /\ i \in e.ids => Leaving(i, t)')
  <2>1. \A t \in Nat : t <= changes => e.at > t
    BY <1>2, <1>3
  <2> QED
    BY <1>4, <2>1 DEF Coming, Leaving, Asks
<1>11. /\ \A i \in Current("active")' : i \in Current("active") \/ (e.kind = "push" /\ i = Known + 1)
       /\ \A i \in Current("active") : i \in Current("active")' \/ (e.kind = "archived" /\ i \in e.ids)
       /\ Current("archived") \in SUBSET Current("archived")'
       /\ \A i \in Current("archived")' : i \in Current("archived") \/ e.kind = "archived"
  BY DEF Announcing
<1>12. OneFetch'
  <2>1. overlapped' = overlapped /\ fetching' = fetching
    BY DEF Announcing
  <2> SUFFICES ASSUME ~overlapped' PROVE OneFetch'
    BY DEF OneFetch
  <2>2. /\ \A c, d \in calls' : c.kind \in Fetches /\ d.kind \in Fetches => c = d
        /\ \A c \in calls' : /\ c.kind \in Fetches => fetching' = TRUE
                             /\ c.kind = "append" => c.before = cursor' /\ c.view = view'
    BY <1>1, <1>3, <2>1 DEF OneFetch, Fetches
  <2> QED
    BY <1>1, <1>3, <2>1, <2>2 DEF OneFetch
<1>13. EventsSound'
  <2> SUFFICES ASSUME NEW x \in Pending', x.kind = "archived"
          PROVE Passed(x.at)' \/ x.ids \in SUBSET Current("archived")'
    BY DEF EventsSound
  <2>1. CASE x = e
    BY <2>1 DEF Announcing
  <2>2. CASE x \in Pending
    <3>1. Passed(x.at) \/ x.ids \in SUBSET Current("archived")
      BY <1>1, <2>2 DEF EventsSound
    <3>2. Passed(x.at) => Passed(x.at)'
      BY <1>1, <1>2, <1>6, <1>7, <2>2, PassedStays
    <3> QED
      BY <1>11, <3>1, <3>2
  <2> QED
    BY <1>4, <2>1, <2>2
<1>14. ASSUME Straight', NEW c \in calls', c.kind \in List!Pages, c.served, ~Outdone(c)'
       PROVE  Sound(c)'
  <2>1. c \in calls /\ c.view \in List!Views /\ c.at \in Nat /\ c.at <= changes
    <3>1. c \in calls
      BY <1>3, <1>14 DEF List!Pages
    <3> QED
      BY <1>1, <1>2, <3>1 DEF ListTyped, ListCallsOk, CallOk, ListCall
  <2>2. Sound(c)
    <3>1. Straight
      BY <1>14 DEF Straight, Announcing
    <3>2. ~Outdone(c)
      BY <1>1, <1>3, <1>6, <1>7, <1>14, <2>1, OutdoneStays
    <3> QED
      BY <1>1, <1>14, <2>1, <3>1, <3>2 DEF PagesSound
  <2>3. ASSUME NEW i \in On(c.page) PROVE i \in Current(c.view)'
               \/ (c.view = "active" /\ Leaving(i, c.at)')
    <3>1. i \in Current(c.view) \/ (c.view = "active" /\ Leaving(i, c.at))
      BY <2>2 DEF Sound
    <3>2. CASE c.view = "active"
      BY <1>9, <1>10, <1>11, <2>1, <3>1, <3>2
    <3>3. CASE c.view = "archived"
      BY <1>11, <3>1, <3>3
    <3> QED
      BY <2>1, <3>2, <3>3 DEF List!Views
  <2>4. ASSUME NEW i \in Current(c.view), Newer(c, i) PROVE Newer(c, i)'
    <3>1. \A d \in calls' : d.kind \in List!Pages => d \in calls
      BY <1>3 DEF List!Pages
    <3> QED
      BY <1>3, <2>4, <3>1 DEF Newer
  <2>5. ASSUME NEW i \in Sought(c)' PROVE Has(c, i)
               \/ (Coming(i, c.view, c.at)' /\ (c.view = "active" => Newer(c, i)'))
    <3>0. i \in Current(c.view)' /\ (c.before = 0 \/ i < c.before)
      BY DEF Sought
    <3>1. CASE i \in Current(c.view)
      <4>1. i \in Sought(c)
        BY <3>0, <3>1 DEF Sought
      <4>2. Has(c, i) \/ (Coming(i, c.view, c.at) /\ (c.view = "active" => Newer(c, i)))
        BY <2>2, <4>1 DEF Sound
      <4> QED
        BY <1>8, <2>1, <2>4, <3>1, <4>2
    <3>2. CASE i \notin Current(c.view) /\ c.view = "archived"
      <4>1. Asks(e, "archived")
        BY DEF Asks
      <4> QED
        BY <1>10, <2>1, <3>2, <4>1
    <3>3. CASE i \notin Current(c.view) /\ c.view = "active"
      <4>1. i = Known + 1 /\ e.kind = "push"
        BY <1>11, <3>0, <3>3
      <4>2. Coming(i, c.view, c.at)'
        BY <1>10, <2>1, <4>1 DEF Asks
      <4>3. \A d \in calls : CallOk(d, Known, changes, made)
        BY <1>1 DEF ListTyped, ListCallsOk
      <4>4. c.before = 0
        <5>1. c.before <= Known
          BY <2>1, <4>3 DEF CallOk
        <5> QED
          BY <1>2, <2>1, <3>0, <4>1, <5>1
      <4>5. \A d \in calls : d.kind \in List!Pages /\ d.served => On(d.page) \in SUBSET (1..Known)
        BY <4>3 DEF CallOk, PageOk
      <4>6. On(rows) \in SUBSET (1..Known)
        BY <1>1 DEF ListTyped, ListTypes
      <4>7. i \notin 1..Known /\ \A p \in 1..Known : p < i
        BY <1>2, <4>1
      <4>8. \A d \in calls' : d.kind \in List!Pages /\ d.served => d \in calls /\ i \notin On(d.page)
        BY <1>3, <4>5, <4>7 DEF List!Pages
      <4>9. i \notin On(rows') /\ \A p \in On(c.page) : p < i
        BY <1>3, <1>14, <2>1, <4>5, <4>6, <4>7
      <4>10. Newer(c, i)'
        BY <4>4, <4>8, <4>9 DEF Newer
      <4> QED
        BY <4>2, <4>10
    <3> QED
      BY <2>1, <3>1, <3>2, <3>3 DEF List!Views
  <2>6. \A i : Has(c, i)' <=> Has(c, i)
    BY DEF Has
  <2> QED
    BY <2>3, <2>5, <2>6 DEF Sound
<1>15. PagesSound'
  BY <1>14 DEF PagesSound
<1>16. RowsSound'
  <2> SUFFICES ASSUME Straight', Settled' PROVE (view = "active" => RowsAreActive)'
          /\ (view = "archived" => RowsAreArchived)'
    BY DEF RowsSound
  <2>1. Straight /\ Settled
    <3>1. Straight
      BY DEF Straight, Announcing
    <3>2. Settled
      BY <1>3 DEF Settled
    <3> QED
      BY <3>1, <3>2
  <2>2. On(rows) \in SUBSET (1..Known) /\ 0 \in Nat /\ 0 <= changes
    BY <1>1, <1>2 DEF ListTyped, ListTypes
  <2>3. CASE view = "active"
    <3>1. RowsAreActive
      BY <1>1, <2>1, <2>3 DEF RowsSound
    <3>2. \A i \in On(rows) : i \in Current("active")' \/ Leaving(i, 0)'
      BY <1>9, <1>10, <1>11, <2>2, <3>1 DEF RowsAreActive
    <3>3. \A i \in On(rows) : i \in Current("active")' => i \in Current("active")
      <4>1. Known + 1 \notin On(rows)
        BY <1>2, <2>2
      <4> QED
        BY <1>11, <4>1
    <3>4. ASSUME NEW x \in Current("active")', NEW y \in Current("active")', Before(rows, x, y)
                 PROVE x > y
      <4>1. x \in On(rows) /\ y \in On(rows)
        BY <3>4, BeforeOn
      <4> QED
        BY <3>1, <3>3, <3>4, <4>1 DEF RowsAreActive
    <3>5. ASSUME ~gapped, NEW i \in Current("active")', i >= cursor, i \notin On(rows)
          PROVE  (\A r \in On(rows) : r < i) /\ \E t \in Nat : Coming(i, "active", t)'
      <4>1. CASE i \in Current("active")
        <5>1. PICK t \in Nat : (\A r \in On(rows) : r < i) /\ Coming(i, "active", t)
          BY <3>1, <3>5, <4>1 DEF RowsAreActive
        <5> QED
          BY <1>8, <5>1
      <4>2. CASE e.kind = "push" /\ i = Known + 1
        <5>1. \A r \in 1..Known : r < i
          BY <1>2, <4>2
        <5>2. Coming(i, "active", 0)'
          BY <1>10, <2>2, <4>2 DEF Asks
        <5> QED
          BY <2>2, <5>1, <5>2
      <4> QED
        BY <1>11, <4>1, <4>2
    <3>6. gapped' = gapped
      BY DEF Announcing
    <3>7. RowsAreActive'
      BY <1>3, <3>2, <3>4, <3>5, <3>6 DEF RowsAreActive
    <3> QED
      BY <1>3, <2>3, <3>7
  <2>4. CASE view = "archived"
    <3>1. RowsAreArchived
      BY <1>1, <2>1, <2>4 DEF RowsSound
    <3>2. On(rows) \in SUBSET Current("archived")'
      BY <1>11, <3>1 DEF RowsAreArchived
    <3>3. ASSUME NEW i PROVE \E t \in Nat : Coming(i, "archived", t)'
      <4>1. Coming(i, "archived", 0)'
        BY <1>10, <2>2 DEF Asks
      <4> QED
        BY <2>2, <4>1
    <3>4. RowsAreArchived'
      BY <1>3, <3>2, <3>3 DEF RowsAreArchived
    <3> QED
      BY <1>3, <2>4, <3>4
  <2>5. view \in List!Views
    BY <1>1 DEF ListTyped, ListTypes
  <2> QED
    BY <1>3, <2>3, <2>4, <2>5 DEF List!Views
<1> QED
  BY <1>5, <1>12, <1>13, <1>15, <1>16 DEF ListInv

LEMMA RecordKeeps ==
  ASSUME ListAssumptions, ListInv, List!Record PROVE ListInv'
<1>1. ListTyped /\ changes \in Nat /\ made \in Nat /\ Known \in Nat /\ Known \in ListSeeded..ListRecords
  BY ListFacts DEF ListInv, ListTyped, ListTypes
<1>2. PICK e : e = [kind |-> "push", ids |-> {}, at |-> changes + 1]
  OBVIOUS
<1>3. e \in ListEvent /\ e.kind = "push" /\ e.ids = {} /\ e.at = changes + 1
  <2>1. {} \in SUBSET Nat /\ changes + 1 \in Nat
    BY <1>1
  <2> QED
    BY <1>2, <2>1 DEF ListEvent
<1>4. /\ archived' = Append(archived, FALSE) /\ changes' = changes + 1
            /\ events' = Append(events, e) /\ Known < ListRecords
      /\ calls' = calls /\ made' = made /\ view' = view /\ rows' = rows /\ cursor' = cursor
            /\ more' = more
      /\ fetching' = fetching /\ loading' = loading /\ seen' = seen /\ crossed' = crossed
      /\ overlapped' = overlapped /\ misplaced' = misplaced /\ gapped' = gapped
  BY <1>2 DEF List!Record, List!list, List!history, Known
<1>5. /\ archived' \in Seq(BOOLEAN) /\ Known' = Known + 1
      /\ Current("active")' = Current("active") \cup {Known + 1}
            /\ Current("archived")' = Current("archived")
  BY <1>1, <1>4, Written
<1>6. Known' \in ListSeeded..ListRecords
  BY <1>1, <1>4, <1>5 DEF ListAssumptions
<1>7. \A c \in calls : CallOk(c, Known', changes', made)
  <2> SUFFICES ASSUME NEW c \in calls PROVE CallOk(c, Known', changes', made)
    OBVIOUS
  <2>1. CallOk(c, Known, changes, made)
    BY <1>1 DEF ListTyped, ListCallsOk
  <2>2. Known' \in Nat /\ changes' \in Nat /\ Known <= Known' /\ changes <= changes' /\ made <= made
    BY <1>1, <1>4, <1>5
  <2> QED
    BY <1>1, <2>1, <2>2, CallStays
<1>8. Announcing(e)
  BY <1>3, <1>4, <1>5, <1>6, <1>7 DEF Announcing
<1> QED
  BY <1>8, AnnouncingKeeps

\* The records after some are archived, or restored.
LEMMA Moved ==
  ASSUME ListTyped, NEW ids \in SUBSET (1..Known), NEW b \in BOOLEAN,
         archived' = [i \in 1..Known |-> IF i \in ids THEN b ELSE archived[i]]
  PROVE  /\ archived' \in Seq(BOOLEAN) /\ Known' = Known
         /\ b => Current("active")' = Current("active") \ ids
               /\ Current("archived")' = Current("archived") \cup ids
<1>1. archived \in Seq(BOOLEAN) /\ Known \in Nat /\ \A i \in 1..Known : archived[i] \in BOOLEAN
  BY ListFacts DEF ListTyped, ListTypes, Known
<1>2. PICK a : a = [i \in 1..Known |-> IF i \in ids THEN b ELSE archived[i]]
  OBVIOUS
<1>3. a \in [1..Known -> BOOLEAN]
  BY <1>1, <1>2
<1>4. a \in Seq(BOOLEAN) /\ Len(a) = Known
  BY <1>1, <1>3
<1>5. \A i \in 1..Known : a[i] = IF i \in ids THEN b ELSE archived[i]
  BY <1>2
<1>6. archived' = a /\ Known' = Known
  BY <1>2, <1>4 DEF Known
<1>7. ASSUME b PROVE Current("active")' = Current("active") \ ids
             /\ Current("archived")' = Current("archived") \cup ids
  <2>1. Current("active")' = {i \in 1..Known : a[i] = FALSE}
            /\ Current("active") = {i \in 1..Known : archived[i] = FALSE}
    BY <1>6 DEF Current
  <2>2. Current("archived")' = {i \in 1..Known : a[i] = TRUE}
            /\ Current("archived") = {i \in 1..Known : archived[i] = TRUE}
    BY <1>6 DEF Current
  <2>3. \A i \in 1..Known : a[i] = IF i \in ids THEN TRUE ELSE archived[i]
    BY <1>5, <1>7
  <2>4. Current("active")' = Current("active") \ ids
    BY <2>1, <2>3
  <2>5. Current("archived")' = Current("archived") \cup ids
    BY <2>2, <2>3
  <2> QED
    BY <2>4, <2>5
<1> QED
  BY <1>4, <1>6, <1>7

LEMMA ArchivingKeeps ==
  ASSUME ListInv, NEW ids \in SUBSET (1..Known),
         archived' = [i \in 1..Known |-> IF i \in ids THEN TRUE ELSE archived[i]],
         changes' = changes + 1, events' = Append(events,
             [kind |-> "archived", ids |-> ids, at |-> changes + 1]),
         \A c \in calls : c.kind # "archive" => c \in calls',
         \A c \in calls' : (c.kind # "archive" => c \in calls) /\ CallOk(c, Known, changes', made),
         UNCHANGED <<made, view, rows, cursor, more, fetching, loading, seen, crossed, overlapped,
             misplaced, gapped>>
  PROVE  ListInv'
<1>1. ListTyped /\ changes \in Nat /\ Known \in Nat /\ Known \in ListSeeded..ListRecords
  BY ListFacts DEF ListInv, ListTyped, ListTypes
<1>2. PICK e : e = [kind |-> "archived", ids |-> ids, at |-> changes + 1]
  OBVIOUS
<1>3. e \in ListEvent /\ e.kind = "archived" /\ e.ids = ids /\ e.at = changes + 1
  <2>1. ids \in SUBSET Nat /\ changes + 1 \in Nat
    BY <1>1
  <2> QED
    BY <1>2, <2>1 DEF ListEvent
<1>4. /\ archived' \in Seq(BOOLEAN) /\ Known' = Known
      /\ Current("active")' = Current("active") \ ids /\ Current("archived")' = Current("archived")
            \cup ids
  BY <1>1, Moved
<1>5. /\ made' = made /\ view' = view /\ rows' = rows /\ cursor' = cursor /\ more' = more
      /\ fetching' = fetching /\ loading' = loading /\ seen' = seen /\ crossed' = crossed
      /\ overlapped' = overlapped /\ misplaced' = misplaced /\ gapped' = gapped
  OBVIOUS
<1>6. events' = Append(events, e)
  BY <1>2
<1>7. Announcing(e)
  BY <1>1, <1>3, <1>4, <1>5, <1>6 DEF Announcing
<1> QED
  BY <1>7, AnnouncingKeeps

LEMMA PaneArchiveKeeps ==
  ASSUME ListInv, NEW id \in On(rows), List!ArchiveFromPane(id) PROVE ListInv'
<1>1. ListTyped /\ changes \in Nat /\ made \in Nat /\ Known \in Nat /\ {id} \in SUBSET (1..Known)
          /\ archived \in Seq(BOOLEAN)
  BY ListFacts DEF ListInv, ListTyped, ListTypes
<1>2. archived' = [i \in 1..Known |-> IF i \in {id} THEN TRUE ELSE archived[i]]
  <2>1. archived' = [archived EXCEPT ![id] = TRUE] /\ DOMAIN archived = 1..Known
    BY <1>1 DEF List!ArchiveFromPane, Known
  <2> QED
    BY <2>1
<1>3. /\ changes' = changes + 1 /\ events' = Append(events,
            [kind |-> "archived", ids |-> {id}, at |-> changes + 1])
      /\ calls' = calls
      /\ UNCHANGED <<made, view, rows, cursor, more, fetching, loading, seen, crossed, overlapped,
            misplaced, gapped>>
  BY DEF List!ArchiveFromPane, List!list, List!history
<1>4. \A c \in calls : CallOk(c, Known, changes', made)
  <2> SUFFICES ASSUME NEW c \in calls PROVE CallOk(c, Known, changes', made)
    OBVIOUS
  <2>1. CallOk(c, Known, changes, made)
    BY <1>1 DEF ListTyped, ListCallsOk
  <2>2. changes' \in Nat /\ Known <= Known /\ changes <= changes' /\ made <= made
    BY <1>1, <1>3
  <2> QED
    BY <1>1, <2>1, <2>2, CallStays
<1> QED
  BY <1>1, <1>2, <1>3, <1>4, ArchivingKeeps

\* A mutation is served.
Served(c, x) ==
  /\ calls' = (calls \ {c}) \cup {x} /\ x.kind = c.kind /\ x.served /\ x.at = changes + 1
  /\ changes' = changes + 1 /\ c.kind \in {"archive", "restore"} /\ ~c.served
  /\ c.ids \in SUBSET (1..Known)
  /\ archived' = [i \in 1..Known |-> IF i \in c.ids THEN c.kind = "archive" ELSE archived[i]]
  /\ events' = IF c.kind = "archive"
               THEN Append(events, [kind |-> "archived", ids |-> c.ids, at |-> changes + 1]) ELSE events
  /\ made' = made /\ view' = view /\ rows' = rows /\ cursor' = cursor /\ more' = more
        /\ fetching' = fetching
  /\ loading' = loading /\ seen' = seen /\ crossed' = crossed /\ overlapped' = overlapped
  /\ misplaced' = misplaced /\ gapped' = gapped
  /\ \A d \in calls' : CallOk(d, Known, changes', made)

LEMMA MutationIsServed ==
  ASSUME ListTyped, NEW c \in calls, List!ServeMutation(c)
  PROVE  \E x : Served(c, x)
<1>1. changes \in Nat /\ made \in Nat /\ Known \in Nat
  BY ListFacts
<1>2. PICK x : x = [c EXCEPT !.served = TRUE, !.at = changes + 1]
  OBVIOUS
<1>3. CallOk(c, Known, changes, made) /\ c \in ListCall
  BY DEF ListTyped, ListCallsOk, CallOk
<1>4. x \in ListCall /\ x.kind = c.kind /\ x.served = TRUE /\ x.at = changes + 1 /\ x.ids = c.ids
          /\ x.ticket = c.ticket /\ x.before = c.before
  <2>1. c = [ticket |-> c.ticket, kind |-> c.kind, view |-> c.view, before |-> c.before, ids |-> c.ids,
             served |-> c.served, page |-> c.page, next |-> c.next, at |-> c.at]
    BY <1>3 DEF ListCall
  <2>2. x = [ticket |-> c.ticket, kind |-> c.kind, view |-> c.view, before |-> c.before, ids |-> c.ids,
             served |-> TRUE, page |-> c.page, next |-> c.next, at |-> changes + 1]
    BY <1>2, <2>1
  <2>3. x \in ListCall
    BY <1>1, <1>3, <2>2 DEF ListCall
  <2> QED
    BY <2>2, <2>3
<1>5. c.kind \in {"archive", "restore"} /\ c.kind \notin List!Pages
  BY DEF List!ServeMutation, List!Pages
<1>6. CallOk(x, Known, changes + 1, made)
  BY <1>1, <1>3, <1>4, <1>5 DEF CallOk
<1>7. /\ calls' = (calls \ {c}) \cup {x} /\ changes' = changes + 1 /\ ~c.served
      /\ archived' = [i \in 1..Known |-> IF i \in c.ids THEN c.kind = "archive" ELSE archived[i]]
      /\ events' = IF c.kind = "archive"
                   THEN Append(events, [kind |-> "archived", ids |-> c.ids, at |-> changes + 1])
                       ELSE events
      /\ made' = made /\ view' = view /\ rows' = rows /\ cursor' = cursor /\ more' = more
            /\ fetching' = fetching
      /\ loading' = loading /\ seen' = seen /\ crossed' = crossed /\ overlapped' = overlapped
      /\ misplaced' = misplaced /\ gapped' = gapped
  BY <1>2 DEF List!ServeMutation, List!list, List!history, List!Ids, Known
<1>8. \A d \in calls : CallOk(d, Known, changes + 1, made)
  <2> SUFFICES ASSUME NEW d \in calls PROVE CallOk(d, Known, changes + 1, made)
    OBVIOUS
  <2>1. CallOk(d, Known, changes, made)
    BY DEF ListTyped, ListCallsOk
  <2>2. changes + 1 \in Nat /\ Known <= Known /\ changes <= changes + 1 /\ made <= made
    BY <1>1
  <2> QED
    BY <1>1, <2>1, <2>2, CallStays
<1>9. \A d \in calls' : CallOk(d, Known, changes', made)
  BY <1>6, <1>7, <1>8
<1>10. c.ids \in SUBSET (1..Known)
  BY <1>3 DEF CallOk
<1>11. x.kind = c.kind /\ x.served /\ x.at = changes + 1
  BY <1>4
<1> QED
  BY <1>5, <1>7, <1>9, <1>10, <1>11 DEF Served

LEMMA ArchiveServedKeeps ==
  ASSUME ListInv, NEW c \in calls, List!ServeMutation(c), c.kind = "archive" PROVE ListInv'
<1>1. ListTyped
  BY DEF ListInv
<1>2. PICK x : Served(c, x)
  BY <1>1, MutationIsServed
<1>3. archived' = [i \in 1..Known |-> IF i \in c.ids THEN TRUE ELSE archived[i]]
  BY <1>2 DEF Served
<1>4. events' = Append(events, [kind |-> "archived", ids |-> c.ids, at |-> changes + 1])
  BY <1>2 DEF Served
<1>5. /\ \A d \in calls : d.kind # "archive" => d \in calls'
      /\ \A d \in calls' : (d.kind # "archive" => d \in calls) /\ CallOk(d, Known, changes', made)
  BY <1>2 DEF Served
<1> QED
  <2>1. /\ c.ids \in SUBSET (1..Known) /\ changes' = changes + 1
        /\ UNCHANGED <<made, view, rows, cursor, more, fetching, loading, seen, crossed, overlapped,
              misplaced, gapped>>
    BY <1>2 DEF Served
  <2> QED
    BY <1>3, <1>4, <1>5, <2>1, ArchivingKeeps

\* A restore passes all that is on the way by: its answer asks for the page anew.
LEMMA RestoreServedKeeps ==
  ASSUME ListInv, NEW c \in calls, List!ServeMutation(c), c.kind = "restore" PROVE ListInv'
<1>1. ListTyped /\ OneFetch /\ changes \in Nat /\ Known \in Nat /\ seen \in Nat /\ seen <= changes
      /\ \A d \in calls : d.at \in Nat /\ d.at <= changes
      /\ \A e \in Pending : e.at \in Nat /\ e.at <= changes
  BY ListFacts DEF ListInv
<1>2. PICK x : Served(c, x)
  BY <1>1, MutationIsServed
<1>3. archived' \in Seq(BOOLEAN) /\ Known' = Known /\ events' = events /\ Pending' = Pending
  <2>1. archived' = [i \in 1..Known |-> IF i \in c.ids THEN FALSE ELSE archived[i]] /\ events' = events
    BY <1>2 DEF Served
  <2>2. archived' \in Seq(BOOLEAN) /\ Known' = Known
    <3>1. c.ids \in SUBSET (1..Known)
      BY <1>2 DEF Served
    <3> QED
      BY <1>1, <2>1, <3>1, Moved
  <2> QED
    BY <2>1, <2>2 DEF Pending
<1>4. ListTyped'
  <2>1. seen \in 0..changes'
    BY <1>1, <1>2 DEF Served
  <2>2. ListTypes'
    BY <1>1, <1>2, <1>3, <2>1 DEF ListTyped, ListTypes, Known, Served
  <2>3. ASSUME NEW e \in Pending PROVE EventOk(e, Known, changes')
    <3>1. EventOk(e, Known, changes)
      BY <1>1 DEF ListTyped, ListEvents
    <3>2. changes' \in Nat /\ Known <= Known /\ changes <= changes'
      BY <1>1, <1>2 DEF Served
    <3> QED
      BY <1>1, <3>1, <3>2, EventStays
  <2>4. ListEvents'
    BY <1>1, <1>3, <2>3 DEF ListTyped, ListEvents
  <2>5. ListCallsOk'
    BY <1>2, <1>3 DEF ListCallsOk, Served
  <2> QED
    BY <2>2, <2>4, <2>5 DEF ListTyped
<1>5. \A t \in Nat : t <= changes => Passed(t)'
  BY <1>1, <1>2 DEF Passed, Served
<1>6. \A d \in calls' : d.kind \in List!Pages => d \in calls
  BY <1>2 DEF List!Pages, Served
<1>7. OneFetch'
  <2>1. /\ overlapped' = overlapped /\ fetching' = fetching /\ rows' = rows /\ cursor' = cursor
              /\ view' = view
    BY <1>2 DEF Served
  <2>2. \A d \in calls' : d.kind \in Fetches => d \in calls
    BY <1>6 DEF List!Pages, Fetches
  <2>3. \A d \in calls' : d.kind = "append" => d \in calls
    BY <1>6 DEF List!Pages
  <2> QED
    BY <1>1, <2>1, <2>2, <2>3 DEF OneFetch
<1>8. PagesSound'
  <2>1. \A d \in calls' : d.kind \in List!Pages => Passed(d.at)'
    BY <1>1, <1>5, <1>6
  <2> QED
    BY <2>1 DEF PagesSound, Outdone
<1>9. EventsSound'
  BY <1>1, <1>3, <1>5 DEF EventsSound
<1>10. RowsSound'
  <2>1. x \in calls' /\ x.kind = "restore" /\ x.served
    BY <1>2 DEF Served
  <2>2. ~(Settled')
    BY <2>1 DEF Settled
  <2> QED
    BY <2>2 DEF RowsSound
<1> QED
  BY <1>4, <1>7, <1>8, <1>9, <1>10 DEF ListInv

\* A page is served: the newest of what was asked for.
PageServed(c, x) ==
  /\ calls' = (calls \ {c}) \cup {x} /\ c.kind \in List!Pages /\ ~c.served
  /\ x.kind = c.kind /\ x.view = c.view /\ x.before = c.before /\ x.served /\ x.at = changes
  /\ CallOk(x, Known, changes, made)
  /\ (\A i \in On(x.page) : i \in Sought(c)) /\ \A i \in Sought(c) : Has(x, i)
  /\ archived' = archived /\ changes' = changes /\ events' = events
  /\ made' = made /\ view' = view /\ rows' = rows /\ cursor' = cursor /\ more' = more
        /\ fetching' = fetching
  /\ loading' = loading /\ seen' = seen /\ crossed' = crossed /\ overlapped' = overlapped
  /\ misplaced' = misplaced /\ gapped' = gapped

LEMMA PageIsServed ==
  ASSUME ListAssumptions, ListTyped, NEW c \in calls, List!ServePage(c)
  PROVE  \E x : PageServed(c, x)
<1>1. changes \in Nat /\ made \in Nat /\ Known \in Nat /\ ListPage \in Nat \ {0}
  BY ListFacts DEF ListAssumptions
<1>2. CallOk(c, Known, changes, made) /\ c \in ListCall
  BY DEF ListTyped, ListCallsOk, CallOk
<1>3. PICK S : S = Sought(c)
  OBVIOUS
<1>4. S \in SUBSET (1..Known) /\ List!Matching(c.view, c.before) = S /\ \A i \in S : c.before = 0
          \/ i < c.before
  <2>1. List!Matching(c.view, c.before) = S
    BY <1>3, ListMatches DEF Sought
  <2>2. Current(c.view) \in SUBSET (1..Known)
    BY CurrentIs DEF ListTyped
  <2> QED
    BY <1>3, <2>1, <2>2 DEF Sought
<1>5. PICK p : p = Newest(S, ListPage)
  OBVIOUS
<1>6. p \in Seq(S) /\ Falls(p) /\ On(p) \in SUBSET S /\ p \in Seq(Nat)
  <2>1. p \in Seq(S) /\ Falls(p) /\ On(p) = {r \in S : Rank(S, r) < ListPage}
    <3>1. Known \in Nat /\ ListPage \in Nat /\ S \in SUBSET (1..Known)
      BY <1>1, <1>4
    <3>2. /\ Newest(S, ListPage) \in Seq(S) /\ Falls(Newest(S, ListPage))
          /\ On(Newest(S, ListPage)) = {r \in S : Rank(S, r) < ListPage}
      BY <3>1, NewestFacts
    <3> QED
      BY <1>5, <3>2
  <2>2. p \in Seq(Nat)
    <3>1. \A i \in S : i \in Nat
      BY <1>4
    <3>2. Len(p) \in Nat /\ p \in [1..Len(p) -> S]
      BY <2>1
    <3>3. p \in [1..Len(p) -> Nat]
      BY <3>1, <3>2
    <3> QED
      BY <3>2, <3>3
  <2>3. On(p) \in SUBSET S
    BY <2>1
  <2> QED
    BY <2>1, <2>2, <2>3
<1>7. PICK n : n = IF Cardinality(S) > ListPage THEN p[ListPage] ELSE 0
  OBVIOUS
<1>8. Cardinality(S) \in Nat
  BY <1>1, <1>4, Ranks
<1>9. /\ n \in Nat /\ n <= Known /\ \A i \in On(p) : i >= n
      /\ n # 0 => Cardinality(On(p)) = ListPage
      /\ \A i \in S : i \in On(p) \/ (n # 0 /\ i < n)
  <2>1. CASE Cardinality(S) > ListPage
    <3>1. /\ Cardinality(On(p)) = ListPage /\ p[ListPage] \in On(p)
          /\ \A r \in S : r \notin On(p) => r < p[ListPage]
          /\ \A r \in On(p) : r >= p[ListPage]
      BY <1>1, <1>4, <1>5, <2>1, NewestPage
    <3>2. n = p[ListPage] /\ n \in 1..Known
      BY <1>4, <1>6, <1>7, <2>1, <3>1
    <3> QED
      BY <1>1, <3>1, <3>2
  <2>2. CASE ~(Cardinality(S) > ListPage)
    <3>1. n = 0 /\ ListPage >= Cardinality(S)
      BY <1>1, <1>7, <1>8, <2>2
    <3>2. On(p) = S
      BY <1>1, <1>4, <1>5, <3>1, NewestOfAll
    <3>3. \A i \in S : i >= 0
      BY <1>4
    <3> QED
      BY <1>1, <3>1, <3>2, <3>3
  <2> QED
    BY <2>1, <2>2
<1>10. PICK x : x = [c EXCEPT !.served = TRUE, !.page = p, !.at = changes, !.next = n]
  OBVIOUS
<1>11. /\ x \in ListCall /\ x.ticket = c.ticket /\ x.kind = c.kind /\ x.view = c.view
             /\ x.before = c.before
       /\ x.ids = c.ids /\ x.served = TRUE /\ x.page = p /\ x.next = n /\ x.at = changes
  <2>1. c = [ticket |-> c.ticket, kind |-> c.kind, view |-> c.view, before |-> c.before, ids |-> c.ids,
             served |-> c.served, page |-> c.page, next |-> c.next, at |-> c.at]
    BY <1>2 DEF ListCall
  <2>2. x = [ticket |-> c.ticket, kind |-> c.kind, view |-> c.view, before |-> c.before, ids |-> c.ids,
             served |-> TRUE, page |-> p, next |-> n, at |-> changes]
    BY <1>10, <2>1
  <2>3. x \in ListCall
    BY <1>1, <1>2, <1>6, <1>9, <2>2 DEF ListCall
  <2> QED
    BY <2>2, <2>3
<1>12. /\ calls' = (calls \ {c}) \cup {x} /\ c.kind \in List!Pages /\ ~c.served
       /\ archived' = archived /\ changes' = changes /\ events' = events
       /\ made' = made /\ view' = view /\ rows' = rows /\ cursor' = cursor /\ more' = more
             /\ fetching' = fetching
       /\ loading' = loading /\ seen' = seen /\ crossed' = crossed /\ overlapped' = overlapped
       /\ misplaced' = misplaced /\ gapped' = gapped
  <2>1. List!Newest(S, ListPage) = p /\ List!Cardinality(S) = Cardinality(S)
    BY <1>5, ListNames
  <2> QED
    BY <1>4, <1>7, <1>10, <2>1 DEF List!ServePage, List!store, List!list, List!history
<1>13. PageOk(x, Known)
  <2>1. On(x.page) \in SUBSET (1..Known)
    BY <1>4, <1>6, <1>11
  <2>2. \A i \in On(x.page) : x.before = 0 \/ i < x.before
    BY <1>4, <1>6, <1>11
  <2> QED
    BY <1>6, <1>9, <1>11, <2>1, <2>2 DEF PageOk
<1>14. CallOk(x, Known, changes, made)
  <2>1. changes <= changes
    BY <1>1
  <2> QED
    BY <1>2, <1>11, <1>13, <2>1 DEF CallOk
<1>15. (\A i \in On(x.page) : i \in Sought(c)) /\ \A i \in Sought(c) : Has(x, i)
  BY <1>3, <1>6, <1>9, <1>11 DEF Has
<1> QED
  BY <1>11, <1>12, <1>14, <1>15 DEF PageServed

LEMMA ServePageKeeps ==
  ASSUME ListAssumptions, ListInv, NEW c \in calls, List!ServePage(c)
  PROVE  ListInv'
<1>1. ListTyped /\ OneFetch /\ PagesSound /\ EventsSound /\ RowsSound
  BY DEF ListInv
<1>2. /\ changes \in Nat /\ made \in Nat /\ seen \in Nat /\ seen <= changes /\ Known \in Nat
      /\ \A d \in calls : d.at \in Nat /\ d.at <= changes /\ d.served \in BOOLEAN /\ d.before \in Nat
      /\ \A e \in Pending : e.at \in Nat /\ e.at <= changes /\ e.at >= 1
  BY <1>1, ListFacts
<1>3. PICK x : PageServed(c, x)
  BY <1>1, PageIsServed
<1>4. /\ calls' = (calls \ {c}) \cup {x} /\ c.kind \in List!Pages /\ ~c.served
      /\ x.kind = c.kind /\ x.view = c.view /\ x.before = c.before /\ x.served /\ x.at = changes
      /\ changes' = changes /\ events' = events /\ view' = view /\ rows' = rows /\ cursor' = cursor
            /\ seen' = seen
      /\ Pending' = Pending /\ Known' = Known /\ \A v : Current(v)' = Current(v)
  BY <1>3 DEF PageServed, Pending, Known, Current
<1>5. ListTyped'
  <2>1. ListTypes'
    BY <1>1, <1>3 DEF ListTyped, ListTypes, PageServed, Known
  <2>2. ListEvents'
    BY <1>1, <1>4 DEF ListTyped, ListEvents
  <2>3. ListCallsOk'
    BY <1>1, <1>3, <1>4 DEF ListTyped, ListCallsOk, PageServed
  <2> QED
    BY <2>1, <2>2, <2>3 DEF ListTyped
<1>6. seen' \in Nat /\ changes' \in Nat /\ \A d \in calls' : d.at \in Nat
  BY <1>2, <1>4
<1>7. StaysPassed
  <2>1. \A d \in calls : d = c \/ d \in calls'
    BY <1>4
  <2>2. c.kind # "restore" /\ (c.kind = "replace" => x.kind = "replace" /\ x \in calls'
            /\ changes <= x.at)
    BY <1>2, <1>4 DEF List!Pages
  <2> QED
    BY <1>2, <1>4, <2>1, <2>2 DEF StaysPassed
<1>8. ASSUME NEW i, NEW v, NEW t \in Nat, i \in Current(v), Coming(i, v, t) PROVE Coming(i, v, t)'
  <2>1. StaysComing(i, v)
    <3>1. \A d \in calls : d = c \/ d \in calls'
      BY <1>4
    <3>2. ASSUME c.kind = "refresh", c.view = v PROVE x \in calls' /\ changes <= x.at /\ Has(x, i)
      <4>1. c.before = 0
        BY <1>1, <3>2 DEF ListTyped, ListCallsOk, CallOk, List!Pages
      <4>2. i \in Sought(c)
        BY <1>8, <3>2, <4>1 DEF Sought
      <4> QED
        BY <1>2, <1>3, <1>4, <4>2 DEF PageServed
    <3> QED
      BY <1>2, <1>4, <3>1, <3>2 DEF StaysComing
  <2> QED
    BY <1>1, <1>6, <1>8, <2>1, ComingStays
<1>9. OneFetch'
  <2>1. overlapped' = overlapped /\ fetching' = fetching
    BY <1>3 DEF PageServed
  <2> SUFFICES ASSUME ~overlapped' PROVE OneFetch'
    BY DEF OneFetch
  <2>2. /\ \A a, b \in calls : a.kind \in Fetches /\ b.kind \in Fetches => a = b
        /\ \A a \in calls : /\ a.kind \in Fetches => fetching = TRUE
                            /\ a.kind = "append" => a.before = cursor /\ a.view = view
    BY <1>1, <2>1 DEF OneFetch
  <2>3. \A a, b \in calls' : a.kind \in Fetches /\ b.kind \in Fetches => a = b
    BY <1>4, <2>2
  <2>4. \A a \in calls' : /\ a.kind \in Fetches => fetching' = TRUE
                          /\ a.kind = "append" => a.before = cursor' /\ a.view = view'
    BY <1>4, <2>1, <2>2
  <2> QED
    BY <1>1, <1>4, <2>1, <2>3, <2>4 DEF OneFetch
<1>10. ASSUME Straight', NEW d \in calls', d.kind \in List!Pages, d.served, ~Outdone(d)'
       PROVE  Sound(d)'
  <2>1. CASE d = x
    <3>1. Sought(d)' = Sought(c)
      BY <1>4, <2>1 DEF Sought
    <3>2. (\A i \in On(x.page) : i \in Sought(c)) /\ \A i \in Sought(c) : Has(x, i)
      BY <1>3 DEF PageServed
    <3>3. \A i \in On(d.page) : i \in Current(d.view)'
      BY <1>4, <2>1, <3>2 DEF Sought
    <3>4. \A i \in Sought(d)' : Has(d, i)'
      BY <2>1, <3>1, <3>2 DEF Has
    <3> QED
      BY <3>3, <3>4 DEF Sound
  <2>2. CASE d # x
    <3>1. d \in calls /\ d \in calls'
      BY <1>4, <1>10, <2>2
    <3>2. Sound(d)
      <4>1. Straight
        BY <1>3, <1>10 DEF Straight, PageServed
      <4>2. ~Outdone(d)
        BY <1>1, <1>2, <1>4, <1>6, <1>7, <1>10, <3>1, OutdoneStays
      <4> QED
        BY <1>1, <1>10, <3>1, <4>1, <4>2 DEF PagesSound
    <3>3. \A i \in On(d.page) : i \in Current(d.view)' \/ (d.view = "active" /\ Leaving(i, d.at)')
      BY <1>4, <3>2 DEF Sound, Leaving
    <3>4. ASSUME NEW i \in Sought(d)' PROVE Has(d, i)'
                 \/ (Coming(i, d.view, d.at)' /\ (d.view = "active" => Newer(d, i)'))
      <4>1. i \in Sought(d) /\ i \in Current(d.view)
        BY <1>4 DEF Sought
      <4>2. Has(d, i) \/ (Coming(i, d.view, d.at) /\ (d.view = "active" => Newer(d, i)))
        BY <3>2, <4>1 DEF Sound
      <4>3. CASE Has(d, i)
        BY <4>3 DEF Has
      <4>4. CASE Coming(i, d.view, d.at) /\ (d.view = "active" => Newer(d, i))
        <5>1. Coming(i, d.view, d.at)' /\ d.at < changes
          BY <1>1, <1>2, <1>8, <3>1, <4>1, <4>4, ComesLater
        <5>2. Newer(d, i) => Newer(d, i)'
          BY <1>4, <5>1 DEF Newer
        <5> QED
          BY <4>4, <5>1, <5>2
      <4> QED
        BY <4>2, <4>3, <4>4
    <3> QED
      BY <3>3, <3>4 DEF Sound
  <2> QED
    BY <2>1, <2>2
<1>11. PagesSound'
  BY <1>10 DEF PagesSound
<1>12. EventsSound'
  <2>1. \A t \in Nat : Passed(t) => Passed(t)'
    BY <1>1, <1>6, <1>7, PassedStays
  <2> QED
    BY <1>1, <1>2, <1>4, <2>1 DEF EventsSound
<1>13. RowsSound'
  <2> SUFFICES ASSUME Straight', Settled' PROVE (view = "active" => RowsAreActive)'
          /\ (view = "archived" => RowsAreArchived)'
    BY DEF RowsSound
  <2>1. Straight /\ Settled
    <3>1. Straight
      BY <1>3 DEF Straight, PageServed
    <3>2. \A d \in calls : d = c \/ d \in calls'
      BY <1>4
    <3>3. x \in calls' /\ c.kind # "restore"
      BY <1>4 DEF List!Pages
    <3>4. Settled
      BY <1>4, <3>2, <3>3 DEF Settled
    <3> QED
      BY <3>1, <3>4
  <2>2. CASE view = "active"
    <3>1. RowsAreActive
      BY <1>1, <2>1, <2>2 DEF RowsSound
    <3>2. \A i : Leaving(i, 0)' <=> Leaving(i, 0)
      BY <1>4 DEF Leaving
    <3>3. \A i \in Current("active") : (\E t \in Nat : Coming(i, "active", t))
              => (\E t \in Nat : Coming(i, "active", t)')
      BY <1>8
    <3>4. gapped' = gapped
      BY <1>3 DEF PageServed
    <3>5. RowsAreActive'
      BY <1>4, <3>1, <3>2, <3>3, <3>4 DEF RowsAreActive
    <3> QED
      BY <1>4, <2>2, <3>5
  <2>3. CASE view = "archived"
    <3>1. RowsAreArchived
      BY <1>1, <2>1, <2>3 DEF RowsSound
    <3>2. \A i \in Current("archived") : (\E t \in Nat : Coming(i, "archived", t))
              => (\E t \in Nat : Coming(i, "archived", t)')
      BY <1>8
    <3>3. RowsAreArchived'
      BY <1>4, <3>1, <3>2 DEF RowsAreArchived
    <3> QED
      BY <1>4, <2>3, <3>3
  <2>4. view \in List!Views
    BY <1>1 DEF ListTyped, ListTypes
  <2> QED
    BY <1>4, <2>2, <2>3, <2>4 DEF List!Views
<1> QED
  BY <1>5, <1>9, <1>11, <1>12, <1>13 DEF ListInv

\* A step by which the screen learns of a commit: an answer or an event is taken off what is
\* on its way, and the rows are among those there were and those of the answer.
Learning(t, off) ==
  /\ t \in Nat /\ t <= changes /\ calls' = calls \ off /\ off \in SUBSET calls
        /\ Pending' \in SUBSET Pending
  /\ archived' = archived /\ changes' = changes /\ view' = view /\ made' = made
  /\ seen' = (IF t > seen THEN t ELSE seen) /\ crossed' = (crossed \/ t < seen)
  /\ (overlapped => overlapped') /\ (misplaced => misplaced')
  /\ \A e \in Pending : e \in Pending' \/ (e.kind = "archived" /\ e.at = t /\ view = "active")
  /\ \A d \in off : d.kind \in List!Pages /\ d.served /\ d.at = t /\ (~misplaced' => d.view = view)
  /\ \A i \in On(rows') : i \in On(rows) \/ \E d \in off : i \in On(d.page)

LEMMA LearningIsPassed ==
  ASSUME ListTyped, NEW t, NEW off, Learning(t, off)
  PROVE  /\ StaysPassed /\ seen' \in Nat /\ seen' <= changes /\ changes' = changes /\ changes \in Nat
         /\ \A d \in calls' : d \in calls /\ d.at \in Nat
         /\ Straight' => Straight /\ seen <= t /\ seen' = t
<1>1. changes \in Nat /\ seen \in Nat /\ seen <= changes /\ \A c \in calls : c.at \in Nat
          /\ c.at <= changes
  BY ListFacts
<1>2. seen' \in Nat /\ seen <= seen' /\ t <= seen' /\ seen' <= changes
  BY <1>1 DEF Learning
<1>3. \A d \in calls : d \in calls' \/ (d.served /\ d.at <= seen' /\ d.kind # "restore")
  BY <1>2 DEF Learning, List!Pages
<1>4. StaysPassed
  BY <1>1, <1>2, <1>3 DEF StaysPassed, Learning
<1>5. Straight' => Straight /\ seen <= t /\ seen' = t
  <2>1. Straight' => Straight /\ ~(t < seen)
    BY DEF Straight, Learning
  <2>2. t \in Nat /\ seen' = (IF t > seen THEN t ELSE seen)
    BY DEF Learning
  <2> QED
    BY <1>1, <2>1, <2>2
<1> QED
  BY <1>1, <1>2, <1>4, <1>5 DEF Learning

LEMMA LearningKeepsPages ==
  ASSUME ListInv, NEW t, NEW off, Learning(t, off)
  PROVE  PagesSound' /\ EventsSound'
<1>1. ListTyped /\ PagesSound /\ EventsSound
  BY DEF ListInv
<1>2. /\ changes \in Nat /\ seen \in Nat /\ t \in Nat /\ t <= changes
      /\ \A c \in calls : c.at \in Nat /\ c.at <= changes
      /\ \A e \in Pending : e.at \in Nat /\ e.at <= changes /\ e.at >= 1
  BY <1>1, ListFacts DEF Learning
<1>3. /\ StaysPassed /\ seen' \in Nat /\ seen' <= changes /\ changes' = changes
      /\ \A d \in calls' : d \in calls /\ d.at \in Nat
      /\ Straight' => Straight /\ seen <= t /\ seen' = t
  BY <1>1, LearningIsPassed
<1>4. view' = view /\ (\A v : Current(v)' = Current(v)) /\ calls' = calls \ off
  BY DEF Learning, Current, Known
<1>5. ASSUME Straight', NEW c \in calls', c.kind \in List!Pages, c.served, ~Outdone(c)'
      PROVE  Sound(c)'
  <2>1. c \in calls /\ c.view \in List!Views /\ c.at \in Nat /\ changes' \in Nat
    BY <1>1, <1>2, <1>3, <1>5 DEF ListTyped, ListCallsOk, CallOk, ListCall
  <2>2. Sound(c)
    <3>1. ~Outdone(c)
      BY <1>1, <1>3, <1>4, <1>5, <2>1, OutdoneStays
    <3> QED
      BY <1>1, <1>3, <1>5, <2>1, <3>1 DEF PagesSound
  <2>3. ~(c.at < t) /\ (c.at < changes => c.view = view)
    <3>1. ~(Passed(c.at)') /\ (c.at < changes => c.view = view)
      BY <1>3, <1>4, <1>5 DEF Outdone
    <3>2. c.at < t => c.at < changes' /\ c.at < seen'
      BY <1>2, <1>3, <1>5, <2>1
    <3> QED
      BY <3>1, <3>2 DEF Passed
  <2>4. \A i : Leaving(i, c.at) => Leaving(i, c.at)'
    <3>1. \A e \in Pending : e.at > c.at => e \in Pending'
      BY <2>1, <2>3, <1>2 DEF Learning
    <3> QED
      BY <3>1 DEF Leaving
  <2>5. ASSUME NEW i, Coming(i, c.view, c.at) PROVE Coming(i, c.view, c.at)'
    <3>1. ASSUME NEW e \in Pending, Asks(e, c.view), e.at > c.at PROVE Coming(i, c.view, c.at)'
      <4>1. c.at < changes
        BY <1>2, <2>1, <3>1
      <4>2. c.view = view
        BY <2>3, <4>1
      <4>3. e \in Pending'
        BY <3>1, <4>2 DEF Learning, Asks
      <4> QED
        BY <3>1, <4>3 DEF Coming, Asks
    <3>2. ASSUME NEW d \in calls, Brings(d, i, c.view, c.at) PROVE Coming(i, c.view, c.at)'
      <4>1. d \notin off
        <5>1. d \in off => d.served /\ d.at = t
          BY DEF Learning
        <5> QED
          BY <1>2, <2>1, <2>3, <3>2, <5>1 DEF Brings
      <4>2. d \in calls'
        BY <1>4, <4>1
      <4>3. Brings(d, i, c.view, c.at)'
        BY <1>3, <3>2 DEF Brings, Has
      <4> QED
        BY <4>2, <4>3 DEF Coming
    <3> QED
      BY <2>5, <3>1, <3>2 DEF Coming
  <2>6. ASSUME NEW i, c.view = "active", Coming(i, c.view, c.at), Newer(c, i) PROVE Newer(c, i)'
    <3>1. c.view = view
      BY <1>1, <2>1, <2>3, <2>6, ComesLater
    <3>2. ASSUME NEW d \in off PROVE i \notin On(d.page)
      <4>1. d.kind \in List!Pages /\ d.served /\ d.at = t /\ d.view = view
        BY <1>5 DEF Learning, Straight
      <4>2. d \in calls
        BY DEF Learning
      <4> QED
        BY <2>3, <2>6, <3>1, <4>1, <4>2 DEF Newer
    <3>3. i \notin On(rows)'
      BY <2>6, <3>2 DEF Newer, Learning
    <3> QED
      BY <1>3, <2>6, <3>3 DEF Newer
  <2>7. \A i \in On(c.page) : i \in Current(c.view)' \/ (c.view = "active" /\ Leaving(i, c.at)')
    BY <1>4, <2>2, <2>4 DEF Sound
  <2>8. ASSUME NEW i \in Sought(c)' PROVE Has(c, i)'
               \/ (Coming(i, c.view, c.at)' /\ (c.view = "active" => Newer(c, i)'))
    <3>1. i \in Sought(c)
      BY <1>4 DEF Sought
    <3>2. Has(c, i) \/ (Coming(i, c.view, c.at) /\ (c.view = "active" => Newer(c, i)))
      BY <2>2, <3>1 DEF Sound
    <3>3. Has(c, i) => Has(c, i)'
      BY DEF Has
    <3> QED
      BY <2>5, <2>6, <3>2, <3>3
  <2> QED
    BY <2>7, <2>8 DEF Sound
<1>6. PagesSound'
  BY <1>5 DEF PagesSound
<1>7. EventsSound'
  <2>1. \A x \in Nat : Passed(x) => Passed(x)'
    BY <1>1, <1>2, <1>3, PassedStays
  <2>2. Pending' \in SUBSET Pending
    BY DEF Learning
  <2> QED
    BY <1>1, <1>2, <1>4, <2>1, <2>2 DEF EventsSound
<1> QED
  BY <1>6, <1>7

LEMMA LearningIsTyped ==
  ASSUME ListTyped, NEW t, NEW off, Learning(t, off), rows' \in Seq(Nat),
         On(rows') \in SUBSET (1..Known),
         cursor' \in 0..Known, more' = (cursor' # 0), fetching' \in BOOLEAN, loading' \in BOOLEAN,
         crossed' \in BOOLEAN, overlapped' \in BOOLEAN, misplaced' \in BOOLEAN, gapped' \in BOOLEAN,
         events' \in Seq(ListEvent)
  PROVE  ListTyped'
<1>1. seen' \in 0..changes' /\ \A d \in calls' : d \in calls
  <2>1. seen' \in Nat /\ seen' <= changes /\ changes' = changes /\ changes \in Nat
            /\ \A d \in calls' : d \in calls
    BY LearningIsPassed
  <2> QED
    BY <2>1
<1>2. /\ archived' = archived /\ changes' = changes /\ view' = view /\ made' = made
      /\ \A e \in Pending' : e \in Pending
  BY DEF Learning
<1>3. ListTypes'
  BY <1>1, <1>2 DEF ListTyped, ListTypes, Known
<1>4. ListEvents'
  BY <1>2 DEF ListTyped, ListEvents, Known
<1>5. ListCallsOk'
  BY <1>1, <1>2 DEF ListTyped, ListCallsOk, Known
<1> QED
  BY <1>3, <1>4, <1>5 DEF ListTyped

\* The answer that is applied, when it was neither late nor of the other view, is sound: nothing
\* that will replace it is on its way.
LEMMA AppliedIsSound ==
  ASSUME ListInv, NEW c \in calls, c.kind \in List!Pages, c.served, Straight, seen <= c.at,
         c.view = view,
         \A d \in calls \ {c} : d.kind # "replace" /\ ~(d.kind = "restore" /\ d.served)
  PROVE  Sound(c)
<1>1. ListTyped /\ PagesSound
  BY DEF ListInv
<1>2. changes \in Nat /\ seen \in Nat /\ c.at \in Nat
  BY <1>1, ListFacts
<1>3. ~Passed(c.at)
  <2>1. ~(c.at < seen) /\ ~(c.at < c.at)
    BY <1>2
  <2>2. \A d \in calls : d = c \/ (d.kind # "replace" /\ ~(d.kind = "restore" /\ d.served))
    OBVIOUS
  <2>3. c.kind # "restore"
    BY DEF List!Pages
  <2> QED
    BY <2>1, <2>2, <2>3 DEF Passed
<1> QED
  BY <1>1, <1>3 DEF PagesSound, Outdone

\* The last record of a page that is not the last is older than what it was asked before.
LEMMA NextIsOlder ==
  ASSUME ListAssumptions, ListTyped, NEW c \in calls, c.kind \in List!Pages, c.served
  PROVE  /\ c.page \in Seq(Nat) /\ Falls(c.page) /\ On(c.page) \in SUBSET (1..Known)
            /\ c.next \in 0..Known
         /\ \A i \in On(c.page) : i >= c.next /\ (c.before = 0 \/ i < c.before)
         /\ c.next # 0 => Cardinality(On(c.page)) = ListPage /\ (c.before = 0 \/ c.next < c.before)
         /\ c.before \in 0..Known /\ (c.before = 0 <=> c.kind # "append")
<1>1. CallOk(c, Known, changes, made) /\ Known \in Nat /\ c.next \in Nat /\ c.before \in Nat
  BY ListFacts DEF ListTyped, ListCallsOk
<1>2. /\ c.page \in Seq(Nat) /\ Falls(c.page) /\ On(c.page) \in SUBSET (1..Known) /\ c.next \in 0..Known
      /\ \A i \in On(c.page) : i >= c.next /\ (c.before = 0 \/ i < c.before)
      /\ c.next # 0 => Cardinality(On(c.page)) = ListPage
      /\ c.before \in 0..Known /\ (c.before = 0 <=> c.kind # "append")
  BY <1>1 DEF CallOk, PageOk, ListCall
<1>3. ASSUME c.next # 0, c.before # 0 PROVE c.next < c.before
  <2>1. On(c.page) # {}
    <3>1. Cardinality(On(c.page)) # 0
      BY <1>2, <1>3 DEF ListAssumptions
    <3> QED
      BY <3>1, FS_EmptySet
  <2>2. PICK i \in On(c.page) : i >= c.next /\ i < c.before
    BY <1>2, <1>3, <2>1
  <2>3. i \in Nat
    BY <1>1, <1>2
  <2> QED
    BY <1>1, <2>2, <2>3
<1> QED
  BY <1>2, <1>3

\* A record older than all of a page that is not the last is not of the newest page of its view.
LEMMA OlderIsRanked ==
  ASSUME ListAssumptions, ListTyped, NEW v, NEW p, On(p) \in SUBSET Current(v), NEW n \in Nat,
         Cardinality(On(p)) = ListPage, \A r \in On(p) : r >= n, NEW i \in Current(v), i < n
  PROVE  ~(Rank(Current(v), i) < ListPage)
<1>1. PICK S : S = Current(v)
  OBVIOUS
<1>2. S \in SUBSET (1..Known) /\ Known \in Nat /\ ListPage \in Nat
  BY <1>1, CurrentIs DEF ListTyped, ListAssumptions
<1>3. IsFiniteSet(Above(S, i)) /\ Cardinality(Above(S, i)) = Rank(S, i) /\ Rank(S, i) \in Nat
  BY <1>2, Ranks DEF Rank
<1>4. On(p) \in SUBSET Above(S, i)
  <2>1. \A r \in On(p) : r \in S /\ r \in Nat
    BY <1>1, <1>2
  <2>2. i \in Nat
    BY <1>1, <1>2
  <2>3. \A r \in On(p) : r > i
    BY <2>1, <2>2
  <2> QED
    BY <2>1, <2>3 DEF Above
<1>5. Cardinality(On(p)) <= Cardinality(Above(S, i))
  BY <1>3, <1>4, FS_Subset
<1> QED
  BY <1>1, <1>2, <1>3, <1>5

\* What is on its way to the screen is what was, but for the page that arrives.
LEMMA ComingIsLearned ==
  ASSUME ListTyped, NEW t, NEW off, Learning(t, off), NEW i, NEW v, NEW k \in Nat, Coming(i, v, k),
         v = view, \A d \in off : d.kind # "refresh" \/ t <= k
  PROVE  Coming(i, v, k)'
<1>1. ASSUME NEW e \in Pending, Asks(e, v), e.at > k PROVE Coming(i, v, k)'
  <2>1. e \in Pending'
    BY <1>1 DEF Learning, Asks
  <2> QED
    BY <1>1, <2>1 DEF Coming, Asks
<1>2. ASSUME NEW d \in calls, Brings(d, i, v, k) PROVE Coming(i, v, k)'
  <2>1. d \notin off
    <3>1. d \in off => d.served /\ d.at = t /\ t \in Nat
      BY DEF Learning
    <3> QED
      BY <1>2, <3>1 DEF Brings
  <2>2. d \in calls' /\ changes' = changes
    BY <2>1 DEF Learning
  <2>3. Brings(d, i, v, k)'
    BY <1>2, <2>2 DEF Brings, Has
  <2> QED
    BY <2>2, <2>3 DEF Coming
<1> QED
  BY <1>1, <1>2 DEF Coming

LEMMA FetchedPageKeeps ==
  ASSUME ListAssumptions, ListInv, NEW c \in calls, List!FetchedPage(c)
  PROVE  ListInv'
<1>1. ListTyped /\ OneFetch /\ PagesSound /\ EventsSound /\ RowsSound
  BY DEF ListInv
<1>2. /\ changes \in Nat /\ seen \in Nat /\ Known \in Nat /\ c.at \in Nat /\ c.at <= changes /\ c.served
      /\ c.kind \in {"replace", "append"} /\ c.kind \in List!Pages
  BY <1>1, ListFacts DEF List!FetchedPage, List!Pages
<1>3. /\ c.page \in Seq(Nat) /\ Falls(c.page) /\ On(c.page) \in SUBSET (1..Known) /\ c.next \in 0..Known
      /\ \A i \in On(c.page) : i >= c.next /\ (c.before = 0 \/ i < c.before)
      /\ c.next # 0 => Cardinality(On(c.page)) = ListPage /\ (c.before = 0 \/ c.next < c.before)
      /\ c.before \in 0..Known /\ (c.before = 0 <=> c.kind # "append")
  BY <1>1, <1>2, NextIsOlder
<1>4. /\ calls' = calls \ {c} /\ rows' = (IF c.kind = "replace" THEN <<>> ELSE rows) \o c.page
      /\ cursor' = c.next /\ more' = (c.next # 0) /\ fetching' = FALSE /\ loading' = FALSE
      /\ seen' = (IF c.at > seen THEN c.at ELSE seen) /\ crossed' = (crossed \/ c.at < seen)
      /\ misplaced' = (misplaced \/ c.view # view) /\ gapped' = (gapped /\ c.kind # "replace")
      /\ archived' = archived /\ changes' = changes /\ events' = events /\ made' = made /\ view' = view
      /\ overlapped' = overlapped
  BY DEF List!FetchedPage, List!Learn, List!store
<1>5. /\ rows \in Seq(Nat) /\ On(rows) \in SUBSET (1..Known) /\ view \in List!Views
            /\ overlapped \in BOOLEAN
      /\ crossed \in BOOLEAN /\ misplaced \in BOOLEAN /\ gapped \in BOOLEAN /\ events \in Seq(ListEvent)
      /\ cursor \in 0..Known
  BY <1>1 DEF ListTyped, ListTypes, ListEvents
<1>6. /\ rows' \in Seq(Nat)
      /\ On(rows') = IF c.kind = "replace" THEN On(c.page) ELSE On(rows) \cup On(c.page)
      /\ \A x, y : Before(rows', x, y) =>
           \/ Before(c.page, x, y)
           \/ c.kind # "replace" /\ (Before(rows, x, y) \/ (x \in On(rows) /\ y \in On(c.page)))
  <2>1. CASE c.kind = "replace"
    <3>1. <<>> \o c.page = c.page
      BY <1>3
    <3>2. rows' = c.page
      BY <1>4, <2>1, <3>1
    <3> QED
      BY <1>3, <2>1, <3>2
  <2>2. CASE c.kind # "replace"
    <3>1. rows' = rows \o c.page
      BY <1>4, <2>2
    <3>2. /\ rows' \in Seq(Nat) /\ On(rows') = On(rows) \cup On(c.page)
          /\ \A x, y : Before(rows', x, y) => Before(rows, x, y) \/ Before(c.page, x, y)
                \/ (x \in On(rows) /\ y \in On(c.page))
      BY <1>3, <1>5, <3>1, Joined
    <3> QED
      BY <2>2, <3>2
  <2> QED
    BY <2>1, <2>2
<1>7. Learning(c.at, {c})
  <2>1. Pending' = Pending
    BY <1>4 DEF Pending
  <2>2. \A d \in {c} : d.kind \in List!Pages /\ d.served /\ d.at = c.at
            /\ (~misplaced' => d.view = view)
    BY <1>2, <1>4
  <2>3. \A i \in On(rows') : i \in On(rows) \/ \E d \in {c} : i \in On(d.page)
    BY <1>6
  <2>4. (overlapped => overlapped') /\ (misplaced => misplaced') /\ {c} \in SUBSET calls
    BY <1>4
  <2> QED
    BY <1>2, <1>4, <2>1, <2>2, <2>3, <2>4 DEF Learning
<1>8. ListTyped'
  <2>1. On(rows') \in SUBSET (1..Known)
    BY <1>3, <1>5, <1>6
  <2>2. crossed' \in BOOLEAN /\ misplaced' \in BOOLEAN /\ gapped' \in BOOLEAN
    BY <1>4, <1>5
  <2> QED
    BY <1>1, <1>3, <1>4, <1>5, <1>6, <1>7, <2>1, <2>2, LearningIsTyped
<1>9. c.kind = "append" /\ ~overlapped => c.before = cursor /\ c.before # 0 /\ c.view = view
          /\ \A i \in On(rows) : i >= cursor
  BY <1>1, <1>3 DEF OneFetch
<1>10. OneFetch'
  <2> SUFFICES ASSUME ~overlapped' PROVE OneFetch'
    BY DEF OneFetch
  <2>1. \A d \in calls' : d.kind \notin Fetches
    BY <1>1, <1>2, <1>4 DEF OneFetch, Fetches
  <2>2. \A d \in calls' : d.kind # "append"
    BY <2>1 DEF Fetches
  <2>3. \A x : ~Before(rows', x, x)
    <3> SUFFICES ASSUME NEW x, Before(rows', x, x) PROVE FALSE
      OBVIOUS
    <3>1. ~Before(c.page, x, x)
      <4>1. Before(c.page, x, x) => x \in On(c.page) /\ x > x
        BY <1>3, BeforeOn DEF Falls
      <4>2. x \in On(c.page) => x \in Nat
        BY <1>2, <1>3
      <4> QED
        BY <4>1, <4>2
    <3>2. c.kind = "append" /\ ~Before(rows, x, x)
      BY <1>1, <1>2, <1>4, <1>6, <3>1 DEF OneFetch
    <3>3. x \in On(rows) /\ x \in On(c.page)
      BY <1>6, <3>1, <3>2
    <3>4. x >= c.before /\ x < c.before /\ x \in Nat
      BY <1>2, <1>3, <1>4, <1>9, <3>2, <3>3
    <3> QED
      BY <1>3, <3>4
  <2>4. \A i \in On(rows') : i >= cursor'
    <3> SUFFICES ASSUME NEW i \in On(rows') PROVE i >= c.next
      BY <1>4
    <3>1. CASE i \in On(c.page)
      BY <1>3, <3>1
    <3>2. CASE c.kind = "append" /\ i \in On(rows)
      <4>1. i >= c.before /\ i \in Nat /\ c.before \in Nat /\ c.next \in Nat
        BY <1>2, <1>3, <1>4, <1>5, <1>9, <3>2
      <4>2. c.next = 0 \/ c.next < c.before
        BY <1>3, <3>2
      <4> QED
        BY <4>1, <4>2
    <3> QED
      BY <1>2, <1>6, <3>1, <3>2
  <2> QED
    BY <2>1, <2>2, <2>3, <2>4 DEF OneFetch
<1>11. PagesSound' /\ EventsSound'
  BY <1>7, LearningKeepsPages
<1>12. RowsSound'
  <2> SUFFICES ASSUME Straight', Settled' PROVE (view = "active" => RowsAreActive)'
          /\ (view = "archived" => RowsAreArchived)'
    BY DEF RowsSound
  <2>1. Straight /\ seen <= c.at /\ c.view = view /\ ~overlapped
    <3>1. Straight /\ seen <= c.at
      BY <1>1, <1>7, LearningIsPassed
    <3> QED
      BY <1>4, <3>1 DEF Straight
  <2>2. Sound(c)
    <3>1. \A d \in calls \ {c} : d.kind # "replace" /\ ~(d.kind = "restore" /\ d.served)
      BY <1>4 DEF Settled
    <3> QED
      BY <1>2, <2>1, <3>1, AppliedIsSound
  <2>3. c.kind = "append" => Settled
    BY <1>4 DEF Settled
  <2>4. \A v : Current(v)' = Current(v)
    BY <1>4 DEF Current, Known
  <2>5. \A i \in Current(view) : i \in Sought(c) <=> (c.before = 0 \/ i < c.before)
    BY <2>1 DEF Sought
  <2>6. \A i, v, k : v = view /\ k \in Nat /\ Coming(i, v, k) => Coming(i, v, k)'
    <3>1. \A d \in {c} : d.kind # "refresh"
      BY <1>2
    <3> QED
      BY <1>1, <1>7, <3>1, ComingIsLearned
  <2>7. CASE view = "active"
    <3>0. c.kind = "append" => RowsAreActive
      BY <1>1, <2>1, <2>3, <2>7 DEF RowsSound
    <3>1. ASSUME NEW i \in On(rows') PROVE i \in Current("active") \/ Leaving(i, 0)'
      <4>1. \A k \in Nat : Leaving(i, k) => Leaving(i, 0)'
        <5>1. Pending' = Pending /\ \A e \in Pending : e.at \in Nat
          BY <1>1, <1>4, ListFacts DEF Pending
        <5> QED
          BY <5>1 DEF Leaving
      <4>2. CASE i \in On(c.page)
        BY <1>2, <2>1, <2>2, <2>7, <4>1, <4>2 DEF Sound
      <4>3. CASE c.kind = "append" /\ i \in On(rows)
        BY <3>0, <4>1, <4>3 DEF RowsAreActive
      <4> QED
        BY <1>2, <1>6, <4>2, <4>3
    <3>2. ASSUME NEW x \in Current("active"), NEW y \in Current("active"), Before(rows', x, y)
                 PROVE x > y
      <4>1. CASE Before(c.page, x, y)
        BY <1>3, <4>1 DEF Falls
      <4>2. CASE c.kind = "append" /\ Before(rows, x, y)
        BY <3>0, <4>2 DEF RowsAreActive
      <4>3. CASE c.kind = "append" /\ x \in On(rows) /\ y \in On(c.page)
        <5>1. x >= c.before /\ y < c.before
          BY <1>3, <1>9, <2>1, <4>3
        <5>2. x \in Nat /\ y \in Nat /\ c.before \in Nat
          BY <1>2, <1>3, <1>5, <4>3
        <5> QED
          BY <5>1, <5>2
      <4> QED
        BY <1>2, <1>6, <3>2, <4>1, <4>2, <4>3
    <3>3. ASSUME ~gapped', NEW i \in Current("active"), i >= cursor', i \notin On(rows')
          PROVE  (\A r \in On(rows') : r < i) /\ \E k \in Nat : Coming(i, "active", k)'
      <4>0. i \in Nat /\ i \notin On(c.page) /\ ~Has(c, i)
        <5>1. i \in Nat
          BY <1>1, <1>2, CurrentIs DEF ListTyped
        <5>2. ~(i < c.next)
          BY <1>2, <1>3, <1>4, <3>3, <5>1
        <5> QED
          BY <1>6, <3>3, <5>1, <5>2 DEF Has
      <4>1. i \in Sought(c) => Coming(i, "active", c.at) /\ Newer(c, i)
        BY <2>1, <2>2, <2>7, <4>0 DEF Sound
      <4>2. CASE c.kind = "replace"
        <5>1. Coming(i, "active", c.at) /\ Newer(c, i)
          BY <1>3, <2>5, <2>7, <4>1, <4>2
        <5>2. \A r \in On(rows') : r < i
          BY <1>6, <4>2, <5>1 DEF Newer
        <5> QED
          BY <1>2, <2>6, <2>7, <5>1, <5>2
      <4>3. CASE c.kind = "append"
        <5>1. c.before = cursor /\ c.before # 0
          BY <1>9, <2>1, <4>3
        <5>2. ~(i < c.before)
          <6>1. i < c.before => Newer(c, i)
            BY <2>5, <2>7, <4>1
          <6> QED
            BY <5>1, <6>1 DEF Newer
        <5>3. i >= cursor /\ i \notin On(rows) /\ ~gapped
          <6>1. i >= cursor
            BY <1>3, <4>0, <5>1, <5>2
          <6>2. i \notin On(rows)
            BY <1>6, <3>3, <4>3
          <6>3. ~gapped
            BY <1>4, <3>3, <4>3
          <6> QED
            BY <6>1, <6>2, <6>3
        <5>4. PICK k \in Nat : (\A r \in On(rows) : r < i) /\ Coming(i, "active", k)
          BY <3>0, <4>3, <5>3 DEF RowsAreActive
        <5>5. \A r \in On(c.page) : r < i
          <6>1. \A r \in On(c.page) : r < c.before /\ r \in Nat
            BY <1>2, <1>3, <5>1
          <6> QED
            BY <1>3, <4>0, <5>2, <6>1
        <5> QED
          BY <1>6, <2>6, <2>7, <5>4, <5>5
      <4> QED
        BY <1>2, <4>2, <4>3
    <3>4. RowsAreActive'
      BY <2>4, <3>1, <3>2, <3>3 DEF RowsAreActive
    <3> QED
      BY <1>4, <2>7, <3>4
  <2>8. CASE view = "archived"
    <3>0. c.kind = "append" => RowsAreArchived
      BY <1>1, <2>1, <2>3, <2>8 DEF RowsSound
    <3>1. On(c.page) \in SUBSET Current("archived")
      BY <2>1, <2>2, <2>8 DEF Sound
    <3>2. On(rows') \in SUBSET Current("archived")
      BY <1>2, <1>6, <3>0, <3>1 DEF RowsAreArchived
    <3>3. ASSUME NEW i \in Current("archived"), Rank(Current("archived"), i) < ListPage,
                 i \notin On(rows')
          PROVE  \E k \in Nat : Coming(i, "archived", k)'
      <4>1. CASE c.kind = "append"
        <5>1. PICK k \in Nat : Coming(i, "archived", k)
          BY <1>6, <3>0, <3>3, <4>1 DEF RowsAreArchived
        <5> QED
          BY <2>6, <2>8, <5>1
      <4>2. CASE c.kind = "replace"
        <5>1. i \in Sought(c)
          BY <1>3, <2>5, <2>8, <4>2
        <5>2. ~Has(c, i)
          <6>1. i \notin On(c.page)
            BY <1>6, <3>3
          <6>2. ~(c.next # 0 /\ i < c.next)
            BY <1>1, <1>3, <3>1, <3>3, OlderIsRanked
          <6> QED
            BY <6>1, <6>2 DEF Has
        <5>3. Coming(i, "archived", c.at)
          BY <2>1, <2>2, <2>8, <5>1, <5>2 DEF Sound
        <5> QED
          BY <1>2, <2>6, <2>8, <5>3
      <4> QED
        BY <1>2, <4>1, <4>2
    <3>4. RowsAreArchived'
      BY <2>4, <3>2, <3>3 DEF RowsAreArchived
    <3> QED
      BY <1>4, <2>8, <3>4
  <2> QED
    BY <1>4, <1>5, <2>7, <2>8 DEF List!Views
<1> QED
  BY <1>8, <1>10, <1>11, <1>12 DEF ListInv

LEMMA RefreshedPageKeeps ==
  ASSUME ListAssumptions, ListInv, NEW c \in calls, List!RefreshedPage(c)
  PROVE  ListInv'
<1>1. ListTyped /\ OneFetch /\ PagesSound /\ EventsSound /\ RowsSound
  BY DEF ListInv
<1>2. /\ changes \in Nat /\ seen \in Nat /\ Known \in Nat /\ c.at \in Nat /\ c.at <= changes /\ c.served
      /\ c.kind = "refresh" /\ c.kind \in List!Pages
  BY <1>1, ListFacts DEF List!RefreshedPage, List!Pages
<1>3. /\ c.page \in Seq(Nat) /\ Falls(c.page) /\ On(c.page) \in SUBSET (1..Known) /\ c.next \in 0..Known
      /\ \A i \in On(c.page) : i >= c.next
      /\ c.next # 0 => Cardinality(On(c.page)) = ListPage
      /\ c.before = 0
  BY <1>1, <1>2, NextIsOlder
<1>4. /\ calls' = calls \ {c} /\ rows' = c.page \o Without(rows, On(c.page))
      /\ seen' = (IF c.at > seen THEN c.at ELSE seen) /\ crossed' = (crossed \/ c.at < seen)
      /\ misplaced' = (misplaced \/ c.view # view)
      /\ overlapped' = (overlapped \/ (more /\ \E id \in On(c.page) : id < cursor)
                                   \/ \E d \in calls : d.kind \in {"replace", "append"})
      /\ gapped' = (gapped \/ \E id \in List!Matching(c.view, c.next) :
                                 c.next # 0 /\ id >= cursor /\ \A k \in 1..Len(rows) : id > rows[k])
      /\ archived' = archived /\ changes' = changes /\ events' = events /\ made' = made /\ view' = view
      /\ cursor' = cursor /\ more' = more /\ fetching' = fetching /\ loading' = loading
  <2>1. List!Range(c.page) = On(c.page) /\ List!Without(rows, On(c.page)) = Without(rows, On(c.page))
    BY <1>3, ListNames
  <2> QED
    BY <2>1 DEF List!RefreshedPage, List!Learn, List!store
<1>5. /\ rows \in Seq(Nat) /\ On(rows) \in SUBSET (1..Known) /\ view \in List!Views
            /\ overlapped \in BOOLEAN
      /\ crossed \in BOOLEAN /\ misplaced \in BOOLEAN /\ gapped \in BOOLEAN /\ events \in Seq(ListEvent)
      /\ cursor \in 0..Known /\ more = (cursor # 0) /\ fetching \in BOOLEAN /\ loading \in BOOLEAN
  BY <1>1 DEF ListTyped, ListTypes, ListEvents
<1>6. /\ rows' \in Seq(Nat) /\ On(rows') = On(c.page) \cup On(rows)
      /\ \A x, y : Before(rows', x, y) =>
           \/ Before(c.page, x, y) \/ Before(rows, x, y)
           \/ (x \in On(c.page) /\ y \in On(rows) /\ y \notin On(c.page))
  <2>1. PICK w : w = Without(rows, On(c.page))
    OBVIOUS
  <2>2. /\ w \in Seq(Nat) /\ On(w) = On(rows) \ On(c.page)
        /\ \A x, y : Before(w, x, y) => Before(rows, x, y)
    BY <1>5, <2>1, WithoutFacts
  <2>3. rows' = c.page \o w
    BY <1>4, <2>1
  <2>4. /\ rows' \in Seq(Nat) /\ On(rows') = On(c.page) \cup On(w)
        /\ \A x, y : Before(rows', x, y) => Before(c.page, x, y) \/ Before(w, x, y)
              \/ (x \in On(c.page) /\ y \in On(w))
    BY <1>3, <2>2, <2>3, Joined
  <2> QED
    BY <2>2, <2>4
<1>7. Learning(c.at, {c})
  <2>1. Pending' = Pending
    BY <1>4 DEF Pending
  <2>2. \A d \in {c} : d.kind \in List!Pages /\ d.served /\ d.at = c.at
            /\ (~misplaced' => d.view = view)
    BY <1>2, <1>4
  <2>3. \A i \in On(rows') : i \in On(rows) \/ \E d \in {c} : i \in On(d.page)
    BY <1>6
  <2>4. (overlapped => overlapped') /\ (misplaced => misplaced') /\ {c} \in SUBSET calls
    BY <1>4
  <2> QED
    BY <1>2, <1>4, <2>1, <2>2, <2>3, <2>4 DEF Learning
<1>8. ListTyped'
  <2>1. On(rows') \in SUBSET (1..Known)
    BY <1>3, <1>5, <1>6
  <2>2. crossed' \in BOOLEAN /\ misplaced' \in BOOLEAN
    BY <1>4, <1>5
  <2>3. overlapped' \in BOOLEAN
    BY <1>4, <1>5
  <2>4. gapped' \in BOOLEAN
    BY <1>4, <1>5
  <2> QED
    BY <1>1, <1>3, <1>4, <1>5, <1>6, <1>7, <2>1, <2>2, <2>3, <2>4, LearningIsTyped
<1>9. ~overlapped' => /\ ~overlapped /\ \A d \in calls : d.kind \notin Fetches
                      /\ \A i \in On(c.page) : i >= cursor
  <2> SUFFICES ASSUME ~overlapped'
               PROVE  /\ ~overlapped /\ \A d \in calls : d.kind \notin Fetches
                      /\ \A i \in On(c.page) : i >= cursor
    OBVIOUS
  <2>1. ~overlapped /\ (\A d \in calls : d.kind \notin Fetches)
            /\ (more => \A i \in On(c.page) : ~(i < cursor))
    BY <1>4 DEF Fetches
  <2>2. \A i \in On(c.page) : i \in Nat
    BY <1>2, <1>3
  <2>3. cursor \in Nat
    BY <1>2, <1>5
  <2>6. cursor # 0 => more
    BY <1>5
  <2>4. CASE cursor = 0
    BY <2>1, <2>2, <2>4
  <2>5. CASE cursor # 0
    BY <2>1, <2>2, <2>3, <2>5, <2>6
  <2> QED
    BY <2>4, <2>5
<1>10. OneFetch'
  <2> SUFFICES ASSUME ~overlapped' PROVE OneFetch'
    BY DEF OneFetch
  <2>1. \A d \in calls' : d.kind \notin Fetches /\ d.kind # "append"
    BY <1>4, <1>9 DEF Fetches
  <2>2. \A x : ~Before(rows', x, x)
    <3> SUFFICES ASSUME NEW x, Before(rows', x, x) PROVE FALSE
      OBVIOUS
    <3>1. ~Before(c.page, x, x)
      <4>1. Before(c.page, x, x) => x \in On(c.page) /\ x > x
        BY <1>3, BeforeOn DEF Falls
      <4>2. x \in On(c.page) => x \in Nat
        BY <1>2, <1>3
      <4> QED
        BY <4>1, <4>2
    <3>2. ~Before(rows, x, x)
      BY <1>1, <1>9 DEF OneFetch
    <3> QED
      BY <1>6, <3>1, <3>2
  <2>3. \A i \in On(rows') : i >= cursor'
    BY <1>1, <1>4, <1>6, <1>9 DEF OneFetch
  <2> QED
    BY <2>1, <2>2, <2>3 DEF OneFetch
<1>11. PagesSound' /\ EventsSound'
  BY <1>7, LearningKeepsPages
<1>12. RowsSound'
  <2> SUFFICES ASSUME Straight', Settled' PROVE (view = "active" => RowsAreActive)'
          /\ (view = "archived" => RowsAreArchived)'
    BY DEF RowsSound
  <2>1. Straight /\ seen <= c.at /\ c.view = view /\ Settled
    <3>1. Straight /\ seen <= c.at
      BY <1>1, <1>7, LearningIsPassed
    <3>2. Settled
      BY <1>2, <1>4 DEF Settled
    <3> QED
      BY <1>4, <3>1, <3>2 DEF Straight
  <2>2. Sound(c)
    <3>1. \A d \in calls \ {c} : d.kind # "replace" /\ ~(d.kind = "restore" /\ d.served)
      BY <1>4 DEF Settled
    <3> QED
      BY <1>2, <2>1, <3>1, AppliedIsSound
  <2>4. \A v : Current(v)' = Current(v)
    BY <1>4 DEF Current, Known
  <2>5. \A i \in Current(view) : i \in Sought(c)
    BY <1>3, <2>1 DEF Sought
  <2>6. \A i, v : v = view /\ Coming(i, v, c.at) => Coming(i, v, c.at)'
    <3>1. \A d \in {c} : d.kind # "refresh" \/ c.at <= c.at
      BY <1>2
    <3> QED
      BY <1>1, <1>2, <1>7, <3>1, ComingIsLearned
  <2>7. CASE view = "active"
    <3>0. RowsAreActive
      BY <1>1, <2>1, <2>7 DEF RowsSound
    <3>1. ASSUME NEW i \in On(rows') PROVE i \in Current("active") \/ Leaving(i, 0)'
      <4>1. \A k \in Nat : Leaving(i, k) => Leaving(i, 0)'
        <5>1. Pending' = Pending /\ \A e \in Pending : e.at \in Nat
          BY <1>1, <1>4, ListFacts DEF Pending
        <5> QED
          BY <5>1 DEF Leaving
      <4>2. CASE i \in On(c.page)
        BY <1>2, <2>1, <2>2, <2>7, <4>1, <4>2 DEF Sound
      <4>3. CASE i \in On(rows)
        BY <3>0, <4>1, <4>3 DEF RowsAreActive
      <4> QED
        BY <1>6, <4>2, <4>3
    <3>2. ASSUME NEW x \in Current("active"), NEW y \in Current("active"), Before(rows', x, y)
                 PROVE x > y
      <4>1. CASE Before(c.page, x, y)
        BY <1>3, <4>1 DEF Falls
      <4>2. CASE Before(rows, x, y)
        BY <3>0, <4>2 DEF RowsAreActive
      <4>3. CASE x \in On(c.page) /\ y \in On(rows) /\ y \notin On(c.page)
        <5>1. y \in Sought(c) /\ ~Newer(c, y)
          BY <2>1, <2>5, <2>7, <4>3 DEF Newer
        <5>2. Has(c, y)
          BY <2>1, <2>2, <2>7, <5>1 DEF Sound
        <5>3. y < c.next /\ x >= c.next
          BY <1>3, <4>3, <5>2 DEF Has
        <5>4. x \in Nat /\ y \in Nat /\ c.next \in Nat
          BY <1>2, <1>3, <1>5, <4>3
        <5> QED
          BY <5>3, <5>4
      <4> QED
        BY <1>6, <3>2, <4>1, <4>2, <4>3
    <3>3. ASSUME ~gapped', NEW i \in Current("active"), i >= cursor', i \notin On(rows')
          PROVE  (\A r \in On(rows') : r < i) /\ \E k \in Nat : Coming(i, "active", k)'
      <4>1. i \in Nat /\ i \in 1..Known /\ i \notin On(c.page) /\ i \notin On(rows) /\ i \in Sought(c)
        <5>1. i \in 1..Known
          BY <1>1, CurrentIs DEF ListTyped
        <5> QED
          BY <1>2, <1>6, <2>5, <2>7, <3>3, <5>1
      <4>2. ~gapped
        BY <1>4, <3>3
      <4>3. \A r \in On(rows) : r < i
        BY <1>4, <3>0, <3>3, <4>1, <4>2 DEF RowsAreActive
      <4>4. ~Has(c, i)
        <5> SUFFICES ASSUME c.next # 0, i < c.next PROVE FALSE
          BY <4>1 DEF Has
        <5>1. i \in List!Matching(c.view, c.next)
          BY <2>1, <2>7, <3>3, ListMatches
        <5>2. \A k \in 1..Len(rows) : i > rows[k]
          <6>1. \A k \in 1..Len(rows) : rows[k] \in On(rows) /\ rows[k] \in Nat
            BY <1>5 DEF On
          <6> QED
            BY <4>1, <4>3, <6>1
        <5>3. i >= cursor
          BY <1>4, <3>3
        <5> QED
          BY <1>4, <3>3, <5>1, <5>2, <5>3
      <4>5. Coming(i, "active", c.at) /\ Newer(c, i)
        BY <2>1, <2>2, <2>7, <4>1, <4>4 DEF Sound
      <4>6. \A r \in On(rows') : r < i
        BY <1>6, <4>3, <4>5 DEF Newer
      <4> QED
        BY <1>2, <2>6, <2>7, <4>5, <4>6
    <3>4. RowsAreActive'
      BY <2>4, <3>1, <3>2, <3>3 DEF RowsAreActive
    <3> QED
      BY <1>4, <2>7, <3>4
  <2>8. CASE view = "archived"
    <3>0. RowsAreArchived
      BY <1>1, <2>1, <2>8 DEF RowsSound
    <3>1. On(c.page) \in SUBSET Current("archived")
      BY <2>1, <2>2, <2>8 DEF Sound
    <3>2. On(rows') \in SUBSET Current("archived")
      BY <1>6, <3>0, <3>1 DEF RowsAreArchived
    <3>3. ASSUME NEW i \in Current("archived"), Rank(Current("archived"), i) < ListPage,
                 i \notin On(rows')
          PROVE  \E k \in Nat : Coming(i, "archived", k)'
      <4>1. i \in Sought(c)
        BY <2>5, <2>8
      <4>2. ~Has(c, i)
        <5>1. i \notin On(c.page)
          BY <1>6, <3>3
        <5>2. ~(c.next # 0 /\ i < c.next)
          BY <1>1, <1>3, <3>1, <3>3, OlderIsRanked
        <5> QED
          BY <5>1, <5>2 DEF Has
      <4>3. Coming(i, "archived", c.at)
        BY <2>1, <2>2, <2>8, <4>1, <4>2 DEF Sound
      <4> QED
        BY <1>2, <2>6, <2>8, <4>3
    <3>4. RowsAreArchived'
      BY <2>4, <3>2, <3>3 DEF RowsAreArchived
    <3> QED
      BY <1>4, <2>8, <3>4
  <2> QED
    BY <1>4, <1>5, <2>7, <2>8 DEF List!Views
<1> QED
  BY <1>8, <1>10, <1>11, <1>12 DEF ListInv

\* An archive heard in the inbox drops its rows.
LEMMA EventDropsKeeps ==
  ASSUME ListAssumptions, ListInv, List!EventArrives, Head(events).kind = "archived", view = "active"
  PROVE  ListInv'
<1>1. ListTyped /\ OneFetch /\ PagesSound /\ EventsSound /\ RowsSound
  BY DEF ListInv
<1>2. /\ changes \in Nat /\ seen \in Nat /\ Known \in Nat
      /\ \A e \in Pending : e.at \in Nat /\ e.at <= changes
  BY <1>1, ListFacts
<1>3. PICK e : e = Head(events)
  OBVIOUS
<1>4. /\ events # <<>> /\ events' = Tail(events) /\ e.kind = "archived"
      /\ calls' = calls /\ rows' = Without(rows, e.ids)
      /\ seen' = (IF e.at > seen THEN e.at ELSE seen) /\ crossed' = (crossed \/ e.at < seen)
      /\ misplaced' = (misplaced \/ view # view) /\ gapped' = gapped /\ overlapped' = overlapped
      /\ archived' = archived /\ changes' = changes /\ made' = made /\ view' = view
      /\ cursor' = cursor /\ more' = more /\ fetching' = fetching /\ loading' = loading
  <2>1. List!Without(rows, e.ids) = Without(rows, e.ids)
    BY ListNames
  <2> QED
    BY <1>3, <2>1 DEF List!EventArrives, List!Learn, List!store
<1>5. /\ rows \in Seq(Nat) /\ On(rows) \in SUBSET (1..Known) /\ overlapped \in BOOLEAN
      /\ crossed \in BOOLEAN /\ misplaced \in BOOLEAN /\ gapped \in BOOLEAN /\ events \in Seq(ListEvent)
      /\ cursor \in 0..Known /\ more = (cursor # 0) /\ fetching \in BOOLEAN /\ loading \in BOOLEAN
  BY <1>1 DEF ListTyped, ListTypes, ListEvents
<1>6. /\ rows' \in Seq(Nat) /\ On(rows') = On(rows) \ e.ids /\ \A x, y : Before(rows', x, y)
            => Before(rows, x, y)
  BY <1>4, <1>5, WithoutFacts
<1>7. /\ events' \in Seq(ListEvent) /\ e \in Pending /\ Pending' \in SUBSET Pending
      /\ \A x \in Pending : x = e \/ x \in Pending'
  BY <1>3, <1>4, <1>5, Heard DEF Pending
<1>8. Learning(e.at, {})
  BY <1>2, <1>4, <1>6, <1>7 DEF Learning
<1>9. ListTyped'
  <2>1. On(rows') \in SUBSET (1..Known) /\ crossed' \in BOOLEAN /\ misplaced' \in BOOLEAN
    BY <1>4, <1>5, <1>6
  <2> QED
    BY <1>1, <1>4, <1>5, <1>6, <1>7, <1>8, <2>1, LearningIsTyped
<1>10. OneFetch'
  BY <1>1, <1>4, <1>6 DEF OneFetch
<1>11. PagesSound' /\ EventsSound'
  BY <1>8, LearningKeepsPages
<1>12. RowsSound'
  <2> SUFFICES ASSUME Straight', Settled' PROVE RowsAreActive'
    BY <1>4 DEF RowsSound
  <2>1. Straight /\ seen <= e.at /\ Settled
    BY <1>1, <1>4, <1>8, LearningIsPassed DEF Settled
  <2>2. RowsAreActive
    BY <1>1, <2>1 DEF RowsSound
  <2>3. e.ids \in SUBSET Current("archived")
    <3>1. ~Passed(e.at)
      BY <1>2, <1>7, <2>1 DEF Passed, Settled
    <3> QED
      BY <1>1, <1>4, <1>7, <3>1 DEF EventsSound
  <2>4. \A v : Current(v)' = Current(v)
    BY <1>4 DEF Current, Known
  <2>5. Current("active") \cap Current("archived") = {}
    BY DEF Current
  <2>6. ASSUME NEW i \in On(rows') PROVE i \in Current("active") \/ Leaving(i, 0)'
    <3>1. i \in Current("active") \/ Leaving(i, 0)
      BY <1>6, <2>2 DEF RowsAreActive
    <3>2. i \notin e.ids
      BY <1>6
    <3> QED
      BY <1>7, <3>1, <3>2 DEF Leaving
  <2>7. \A x, y \in Current("active") : Before(rows', x, y) => x > y
    BY <1>6, <2>2 DEF RowsAreActive
  <2>8. ASSUME ~gapped', NEW i \in Current("active"), i >= cursor', i \notin On(rows')
        PROVE  (\A r \in On(rows') : r < i) /\ \E k \in Nat : Coming(i, "active", k)'
    <3>1. i \notin On(rows)
      BY <1>6, <2>3, <2>5, <2>8
    <3>2. PICK k \in Nat : (\A r \in On(rows) : r < i) /\ Coming(i, "active", k)
      BY <1>4, <2>2, <2>8, <3>1 DEF RowsAreActive
    <3>3. Coming(i, "active", k)'
      BY <1>1, <1>8, <3>2, ComingIsLearned
    <3> QED
      BY <1>6, <3>2, <3>3
  <2> QED
    BY <2>4, <2>6, <2>7, <2>8 DEF RowsAreActive
<1> QED
  BY <1>9, <1>10, <1>11, <1>12 DEF ListInv

LEMMA ListStepKeepsInv ==
  ASSUME ListAssumptions, ListInv, [List!Next]_(List!vars)
  PROVE  ListInv'
<1>1. CASE UNCHANGED List!vars
  <2>1. /\ archived' = archived /\ changes' = changes /\ events' = events /\ calls' = calls
              /\ made' = made
        /\ view' = view /\ rows' = rows /\ cursor' = cursor /\ more' = more /\ fetching' = fetching
        /\ loading' = loading /\ seen' = seen /\ crossed' = crossed /\ overlapped' = overlapped
        /\ misplaced' = misplaced /\ gapped' = gapped
    BY <1>1 DEF List!vars, List!store, List!list, List!history
  <2>2. Known' = Known /\ Pending' = Pending /\ (\A v : Current(v)' = Current(v))
    BY <2>1 DEF Known, Pending, Current
  <2>3. /\ \A t : Passed(t)' <=> Passed(t)
        /\ \A i, v, t : Coming(i, v, t)' <=> Coming(i, v, t)
        /\ \A i, t : Leaving(i, t)' <=> Leaving(i, t)
    BY <2>1, <2>2 DEF Passed, Coming, Brings, Has, Asks, Leaving
  <2>4. ListTyped' /\ OneFetch'
    BY <2>1, <2>2 DEF ListInv, ListTyped, ListTypes, ListEvents, ListCallsOk, OneFetch
  <2>5. \A c : (Outdone(c)' <=> Outdone(c)) /\ Sought(c)' = Sought(c)
    BY <2>1, <2>2, <2>3 DEF Outdone, Sought
  <2>6. \A c, i : Newer(c, i)' <=> Newer(c, i)
    BY <2>1 DEF Newer
  <2>7. \A c : Sound(c)' <=> Sound(c)
    BY <2>2, <2>3, <2>5, <2>6 DEF Sound, Has
  <2>8. PagesSound'
    BY <2>1, <2>5, <2>7 DEF ListInv, PagesSound, Straight
  <2>9. EventsSound'
    BY <2>2, <2>3 DEF ListInv, EventsSound
  <2>10. (RowsAreActive' <=> RowsAreActive) /\ (RowsAreArchived' <=> RowsAreArchived)
    BY <2>1, <2>2, <2>3 DEF RowsAreActive, RowsAreArchived
  <2>11. RowsSound'
    BY <2>1, <2>10 DEF ListInv, RowsSound, Straight, Settled
  <2> QED
    BY <2>4, <2>8, <2>9, <2>11 DEF ListInv
<1>2. ASSUME NEW c \in calls, List!ServeMutation(c) PROVE ListInv'
  BY <1>2, ArchiveServedKeeps, RestoreServedKeeps DEF List!ServeMutation
<1>3. List!Range(rows) = On(rows)
  BY ListNames DEF ListInv, ListTyped, ListTypes
<1>4. ASSUME NEW ids \in {{id} : id \in List!Range(rows)} \cup ({List!Range(rows)} \ {{}}),
             List!Bulk(ids) PROVE ListInv'
  <2>1. ids \in SUBSET On(rows)
    BY <1>3
  <2> QED
    BY <1>4, <2>1, BulkKeeps
<1>5. ASSUME List!EventArrives PROVE ListInv'
  BY <1>5, EventAsks, EventDropsKeeps
<1>6. ASSUME NEW id \in List!Range(rows), List!ArchiveFromPane(id) PROVE ListInv'
  BY <1>3, <1>6, PaneArchiveKeeps
<1>7. CASE List!Next
  BY <1>2, <1>4, <1>5, <1>6, <1>7, RecordKeeps, LoadMoreKeeps, SwitchViewKeeps, ServePageKeeps,
    FetchedPageKeeps,
     RefreshedPageKeeps, BulkDoneKeeps DEF List!Next
<1> QED
  BY <1>1, <1>7

\* The invariant gives what the list promises.
LEMMA ListPromises ==
  ASSUME ListAssumptions, ListInv
  PROVE  List!TypeOK /\ List!RowsOnce /\ List!ListSettles
<1>1. ListTyped /\ OneFetch /\ RowsSound /\ Known \in Nat /\ changes \in Nat
  BY ListFacts DEF ListInv
<1>2. /\ rows \in Seq(Nat) /\ On(rows) \in SUBSET (1..Known) /\ view \in List!Views
            /\ cursor \in 0..Known
      /\ archived \in Seq(BOOLEAN) /\ Known \in ListSeeded..ListRecords /\ seen \in 0..changes
            /\ more = (cursor # 0)
      /\ fetching \in BOOLEAN /\ loading \in BOOLEAN /\ crossed \in BOOLEAN /\ overlapped \in BOOLEAN
      /\ misplaced \in BOOLEAN /\ gapped \in BOOLEAN
  BY <1>1 DEF ListTyped, ListTypes
<1>3. List!TypeOK
  <2>1. archived \in UNION {[1..n -> BOOLEAN] : n \in ListSeeded..ListRecords}
    <3>1. archived \in [1..Known -> BOOLEAN]
      BY <1>2 DEF Known
    <3> QED
      BY <1>2, <3>1
  <2>2. \A i \in 1..Len(rows) : rows[i] \in List!Ids
    BY <1>2 DEF On, List!Ids, Known
  <2>3. \A c \in calls : c.kind \in List!Pages \cup {"archive", "restore"} /\ c.view \in List!Views
            /\ c.ticket \in 1..made
    BY <1>1 DEF ListTyped, ListCallsOk, CallOk, ListCall
  <2>4. {more, fetching, loading, crossed, overlapped, misplaced, gapped} \subseteq BOOLEAN
    BY <1>2
  <2> QED
    BY <1>2, <2>1, <2>2, <2>3, <2>4 DEF List!TypeOK, Known
<1>4. ASSUME ~overlapped PROVE List!IsInjective(rows)
  <2>1. \A x : ~Before(rows, x, x)
    BY <1>1, <1>4 DEF OneFetch
  <2>2. ASSUME NEW j \in 1..Len(rows), NEW k \in 1..Len(rows), rows[j] = rows[k] PROVE j = k
    <3>1. ~(j < k) /\ ~(k < j)
      BY <2>1, <2>2 DEF Before
    <3>2. Len(rows) \in Nat
      BY <1>2
    <3> QED
      BY <3>1, <3>2
  <2>3. DOMAIN rows = 1..Len(rows)
    BY <1>2
  <2> QED
    BY <2>2, <2>3 DEF List!IsInjective
<1>5. ASSUME List!Quiet, Straight
      PROVE  /\ view = "active" => gapped \/ LET owed == {id \in List!Matching(view, 0) : id >= cursor}
                                             IN  rows = List!Newest(owed, List!Cardinality(owed))
             /\ view # "active" => /\ List!Range(List!Newest(List!Matching(view, 0),
                                      ListPage)) \subseteq List!Range(rows)
                                   /\ List!Range(rows) \subseteq List!Matching(view, 0)
  <2>1. calls = {} /\ Pending = {} /\ Settled
    BY <1>5 DEF List!Quiet, Pending, On, Settled
  <2>2. (\A i, v, t : ~Coming(i, v, t)) /\ \A i, t : ~Leaving(i, t)
    BY <2>1 DEF Coming, Leaving
  <2>3. List!Range(rows) = On(rows) /\ \A v : List!Matching(v, 0) = Current(v)
    BY <1>2, ListNames, ListMatches
  <2>4. CASE view = "active" /\ ~gapped
    <3>1. RowsAreActive
      BY <1>1, <1>5, <2>1, <2>4 DEF RowsSound
    <3>2. PICK owed : owed = {id \in Current("active") : id >= cursor}
      OBVIOUS
    <3>3. owed \in SUBSET (1..Known) /\ On(rows) = owed
      <4>1. Current("active") \in SUBSET (1..Known)
        BY <1>1, CurrentIs DEF ListTyped
      <4>2. \A i \in On(rows) : i >= cursor
        BY <1>1, <1>5 DEF OneFetch, Straight
      <4> QED
        BY <2>2, <2>4, <3>1, <3>2, <4>1, <4>2 DEF RowsAreActive
    <3>4. Falls(rows)
      BY <2>2, <3>1, BeforeOn DEF RowsAreActive, Falls
    <3>5. rows \in Seq(owed)
      <4>1. Len(rows) \in Nat /\ rows \in [1..Len(rows) -> Nat] /\ \A k \in 1..Len(rows) :
                rows[k] \in owed
        BY <1>2, <3>3 DEF On
      <4>2. rows \in [1..Len(rows) -> owed]
        BY <4>1
      <4> QED
        BY <4>1, <4>2
    <3>6. rows = Newest(owed, Cardinality(owed))
      BY <1>1, <3>3, <3>4, <3>5, FallsOnce
    <3>7. List!Newest(owed, List!Cardinality(owed)) = Newest(owed, Cardinality(owed))
      BY ListNames
    <3> QED
      BY <2>3, <2>4, <3>2, <3>6, <3>7
  <2>5. CASE view = "archived"
    <3>1. RowsAreArchived
      BY <1>1, <1>5, <2>1, <2>5 DEF RowsSound
    <3>2. PICK S : S = Current("archived")
      OBVIOUS
    <3>3. S \in SUBSET (1..Known) /\ ListPage \in Nat /\ \A r \in S : r \in Nat
      <4>1. S \in SUBSET (1..Known)
        BY <1>1, <3>2, CurrentIs DEF ListTyped
      <4> QED
        BY <1>1, <4>1 DEF ListAssumptions
    <3>4. Newest(S, ListPage) \in Seq(S) /\ On(Newest(S, ListPage)) = {r \in S : Rank(S, r) < ListPage}
      BY <1>1, <3>3, NewestFacts
    <3>5. Newest(S, ListPage) \in Seq(Nat)
      <4>1. Len(Newest(S, ListPage)) \in Nat /\ Newest(S,
                ListPage) \in [1..Len(Newest(S, ListPage)) -> S]
        BY <3>4
      <4>2. Newest(S, ListPage) \in [1..Len(Newest(S, ListPage)) -> Nat]
        BY <3>3, <4>1
      <4> QED
        BY <4>1, <4>2
    <3>6. List!Range(List!Newest(S, ListPage)) = {r \in S : Rank(S, r) < ListPage}
      <4>1. List!Newest(S, ListPage) = Newest(S, ListPage)
        BY ListNames
      <4> QED
        BY <3>4, <3>5, <4>1, ListNames
    <3>7. {r \in S : Rank(S, r) < ListPage} \subseteq On(rows)
      BY <2>2, <3>1, <3>2 DEF RowsAreArchived
    <3>8. On(rows) \subseteq S
      BY <3>1, <3>2 DEF RowsAreArchived
    <3> QED
      BY <2>3, <2>5, <3>2, <3>6, <3>7, <3>8
  <2> QED
    BY <1>2, <2>4, <2>5 DEF List!Views
<1>6. List!RowsOnce
  BY <1>4 DEF List!RowsOnce
<1>7. List!ListSettles
  BY <1>5 DEF List!ListSettles, Straight
<1> QED
  BY <1>3, <1>6, <1>7

\* For any records, length of a page and calls: a notification is on the list at most once
\* unless two fetches were out at once or a refreshed page reached past the rows loaded;
\* and once events and answers have arrived the inbox lists the active records down to its
\* cursor, newest first, and the archive the archived ones, its first page with them, unless
\* an answer came late, was of the other view or of rows that a burst of pushes had left
\* behind (use-notification-center-page, refreshTopPage, mergeRefreshedRows).
THEOREM ListIsSafe ==
  ASSUME ListAssumptions
  PROVE  List!Spec => [](List!TypeOK /\ List!RowsOnce /\ List!ListSettles)
<1>1. List!Init => ListInv
  BY ListInit
<1>2. ListInv /\ [List!Next]_(List!vars) => ListInv'
  BY ListStepKeepsInv
<1> QED
  BY <1>1, <1>2, ListPromises, PTL DEF List!Spec

-----------------------------------------------------------------------------
(* The activity feed.  A page has no gaps but the lines recorded later below *)
(* one it has, and a line has no place above it but those of now and those   *)
(* its group moved on from.  The lines on screen are pages put together      *)
(* where they meet; a seam of two may lose the lines of its millisecond.     *)
(* Until the feed begins with the page of the newest lines the recorder is   *)
(* still to be heard, or a refresh asked for later than what is shown will   *)
(* bring it.                                                                 *)

FeedAssumptions ==
  /\ FeedRecords \in Nat /\ FeedSeeded \in SUBSET (1..FeedRecords) /\ FeedPage \in Nat \ {0}
  /\ None \notin Feed!Queries
  /\ \A p \in 1..FeedRecords : AtMs[p] \in Nat
  /\ \A p, r \in 1..FeedRecords : p <= r => AtMs[p] <= AtMs[r]

FeedCall == [kind : {"first", "older", "live"}, ticket : Nat, requestId : Nat, query : Feed!Queries,
             cursor : Nat, served : BOOLEAN, ok : BOOLEAN, lines : Seq(Nat), next : Nat]

\* The places a query ever listed a line at, and the lines a run of pages may be without:
\* one recorded below a line that was read, one that shares a seam's millisecond.
Places(q) == {r \in lines \cup regrouped : Feed!OfQuery(q, r)}
Excused(r, ends) == r \in inserted \/ \E z \in ends : r < z /\ AtMs[r] = AtMs[z]

\* Lines of a query one after another, and the lowest of them, 0 when it is the last.
Run(q, s, ends) ==
  /\ On(s) \in SUBSET Places(q) /\ Falls(s)
  /\ \A r \in Feed!Matching(q), x, y \in On(s) : x <= r /\ r <= y => r \in On(s) \/ Excused(r, ends)
Bottom(q, s, k, ends) ==
  IF k = 0 THEN \A r \in Feed!Matching(q), x \in On(s) : r < x => r \in On(s) \/ Excused(r, ends)
  ELSE k \in On(s) /\ \A x \in On(s) : x >= k

\* A page that was read below a cursor begins right there.
Under(c) ==
  c.cursor # 0 =>
    /\ \A x \in On(c.lines) : x < c.cursor
    /\ \A r \in Feed!Matching(c.query) : r < c.cursor =>
         r \in On(c.lines) \/ (c.next # 0 /\ r < c.next) \/ r \in inserted
PageRuns(c) == Run(c.query, c.lines, {}) /\ Bottom(c.query, c.lines, c.next, {}) /\ Under(c)
CallFits(c) ==
  /\ c \in FeedCall /\ c.ticket \in 1..made /\ c.ticket # taken /\ c.requestId <= requestId
  /\ (c.requestId = requestId => c.query = query) /\ (c.kind = "older" <=> c.cursor # 0)
        /\ c.cursor <= FeedRecords
  /\ (c.lines = <<>> => c.next = 0)
  /\ (c.served /\ c.ok => PageRuns(c))

FeedTypes ==
  /\ lines \in SUBSET (1..FeedRecords) /\ inserted \in SUBSET (1..FeedRecords)
  /\ regrouped \in SUBSET (1..FeedRecords) /\ seams \in SUBSET (1..FeedRecords)
  /\ query \in Feed!Queries \cup {None} /\ status \in {"loading", "ready", "failed"}
  /\ shown \in Seq(Nat) /\ On(shown) \in SUBSET (lines \cup regrouped) /\ cursor \in 0..FeedRecords
  /\ requestId \in Nat /\ loadingMore \in BOOLEAN /\ due \in BOOLEAN /\ torn \in BOOLEAN
        /\ behind \in BOOLEAN
  /\ made \in Nat /\ taken \in 0..made /\ source \in SUBSET Feed!Queries
FeedCallsFit ==
  /\ \A c \in calls : CallFits(c)
  /\ \A c, d \in calls : c.ticket = d.ticket => c = d

\* A query that has listed a line has one: a group that moves has its line elsewhere.
LinesStay == \A q \in Feed!Queries : Feed!Matching(q) = {} => Places(q) = {}

LinesRun ==
  /\ cursor # 0 => shown # <<>>
  /\ source = {} => shown = <<>>
  /\ torn = FALSE => \A q \in Feed!Queries : source = {q} =>
       Run(q, shown, seams) /\ Bottom(q, shown, cursor, seams)

\* A list begins with a page of the newest lines of the query, and what will make it so.
Begins(s, w) ==
  /\ Len(w) <= Len(s) /\ \A i \in 1..Len(w) : s[i] = w[i]
  /\ w = <<>> => s = <<>>
Tops(s) == Begins(s, Newest(Feed!Matching(query), FeedPage))
Owed(t) ==
  \/ due = TRUE
  \/ \E d \in calls : /\ d.kind = "live" /\ d.requestId = requestId /\ d.ticket > t
                      /\ d.served /\ d.ok => Tops(d.lines)
NewestOwed ==
  /\ status = "ready" /\ query # None /\ behind = FALSE => Tops(shown) \/ Owed(taken)
  /\ \A c \in calls : c.kind # "older" /\ c.requestId = requestId /\ c.served /\ c.ok
        /\ c.ticket > taken =>
       Tops(c.lines) \/ Owed(c.ticket)

FeedInv == FeedTypes /\ FeedCallsFit /\ LinesStay /\ LinesRun /\ NewestOwed

\* The operators of the component are those of this module.
LEMMA FeedNames ==
  ASSUME NEW s, NEW S, NEW n
  PROVE  /\ Feed!Newest(S, n) = Newest(S, n) /\ Feed!Without(s, S) = Without(s, S)
         /\ Feed!Cardinality(S) = Cardinality(S)
         /\ s \in Seq(Nat) => Feed!Range(s) = On(s)
<1>1. \A T, m : Feed!Newest(T, m) = Newest(T, m) /\ Feed!Cardinality(T) = Cardinality(T)
  BY DEF Feed!Newest, Newest, Feed!Cardinality, Cardinality
<1>2. Feed!Without(s, S) = Without(s, S)
  BY <1>1 DEF Feed!Without, Without
<1>3. s \in Seq(Nat) => Feed!Range(s) = On(s)
  BY DEF Feed!Range, On
<1> QED
  BY <1>1, <1>2, <1>3

\* Of what a query matches a page has the newest, and it says where the rest begins.
LEMMA PageIs ==
  ASSUME NEW N \in Nat, NEW S \in SUBSET (1..N), NEW n \in Nat \ {0}, NEW w, w = Newest(S, n),
         NEW k, k = IF Cardinality(S) > n THEN w[n] ELSE 0
  PROVE  /\ w \in Seq(Nat) /\ On(w) \in SUBSET S /\ Falls(w) /\ k \in 0..N
         /\ \A r \in S : r \in On(w) \/ (k # 0 /\ r < k)
         /\ k # 0 => k \in On(w) /\ \A x \in On(w) : x >= k
         /\ (S = {} => w = <<>>) /\ (S # {} => w # <<>> /\ w[1] \in S /\ \A r \in S : r <= w[1])
<1>1. /\ w \in Seq(S) /\ Falls(w) /\ On(w) = {r \in S : Rank(S, r) < n}
      /\ Len(w) = IF n < Cardinality(S) THEN n ELSE Cardinality(S)
  BY NewestFacts, NewestIs
<1>2. IsFiniteSet(S) /\ Cardinality(S) \in Nat /\ \A r \in S : r \in Nat
  BY Ranks
<1>3. w \in Seq(Nat) /\ On(w) \in SUBSET S /\ Len(w) \in Nat /\ \A i \in 1..Len(w) : w[i] \in S
  <2>1. Len(w) \in Nat /\ w \in [1..Len(w) -> S] /\ \A i \in 1..Len(w) : w[i] \in S
    BY <1>1
  <2>2. w \in [1..Len(w) -> Nat]
    BY <1>2, <2>1
  <2>3. On(w) \in SUBSET S
    BY <1>1
  <2> QED
    BY <2>1, <2>2, <2>3
<1>4. CASE Cardinality(S) > n
  <2>1. k \in On(w) /\ (\A r \in S : r \notin On(w) => r < k) /\ \A r \in On(w) : r >= k
    BY <1>4, NewestPage
  <2>2. k \in S /\ k # 0
    BY <1>3, <2>1
  <2>3. w # <<>> /\ S # {}
    BY <2>1, <2>2 DEF On
  <2>4. 1 \in 1..Len(w) /\ \A i \in 1..Len(w) : i = 1 \/ 1 < i
    BY <1>3, <2>3
  <2>5. w[1] \in On(w) /\ \A x \in On(w) : x = w[1] \/ Before(w, w[1], x)
    BY <2>4 DEF On, Before
  <2>6. \A x \in On(w) : x <= w[1]
    <3>1. w[1] \in Nat /\ \A x \in On(w) : x \in Nat
      BY <1>2, <1>3, <2>5
    <3>2. \A x \in On(w) : x = w[1] \/ w[1] > x
      BY <1>1, <2>5 DEF Falls
    <3> QED
      BY <3>1, <3>2
  <2>7. \A r \in S : r <= w[1]
    <3>1. k \in Nat /\ w[1] \in Nat /\ k <= w[1]
      BY <1>2, <1>3, <2>2, <2>5, <2>6, <2>1
    <3>2. \A r \in S : r \in Nat /\ (r \in On(w) \/ r < k)
      BY <1>2, <2>1
    <3> QED
      BY <2>6, <3>1, <3>2
  <2> QED
    BY <1>1, <1>3, <2>1, <2>2, <2>3, <2>5, <2>7
<1>5. CASE ~(Cardinality(S) > n)
  <2>1. n >= Cardinality(S) /\ k = 0
    BY <1>2, <1>5
  <2>2. On(w) = S
    BY <2>1, NewestOfAll
  <2>3. S = {} => w = <<>>
    <3>1. S = {} => Len(w) = 0
      BY <1>3, <2>2 DEF On
    <3> QED
      BY <1>3, <3>1
  <2>4. ASSUME S # {} PROVE w # <<>> /\ w[1] \in S /\ \A r \in S : r <= w[1]
    <3>1. w # <<>>
      BY <2>2, <2>4 DEF On
    <3>2. 1 \in 1..Len(w) /\ \A i \in 1..Len(w) : i = 1 \/ 1 < i
      BY <1>3, <3>1
    <3>3. w[1] \in On(w) /\ \A x \in On(w) : x = w[1] \/ Before(w, w[1], x)
      BY <3>2 DEF On, Before
    <3>4. \A x \in On(w) : x <= w[1]
      <4>1. w[1] \in Nat /\ \A x \in On(w) : x \in Nat
        BY <1>2, <1>3, <3>3
      <4>2. \A x \in On(w) : x = w[1] \/ w[1] > x
        BY <1>1, <3>3 DEF Falls
      <4> QED
        BY <4>1, <4>2
    <3> QED
      BY <2>2, <3>1, <3>3, <3>4
  <2> QED
    BY <1>1, <1>3, <2>1, <2>2, <2>3, <2>4
<1> QED
  BY <1>4, <1>5

\* A list with nothing on it, and what two put together begin with.
LEMMA NothingOn ==
  ASSUME NEW s \in Seq(Nat)
  PROVE  /\ On(s) = {} <=> s = <<>>
         /\ s # <<>> => s[1] \in On(s)
<1>1. Len(s) \in Nat /\ (Len(s) = 0 <=> s = <<>>)
  OBVIOUS
<1>2. s # <<>> => 1 \in 1..Len(s)
  BY <1>1
<1>3. s # <<>> => s[1] \in On(s)
  BY <1>2 DEF On
<1>4. s = <<>> => On(s) = {}
  BY <1>1 DEF On
<1> QED
  BY <1>3, <1>4

LEMMA FirstOfTwo ==
  ASSUME NEW s \in Seq(Nat), NEW t \in Seq(Nat)
  PROVE  Len(s) <= Len(s \o t) /\ (\A i \in 1..Len(s) : (s \o t)[i] = s[i]) /\ (t = <<>> => s \o t = s)
<1>1. Len(s) \in Nat /\ Len(t) \in Nat /\ Len(s \o t) = Len(s) + Len(t)
  OBVIOUS
<1>2. \A i \in 1..Len(s) : (s \o t)[i] = s[i]
  OBVIOUS
<1>3. t = <<>> => s \o t = s
  OBVIOUS
<1> QED
  BY <1>1, <1>2, <1>3

\* The lines a query matches, and what a step that records no line leaves as it was.
LEMMA Matches ==
  ASSUME FeedTypes, FeedAssumptions, NEW q
  PROVE  /\ FeedRecords \in Nat /\ Feed!Matching(q) \in SUBSET (1..FeedRecords)
         /\ Feed!Matching(q) \in SUBSET Places(q) /\ Places(q) \in SUBSET (1..FeedRecords)
         /\ (\A r \in Places(q) : r \in Nat)
<1>1. lines \in SUBSET (1..FeedRecords) /\ regrouped \in SUBSET (1..FeedRecords) /\ FeedRecords \in Nat
  BY DEF FeedTypes, FeedAssumptions
<1>2. Feed!Matching(q) \in SUBSET Places(q) /\ Places(q) \in SUBSET (lines \cup regrouped)
  BY DEF Feed!Matching, Places
<1>3. \A r \in 1..FeedRecords : r \in Nat
  BY <1>1
<1> QED
  BY <1>1, <1>2, <1>3

SameLines == lines' = lines /\ inserted' = inserted /\ regrouped' = regrouped

LEMMA RunsAlike ==
  ASSUME SameLines
  PROVE  /\ \A q : Feed!Matching(q)' = Feed!Matching(q) /\ Places(q)' = Places(q)
         /\ \A q, s, ends : Run(q, s, ends)' <=> Run(q, s, ends)
         /\ \A q, s, k, ends : Bottom(q, s, k, ends)' <=> Bottom(q, s, k, ends)
         /\ LinesStay => LinesStay'
         /\ query' = query => \A s : Tops(s)' <=> Tops(s)
<1>1. \A q : Feed!Matching(q)' = Feed!Matching(q) /\ Places(q)' = Places(q)
  BY DEF Feed!Matching, Feed!OfQuery, Places, SameLines
<1>2. \A r, ends : Excused(r, ends)' <=> Excused(r, ends)
  BY DEF Excused, SameLines
<1>3. \A q, s, ends : Run(q, s, ends)' <=> Run(q, s, ends)
  BY <1>1, <1>2 DEF Run
<1>4. \A q, s, k, ends : Bottom(q, s, k, ends)' <=> Bottom(q, s, k, ends)
  BY <1>1, <1>2 DEF Bottom
<1>5. ASSUME query' = query PROVE \A s : Tops(s)' <=> Tops(s)
  <2>1. Feed!Matching(query)' = Feed!Matching(query)
    BY <1>5 DEF Feed!Matching, Feed!OfQuery, SameLines
  <2>2. Newest(Feed!Matching(query), FeedPage)' = Newest(Feed!Matching(query), FeedPage)
    BY <2>1 DEF Newest
  <2> QED
    BY <2>2 DEF Tops, Begins
<1>6. LinesStay => LinesStay'
  BY <1>1 DEF LinesStay
<1> QED
  BY <1>1, <1>3, <1>4, <1>5, <1>6

\* What a step may do to the lines: none goes but to another place of its group, and one
\* recorded below a line that was read is noted.
Recorded ==
  /\ lines' \in SUBSET (1..FeedRecords) /\ lines \cup regrouped \in SUBSET (lines' \cup regrouped')
  /\ inserted \in SUBSET inserted' /\ \A r \in lines' \ lines : Feed!Passed(r) => r \in inserted'

LEMMA MatchesMore ==
  ASSUME FeedTypes, FeedAssumptions, Recorded, NEW q
  PROVE  /\ Places(q) \in SUBSET Places(q)' /\ \A r \in Feed!Matching(q)' : r \in Nat
         /\ \A r \in Feed!Matching(q)' : r \in Feed!Matching(q) \/ (Feed!Passed(r) => r \in inserted')
         /\ \A r, ends : Excused(r, ends) => Excused(r, ends)'
<1>1. Places(q) \in SUBSET Places(q)'
  BY DEF Places, Recorded, Feed!OfQuery
<1>2. \A r \in Feed!Matching(q)' : r \in lines' /\ (r \in lines => r \in Feed!Matching(q))
  BY DEF Feed!Matching, Feed!OfQuery
<1>3. \A r \in lines' : r \in Nat
  BY DEF Recorded, FeedAssumptions
<1>4. \A r, ends : Excused(r, ends) => Excused(r, ends)'
  BY DEF Excused, Recorded
<1> QED
  BY <1>1, <1>2, <1>3, <1>4 DEF Recorded

LEMMA RunStays ==
  ASSUME FeedTypes, FeedAssumptions, Recorded, NEW q, NEW s, NEW ends, Run(q, s, ends),
         \A r, x : x \in On(s) /\ r < x => Feed!Passed(r)
  PROVE  Run(q, s, ends)' /\ \A k : Bottom(q, s, k, ends) => Bottom(q, s, k, ends)'
<1>1. \A x \in On(s) : x \in Places(q) /\ x \in Nat
  BY Matches DEF Run
<1>2. ASSUME NEW r \in Feed!Matching(q)', NEW y \in On(s), r <= y, r \notin On(s)
      PROVE  r \in Feed!Matching(q) \/ Excused(r, ends)'
  <2>1. r \in Nat /\ y \in Nat /\ r # y /\ (r \in Feed!Matching(q) \/ (Feed!Passed(r) => r \in inserted'))
    BY <1>1, <1>2, MatchesMore
  <2>2. r < y
    BY <1>2, <2>1
  <2>3. r \in Feed!Matching(q) \/ r \in inserted'
    BY <2>1, <2>2
  <2> QED
    BY <2>3 DEF Excused
<1>3. \A r : Excused(r, ends) => Excused(r, ends)'
  BY MatchesMore
<1>4. On(s)' = On(s) /\ (Falls(s)' <=> Falls(s))
  BY DEF On, Falls, Before
<1>5. Run(q, s, ends)'
  <2>1. On(s) \in SUBSET Places(q)'
    BY <1>1, MatchesMore
  <2>2. ASSUME NEW r \in Feed!Matching(q)', NEW x \in On(s), NEW y \in On(s), x <= r, r <= y, r \notin On(s)
        PROVE  Excused(r, ends)'
    <3>1. r \in Feed!Matching(q) => Excused(r, ends)
      BY <2>2 DEF Run
    <3> QED
      BY <1>2, <1>3, <2>2, <3>1
  <2> QED
    BY <1>4, <2>1, <2>2 DEF Run
<1>6. ASSUME NEW k, Bottom(q, s, k, ends) PROVE Bottom(q, s, k, ends)'
  <2>1. CASE k = 0
    <3>1. ASSUME NEW r \in Feed!Matching(q)', NEW x \in On(s), r < x, r \notin On(s)
          PROVE  Excused(r, ends)'
      <4>1. r \in Nat /\ x \in Nat /\ r <= x
        BY <1>1, <3>1, MatchesMore
      <4>2. r \in Feed!Matching(q) => Excused(r, ends)
        BY <1>6, <2>1, <3>1 DEF Bottom
      <4> QED
        BY <1>2, <1>3, <3>1, <4>1, <4>2
    <3> QED
      BY <1>4, <2>1, <3>1 DEF Bottom
  <2>2. CASE k # 0
    BY <1>4, <1>6, <2>2 DEF Bottom
  <2> QED
    BY <2>1, <2>2
<1> QED
  BY <1>5, <1>6

LEMMA FitStays ==
  ASSUME FeedTypes, FeedAssumptions, Recorded, made' \in Nat, made <= made',
         requestId' \in Nat, (requestId' = requestId /\ query' = query) \/ requestId < requestId',
         NEW c, CallFits(c), c.ticket # taken',
         \A r : r < c.cursor \/ (\E x \in On(c.lines) : r < x) => Feed!Passed(r)
  PROVE  CallFits(c)'
<1>1. /\ c \in FeedCall /\ c.ticket \in 1..made /\ c.requestId <= requestId /\ c.cursor <= FeedRecords
      /\ c.ticket \in Nat /\ c.requestId \in Nat /\ c.cursor \in Nat /\ c.next \in Nat
  BY DEF CallFits, FeedCall
<1>2. made \in Nat /\ requestId \in Nat
  BY DEF FeedTypes
<1>3. ASSUME c.served, c.ok PROVE PageRuns(c)'
  <2>1. Run(c.query, c.lines, {}) /\ Bottom(c.query, c.lines, c.next, {}) /\ Under(c)
    BY <1>3 DEF CallFits, PageRuns
  <2>2. PICK q, s, k : q = c.query /\ s = c.lines /\ k = c.next
    OBVIOUS
  <2>3. Run(q, s, {})' /\ Bottom(q, s, k, {})'
    <3>1. \A r, x : x \in On(s) /\ r < x => Feed!Passed(r)
      BY <2>2
    <3>2. Run(q, s, {}) /\ Bottom(q, s, k, {})
      BY <2>1, <2>2
    <3> QED
      BY <3>1, <3>2, RunStays
  <2>4. Under(c)'
    <3>1. inserted \in SUBSET inserted'
      BY DEF Recorded
    <3>2. \A r \in Feed!Matching(q)' : r < c.cursor => r \in Feed!Matching(q) \/ r \in inserted'
      BY MatchesMore
    <3>3. On(c.lines)' = On(c.lines)
      BY DEF On
    <3> QED
      BY <2>1, <2>2, <3>1, <3>2, <3>3 DEF Under
  <2> QED
    BY <2>2, <2>3, <2>4 DEF PageRuns
<1>4. c.ticket \in 1..made' /\ c.requestId <= requestId'
  BY <1>1, <1>2
<1>5. c.requestId = requestId' => c.query = query'
  BY <1>1, <1>2 DEF CallFits
<1> QED
  BY <1>1, <1>3, <1>4, <1>5 DEF CallFits

\* What a call has read, or was asked to read below, is passed.
LEMMA CallPassed ==
  ASSUME NEW c \in calls, c \in FeedCall
  PROVE  \A r : r < c.cursor \/ (\E x \in On(c.lines) : r < x) => Feed!Passed(r)
<1>1. Feed!Range(c.lines) = On(c.lines)
  BY FeedNames DEF FeedCall
<1> QED
  BY <1>1 DEF Feed!Passed

\* A step that records no line keeps what fits.
LEMMA FitSame ==
  ASSUME FeedTypes, FeedAssumptions, SameLines, made' \in Nat, made <= made',
         requestId' \in Nat, (requestId' = requestId /\ query' = query) \/ requestId < requestId',
         NEW c, CallFits(c), c.ticket # taken'
  PROVE  CallFits(c)'
<1>1. /\ c \in FeedCall /\ c.ticket \in 1..made /\ c.requestId <= requestId
      /\ c.ticket \in Nat /\ c.requestId \in Nat
  BY DEF CallFits, FeedCall
<1>2. made \in Nat /\ requestId \in Nat
  BY DEF FeedTypes
<1>3. PageRuns(c)' <=> PageRuns(c)
  <2>1. PICK q, s, k : q = c.query /\ s = c.lines /\ k = c.next
    OBVIOUS
  <2>2. /\ Run(q, s, {})' <=> Run(q, s, {})
        /\ Bottom(q, s, k, {})' <=> Bottom(q, s, k, {})
        /\ Feed!Matching(q)' = Feed!Matching(q)
    BY RunsAlike
  <2>3. Under(c)' <=> Under(c)
    BY <2>1, <2>2 DEF Under, SameLines
  <2> QED
    BY <2>1, <2>2, <2>3 DEF PageRuns
<1>4. c.ticket \in 1..made' /\ c.requestId <= requestId'
  BY <1>1, <1>2
<1>5. c.requestId = requestId' => c.query = query'
  BY <1>1, <1>2 DEF CallFits
<1> QED
  BY <1>1, <1>3, <1>4, <1>5 DEF CallFits

\* Nothing changes of a list of calls but that one is taken off it: what is owed by a later
\* refresh stays so.
Taken(c) ==
  /\ calls' = calls \ {c} /\ SameLines /\ query' = query /\ requestId' = requestId /\ due' = due
  /\ made' = made /\ taken' \in {taken, c.ticket} /\ taken <= taken'
  /\ c.kind = "live" /\ c.requestId = requestId => c.ticket <= taken'

LEMMA TakenKeeps ==
  ASSUME FeedAssumptions, FeedInv, NEW c \in calls, Taken(c)
  PROVE  /\ FeedCallsFit' /\ taken' \in 0..made'
         /\ \A s : Tops(s)' <=> Tops(s)
         /\ \A t \in Nat : taken' <= t /\ Owed(t) => Owed(t)'
         /\ \A d \in calls' : /\ d.kind # "older" /\ d.requestId = requestId' /\ d.served /\ d.ok
                                 /\ d.ticket > taken'
                              => (Tops(d.lines) \/ Owed(d.ticket))'
<1>1. /\ FeedTypes /\ made \in Nat /\ taken \in 0..made /\ requestId \in Nat
      /\ \A d \in calls : CallFits(d) /\ d.ticket \in Nat /\ d.ticket \in 1..made
            /\ d.ticket # taken
  BY Matches DEF FeedInv, FeedTypes, FeedCallsFit, CallFits, FeedCall
<1>2. taken' \in 0..made' /\ taken' \in Nat
  BY <1>1 DEF Taken
<1>3. \A d \in calls' : d \in calls /\ d # c /\ d.ticket # c.ticket
  BY DEF FeedInv, FeedCallsFit, Taken
<1>4. FeedCallsFit'
  <2>1. ASSUME NEW d \in calls' PROVE CallFits(d)'
    <3>1. d \in calls /\ CallFits(d) /\ d.ticket # taken'
      BY <1>1, <1>3 DEF Taken
    <3>2. /\ made' \in Nat /\ made <= made' /\ requestId' \in Nat
          /\ requestId' = requestId /\ query' = query /\ SameLines
      BY <1>1 DEF Taken
    <3> QED
      BY <1>1, <3>1, <3>2, FitSame
  <2>2. \A d, e \in calls' : d.ticket = e.ticket => d = e
    BY <1>3 DEF FeedInv, FeedCallsFit
  <2> QED
    BY <2>1, <2>2 DEF FeedCallsFit
<1>5. \A s : Tops(s)' <=> Tops(s)
  BY RunsAlike DEF Taken
<1>6. ASSUME NEW t \in Nat, taken' <= t, Owed(t) PROVE Owed(t)'
  <2>1. CASE due = TRUE
    BY <2>1 DEF Owed, Taken
  <2>2. ASSUME NEW d \in calls, d.kind = "live", d.requestId = requestId, d.ticket > t,
               d.served /\ d.ok => Tops(d.lines)
        PROVE  Owed(t)'
    <3>1. d # c
      <4>1. d = c => d.ticket <= taken'
        BY <2>2 DEF Taken
      <4> QED
        BY <1>1, <1>2, <1>6, <2>2, <4>1
    <3>2. d \in calls' /\ d.requestId = requestId'
      BY <2>2, <3>1 DEF Taken
    <3>3. d.served /\ d.ok => Tops(d.lines)'
      BY <1>5, <2>2
    <3> QED
      BY <2>2, <3>2, <3>3 DEF Owed
  <2> QED
    BY <1>6, <2>1, <2>2 DEF Owed
<1>7. ASSUME NEW d \in calls', d.kind # "older", d.requestId = requestId', d.served, d.ok,
             d.ticket > taken'
      PROVE  (Tops(d.lines) \/ Owed(d.ticket))'
  <2>1. d \in calls /\ d.requestId = requestId /\ d.ticket \in Nat
    BY <1>1, <1>3, <1>7 DEF Taken
  <2>2. d.ticket > taken /\ taken' <= d.ticket
    BY <1>1, <1>2, <1>7, <2>1 DEF Taken
  <2>3. Tops(d.lines) \/ Owed(d.ticket)
    BY <1>7, <2>1, <2>2 DEF FeedInv, NewestOwed
  <2> QED
    BY <1>5, <1>6, <2>1, <2>2, <2>3
<1> QED
  BY <1>2, <1>4, <1>5, <1>6, <1>7

\* What the invariant says of a call.
LEMMA CallFacts ==
  ASSUME FeedInv, NEW c \in calls
  PROVE  /\ FeedTypes /\ FeedCallsFit /\ LinesRun /\ NewestOwed /\ CallFits(c) /\ c \in FeedCall
         /\ c.ticket \in Nat /\ c.ticket # taken /\ c.ticket \in 1..made /\ taken \in 0..made
         /\ taken \in Nat /\ made \in Nat /\ behind \in BOOLEAN
         /\ c.cursor \in Nat /\ (c.kind = "older" <=> c.cursor # 0)
<1>1. FeedTypes /\ FeedCallsFit /\ LinesRun /\ NewestOwed /\ CallFits(c)
  BY DEF FeedInv, FeedCallsFit
<1>2. /\ c \in FeedCall /\ c.ticket # taken /\ c.ticket \in 1..made
      /\ (c.kind = "older" <=> c.cursor # 0)
  BY <1>1 DEF CallFits
<1>3. c.ticket \in Nat /\ c.cursor \in Nat
  BY <1>2 DEF FeedCall
<1>4. taken \in 0..made /\ made \in Nat /\ behind \in BOOLEAN
  BY <1>1 DEF FeedTypes
<1> QED
  BY <1>1, <1>2, <1>3, <1>4

\* The answer of a first page.
LEMMA FirstPageKeeps ==
  ASSUME FeedAssumptions, FeedInv, NEW c \in calls, Feed!FirstPageShown(c)
  PROVE  FeedInv'
<1>1. /\ c.kind = "first" /\ c.served /\ calls' = calls \ {c} /\ SameLines /\ query' = query
      /\ requestId' = requestId /\ loadingMore' = loadingMore /\ due' = due /\ made' = made
  BY DEF Feed!FirstPageShown, Feed!added, SameLines
<1>0. LinesStay'
  BY <1>1, RunsAlike DEF FeedInv
<1>2. /\ FeedTypes /\ FeedCallsFit /\ LinesRun /\ NewestOwed /\ CallFits(c) /\ c \in FeedCall
      /\ c.ticket \in Nat /\ c.ticket # taken /\ c.ticket \in 1..made /\ taken \in 0..made
            /\ taken \in Nat
  BY CallFacts
<1>3. CASE c.requestId # requestId
  <2>1. /\ status' = status /\ shown' = shown /\ cursor' = cursor /\ source' = source /\ torn' = torn /\ seams' = seams
        /\ taken' = taken /\ behind' = behind
    BY <1>3 DEF Feed!FirstPageShown, Feed!IsLatest, Feed!history
  <2>2. Taken(c)
    BY <1>1, <1>2, <2>1 DEF Taken
  <2>3. FeedTypes' /\ LinesRun'
    BY <1>1, <1>2, <2>1, RunsAlike DEF FeedTypes, LinesRun, SameLines
  <2>4. FeedCallsFit'
    BY <2>2, TakenKeeps
  <2>5. NewestOwed'
    BY <1>1, <1>2, <2>1, <2>2, TakenKeeps DEF NewestOwed
  <2> QED
    BY <2>3, <2>4, <2>5, <1>0 DEF FeedInv
<1>4. CASE c.requestId = requestId /\ ~c.ok
  <2>1. /\ status' = "failed" /\ shown' = shown /\ cursor' = cursor /\ source' = source /\ torn' = torn /\ seams' = seams
        /\ taken' = taken /\ behind' = behind
    BY <1>4 DEF Feed!FirstPageShown, Feed!IsLatest, Feed!history
  <2>2. Taken(c)
    BY <1>1, <1>2, <2>1 DEF Taken
  <2>3. FeedTypes' /\ LinesRun'
    BY <1>1, <1>2, <2>1, RunsAlike DEF FeedTypes, LinesRun, SameLines
  <2>4. FeedCallsFit'
    BY <2>2, TakenKeeps
  <2>5. NewestOwed'
    BY <1>1, <1>2, <2>1, <2>2, TakenKeeps DEF NewestOwed
  <2> QED
    BY <2>3, <2>4, <2>5, <1>0 DEF FeedInv
<1>5. CASE c.requestId = requestId /\ c.ok
  <2>1. /\ status' = "ready" /\ shown' = c.lines /\ cursor' = c.next /\ source' = {c.query}
              /\ torn' = FALSE /\ seams' = {}
        /\ taken' = (IF c.ticket > taken THEN c.ticket ELSE taken) /\ behind' = (c.ticket < taken)
    BY <1>5 DEF Feed!FirstPageShown, Feed!IsLatest, Feed!Took
  <2>2. Taken(c)
    BY <1>1, <1>2, <2>1 DEF Taken
  <2>3. /\ c.query \in Feed!Queries /\ c.query = query /\ c.lines \in Seq(Nat) /\ c.next \in Nat
        /\ Run(c.query, c.lines, {}) /\ Bottom(c.query, c.lines, c.next, {}) /\ (c.lines = <<>> => c.next = 0)
    BY <1>1, <1>2, <1>5 DEF CallFits, FeedCall, PageRuns
  <2>4. On(c.lines) \in SUBSET (lines \cup regrouped) /\ c.next \in 0..FeedRecords
    <3>1. On(c.lines) \in SUBSET Places(c.query) /\ Places(c.query) \in SUBSET (1..FeedRecords)
                /\ FeedRecords \in Nat
      BY <1>2, <2>3, Matches DEF Run
    <3>2. c.next \in 0..FeedRecords
      BY <2>3, <3>1 DEF Bottom
    <3> QED
      BY <3>1, <3>2 DEF Places
  <2>5. taken' \in 0..made' /\ FeedCallsFit'
    BY <1>2, <2>2, TakenKeeps
  <2>6. FeedTypes'
    <3>0. behind' = (c.ticket < taken)
      BY <2>1
    <3>1. behind' \in BOOLEAN
      <4>1. CASE c.ticket < taken
        BY <3>0, <4>1
      <4>2. CASE ~(c.ticket < taken)
        BY <3>0, <4>2
      <4> QED
        BY <4>1, <4>2
    <3> QED
      BY <1>1, <1>2, <2>1, <2>3, <2>4, <2>5, <3>1 DEF FeedTypes, SameLines
  <2>7. LinesRun'
    <3>1. PICK q, s, k : q = c.query /\ s = c.lines /\ k = c.next
      OBVIOUS
    <3>2. Run(q, s, {})' /\ Bottom(q, s, k, {})'
      BY <1>1, <2>3, <3>1, RunsAlike
    <3>3. shown' = s /\ cursor' = k /\ source' = {q} /\ torn' = FALSE /\ seams' = {} /\ (s = <<>> => k = 0)
      BY <2>1, <2>3, <3>1
    <3> QED
      BY <3>2, <3>3 DEF LinesRun
  <2>8. ASSUME behind' = FALSE PROVE Tops(shown)' \/ Owed(taken)'
    <3>0. ~(c.ticket < taken)
      BY <2>1, <2>8, Zenon
    <3>1. c.ticket > taken /\ taken' = c.ticket
      BY <1>2, <2>1, <3>0
    <3>2. Tops(c.lines) \/ Owed(c.ticket)
      BY <1>1, <1>2, <1>5, <3>1 DEF NewestOwed
    <3>3. Tops(c.lines) => Tops(c.lines)'
      BY <2>2, TakenKeeps
    <3>4. Owed(c.ticket) => Owed(c.ticket)'
      BY <1>2, <2>2, <3>1, TakenKeeps
    <3>5. Tops(c.lines)' => Tops(shown)'
      BY <2>1 DEF Tops, Begins
    <3>6. Owed(c.ticket)' => Owed(taken)'
      BY <3>1 DEF Owed
    <3> QED
      BY <3>2, <3>3, <3>4, <3>5, <3>6
  <2>9. NewestOwed'
    BY <2>2, <2>8, TakenKeeps DEF NewestOwed
  <2> QED
    BY <2>5, <2>6, <2>7, <2>9, <1>0 DEF FeedInv
<1> QED
  BY <1>2, <1>3, <1>4, <1>5

\* Lines put together: the older ones that are not among the first.
LEMMA MergeIs ==
  ASSUME NEW s \in Seq(Nat), NEW t \in Seq(Nat), NEW m, m = Feed!Merge(s, t)
  PROVE  /\ m \in Seq(Nat) /\ On(m) = On(s) \cup On(t)
         /\ \A x, y : Before(m, x, y) => Before(s, x, y) \/ Before(t, x, y)
               \/ (x \in On(s) /\ y \in On(t))
         /\ Len(s) <= Len(m) /\ \A i \in 1..Len(s) : m[i] = s[i]
         /\ t = <<>> => m = s
<1>1. PICK w : w = Without(t, On(s))
  OBVIOUS
<1>2. m = s \o w
  BY <1>1, FeedNames DEF Feed!Merge
<1>3. w \in Seq(Nat) /\ On(w) = On(t) \ On(s) /\ \A x, y : Before(w, x, y) => Before(t, x, y)
  BY <1>1, WithoutFacts
<1>4. /\ s \o w \in Seq(Nat) /\ On(s \o w) = On(s) \cup On(w)
      /\ \A x, y : Before(s \o w, x, y) => Before(s, x, y) \/ Before(w, x, y)
            \/ (x \in On(s) /\ y \in On(w))
  BY <1>3, Joined
<1>5. t = <<>> => w = <<>>
  <2>1. t = <<>> => On(w) = {}
    BY <1>3, NothingOn
  <2> QED
    BY <1>3, <2>1, NothingOn
<1>6. Len(s) <= Len(s \o w) /\ (\A i \in 1..Len(s) : (s \o w)[i] = s[i]) /\ (w = <<>> => s \o w = s)
  BY <1>3, FirstOfTwo
<1> QED
  BY <1>2, <1>3, <1>4, <1>5, <1>6

\* An older page follows the lines it was read below.
LEMMA OlderFollows ==
  ASSUME FeedTypes, FeedAssumptions, NEW q, NEW s \in Seq(Nat), NEW k \in Nat \ {0}, NEW ends,
         Run(q, s, ends), Bottom(q, s, k, ends),
         NEW c \in FeedCall, c.query = q, c.cursor = k, PageRuns(c), NEW m, m = Feed!Merge(s, c.lines)
  PROVE  Run(q, m, ends) /\ Bottom(q, m, c.next, ends)
<1>1. PICK t, n : t = c.lines /\ n = c.next
  OBVIOUS
<1>2. /\ t \in Seq(Nat) /\ n \in Nat /\ Run(q, t, {}) /\ Bottom(q, t, n, {})
      /\ \A x \in On(t) : x < k
      /\ \A r \in Feed!Matching(q) : r < k => r \in On(t) \/ (n # 0 /\ r < n) \/ r \in inserted
  BY <1>1 DEF FeedCall, PageRuns, Under
<1>3. /\ m \in Seq(Nat) /\ On(m) = On(s) \cup On(t)
      /\ \A x, y : Before(m, x, y) => Before(s, x, y) \/ Before(t, x, y) \/ (x \in On(s) /\ y \in On(t))
  BY <1>1, <1>2, MergeIs
<1>4. k \in On(s) /\ (\A x \in On(s) : x \in Nat /\ x >= k) /\ \A x \in On(t) : x \in Nat
  BY <1>2, Matches DEF Run, Bottom
<1>0. \A r \in Feed!Matching(q) : r \in Nat
  BY Matches
<1>5. Falls(m)
  <2> SUFFICES ASSUME NEW x, NEW y, Before(m, x, y) PROVE x > y
    BY DEF Falls
  <2>1. CASE Before(s, x, y) \/ Before(t, x, y)
    BY <1>2, <2>1 DEF Run, Falls
  <2>2. CASE x \in On(s) /\ y \in On(t)
    BY <1>2, <1>4, <2>2
  <2> QED
    BY <1>3, <2>1, <2>2
<1>6. ASSUME NEW r \in Feed!Matching(q), r >= k, NEW y \in On(m), r <= y
      PROVE  r \in On(s) \/ Excused(r, ends)
  <2>1. r \in Nat /\ y \in Nat
    BY <1>0, <1>3, <1>4
  <2>2. y \in On(s)
    BY <1>2, <1>3, <1>4, <1>6, <2>1
  <2> QED
    BY <1>4, <1>6, <2>2 DEF Run
<1>7. ASSUME NEW r \in Feed!Matching(q), NEW x \in On(m), NEW y \in On(m), x <= r, r <= y
      PROVE  r \in On(m) \/ Excused(r, ends)
  <2>1. r \in Nat /\ x \in Nat
    BY <1>0, <1>3, <1>4
  <2>2. CASE r >= k
    BY <1>3, <1>6, <1>7, <2>2
  <2>3. CASE ~(r >= k)
    <3>1. r < k /\ x \in On(t)
      BY <1>3, <1>4, <1>7, <2>1, <2>3
    <3>2. ~(n # 0 /\ r < n)
      BY <1>2, <1>7, <2>1, <3>1 DEF Bottom
    <3> QED
      BY <1>2, <1>3, <3>1, <3>2 DEF Excused
  <2> QED
    BY <2>2, <2>3
<1>8. Run(q, m, ends)
  BY <1>2, <1>3, <1>5, <1>7 DEF Run
<1>9. CASE n = 0
  <2>1. ASSUME NEW r \in Feed!Matching(q), NEW x \in On(m), r < x PROVE r \in On(m) \/ Excused(r, ends)
    <3>1. r \in Nat /\ x \in Nat
      BY <1>0, <1>3, <1>4
    <3>2. CASE r >= k
      BY <1>3, <1>6, <2>1, <3>1, <3>2
    <3>3. CASE ~(r >= k)
      BY <1>2, <1>3, <1>9, <3>1, <3>3 DEF Excused
    <3> QED
      BY <3>2, <3>3
  <2> QED
    BY <1>1, <1>8, <1>9, <2>1 DEF Bottom
<1>10. CASE n # 0
  <2>1. n \in On(t) /\ n < k /\ \A x \in On(t) : x >= n
    BY <1>2, <1>10 DEF Bottom
  <2>2. \A x \in On(m) : x >= n
    BY <1>2, <1>3, <1>4, <2>1
  <2> QED
    BY <1>1, <1>3, <1>8, <1>10, <2>1, <2>2 DEF Bottom
<1> QED
  BY <1>9, <1>10

\* A fresh page is put over the lines it reaches down to, and over those of its last
\* line's millisecond: the seam.
LEMMA LiveCovers ==
  ASSUME FeedTypes, FeedAssumptions, NEW q, NEW s \in Seq(Nat), NEW k \in Nat, NEW ends,
         Run(q, s, ends), Bottom(q, s, k, ends),
         NEW t \in Seq(Nat), NEW n \in Nat \ {0}, Run(q, t, {}), Bottom(q, t, n, {}),
         On(s) \cap On(t) # {},
         NEW o \in Seq(Nat), o # <<>>, On(o) = {r \in On(s) : AtMs[r] < AtMs[n]},
         \A x, y : Before(o, x, y) => Before(s, x, y),
         NEW m, m = Feed!Merge(t, o)
  PROVE  Run(q, m, ends \cup {n}) /\ Bottom(q, m, k, ends \cup {n})
<1>0. \A r \in Feed!Matching(q) : r \in Nat /\ r \in 1..FeedRecords
  BY Matches
<1>1. /\ m \in Seq(Nat) /\ On(m) = On(t) \cup On(o)
      /\ \A x, y : Before(m, x, y) => Before(t, x, y) \/ Before(o, x, y) \/ (x \in On(t) /\ y \in On(o))
  BY MergeIs
<1>2. PICK z : z \in On(s) /\ z \in On(t)
  OBVIOUS
<1>3. n \in On(t) /\ (\A x \in On(t) : x \in Nat /\ x >= n) /\ \A x \in On(s) : x \in Nat
  BY Matches DEF Run, Bottom
<1>10. n \in 1..FeedRecords /\ \A x \in On(s) : x \in 1..FeedRecords
  BY <1>3, Matches DEF Run
<1>11. /\ \A p, r \in 1..FeedRecords : p <= r => AtMs[p] <= AtMs[r]
       /\ \A p \in 1..FeedRecords : AtMs[p] \in Nat
  BY DEF FeedAssumptions
<1>12. ASSUME NEW x \in On(o) PROVE x < n /\ x \in Nat /\ x \in On(s)
  <2>1. x \in On(s) /\ AtMs[x] < AtMs[n]
    BY <1>12
  <2>2. ~(n <= x)
    BY <1>10, <1>11, <2>1
  <2> QED
    BY <1>3, <2>1, <2>2
<1>13. ASSUME NEW r \in Feed!Matching(q), r < n, r \in On(s)
       PROVE  r \in On(o) \/ Excused(r, ends \cup {n})
  <2>1. AtMs[r] <= AtMs[n] /\ AtMs[r] \in Nat /\ AtMs[n] \in Nat
    BY <1>0, <1>3, <1>10, <1>11, <1>13
  <2>2. CASE AtMs[r] = AtMs[n]
    BY <1>13, <2>2 DEF Excused
  <2>3. CASE AtMs[r] # AtMs[n]
    BY <1>13, <2>1, <2>3
  <2> QED
    BY <2>2, <2>3
<1>14. \A r : Excused(r, ends) \/ Excused(r, {}) => Excused(r, ends \cup {n})
  BY DEF Excused
<1>4. Falls(m)
  <2> SUFFICES ASSUME NEW x, NEW y, Before(m, x, y) PROVE x > y
    BY DEF Falls
  <2>1. CASE Before(t, x, y) \/ Before(o, x, y)
    BY <2>1 DEF Run, Falls
  <2>2. CASE x \in On(t) /\ y \in On(o)
    BY <1>3, <1>12, <2>2
  <2> QED
    BY <1>1, <2>1, <2>2
<1>5. ASSUME NEW r \in Feed!Matching(q), NEW y \in On(m), r >= n, r <= y
      PROVE  r \in On(t) \/ Excused(r, ends \cup {n})
  <2>1. y \in On(t)
    <3>1. y \in On(o) => y < n /\ y \in Nat
      BY <1>12
    <3> QED
      BY <1>0, <1>1, <1>3, <1>5, <3>1
  <2>2. r \in On(t) \/ Excused(r, {})
    BY <1>3, <1>5, <2>1 DEF Run
  <2> QED
    BY <1>14, <2>2
<1>6. ASSUME NEW r \in Feed!Matching(q), NEW x \in On(m), NEW y \in On(m), x <= r, r <= y
      PROVE  r \in On(m) \/ Excused(r, ends \cup {n})
  <2>1. r \in Nat /\ x \in Nat
    BY <1>0, <1>1, <1>3, <1>12
  <2>2. CASE r >= n
    BY <1>1, <1>5, <1>6, <2>2
  <2>3. CASE ~(r >= n)
    <3>1. x \in On(s)
      BY <1>1, <1>3, <1>6, <1>12, <2>1, <2>3
    <3>2. r <= z /\ r < n
      BY <1>2, <1>3, <2>1, <2>3
    <3>3. r \in On(s) \/ Excused(r, ends)
      BY <1>2, <1>6, <3>1, <3>2 DEF Run
    <3> QED
      BY <1>1, <1>13, <1>14, <3>2, <3>3
  <2> QED
    BY <2>2, <2>3
<1>7. Run(q, m, ends \cup {n})
  <2>1. On(m) \in SUBSET Places(q)
    BY <1>1, <1>12 DEF Run
  <2> QED
    BY <1>4, <1>6, <2>1 DEF Run
<1>8. CASE k = 0
  <2>1. ASSUME NEW r \in Feed!Matching(q), NEW x \in On(m), r < x
        PROVE  r \in On(m) \/ Excused(r, ends \cup {n})
    <3>1. r \in Nat /\ x \in Nat
      BY <1>0, <1>1, <1>3, <1>12
    <3>2. CASE r >= n
      <4>1. r <= x
        BY <2>1, <3>1
      <4> QED
        BY <1>1, <1>5, <2>1, <3>2, <4>1
    <3>3. CASE ~(r >= n)
      <4>1. r < z /\ r < n
        BY <1>2, <1>3, <3>1, <3>3
      <4>2. r \in On(s) \/ Excused(r, ends)
        BY <1>2, <1>8, <4>1 DEF Bottom
      <4> QED
        BY <1>1, <1>13, <1>14, <4>1, <4>2
    <3> QED
      BY <3>2, <3>3
  <2> QED
    BY <1>7, <1>8, <2>1 DEF Bottom
<1>9. CASE k # 0
  <2>1. k \in On(s) /\ \A x \in On(s) : x >= k
    BY <1>9 DEF Bottom
  <2>2. PICK b : b \in On(o)
    BY NothingOn
  <2>3. k <= b /\ b < n /\ b \in Nat /\ b \in On(s) /\ AtMs[b] < AtMs[n]
    BY <1>3, <1>12, <2>1, <2>2
  <2>4. k \in On(o) /\ k < n
    <3>1. AtMs[k] <= AtMs[b] /\ AtMs[k] \in Nat /\ AtMs[b] \in Nat /\ AtMs[n] \in Nat
      BY <1>10, <1>11, <2>1, <2>3
    <3>2. AtMs[k] < AtMs[n]
      BY <2>3, <3>1
    <3> QED
      BY <2>1, <2>3, <3>2
  <2>5. \A x \in On(m) : x >= k
    BY <1>1, <1>3, <1>12, <2>1, <2>4
  <2> QED
    BY <1>1, <1>7, <1>9, <2>4, <2>5 DEF Bottom
<1> QED
  BY <1>8, <1>9

\* The newest page of a query is a sequence, and empty when it matches none.
LEMMA NewestSeq ==
  ASSUME FeedTypes, FeedAssumptions, NEW w, w = Newest(Feed!Matching(query), FeedPage)
  PROVE  w \in Seq(Nat) /\ Len(w) \in Nat /\ (w = <<>> <=> Feed!Matching(query) = {})
<1>1. PICK S, N : S = Feed!Matching(query) /\ N = FeedRecords
  OBVIOUS
<1>2. N \in Nat /\ S \in SUBSET (1..N) /\ FeedPage \in Nat \ {0}
  BY <1>1, Matches DEF FeedAssumptions
<1>3. PICK k : k = IF Cardinality(S) > FeedPage THEN w[FeedPage] ELSE 0
  OBVIOUS
<1>4. w \in Seq(Nat) /\ (S = {} => w = <<>>) /\ (S # {} => w # <<>>)
  BY <1>1, <1>2, <1>3, PageIs
<1> QED
  BY <1>1, <1>4

\* The answer of an older page.
LEMMA OlderPageKeeps ==
  ASSUME FeedAssumptions, FeedInv, NEW c \in calls, Feed!OlderPageShown(c)
  PROVE  FeedInv'
<1>1. /\ c.kind = "older" /\ c.served /\ calls' = calls \ {c} /\ SameLines /\ query' = query
      /\ status' = status /\ requestId' = requestId /\ due' = due /\ made' = made /\ taken' = taken
            /\ behind' = behind /\ seams' = seams
  BY DEF Feed!OlderPageShown, Feed!added, SameLines
<1>0. LinesStay'
  BY <1>1, RunsAlike DEF FeedInv
<1>2. /\ FeedTypes /\ FeedCallsFit /\ LinesRun /\ NewestOwed /\ CallFits(c) /\ c \in FeedCall
      /\ c.ticket \in Nat /\ taken \in Nat /\ c.cursor \in Nat /\ c.cursor # 0
  BY <1>1, CallFacts
<1>3. Taken(c)
  BY <1>1, <1>2 DEF Taken
<1>4. FeedCallsFit' /\ taken' \in 0..made'
  BY <1>3, TakenKeeps
<1>5. \A d \in calls' : /\ d.kind # "older" /\ d.requestId = requestId' /\ d.served /\ d.ok
                           /\ d.ticket > taken'
                        => (Tops(d.lines) \/ Owed(d.ticket))'
  BY <1>3, TakenKeeps
<1>6. Owed(taken) => Owed(taken)'
  BY <1>1, <1>2, <1>3, TakenKeeps
<1>7. \A s : Tops(s) => Tops(s)'
  BY <1>3, TakenKeeps
<1>8. CASE c.requestId # requestId \/ ~c.ok
  <2>1. shown' = shown /\ cursor' = cursor /\ source' = source /\ torn' = torn /\ seams' = seams
            /\ loadingMore' \in BOOLEAN
    BY <1>2, <1>8 DEF Feed!OlderPageShown, Feed!IsLatest, FeedTypes
  <2>2. FeedTypes' /\ LinesRun'
    BY <1>1, <1>2, <2>1, RunsAlike DEF FeedTypes, LinesRun, SameLines
  <2>3. NewestOwed'
    BY <1>1, <1>2, <1>5, <1>6, <1>7, <2>1 DEF NewestOwed
  <2> QED
    BY <1>4, <2>2, <2>3, <1>0 DEF FeedInv
<1>9. CASE c.requestId = requestId /\ c.ok
  <2>1. /\ shown' = Feed!Merge(shown, c.lines) /\ cursor' = c.next /\ source' = source \cup {c.query}
        /\ torn' = (torn \/ c.cursor # cursor) /\ loadingMore' = FALSE
    BY <1>9 DEF Feed!OlderPageShown, Feed!IsLatest
  <2>2. /\ c.query \in Feed!Queries /\ c.query = query /\ c.lines \in Seq(Nat) /\ c.next \in Nat
              /\ PageRuns(c)
        /\ Run(c.query, c.lines, {}) /\ Bottom(c.query, c.lines, c.next, {}) /\ (c.lines = <<>> => c.next = 0)
    BY <1>1, <1>2, <1>9 DEF CallFits, FeedCall, PageRuns
  <2>3. On(c.lines) \in SUBSET (lines \cup regrouped) /\ c.next \in 0..FeedRecords
    <3>1. On(c.lines) \in SUBSET Places(c.query) /\ Places(c.query) \in SUBSET (1..FeedRecords)
                /\ FeedRecords \in Nat
      BY <1>2, <2>2, Matches DEF Run
    <3>2. c.next \in 0..FeedRecords
      BY <2>2, <3>1 DEF Bottom
    <3> QED
      BY <3>1, <3>2 DEF Places
  <2>4. shown \in Seq(Nat) /\ On(shown) \in SUBSET (lines \cup regrouped)
    BY <1>2 DEF FeedTypes
  <2>5. PICK m : m = Feed!Merge(shown, c.lines)
    OBVIOUS
  <2>6. /\ m \in Seq(Nat) /\ On(m) = On(shown) \cup On(c.lines)
        /\ Len(shown) <= Len(m) /\ \A i \in 1..Len(shown) : m[i] = shown[i]
        /\ c.lines = <<>> => m = shown
    <3>1. PICK s, t : s = shown /\ t = c.lines
      OBVIOUS
    <3>2. s \in Seq(Nat) /\ t \in Seq(Nat) /\ m = Feed!Merge(s, t)
      BY <2>2, <2>4, <2>5, <3>1
    <3>3. /\ m \in Seq(Nat) /\ On(m) = On(s) \cup On(t)
          /\ Len(s) <= Len(m) /\ \A i \in 1..Len(s) : m[i] = s[i]
          /\ t = <<>> => m = s
      BY <3>2, MergeIs
    <3> QED
      BY <3>1, <3>3
  <2>7. shown' = m
    BY <2>1, <2>5
  <2>8. FeedTypes'
    <3>1. torn' \in BOOLEAN
      BY <1>2, <2>1 DEF FeedTypes
    <3>2. On(shown') \in SUBSET (lines \cup regrouped)
      BY <2>3, <2>4, <2>6, <2>7
    <3> QED
      BY <1>1, <1>2, <1>4, <2>1, <2>2, <2>3, <2>6, <2>7, <3>1, <3>2 DEF FeedTypes, SameLines
  <2>9. LinesRun'
    <3>1. cursor' # 0 => shown' # <<>>
      <4>1. c.lines # <<>> => On(m) # {}
        BY <2>2, <2>6, NothingOn
      <4> QED
        BY <2>1, <2>2, <2>6, <2>7, <4>1, NothingOn
    <3>2. ASSUME torn' = FALSE, NEW q \in Feed!Queries, source' = {q}
                 PROVE Run(q, m, seams) /\ Bottom(q, m, c.next, seams)
      <4>1. torn = FALSE /\ c.cursor = cursor
        BY <1>2, <2>1, <3>2 DEF FeedTypes
      <4>2. source = {q} /\ c.query = q
        <5>1. source # {}
          BY <1>2, <4>1, <2>4 DEF LinesRun
        <5> QED
          BY <2>1, <3>2, <5>1
      <4>3. Run(q, shown, seams) /\ Bottom(q, shown, cursor, seams)
        BY <1>2, <4>1, <4>2 DEF LinesRun
      <4>4. cursor \in Nat \ {0} /\ c.cursor = cursor
        BY <1>2, <4>1
      <4> QED
        BY <1>2, <2>2, <2>4, <2>5, <4>2, <4>3, <4>4, OlderFollows
    <3>3. PICK k, ends : k = c.next /\ ends = seams
      OBVIOUS
    <3>4. \A q : (Run(q, m, ends) => Run(q, m, ends)') /\ (Bottom(q, m, k, ends) => Bottom(q, m, k, ends)')
      BY <1>1, RunsAlike
    <3>5. source' # {} /\ cursor' = k /\ seams' = ends /\ shown' = m
      BY <1>1, <2>1, <2>7, <3>3
    <3>6. torn' = FALSE => \A q \in Feed!Queries : source' = {q} => Run(q, m, ends)' /\ Bottom(q, m, k, ends)'
      BY <3>2, <3>3, <3>4
    <3> QED
      BY <3>1, <3>5, <3>6 DEF LinesRun
  <2>10. Tops(shown) => Tops(m)
    <3>1. PICK w : w = Newest(Feed!Matching(query), FeedPage)
      OBVIOUS
    <3>2. ASSUME w = <<>>, shown = <<>> PROVE m = <<>>
      <4>1. Feed!Matching(query) = {}
        BY <1>2, <2>2, <3>1, <3>2, NewestSeq
      <4>2. On(c.lines) = {}
        BY <1>0, <2>2, <4>1 DEF FeedInv, LinesStay, Run
      <4> QED
        BY <2>2, <2>6, <3>2, <4>2, NothingOn
    <3>3. ASSUME Begins(shown, w) PROVE Begins(m, w)
      <4>1. /\ Len(w) <= Len(shown) /\ (\A i \in 1..Len(w) : shown[i] = w[i])
            /\ (w = <<>> => shown = <<>>) /\ Len(w) \in Nat /\ Len(shown) \in Nat /\ Len(m) \in Nat
        BY <1>2, <2>4, <2>6, <3>1, <3>3, NewestSeq DEF Begins
      <4>2. Len(w) <= Len(m) /\ \A i \in 1..Len(w) : m[i] = w[i]
        BY <2>6, <4>1
      <4> QED
        BY <3>2, <4>1, <4>2 DEF Begins
    <3> QED
      BY <3>1, <3>3 DEF Tops
  <2>11. NewestOwed'
    <3>1. Tops(m)' => Tops(shown)'
      BY <2>7 DEF Tops, Begins
    <3>3. status = "ready" /\ query # None /\ behind = FALSE => Tops(m) \/ Owed(taken)
      BY <1>2, <2>10 DEF NewestOwed
    <3>4. status' = "ready" /\ query' # None /\ behind' = FALSE => (Tops(shown) \/ Owed(taken))'
      BY <1>1, <1>6, <1>7, <3>1, <3>3
    <3> QED
      BY <1>5, <3>4 DEF NewestOwed
  <2> QED
    BY <1>4, <2>8, <2>9, <2>11, <1>0 DEF FeedInv
<1> QED
  BY <1>8, <1>9

\* The answer of a live refresh.
LEMMA LivePageKeeps ==
  ASSUME FeedAssumptions, FeedInv, NEW c \in calls, Feed!LivePageShown(c)
  PROVE  FeedInv'
<1>1. /\ c.kind = "live" /\ c.served /\ calls' = calls \ {c} /\ SameLines /\ query' = query
      /\ requestId' = requestId /\ loadingMore' = loadingMore /\ due' = due /\ made' = made
  BY DEF Feed!LivePageShown, Feed!added, SameLines
<1>0. LinesStay'
  BY <1>1, RunsAlike DEF FeedInv
<1>2. /\ FeedTypes /\ FeedCallsFit /\ LinesRun /\ NewestOwed /\ CallFits(c) /\ c \in FeedCall
      /\ c.ticket \in Nat /\ c.ticket # taken /\ c.ticket \in 1..made /\ taken \in 0..made
            /\ taken \in Nat
      /\ behind \in BOOLEAN
  BY CallFacts
<1>3. CASE c.requestId # requestId
  <2>1. /\ status' = status /\ shown' = shown /\ cursor' = cursor /\ source' = source /\ torn' = torn /\ seams' = seams
        /\ taken' = taken /\ behind' = behind
    BY <1>3 DEF Feed!LivePageShown, Feed!IsLatest, Feed!history
  <2>2. Taken(c)
    BY <1>1, <1>2, <1>3, <2>1 DEF Taken
  <2>3. FeedTypes' /\ LinesRun'
    BY <1>1, <1>2, <2>1, RunsAlike DEF FeedTypes, LinesRun, SameLines
  <2>4. FeedCallsFit'
    BY <2>2, TakenKeeps
  <2>5. NewestOwed'
    BY <1>1, <1>2, <2>1, <2>2, TakenKeeps DEF NewestOwed
  <2> QED
    BY <2>3, <2>4, <2>5, <1>0 DEF FeedInv
<1>4. CASE c.requestId = requestId /\ ~c.ok
  <2>1. /\ status' = status /\ shown' = shown /\ cursor' = cursor /\ source' = source /\ torn' = torn /\ seams' = seams
        /\ taken' = IF c.ticket > taken THEN c.ticket ELSE taken
    BY <1>4 DEF Feed!LivePageShown, Feed!IsLatest, Feed!Took
  <2>2. behind' = (behind \/ c.ticket > taken)
    BY <1>4 DEF Feed!LivePageShown, Feed!IsLatest, Feed!Took
  <2>3. Taken(c)
    BY <1>1, <1>2, <2>1 DEF Taken
  <2>4. FeedCallsFit' /\ taken' \in 0..made'
    BY <2>3, TakenKeeps
  <2>5. behind' \in BOOLEAN
    <3>1. CASE c.ticket > taken
      BY <2>2, <3>1
    <3>2. CASE ~(c.ticket > taken)
      BY <1>2, <2>2, <3>2
    <3> QED
      BY <3>1, <3>2
  <2>6. FeedTypes' /\ LinesRun'
    BY <1>1, <1>2, <2>1, <2>4, <2>5, RunsAlike DEF FeedTypes, LinesRun, SameLines
  <2>7. ASSUME behind' = FALSE, status = "ready", query # None PROVE Tops(shown)' \/ Owed(taken)'
    <3>1. behind = FALSE /\ ~(c.ticket > taken)
      <4>1. behind \/ c.ticket > taken => behind' = TRUE
        BY <2>2
      <4> QED
        BY <1>2, <2>7, <4>1
    <3>2. taken' = taken
      BY <2>1, <3>1
    <3>3. Tops(shown) \/ Owed(taken)
      BY <1>2, <2>7, <3>1 DEF NewestOwed
    <3>4. Tops(shown) => Tops(shown)'
      BY <1>1, <2>1, RunsAlike DEF Tops, Begins
    <3>5. Owed(taken) => Owed(taken)'
      <4>1. PICK t \in Nat : t = taken
        BY <1>2
      <4>2. Owed(t) => Owed(t)'
        BY <1>2, <2>3, <3>2, <4>1, TakenKeeps
      <4> QED
        BY <3>2, <4>1, <4>2 DEF Owed
    <3> QED
      BY <3>3, <3>4, <3>5
  <2>8. NewestOwed'
    BY <1>1, <2>1, <2>3, <2>7, TakenKeeps DEF NewestOwed
  <2> QED
    BY <2>4, <2>6, <2>8, <1>0 DEF FeedInv
<1>5. CASE c.requestId = requestId /\ c.ok
  <2>1. PICK o : o = IF c.next = 0 THEN <<>> ELSE Feed!Without(shown,
            {r \in Feed!Range(shown) : AtMs[r] >= AtMs[c.next]})
    OBVIOUS
  <2>2. /\ status' = "ready" /\ shown' = Feed!Merge(c.lines, o)
        /\ cursor' = (IF o = <<>> THEN c.next ELSE cursor)
        /\ source' = (IF o = <<>> THEN {c.query} ELSE source \cup {c.query})
        /\ seams' = (IF o = <<>> THEN {} ELSE seams \cup {c.next})
        /\ taken' = (IF c.ticket > taken THEN c.ticket ELSE taken)
    BY <1>5, <2>1 DEF Feed!LivePageShown, Feed!IsLatest, Feed!Took
  <2>3. torn' = (o # <<>> /\ (torn \/ Feed!Range(shown) \cap Feed!Range(c.lines) = {}))
    BY <1>5, <2>1 DEF Feed!LivePageShown, Feed!IsLatest
  <2>4. behind' = (c.ticket < taken)
    BY <1>5 DEF Feed!LivePageShown, Feed!IsLatest, Feed!Took
  <2>5. /\ c.query \in Feed!Queries /\ c.query = query /\ c.lines \in Seq(Nat) /\ c.next \in Nat
        /\ Run(c.query, c.lines, {}) /\ Bottom(c.query, c.lines, c.next, {}) /\ (c.lines = <<>> => c.next = 0)
    BY <1>1, <1>2, <1>5 DEF CallFits, FeedCall, PageRuns
  <2>6. On(c.lines) \in SUBSET (lines \cup regrouped) /\ c.next \in 0..FeedRecords
    <3>1. On(c.lines) \in SUBSET Places(c.query) /\ Places(c.query) \in SUBSET (1..FeedRecords)
                /\ FeedRecords \in Nat
      BY <1>2, <2>5, Matches DEF Run
    <3>2. c.next \in 0..FeedRecords
      BY <2>5, <3>1 DEF Bottom
    <3> QED
      BY <3>1, <3>2 DEF Places
  <2>7. shown \in Seq(Nat) /\ On(shown) \in SUBSET (lines \cup regrouped) /\ cursor \in 0..FeedRecords /\ cursor \in Nat
    BY <1>2 DEF FeedTypes
  <2>8. /\ o \in Seq(Nat) /\ On(o) \in SUBSET On(shown)
              /\ (o # <<>> => c.next # 0 /\ On(o) = {r \in On(shown) : AtMs[r] < AtMs[c.next]})
        /\ \A x, y : Before(o, x, y) => Before(shown, x, y)
    <3>1. CASE c.next = 0
      <4>1. o = <<>> /\ o \in Seq(Nat) /\ Len(o) = 0
        BY <2>1, <3>1
      <4> QED
        BY <4>1 DEF On, Before
    <3>2. CASE c.next # 0
      <4>1. PICK off : off = {r \in On(shown) : AtMs[r] >= AtMs[c.next]}
        OBVIOUS
      <4>2. o = Without(shown, off)
        BY <2>1, <2>7, <3>2, <4>1, FeedNames
      <4>3. o \in Seq(Nat) /\ On(o) = On(shown) \ off /\ \A x, y : Before(o, x, y)
                => Before(shown, x, y)
        BY <2>7, <4>2, WithoutFacts
      <4>4. On(shown) \ off = {r \in On(shown) : AtMs[r] < AtMs[c.next]}
        <5>1. \A r \in On(shown) : AtMs[r] \in Nat
          BY <1>2, <2>7 DEF FeedTypes, FeedAssumptions
        <5>2. AtMs[c.next] \in Nat
          BY <2>6, <3>2 DEF FeedAssumptions
        <5> QED
          BY <4>1, <5>1, <5>2
      <4> QED
        BY <3>2, <4>3, <4>4
    <3> QED
      BY <3>1, <3>2
  <2>9. PICK m : m = Feed!Merge(c.lines, o)
    OBVIOUS
  <2>10. /\ m \in Seq(Nat) /\ On(m) = On(c.lines) \cup On(o)
         /\ Len(c.lines) <= Len(m) /\ \A i \in 1..Len(c.lines) : m[i] = c.lines[i]
         /\ o = <<>> => m = c.lines
    BY <2>5, <2>8, <2>9, MergeIs
  <2>11. Taken(c)
    BY <1>1, <1>2, <2>2 DEF Taken
  <2>12. FeedCallsFit' /\ taken' \in 0..made'
    BY <2>11, TakenKeeps
  <2>13. FeedTypes'
    <3>1. behind' \in BOOLEAN
      <4>1. CASE c.ticket < taken
        BY <2>4, <4>1
      <4>2. CASE ~(c.ticket < taken)
        BY <2>4, <4>2
      <4> QED
        BY <4>1, <4>2
    <3>2. torn' \in BOOLEAN
      BY <1>2, <2>3 DEF FeedTypes
    <3>3. shown' \in Seq(Nat) /\ On(shown') \in SUBSET (lines \cup regrouped) /\ cursor' \in 0..FeedRecords
      BY <2>2, <2>6, <2>7, <2>8, <2>9, <2>10
    <3>4. source' \in SUBSET Feed!Queries
      BY <1>2, <2>2, <2>5 DEF FeedTypes
    <3>5. seams' \in SUBSET (1..FeedRecords)
      <4>1. seams \in SUBSET (1..FeedRecords)
        BY <1>2 DEF FeedTypes
      <4>2. o # <<>> => c.next \in 1..FeedRecords
        BY <2>6, <2>8
      <4> QED
        BY <2>2, <4>1, <4>2
    <3> QED
      BY <1>1, <1>2, <2>2, <2>12, <3>1, <3>2, <3>3, <3>4, <3>5 DEF FeedTypes, SameLines
  <2>14. ASSUME torn' = FALSE, NEW q \in Feed!Queries, source' = {q}
                PROVE Run(q, m, seams') /\ Bottom(q, m, cursor', seams')
    <3>1. CASE o = <<>>
      <4>1. m = c.lines /\ c.query = q /\ seams' = {} /\ cursor' = c.next
        BY <2>2, <2>10, <2>14, <3>1
      <4> QED
        BY <2>5, <4>1
    <3>2. CASE o # <<>>
      <4>1. torn = FALSE /\ On(shown) \cap On(c.lines) # {}
        <5>1. Feed!Range(shown) = On(shown) /\ Feed!Range(c.lines) = On(c.lines)
          BY <2>5, <2>7, FeedNames
        <5>2. torn \in BOOLEAN
          BY <1>2 DEF FeedTypes
        <5>3. ~(torn \/ Feed!Range(shown) \cap Feed!Range(c.lines) = {})
          BY <2>3, <2>14, <3>2, Zenon
        <5> QED
          BY <5>1, <5>2, <5>3
      <4>2. source = {q} /\ c.query = q
        <5>1. source # {}
          <6>1. On(o) # {}
            BY <2>8, <3>2, NothingOn
          <6>2. shown # <<>>
            BY <2>7, <2>8, <6>1, NothingOn
          <6> QED
            BY <1>2, <6>2 DEF LinesRun
        <5> QED
          BY <2>2, <2>14, <3>2, <5>1
      <4>3. Run(q, shown, seams) /\ Bottom(q, shown, cursor, seams) /\ cursor' = cursor
                /\ seams' = seams \cup {c.next}
        BY <1>2, <2>2, <3>2, <4>1, <4>2 DEF LinesRun
      <4>4. c.next \in Nat \ {0} /\ On(o) = {r \in On(shown) : AtMs[r] < AtMs[c.next]}
        BY <2>5, <2>8, <3>2
      <4>5. Run(q, m, seams \cup {c.next}) /\ Bottom(q, m, cursor, seams \cup {c.next})
        BY <1>2, <2>5, <2>7, <2>8, <2>9, <3>2, <4>1, <4>2, <4>3, <4>4, LiveCovers
      <4> QED
        BY <4>3, <4>5
    <3> QED
      BY <3>1, <3>2
  <2>15. LinesRun'
    <3>1. cursor' # 0 => shown' # <<>>
      <4>1. o # <<>> => On(m) # {}
        BY <2>8, <2>10, NothingOn
      <4>2. o = <<>> /\ c.next # 0 => m # <<>>
        BY <2>5, <2>10
      <4> QED
        BY <2>2, <2>9, <2>10, <4>1, <4>2, NothingOn
    <3>2. PICK k, ends : k = cursor' /\ ends = seams'
      OBVIOUS
    <3>3. \A q : (Run(q, m, ends) => Run(q, m, ends)') /\ (Bottom(q, m, k, ends) => Bottom(q, m, k, ends)')
      BY <1>1, RunsAlike
    <3>4. source' # {} /\ shown' = m
      BY <2>2, <2>9
    <3>5. torn' = FALSE => \A q \in Feed!Queries : source' = {q} => Run(q, m, ends)' /\ Bottom(q, m, k, ends)'
      BY <2>14, <3>2, <3>3
    <3> QED
      BY <3>1, <3>2, <3>4, <3>5 DEF LinesRun
  <2>16. Tops(c.lines) => Tops(m)
    <3>1. PICK w : w = Newest(Feed!Matching(query), FeedPage)
      OBVIOUS
    <3>2. ASSUME c.lines = <<>> PROVE m = <<>>
      BY <2>5, <2>8, <2>10, <3>2
    <3>3. ASSUME Begins(c.lines, w) PROVE Begins(m, w)
      <4>1. /\ Len(w) <= Len(c.lines) /\ (\A i \in 1..Len(w) : c.lines[i] = w[i])
            /\ (w = <<>> => c.lines = <<>>) /\ Len(w) \in Nat /\ Len(c.lines) \in Nat /\ Len(m) \in Nat
        BY <1>2, <2>5, <2>10, <3>1, <3>3, NewestSeq DEF Begins
      <4>2. Len(w) <= Len(m) /\ \A i \in 1..Len(w) : m[i] = w[i]
        <5>1. Len(c.lines) <= Len(m) /\ \A i \in 1..Len(c.lines) : m[i] = c.lines[i]
          BY <2>10
        <5>2. Len(w) <= Len(m) /\ \A i \in 1..Len(w) : i \in 1..Len(c.lines)
          BY <4>1, <5>1
        <5> QED
          BY <4>1, <5>1, <5>2
      <4> QED
        BY <3>2, <4>1, <4>2 DEF Begins
    <3> QED
      BY <3>1, <3>3 DEF Tops
  <2>17. ASSUME behind' = FALSE PROVE Tops(shown)' \/ Owed(taken)'
    <3>0. ~(c.ticket < taken)
      BY <2>4, <2>17, Zenon
    <3>1. c.ticket > taken /\ taken' = c.ticket
      BY <1>2, <2>2, <3>0
    <3>2. Tops(m) \/ Owed(c.ticket)
      BY <1>1, <1>2, <1>5, <2>16, <3>1 DEF NewestOwed
    <3>3. Tops(m) => Tops(m)'
      BY <2>11, TakenKeeps
    <3>4. Owed(c.ticket) => Owed(c.ticket)'
      BY <1>2, <2>11, <3>1, TakenKeeps
    <3>5. Tops(m)' => Tops(shown)'
      BY <2>2, <2>9 DEF Tops, Begins
    <3>6. Owed(c.ticket)' => Owed(taken)'
      BY <3>1 DEF Owed
    <3> QED
      BY <3>2, <3>3, <3>4, <3>5, <3>6
  <2>18. NewestOwed'
    BY <2>11, <2>17, TakenKeeps DEF NewestOwed
  <2> QED
    BY <2>12, <2>13, <2>15, <2>18, <1>0 DEF FeedInv
<1> QED
  BY <1>2, <1>3, <1>4, <1>5

\* One more call, of the query of now.
LEMMA AskedKeeps ==
  ASSUME FeedAssumptions, FeedTypes, FeedCallsFit, SameLines, taken' = taken, made' = made + 1,
         requestId' \in Nat, (requestId' = requestId /\ query' = query) \/ requestId < requestId',
         query' \in Feed!Queries, NEW kind \in {"first", "older", "live"}, NEW cur \in Nat,
             cur <= FeedRecords,
         kind = "older" <=> cur # 0, calls' = calls \cup {Feed!Call(kind, cur)}
  PROVE  /\ FeedCallsFit' /\ made' \in Nat /\ taken' \in 0..made'
         /\ \E x \in calls' : /\ x.kind = kind /\ x.ticket = made + 1 /\ x.requestId = requestId'
                                 /\ x.served = FALSE
                              /\ \A d \in calls' : d \in calls \/ d = x
<1>1. PICK n, r, q : n = made' /\ r = requestId' /\ q = query'
  OBVIOUS
<1>2. PICK x : x = [kind |-> kind, ticket |-> n, requestId |-> r, query |-> q, cursor |-> cur,
                    served |-> FALSE, ok |-> FALSE, lines |-> <<>>, next |-> 0]
  OBVIOUS
<1>3. calls' = calls \cup {x}
  BY <1>1, <1>2 DEF Feed!Call
<1>4. /\ made \in Nat /\ taken \in 0..made /\ requestId \in Nat
      /\ \A d \in calls : CallFits(d) /\ d.ticket \in 1..made
  BY Matches DEF FeedTypes, FeedCallsFit, CallFits
<1>5. n \in Nat /\ n = made + 1 /\ r \in Nat /\ q \in Feed!Queries /\ made' \in Nat /\ made <= made'
  BY <1>1, <1>4
<1>6. /\ x \in FeedCall /\ x.kind = kind /\ x.ticket = n /\ x.requestId = r /\ x.query = q
            /\ x.cursor = cur
      /\ x.served = FALSE /\ x.ok = FALSE /\ x.lines = <<>> /\ x.next = 0
  BY <1>2, <1>5 DEF FeedCall
<1>7. CallFits(x)'
  <2>1. x.ticket \in 1..made' /\ x.ticket # taken' /\ x.requestId <= requestId' /\ x.cursor <= FeedRecords
    BY <1>1, <1>4, <1>5, <1>6
  <2> QED
    BY <1>1, <1>6, <2>1 DEF CallFits
<1>8. ASSUME NEW d \in calls PROVE CallFits(d)'
  <2>1. CallFits(d) /\ d.ticket # taken'
    BY <1>4 DEF CallFits
  <2> QED
    BY <1>5, <2>1, FitSame
<1>9. \A d \in calls : d.ticket # x.ticket
  BY <1>4, <1>5, <1>6
<1>10. FeedCallsFit'
  BY <1>3, <1>7, <1>8, <1>9 DEF FeedCallsFit
<1>11. taken' \in 0..made'
  BY <1>4, <1>5
<1> QED
  BY <1>1, <1>3, <1>5, <1>6, <1>10, <1>11

LEMMA FeedInit ==
  ASSUME FeedAssumptions, Feed!Init
  PROVE  FeedInv
<1>1. /\ lines = FeedSeeded /\ inserted = {} /\ regrouped = {} /\ seams = {} /\ query = "all" /\ status = "loading" /\ shown = <<>> /\ cursor = 0
            /\ requestId = 1
      /\ loadingMore = FALSE /\ due = FALSE /\ made = 1 /\ source = {} /\ torn = FALSE /\ taken = 0
            /\ behind = FALSE
      /\ calls = {[kind |-> "first", ticket |-> 1, requestId |-> 1, query |-> query, cursor |-> 0,
                   served |-> FALSE, ok |-> FALSE, lines |-> <<>>, next |-> 0]}
  BY DEF Feed!Init
<1>2. PICK x : x = [kind |-> "first", ticket |-> 1, requestId |-> 1, query |-> "all", cursor |-> 0,
                    served |-> FALSE, ok |-> FALSE, lines |-> <<>>, next |-> 0]
  OBVIOUS
<1>3. calls = {x} /\ "all" \in Feed!Queries
  BY <1>1, <1>2 DEF Feed!Queries
<1>4. /\ x \in FeedCall /\ x.kind = "first" /\ x.ticket = 1 /\ x.requestId = 1 /\ x.query = "all"
            /\ x.cursor = 0
      /\ x.served = FALSE /\ x.lines = <<>> /\ x.next = 0
  BY <1>2, <1>3 DEF FeedCall
<1>5. FeedSeeded \in SUBSET (1..FeedRecords) /\ FeedRecords \in Nat
  BY DEF FeedAssumptions
<1>6. On(shown) = {} /\ shown \in Seq(Nat)
  BY <1>1 DEF On
<1>7. FeedTypes
  <2>1. /\ On(shown) \in SUBSET (lines \cup regrouped) /\ cursor \in 0..FeedRecords
        /\ query \in Feed!Queries \cup {None} /\ status \in {"loading", "ready", "failed"}
        /\ requestId \in Nat /\ made \in Nat /\ taken \in 0..made /\ source \in SUBSET Feed!Queries
    BY <1>1, <1>3, <1>5, <1>6
  <2>2. loadingMore \in BOOLEAN /\ due \in BOOLEAN /\ torn \in BOOLEAN /\ behind \in BOOLEAN
    BY <1>1
  <2> QED
    BY <1>1, <1>5, <1>6, <2>1, <2>2 DEF FeedTypes
<1>8. FeedCallsFit
  <2>1. CallFits(x)
    BY <1>1, <1>4, <1>5 DEF CallFits
  <2> QED
    BY <1>3, <2>1 DEF FeedCallsFit
<1>9. LinesRun /\ NewestOwed
  BY <1>1, <1>3, <1>4 DEF LinesRun, NewestOwed
<1>10. LinesStay
  BY <1>1 DEF LinesStay, Feed!Matching, Places
<1> QED
  BY <1>7, <1>8, <1>9, <1>10 DEF FeedInv

LEMMA LoadFirstKeeps ==
  ASSUME FeedAssumptions, FeedInv, NEW q \in Feed!Queries \cup {None}, Feed!LoadFirstPage(q)
  PROVE  FeedInv'
<1>1. /\ query' = q /\ requestId' = requestId + 1 /\ loadingMore' = FALSE /\ SameLines
            /\ due' = due
  BY DEF Feed!LoadFirstPage, Feed!added, SameLines
<1>0. LinesStay'
  BY <1>1, RunsAlike DEF FeedInv
<1>2. /\ FeedTypes /\ FeedCallsFit /\ LinesRun /\ requestId \in Nat
            /\ made \in Nat /\ taken \in 0..made
      /\ \A d \in calls : CallFits(d) /\ d.requestId \in Nat /\ d.requestId <= requestId
  BY Matches DEF FeedInv, FeedTypes, FeedCallsFit, CallFits, FeedCall
<1>3. requestId' \in Nat /\ requestId < requestId'
  BY <1>1, <1>2
<1>4. \A d \in calls : d.requestId # requestId'
  BY <1>2, <1>3
<1>5. CASE q = None
  <2>1. /\ shown' = <<>> /\ cursor' = 0 /\ status' = "ready" /\ source' = {} /\ torn' = FALSE
              /\ behind' = FALSE /\ seams' = {}
        /\ calls' = calls /\ made' = made /\ taken' = taken
    BY <1>5 DEF Feed!LoadFirstPage, Feed!reads
  <2>2. On(shown') = {} /\ shown' \in Seq(Nat)
    BY <2>1 DEF On
  <2>3. FeedTypes'
    <3>0. On(shown') \in SUBSET (lines' \cup regrouped')
      BY <2>2
    <3>3. cursor' \in 0..FeedRecords
      BY <2>1 DEF FeedAssumptions
    <3>1. /\ source' \in SUBSET Feed!Queries /\ status' \in {"loading", "ready", "failed"}
          /\ torn' \in BOOLEAN /\ behind' \in BOOLEAN
      BY <2>1
    <3>2. /\ query' \in Feed!Queries \cup {None} /\ seams' = {}
          /\ lines' = lines /\ inserted' = inserted /\ regrouped' = regrouped
                /\ loadingMore' \in BOOLEAN
          /\ due' \in BOOLEAN /\ made' \in Nat /\ taken' \in 0..made'
      BY <1>1, <1>2, <2>1 DEF FeedTypes, SameLines
    <3> QED
      BY <1>2, <1>3, <2>2, <3>0, <3>1, <3>2, <3>3 DEF FeedTypes
  <2>4. FeedCallsFit'
    <3>1. ASSUME NEW d \in calls PROVE CallFits(d)'
      <4>1. d.ticket # taken'
        BY <1>2, <2>1 DEF CallFits
      <4>2. made' \in Nat /\ made <= made'
        BY <1>1, <1>2, <2>1
      <4> QED
        BY <1>1, <1>2, <1>3, <4>1, <4>2, FitSame
    <3> QED
      BY <1>2, <2>1, <3>1 DEF FeedCallsFit
  <2>5. LinesRun'
    BY <2>1 DEF LinesRun
  <2>6. NewestOwed'
    BY <1>1, <1>4, <1>5, <2>1 DEF NewestOwed
  <2> QED
    BY <2>3, <2>4, <2>5, <2>6, <1>0 DEF FeedInv
<1>6. CASE q # None
  <2>1. /\ status' = "loading" /\ made' = made + 1 /\ calls' = calls \cup {Feed!Call("first", 0)}
        /\ shown' = shown /\ cursor' = cursor /\ source' = source /\ torn' = torn /\ seams' = seams /\ taken' = taken
              /\ behind' = behind
    BY <1>6 DEF Feed!LoadFirstPage, Feed!Ask, Feed!history
  <2>2. query' \in Feed!Queries
    BY <1>1, <1>6
  <2>3. 0 \in Nat /\ 0 <= FeedRecords /\ "first" \in {"first", "older", "live"}
            /\ ("first" = "older" <=> 0 # 0)
    BY DEF FeedAssumptions
  <2>4. /\ FeedCallsFit' /\ made' \in Nat /\ taken' \in 0..made'
        /\ \E x \in calls' : /\ x.kind = "first" /\ x.ticket = made + 1 /\ x.requestId = requestId'
                                /\ x.served = FALSE
                             /\ \A d \in calls' : d \in calls \/ d = x
    BY <1>1, <1>2, <1>3, <2>1, <2>2, <2>3, AskedKeeps
  <2>5. FeedTypes' /\ LinesRun'
    BY <1>1, <1>2, <1>3, <2>1, <2>2, <2>4, RunsAlike DEF FeedTypes, LinesRun, SameLines
  <2>6. NewestOwed'
    BY <1>4, <2>1, <2>4 DEF NewestOwed
  <2> QED
    BY <2>4, <2>5, <2>6, <1>0 DEF FeedInv
<1> QED
  BY <1>5, <1>6

LEMMA LoadOlderKeeps ==
  ASSUME FeedAssumptions, FeedInv, Feed!LoadOlderPage
  PROVE  FeedInv'
<1>1. /\ cursor # 0 /\ query # None /\ loadingMore' = TRUE /\ SameLines /\ query' = query
            /\ status' = status
      /\ shown' = shown /\ cursor' = cursor /\ requestId' = requestId /\ due' = due
            /\ source' = source /\ torn' = torn /\ seams' = seams
      /\ taken' = taken /\ behind' = behind /\ made' = made + 1 /\ calls' = calls
            \cup {Feed!Call("older", cursor)}
  BY DEF Feed!LoadOlderPage, Feed!Ask, Feed!history, Feed!added, SameLines
<1>0. LinesStay'
  BY <1>1, RunsAlike DEF FeedInv
<1>2. /\ FeedTypes /\ FeedCallsFit /\ LinesRun /\ NewestOwed /\ requestId \in Nat
            /\ made \in Nat
      /\ taken \in Nat /\ query \in Feed!Queries /\ cursor \in 0..FeedRecords
  BY <1>1, Matches DEF FeedInv, FeedTypes
<1>3. PICK cur : cur = cursor
  OBVIOUS
<1>4. cur \in Nat /\ cur <= FeedRecords /\ ("older" = "older" <=> cur # 0)
          /\ "older" \in {"first", "older", "live"}
  BY <1>1, <1>2, <1>3
<1>5. calls' = calls \cup {Feed!Call("older", cur)} /\ query' \in Feed!Queries /\ requestId' \in Nat
  BY <1>1, <1>2, <1>3
<1>6. /\ FeedCallsFit' /\ made' \in Nat /\ taken' \in 0..made'
      /\ \E x \in calls' : /\ x.kind = "older" /\ x.ticket = made + 1 /\ x.requestId = requestId'
                              /\ x.served = FALSE
                           /\ \A d \in calls' : d \in calls \/ d = x
  BY <1>1, <1>2, <1>4, <1>5, AskedKeeps
<1>7. FeedTypes' /\ LinesRun'
  BY <1>1, <1>2, <1>6, RunsAlike DEF FeedTypes, LinesRun, SameLines
<1>10. \A s : Tops(s)' <=> Tops(s)
  BY <1>1, RunsAlike
<1>8. (\A s : Tops(s)' <=> Tops(s)) /\ \A t : Owed(t) => Owed(t)'
  BY <1>1, <1>10 DEF Owed
<1>9. NewestOwed'
  BY <1>1, <1>2, <1>6, <1>8 DEF NewestOwed
<1> QED
  BY <1>6, <1>7, <1>9, <1>0 DEF FeedInv

\* What is recorded is a line of its own, or moves the line of its group.
LEMMA RecordIs ==
  ASSUME FeedAssumptions, FeedInv, Feed!Record
  PROVE  /\ Recorded /\ LinesStay'
         /\ inserted' \in SUBSET (1..FeedRecords) /\ regrouped' \in SUBSET (1..FeedRecords)
<1>1. FeedTypes /\ LinesStay
  BY DEF FeedInv
<1>2. CASE UNCHANGED <<lines, Feed!added>>
  <2>1. SameLines
    BY <1>2 DEF SameLines, Feed!added
  <2> QED
    BY <1>1, <2>1, RunsAlike DEF Recorded, SameLines, FeedTypes
<1>3. CASE ~UNCHANGED <<lines, Feed!added>>
  <2>1. PICK p \in 1..FeedRecords \ (lines \cup regrouped) :
          /\ inserted' = IF Feed!Passed(p) THEN inserted \cup {p} ELSE inserted
          /\ \/ lines' = lines \cup {p} /\ UNCHANGED regrouped
             \/ \E g \in lines : /\ g < p /\ {g, p} \subseteq Grouped
                               /\ lines' = (lines \ {g}) \cup {p} /\ regrouped' = regrouped \cup {g}
    BY <1>3 DEF Feed!Record, Feed!OwnLine, Feed!GroupMoves
  <2>2. /\ lines \in SUBSET (1..FeedRecords) /\ inserted \in SUBSET (1..FeedRecords)
        /\ regrouped \in SUBSET (1..FeedRecords)
    BY <1>1 DEF FeedTypes
  <2>3. /\ lines' \in SUBSET (1..FeedRecords) /\ regrouped' \in SUBSET (1..FeedRecords)
        /\ lines \cup regrouped \in SUBSET (lines' \cup regrouped')
        /\ \A r \in lines' : r \in lines \/ r = p
        /\ p \in lines'
    BY <2>1, <2>2
  <2>4. /\ inserted \in SUBSET inserted' /\ inserted' \in SUBSET (1..FeedRecords)
        /\ (Feed!Passed(p) => p \in inserted')
    BY <2>1, <2>2
  <2>5. ASSUME NEW q \in Feed!Queries, Feed!Matching(q)' = {} PROVE Places(q)' = {}
    <3>1. /\ \A r \in lines' : ~Feed!OfQuery(q, r)
          /\ Feed!Matching(q) = {r \in lines : Feed!OfQuery(q, r)}
      BY <2>5 DEF Feed!Matching, Feed!OfQuery
    <3>2. p \notin Grouped /\ q # "all"
      BY <2>3, <3>1 DEF Feed!OfQuery
    <3>3. lines' = lines \cup {p} /\ regrouped' = regrouped
      BY <2>1, <3>2
    <3>4. Feed!Matching(q) = {}
      BY <3>1, <3>3
    <3>5. \A r \in lines \cup regrouped : ~Feed!OfQuery(q, r)
      BY <1>1, <3>4 DEF LinesStay, Places
    <3>6. \A r \in lines' \cup regrouped' : ~Feed!OfQuery(q, r)
      BY <3>1, <3>3, <3>5
    <3> QED
      BY <3>6 DEF Places, Feed!OfQuery
  <2> QED
    BY <2>3, <2>4, <2>5 DEF Recorded, LinesStay
<1> QED
  BY <1>2, <1>3

LEMMA FeedRecordKeeps ==
  ASSUME FeedAssumptions, FeedInv, Feed!Record
  PROVE  FeedInv'
<1>1. /\ due' = TRUE /\ query' = query /\ status' = status
      /\ shown' = shown /\ cursor' = cursor /\ loadingMore' = loadingMore /\ requestId' = requestId
            /\ calls' = calls
      /\ made' = made /\ source' = source /\ torn' = torn /\ seams' = seams /\ taken' = taken
            /\ behind' = behind
  BY DEF Feed!Record, Feed!feed, Feed!reads, Feed!history
<1>2. FeedTypes /\ FeedCallsFit /\ LinesRun /\ requestId \in Nat /\ made \in Nat
  BY DEF FeedInv, FeedTypes
<1>3. /\ Recorded /\ LinesStay'
      /\ inserted' \in SUBSET (1..FeedRecords) /\ regrouped' \in SUBSET (1..FeedRecords)
  BY RecordIs
<1>4. FeedTypes'
  <2>1. On(shown') \in SUBSET (lines' \cup regrouped') /\ lines' \in SUBSET (1..FeedRecords)
    BY <1>1, <1>2, <1>3 DEF FeedTypes, Recorded
  <2> QED
    BY <1>1, <1>2, <1>3, <2>1 DEF FeedTypes
<1>5. FeedCallsFit'
  <2>1. ASSUME NEW d \in calls PROVE CallFits(d)'
    <3>1. CallFits(d) /\ d.ticket # taken' /\ made' \in Nat /\ made <= made'
              /\ requestId' \in Nat /\ d \in FeedCall
      BY <1>1, <1>2 DEF FeedCallsFit, CallFits
    <3>2. \A r : r < d.cursor \/ (\E x \in On(d.lines) : r < x) => Feed!Passed(r)
      BY <3>1, CallPassed
    <3> QED
      BY <1>1, <1>2, <1>3, <3>1, <3>2, FitStays
  <2> QED
    BY <1>1, <1>2, <2>1 DEF FeedCallsFit
<1>6. LinesRun'
  <2>1. PICK s, k, ends : s = shown /\ k = cursor /\ ends = seams
    OBVIOUS
  <2>2. \A r, x : x \in On(s) /\ r < x => Feed!Passed(r)
    <3>1. Feed!Range(shown) = On(shown)
      BY <1>2, FeedNames DEF FeedTypes
    <3> QED
      BY <2>1, <3>1 DEF Feed!Passed
  <2>3. \A q : Run(q, s, ends) => Run(q, s, ends)' /\ (Bottom(q, s, k, ends) => Bottom(q, s, k, ends)')
    BY <1>2, <1>3, <2>2, RunStays
  <2> QED
    BY <1>1, <1>2, <2>1, <2>3 DEF LinesRun
<1>7. NewestOwed'
  BY <1>1 DEF NewestOwed, Owed
<1> QED
  BY <1>3, <1>4, <1>5, <1>6, <1>7 DEF FeedInv

LEMMA RefreshLiveKeeps ==
  ASSUME FeedAssumptions, FeedInv, Feed!RefreshLive
  PROVE  FeedInv'
<1>1. /\ due = TRUE /\ due' = FALSE /\ SameLines /\ query' = query /\ status' = status
      /\ shown' = shown /\ cursor' = cursor /\ loadingMore' = loadingMore /\ requestId' = requestId
      /\ source' = source /\ torn' = torn /\ seams' = seams /\ taken' = taken /\ behind' = behind
  BY DEF Feed!RefreshLive, Feed!feed, Feed!history, FeedInv, FeedTypes, Feed!added, SameLines
<1>0. LinesStay'
  BY <1>1, RunsAlike DEF FeedInv
<1>2. /\ FeedTypes /\ FeedCallsFit /\ LinesRun /\ requestId \in Nat
            /\ made \in Nat /\ taken \in 0..made
      /\ query \in Feed!Queries \cup {None} /\ None \notin Feed!Queries
      /\ \A d \in calls : /\ CallFits(d) /\ d.query \in Feed!Queries /\ d.ticket \in 1..made
                          /\ (d.requestId = requestId => d.query = query)
  BY Matches DEF FeedInv, FeedTypes, FeedAssumptions, FeedCallsFit, CallFits, FeedCall
<1>3. CASE query = None
  <2>1. calls' = calls /\ made' = made
    BY <1>3 DEF Feed!RefreshLive, Feed!reads
  <2>2. FeedTypes' /\ LinesRun'
    BY <1>1, <1>2, <2>1, RunsAlike DEF FeedTypes, LinesRun, SameLines
  <2>3. FeedCallsFit'
    <3>1. ASSUME NEW d \in calls PROVE CallFits(d)'
      <4>1. CallFits(d) /\ d.ticket # taken'
                /\ made' \in Nat
            /\ made <= made' /\ requestId' \in Nat
        BY <1>1, <1>2, <2>1 DEF CallFits
      <4> QED
        BY <1>1, <1>2, <4>1, FitSame
    <3> QED
      BY <1>2, <2>1, <3>1 DEF FeedCallsFit
  <2>4. NewestOwed'
    <3>1. query' = None /\ \A d \in calls' : d.requestId # requestId'
      BY <1>1, <1>2, <1>3, <2>1
    <3> QED
      BY <3>1 DEF NewestOwed
  <2> QED
    BY <2>2, <2>3, <2>4, <1>0 DEF FeedInv
<1>4. CASE query # None
  <2>1. made' = made + 1 /\ calls' = calls \cup {Feed!Call("live", 0)}
    BY <1>4 DEF Feed!RefreshLive, Feed!Ask
  <2>2. 0 \in Nat /\ 0 <= FeedRecords /\ "live" \in {"first", "older", "live"}
            /\ ("live" = "older" <=> 0 # 0)
        /\ query' \in Feed!Queries /\ requestId' \in Nat
    BY <1>1, <1>2, <1>4 DEF FeedAssumptions
  <2>3. /\ FeedCallsFit' /\ made' \in Nat /\ taken' \in 0..made'
        /\ \E x \in calls' : /\ x.kind = "live" /\ x.ticket = made + 1 /\ x.requestId = requestId'
                                /\ x.served = FALSE
                             /\ \A d \in calls' : d \in calls \/ d = x
    BY <1>1, <1>2, <2>1, <2>2, AskedKeeps
  <2>4. PICK x \in calls' : /\ x.kind = "live" /\ x.ticket = made + 1 /\ x.requestId = requestId'
                               /\ x.served = FALSE
                            /\ \A d \in calls' : d \in calls \/ d = x
    BY <2>3
  <2>5. FeedTypes' /\ LinesRun'
    BY <1>1, <1>2, <2>3, RunsAlike DEF FeedTypes, LinesRun, SameLines
  <2>6. ASSUME NEW t \in Nat, t <= made PROVE Owed(t)'
    <3>1. x.ticket > t
      BY <1>2, <2>4, <2>6
    <3> QED
      BY <2>4, <3>1 DEF Owed
  <2>7. Owed(taken)'
    <3>1. PICK t \in Nat : t = taken /\ t <= made
      BY <1>2
    <3>2. Owed(t)'
      BY <2>6, <3>1
    <3> QED
      BY <1>1, <3>1, <3>2 DEF Owed
  <2>8. \A d \in calls' : d.served => Owed(d.ticket)'
    <3>1. \A d \in calls' : d.served => d.ticket \in Nat /\ d.ticket <= made
      BY <1>2, <2>4
    <3> QED
      BY <2>6, <3>1
  <2>9. NewestOwed'
    BY <2>7, <2>8 DEF NewestOwed
  <2> QED
    BY <2>3, <2>5, <2>9, <1>0 DEF FeedInv
<1> QED
  BY <1>3, <1>4

\* An answer is served: a page read from the top is that of the newest lines.
LEMMA FeedServeKeeps ==
  ASSUME FeedAssumptions, FeedInv, NEW c \in calls, NEW ok \in BOOLEAN, Feed!Serve(c, ok)
  PROVE  FeedInv'
<1>1. /\ ~c.served /\ SameLines /\ query' = query /\ status' = status /\ shown' = shown
            /\ cursor' = cursor
      /\ loadingMore' = loadingMore /\ requestId' = requestId /\ due' = due /\ made' = made
            /\ source' = source
      /\ torn' = torn /\ seams' = seams /\ taken' = taken /\ behind' = behind
  BY DEF Feed!Serve, Feed!feed, Feed!history, Feed!added, SameLines
<1>0. LinesStay'
  BY <1>1, RunsAlike DEF FeedInv
<1>2. /\ FeedTypes /\ FeedCallsFit /\ LinesRun /\ NewestOwed /\ requestId \in Nat
            /\ made \in Nat
      /\ taken \in Nat /\ c \in FeedCall /\ CallFits(c) /\ FeedPage \in Nat \ {0}
      /\ c.query \in Feed!Queries /\ c.cursor \in 0..FeedRecords
  BY Matches DEF FeedInv, FeedTypes, FeedAssumptions, FeedCallsFit, CallFits, FeedCall
<1>3. PICK S : S = {r \in Feed!Matching(c.query) : c.cursor # 0 => r < c.cursor}
  OBVIOUS
<1>4. PICK w : w = Newest(S, FeedPage)
  OBVIOUS
<1>5. PICK k : k = IF Cardinality(S) > FeedPage THEN w[FeedPage] ELSE 0
  OBVIOUS
<1>6. S \in SUBSET (1..FeedRecords) /\ FeedRecords \in Nat /\ S \in SUBSET Feed!Matching(c.query)
          /\ \A r \in Feed!Matching(c.query) : r \in Nat
  BY <1>2, <1>3, Matches
<1>7. /\ w \in Seq(Nat) /\ On(w) \in SUBSET S /\ Falls(w) /\ k \in 0..FeedRecords
      /\ \A r \in S : r \in On(w) \/ (k # 0 /\ r < k)
      /\ k # 0 => k \in On(w) /\ \A x \in On(w) : x >= k
      /\ (S = {} => w = <<>>) /\ (S # {} => w # <<>> /\ w[1] \in S /\ \A r \in S : r <= w[1])
  BY <1>2, <1>4, <1>5, <1>6, PageIs
<1>22. \A y \in On(w) : y \in S /\ y \in Nat
  <2>1. \A y \in S : y \in Nat
    BY <1>6
  <2> QED
    BY <1>7, <2>1
<1>8. PICK x : x = [c EXCEPT !.served = TRUE, !.ok = ok, !.lines = IF ok THEN w
          ELSE <<>>, !.next = IF ok THEN k ELSE 0]
  OBVIOUS
<1>9. calls' = (calls \ {c}) \cup {x}
  <2>1. /\ Feed!Newest(S, FeedPage) = w /\ Feed!Cardinality(S) = Cardinality(S)
    BY <1>4, FeedNames
  <2>2. calls' = (calls \ {c}) \cup {[c EXCEPT !.served = TRUE, !.ok = ok,
           !.lines = IF ok THEN Feed!Newest(S, FeedPage) ELSE <<>>,
           !.next = IF ok /\ Feed!Cardinality(S) > FeedPage THEN Feed!Newest(S, FeedPage)[FeedPage]
               ELSE 0]}
    BY <1>3 DEF Feed!Serve
  <2>3. (IF ok /\ Feed!Cardinality(S) > FeedPage THEN Feed!Newest(S, FeedPage)[FeedPage] ELSE 0)
            = IF ok THEN k ELSE 0
    BY <1>5, <2>1
  <2> QED
    BY <1>8, <2>1, <2>2, <2>3
<1>10. c = [kind |-> c.kind, ticket |-> c.ticket, requestId |-> c.requestId, query |-> c.query,
           cursor |-> c.cursor,
            served |-> c.served, ok |-> c.ok, lines |-> c.lines, next |-> c.next]
  BY <1>2 DEF FeedCall
<1>11. x = [kind |-> c.kind, ticket |-> c.ticket, requestId |-> c.requestId, query |-> c.query,
           cursor |-> c.cursor,
            served |-> TRUE, ok |-> ok, lines |-> IF ok THEN w ELSE <<>>, next |-> IF ok THEN k ELSE 0]
  BY <1>8, <1>10
<1>12. /\ x.kind = c.kind /\ x.ticket = c.ticket /\ x.requestId = c.requestId /\ x.query = c.query
             /\ x.cursor = c.cursor
       /\ x.served = TRUE /\ x.ok = ok /\ (ok => x.lines = w /\ x.next = k)
             /\ (~ok => x.lines = <<>> /\ x.next = 0)
  BY <1>11
<1>13. x \in FeedCall
  <2>1. (IF ok THEN w ELSE <<>>) \in Seq(Nat) /\ (IF ok THEN k ELSE 0) \in Nat
    BY <1>7
  <2> QED
    BY <1>2, <1>11, <2>1 DEF FeedCall
<1>14. ASSUME ok PROVE PageRuns(x)
  <2>1. x.lines = w /\ x.next = k /\ x.query = c.query /\ x.cursor = c.cursor
    BY <1>12, <1>14
  <2>2. ASSUME NEW r \in Feed!Matching(c.query), NEW y \in On(w), r <= y PROVE r \in S
    <3>1. r \in Nat /\ y \in S /\ y \in Nat /\ c.cursor \in Nat
      BY <1>2, <1>6, <1>22
    <3>2. c.cursor # 0 => r < c.cursor
      BY <1>3, <2>2, <3>1
    <3> QED
      BY <1>3, <3>2
  <2>3. ASSUME NEW r \in Feed!Matching(c.query), NEW y \in On(w), NEW z \in On(w), z <= r, r <= y
               PROVE r \in On(w)
    <3>1. r \in S /\ r \in Nat /\ z \in Nat /\ k \in Nat
      BY <1>6, <1>7, <1>22, <2>2, <2>3
    <3>2. ~(k # 0 /\ r < k)
      BY <1>7, <2>3, <3>1
    <3> QED
      BY <1>7, <3>1, <3>2
  <2>4. Run(c.query, w, {})
    <3>1. On(w) \in SUBSET Places(c.query)
      BY <1>2, <1>6, <1>7, Matches
    <3> QED
      BY <1>7, <2>3, <3>1 DEF Run
  <2>5. Bottom(c.query, w, k, {})
    <3>1. \A r \in Feed!Matching(c.query), y \in On(w) : r < y => r <= y
      BY <1>6, <1>22
    <3>2. \A r \in Feed!Matching(c.query), y \in On(w) : r < y => r \in S
      BY <2>2, <3>1
    <3> QED
      BY <1>7, <3>2 DEF Bottom
  <2>6. Under(x)
    BY <1>3, <1>7, <2>1 DEF Under
  <2> QED
    BY <2>1, <2>4, <2>5, <2>6 DEF PageRuns
<1>15. CallFits(x)
  <2>1. x.lines = <<>> => x.next = 0
    <3>1. CASE ok
      BY <1>7, <1>12, <3>1 DEF On
    <3>2. CASE ~ok
      BY <1>12, <3>2
    <3> QED
      BY <3>1, <3>2
  <2>2. x.served /\ x.ok => PageRuns(x)
    BY <1>12, <1>14
  <2> QED
    BY <1>2, <1>12, <1>13, <2>1, <2>2 DEF CallFits
<1>16. FeedCallsFit'
  <2>1. ASSUME NEW d \in calls' PROVE CallFits(d)'
    <3>1. CallFits(d)
      BY <1>2, <1>9, <1>15 DEF FeedCallsFit
    <3>2. d.ticket # taken' /\ made' \in Nat
              /\ made <= made' /\ requestId' \in Nat
      BY <1>1, <1>2, <3>1 DEF CallFits
    <3> QED
      BY <1>1, <1>2, <3>1, <3>2, FitSame
  <2>2. \A d, e \in calls' : d.ticket = e.ticket => d = e
    BY <1>2, <1>9, <1>12 DEF FeedCallsFit
  <2> QED
    BY <2>1, <2>2 DEF FeedCallsFit
<1>17. FeedTypes' /\ LinesRun'
  BY <1>1, <1>2, RunsAlike DEF FeedTypes, LinesRun, SameLines
<1>18. \A s : Tops(s)' <=> Tops(s)
  BY <1>1, RunsAlike
<1>19. ASSUME x.kind # "older", x.requestId = requestId, x.ok PROVE Tops(x.lines)
  <2>1. c.cursor = 0 /\ c.query = query /\ ok /\ x.lines = w
    BY <1>2, <1>12, <1>19 DEF CallFits
  <2>2. S = Feed!Matching(query)
    BY <1>3, <2>1
  <2>3. x.lines = Newest(Feed!Matching(query), FeedPage)
    BY <1>4, <2>1, <2>2
  <2>4. Len(w) \in Nat
    BY <1>7
  <2> QED
    BY <1>4, <1>7, <2>1, <2>2, <2>3, <2>4 DEF Tops, Begins
<1>20. ASSUME NEW t, Owed(t) PROVE Owed(t)'
  <2>1. CASE due = TRUE
    BY <1>1, <2>1 DEF Owed
  <2>2. ASSUME NEW d \in calls, d.kind = "live", d.requestId = requestId, d.ticket > t,
               d.served /\ d.ok => Tops(d.lines)
        PROVE  Owed(t)'
    <3>1. CASE d = c
      <4>1. x \in calls' /\ x.kind = "live" /\ x.requestId = requestId' /\ x.ticket > t
        BY <1>1, <1>9, <1>12, <2>2, <3>1
      <4>2. x.served /\ x.ok => Tops(x.lines)'
        BY <1>1, <1>18, <1>19, <4>1
      <4> QED
        BY <4>1, <4>2 DEF Owed
    <3>2. CASE d # c
      <4>1. d \in calls' /\ d.requestId = requestId' /\ (d.served /\ d.ok => Tops(d.lines)')
        BY <1>1, <1>9, <1>18, <2>2, <3>2
      <4> QED
        BY <2>2, <4>1 DEF Owed
    <3> QED
      BY <3>1, <3>2
  <2> QED
    BY <1>20, <2>1, <2>2 DEF Owed
<1>21. NewestOwed'
  <2>1. ASSUME NEW d \in calls', d.kind # "older", d.requestId = requestId', d.served, d.ok,
               d.ticket > taken'
        PROVE  (Tops(d.lines) \/ Owed(d.ticket))'
    <3>1. CASE d = x
      BY <1>1, <1>18, <1>19, <2>1, <3>1
    <3>2. CASE d # x
      <4>1. Tops(d.lines) \/ Owed(d.ticket)
        BY <1>1, <1>2, <1>9, <2>1, <3>2 DEF NewestOwed
      <4> QED
        BY <1>18, <1>20, <4>1
    <3> QED
      BY <3>1, <3>2
  <2>2. (Tops(shown) => Tops(shown)')
    <3>1. PICK s : s = shown
      OBVIOUS
    <3> QED
      BY <1>1, <1>18, <3>1 DEF Tops, Begins
  <2>3. Owed(taken) => Owed(taken)'
    <3>1. PICK t : t = taken
      OBVIOUS
    <3>2. Owed(t) => Owed(t)'
      BY <1>20
    <3> QED
      BY <1>1, <3>1, <3>2 DEF Owed
  <2> QED
    BY <1>1, <1>2, <2>1, <2>2, <2>3 DEF NewestOwed
<1> QED
  BY <1>16, <1>17, <1>21, <1>0 DEF FeedInv

LEMMA FeedStepKeepsInv ==
  ASSUME FeedAssumptions, FeedInv, [Feed!Next]_(Feed!vars)
  PROVE  FeedInv'
<1>1. CASE UNCHANGED Feed!vars
  <2>1. /\ SameLines /\ query' = query /\ status' = status /\ shown' = shown /\ cursor' = cursor
        /\ requestId' = requestId /\ loadingMore' = loadingMore /\ due' = due /\ calls' = calls
        /\ made' = made /\ source' = source /\ torn' = torn /\ seams' = seams /\ taken' = taken
        /\ behind' = behind
    BY <1>1 DEF Feed!vars, Feed!feed, Feed!reads, Feed!history, Feed!added, SameLines
  <2>2. FeedTypes /\ FeedCallsFit /\ LinesRun /\ NewestOwed /\ LinesStay'
    BY <2>1, RunsAlike DEF FeedInv
  <2>3. FeedTypes' /\ LinesRun'
    BY <2>1, <2>2, RunsAlike DEF FeedTypes, LinesRun, SameLines
  <2>4. FeedCallsFit'
    <3>1. ASSUME NEW c \in calls PROVE CallFits(c)'
      BY <2>1, <2>2, FitSame DEF FeedCallsFit, CallFits, FeedTypes
    <3> QED
      BY <2>1, <2>2, <3>1 DEF FeedCallsFit
  <2>6. \A s : Tops(s)' <=> Tops(s)
    BY <2>1, RunsAlike
  <2>7. \A t : Owed(t)' <=> Owed(t)
    BY <2>1, <2>6 DEF Owed
  <2>8. NewestOwed'
    BY <2>1, <2>2, <2>6, <2>7 DEF NewestOwed
  <2> QED
    BY <2>2, <2>3, <2>4, <2>8 DEF FeedInv
<1>2. CASE Feed!Next
  BY <1>2, LoadFirstKeeps, LoadOlderKeeps, FeedRecordKeeps, RefreshLiveKeeps, FeedServeKeeps,
    FirstPageKeeps,
     OlderPageKeeps, LivePageKeeps DEF Feed!Next, Feed!Answer
<1> QED
  BY <1>1, <1>2

\* The invariant gives what the feed promises.
LEMMA FeedPromises ==
  ASSUME FeedAssumptions, FeedInv
  PROVE  Feed!TypeOK /\ Feed!ShownIsPrefix /\ Feed!FeedSettles
<1>1. /\ FeedTypes /\ FeedCallsFit /\ LinesRun /\ NewestOwed /\ shown \in Seq(Nat)
      /\ On(shown) \in SUBSET (lines \cup regrouped)
      /\ Feed!Range(shown) = On(shown) /\ Len(shown) \in Nat /\ DOMAIN shown = 1..Len(shown)
  <2>1. FeedTypes /\ FeedCallsFit /\ LinesRun /\ NewestOwed
    BY DEF FeedInv
  <2>2. shown \in Seq(Nat) /\ On(shown) \in SUBSET (lines \cup regrouped)
    BY <2>1 DEF FeedTypes
  <2>3. Feed!Range(shown) = On(shown)
    BY <2>2, FeedNames
  <2> QED
    BY <2>1, <2>2, <2>3
<1>2. Feed!TypeOK
  <2>1. \A c \in calls : c.kind \in {"first", "older", "live"} /\ c.requestId <= requestId
    BY <1>1 DEF FeedCallsFit, CallFits, FeedCall
  <2>2. /\ lines \cup inserted \cup regrouped \cup seams \subseteq 1..FeedRecords
        /\ query \in Feed!Queries \cup {None} /\ status \in {"loading", "ready", "failed"}
        /\ {loadingMore, due, torn, behind} \subseteq BOOLEAN /\ cursor \in 0..FeedRecords
    BY <1>1 DEF FeedTypes
  <2> QED
    BY <1>1, <2>1, <2>2 DEF Feed!TypeOK
<1>3. ASSUME ~torn, source \subseteq {query}
      PROVE  /\ On(shown) \subseteq Feed!Matching(query) \cup regrouped
             /\ \A i, j \in DOMAIN shown : i < j => shown[i] > shown[j]
             /\ \A r \in lines : Feed!Covered(r) => r \in On(shown) \cup inserted \/ Feed!Cut(r)
  <2>0. torn = FALSE
    BY <1>1, <1>3 DEF FeedTypes
  <2>1. CASE source = {}
    <3>1. shown = <<>> /\ Len(shown) = 0
      BY <1>1, <2>1 DEF LinesRun
    <3> QED
      BY <1>1, <3>1 DEF On, Feed!Covered
  <2>2. CASE source = {query}
    <3>1. query \in Feed!Queries
      BY <1>1, <2>2 DEF FeedTypes
    <3>2. Run(query, shown, seams) /\ Bottom(query, shown, cursor, seams)
      BY <1>1, <2>0, <2>2, <3>1 DEF LinesRun
    <3>3. On(shown) \subseteq Feed!Matching(query) \cup regrouped
      BY <3>2 DEF Run, Places, Feed!Matching
    <3>4. \A i, j \in DOMAIN shown : i < j => shown[i] > shown[j]
      BY <1>1, <3>2 DEF Run, Falls, Before
    <3>5. ASSUME NEW r \in lines, Feed!Covered(r) PROVE r \in On(shown) \cup inserted \/ Feed!Cut(r)
      <4>1. /\ r \in Feed!Matching(query) /\ shown # <<>> /\ r < shown[1]
            /\ cursor = 0 \/ r > shown[Len(shown)]
        BY <3>5 DEF Feed!Covered
      <4>2. 1 \in 1..Len(shown) /\ Len(shown) \in 1..Len(shown)
        BY <1>1, <4>1
      <4>3. shown[1] \in On(shown) /\ shown[Len(shown)] \in On(shown)
        BY <4>2 DEF On
      <4>4. r \in Nat /\ shown[1] \in Nat /\ shown[Len(shown)] \in Nat
        BY <1>1, <4>1, <4>2, Matches
      <4>5. r \in On(shown) \/ Excused(r, seams)
        <5>1. CASE cursor = 0
          BY <3>2, <4>1, <4>3, <5>1 DEF Bottom
        <5>2. CASE r > shown[Len(shown)]
          <6>1. shown[Len(shown)] <= r /\ r <= shown[1]
            BY <4>1, <4>4, <5>2
          <6> QED
            BY <3>2, <4>1, <4>3, <6>1 DEF Run
        <5> QED
          BY <4>1, <5>1, <5>2
      <4> QED
        BY <4>5 DEF Excused, Feed!Cut
    <3> QED
      BY <3>3, <3>4, <3>5
  <2> QED
    BY <1>3, <2>1, <2>2
<1>4. Feed!ShownIsPrefix
  BY <1>1, <1>3 DEF Feed!ShownIsPrefix
<1>5. ASSUME status = "ready", query # None, calls = {}, ~due, ~behind
      PROVE  LET n == Feed!Newest(Feed!Matching(query), FeedPage) IN
               /\ Len(n) <= Len(shown) /\ SubSeq(shown, 1, Len(n)) = n
               /\ n = <<>> => shown = <<>>
  <2>1. Tops(shown)
    <3>1. due = FALSE /\ behind = FALSE
      BY <1>1, <1>5 DEF FeedTypes
    <3> QED
      BY <1>1, <1>5, <3>1 DEF NewestOwed, Owed
  <2>2. PICK w : w = Newest(Feed!Matching(query), FeedPage)
    OBVIOUS
  <2>3. Feed!Newest(Feed!Matching(query), FeedPage) = w
    BY <2>2, FeedNames
  <2>4. Len(w) <= Len(shown) /\ (\A i \in 1..Len(w) : shown[i] = w[i]) /\ (w = <<>> => shown = <<>>)
    BY <2>1, <2>2 DEF Tops, Begins
  <2>5. w \in Seq(Nat) /\ Len(w) \in Nat
    BY <1>1, <2>2, NewestSeq
  <2>6. SubSeq(shown, 1, Len(w)) = w
    <3>1. PICK s, n : s = shown /\ n = Len(w)
      OBVIOUS
    <3>2. PICK u : u = SubSeq(s, 1, n)
      OBVIOUS
    <3>3. u = [i \in 1..n |-> s[i]]
      <4>1. s \in Seq(Nat) /\ n \in Nat /\ n <= Len(s) /\ Len(s) \in Nat
        BY <1>1, <2>4, <2>5, <3>1
      <4>2. u \in Seq(Nat) /\ Len(u) = n /\ \A i \in 1..n : u[i] = s[i]
        BY <3>2, <4>1
      <4> QED
        BY <4>2
    <3>4. w = [i \in 1..n |-> w[i]]
      BY <2>5, <3>1
    <3>5. [i \in 1..n |-> s[i]] = [i \in 1..n |-> w[i]]
      BY <2>4, <3>1
    <3> QED
      BY <3>1, <3>2, <3>3, <3>4, <3>5
  <2> QED
    BY <2>3, <2>4, <2>6
<1>6. Feed!FeedSettles
  BY <1>5 DEF Feed!FeedSettles
<1> QED
  BY <1>2, <1>4, <1>6

\* For any places and milliseconds of lines, length of a page and reads: unless a burst
\* longer than a page was put over it or it has lines of another query, the feed is in order,
\* each place once, and has every line between two of its own but those recorded after their
\* neighbours were read and those that share the millisecond a merged page ended in; and once
\* the recorder is quiet it begins with the page of the newest lines, unless a later read was
\* overtaken or failed (useActivityFeedPages, mergeFeedDays, mergeLivePage).
THEOREM FeedIsSafe ==
  ASSUME FeedAssumptions
  PROVE  Feed!Spec => [](Feed!TypeOK /\ Feed!ShownIsPrefix /\ Feed!FeedSettles)
<1>1. Feed!Init => FeedInv
  BY FeedInit
<1>2. FeedInv /\ [Feed!Next]_(Feed!vars) => FeedInv'
  BY FeedStepKeepsInv
<1> QED
  BY <1>1, <1>2, FeedPromises, PTL DEF Feed!Spec

-----------------------------------------------------------------------------
(* The schedule modal.  A card is in one place of the draft, and of an anime *)
(* of the board that was read; one that joined since is stamped later, so an *)
(* apply over it is stale.  Each slot an apply wants then has its place on   *)
(* the draft: a column that is merged puts it there, any other has it there. *)

ScheduleAssumptions ==
  /\ ScheduleAnimes \subseteq Nat /\ IsFiniteSet(ScheduleAnimes) /\ ScheduleAnimes # {}
  /\ ScheduleDays \subseteq Nat \ {0} /\ IsFiniteSet(ScheduleDays) /\ MaxCards \in Nat
  /\ \A b \in Boards : b \subseteq Schedule!Placements /\ IsFiniteSet(b)

\* The slots of one day, and those of them before one.
OfDay(slots, d) == {s \in slots : s.day = d}
Ahead(K, s) == {r \in K : Schedule!Precedes(r, s)}

LEMMA PrecedesOrders ==
  ASSUME ScheduleAssumptions, NEW d, NEW K \in SUBSET OfDay(Schedule!Placements, d)
  PROVE  /\ \A s \in K : ~Schedule!Precedes(s, s)
         /\ \A r, s \in K : r # s => Schedule!Precedes(r, s) \/ Schedule!Precedes(s, r)
         /\ \A r, s, t \in K : Schedule!Precedes(r, s) /\ Schedule!Precedes(s, t)
               => Schedule!Precedes(r, t)
<1>1. \A s \in K : /\ s \in [anime : ScheduleAnimes, day : ScheduleDays, order : Nat \ {0}]
                   /\ s.anime \in Nat /\ s.order \in Nat /\ s.day = d
  BY DEF ScheduleAssumptions, OfDay, Schedule!Placements
<1>2. ASSUME NEW r \in K, NEW s \in K, r # s PROVE Schedule!Precedes(r, s) \/ Schedule!Precedes(s, r)
  <2>1. r.anime # s.anime \/ r.order # s.order
    BY <1>1, <1>2
  <2> QED
    BY <1>1, <2>1 DEF Schedule!Precedes
<1> QED
  BY <1>1, <1>2 DEF Schedule!Precedes

\* The count of those before one takes each value below the size of the set, once.
LEMMA AheadCounts ==
  ASSUME ScheduleAssumptions, NEW d, NEW K \in SUBSET OfDay(Schedule!Placements, d), IsFiniteSet(K)
  PROVE  /\ Cardinality(K) \in Nat
         /\ \A s \in K : Cardinality(Ahead(K, s)) \in Nat /\ Cardinality(Ahead(K, s)) < Cardinality(K)
         /\ \A r, s \in K : Schedule!Precedes(r, s)
               => Cardinality(Ahead(K, r)) < Cardinality(Ahead(K, s))
         /\ \A n \in Nat : n < Cardinality(K) => \E s \in K : Cardinality(Ahead(K, s)) = n
<1>1. Cardinality(K) \in Nat
  BY FS_CardinalityType
<1>2. \A s : Ahead(K, s) \in SUBSET K
  BY DEF Ahead
<1>3. \A s : IsFiniteSet(Ahead(K, s)) /\ Cardinality(Ahead(K, s)) \in Nat
  BY <1>2, FS_Subset, FS_CardinalityType
<1>4. ASSUME NEW s \in K, NEW T \in SUBSET K, Ahead(K, s) \cup {s} \subseteq T
      PROVE  Cardinality(Ahead(K, s)) < Cardinality(T)
  <2>1. s \notin Ahead(K, s)
    BY PrecedesOrders DEF Ahead
  <2>2. Cardinality(Ahead(K, s) \cup {s}) = Cardinality(Ahead(K, s)) + 1
    BY <1>3, <2>1, FS_AddElement
  <2>3. IsFiniteSet(T) /\ Cardinality(T) \in Nat
    BY FS_Subset, FS_CardinalityType
  <2>4. Cardinality(Ahead(K, s) \cup {s}) <= Cardinality(T)
    BY <1>4, <2>3, FS_Subset
  <2> QED
    BY <1>3, <2>2, <2>3, <2>4
<1>5. ASSUME NEW s \in K PROVE Cardinality(Ahead(K, s)) < Cardinality(K)
  BY <1>2, <1>4
<1>6. ASSUME NEW r \in K, NEW s \in K, Schedule!Precedes(r, s)
             PROVE Cardinality(Ahead(K, r)) < Cardinality(Ahead(K, s))
  <2>1. Ahead(K, r) \cup {r} \subseteq Ahead(K, s)
    BY <1>6, PrecedesOrders DEF Ahead
  <2> QED
    BY <1>2, <1>4, <2>1
<1>7. ASSUME NEW n \in Nat, n < Cardinality(K) PROVE \E s \in K : Cardinality(Ahead(K, s)) = n
  <2> DEFINE N == 0..(Cardinality(K) - 1)
             f == [s \in K |-> Cardinality(Ahead(K, s))]
  <2>1. \A s \in K : f[s] = Cardinality(Ahead(K, s)) /\ f[s] \in N
    BY <1>1, <1>3, <1>5
  <2>2. f \in Injection(K, N)
    <3>1. f \in [K -> N]
      BY <2>1
    <3>2. ASSUME NEW r \in K, NEW s \in K, f[r] = f[s] PROVE r = s
      <4>1. ~(f[r] < f[s]) /\ ~(f[s] < f[r])
        BY <1>3, <2>1, <3>2
      <4> QED
        BY <1>6, <2>1, <4>1, PrecedesOrders
    <3> HIDE DEF f
    <3> QED
      BY <3>1, <3>2 DEF Injection, IsInjective
  <2>3. IsFiniteSet(N) /\ Cardinality(N) = Cardinality(K)
    <3>1. PICK b : b = Cardinality(K) - 1
      OBVIOUS
    <3>2. b \in Int /\ b >= 0 /\ b - 0 + 1 = Cardinality(K) /\ N = 0..b
      BY <1>1, <1>7, <3>1
    <3>3. 0 \in Int /\ ~(0 > b)
      BY <3>2
    <3>4. IsFiniteSet(0..b) /\ Cardinality(0..b) = b - 0 + 1
      BY <3>2, <3>3, FS_Interval
    <3> QED
      BY <3>2, <3>4
  <2>4. f \in Surjection(K, N)
    BY <2>2, <2>3, FS_Injection
  <2>5. n \in N
    BY <1>1, <1>7
  <2>6. PICK s \in K : f[s] = n
    BY <2>4, <2>5 DEF Surjection
  <2> QED
    BY <2>1, <2>6
<1> QED
  BY <1>1, <1>3, <1>5, <1>6, <1>7

\* A column has each slot of its day at the place its order gives it.
LEMMA ColumnIs ==
  ASSUME ScheduleAssumptions, NEW d, NEW slots \in SUBSET Schedule!Placements,
         IsFiniteSet(OfDay(slots, d))
  PROVE  /\ Schedule!Column(slots, d) \in Seq(OfDay(slots, d))
         /\ On(Schedule!Column(slots, d)) = OfDay(slots, d)
         /\ Len(Schedule!Column(slots, d)) = Cardinality(OfDay(slots, d))
         /\ \A i, j \in 1..Len(Schedule!Column(slots, d)) :
              i < j <=> Schedule!Precedes(Schedule!Column(slots, d)[i], Schedule!Column(slots, d)[j])
         /\ \A i \in 1..Len(Schedule!Column(slots, d)) :
              Cardinality(Ahead(OfDay(slots, d), Schedule!Column(slots, d)[i])) = i - 1
<1>1. PICK K : K = OfDay(slots, d)
  OBVIOUS
<1>2. K \in SUBSET OfDay(Schedule!Placements, d) /\ IsFiniteSet(K)
  <2>1. K \in SUBSET slots /\ K \in SUBSET OfDay(Schedule!Placements, d)
    BY <1>1 DEF OfDay
  <2> QED
    BY <1>1, <2>1
<1>3. PICK n : n = Cardinality(K)
  OBVIOUS
<1>4. n \in Nat /\ \A s \in K : Cardinality(Ahead(K, s)) \in Nat /\ Cardinality(Ahead(K, s)) < n
  BY <1>2, <1>3, AheadCounts
<1>5. PICK w : w = [i \in 1..n |-> CHOOSE s \in K : Cardinality(Ahead(K, s)) = i - 1]
  OBVIOUS
<1>6. Schedule!Column(slots, d) = w
  <2>1. Schedule!Column(slots, d) = [i \in 1..Cardinality(OfDay(slots, d)) |->
          CHOOSE s \in OfDay(slots, d) : Cardinality(Ahead(OfDay(slots, d), s)) = i - 1]
    BY DEF Schedule!Column, OfDay, Ahead, Schedule!Cardinality, Cardinality
  <2> QED
    BY <1>1, <1>3, <1>5, <2>1
<1>7. ASSUME NEW i \in 1..n PROVE w[i] \in K /\ Cardinality(Ahead(K, w[i])) = i - 1
  <2>1. i - 1 \in Nat /\ i - 1 < n
    BY <1>4
  <2>2. \E s \in K : Cardinality(Ahead(K, s)) = i - 1
    BY <1>2, <1>3, <2>1, AheadCounts
  <2>3. w[i] = CHOOSE s \in K : Cardinality(Ahead(K, s)) = i - 1
    BY <1>5
  <2> QED
    BY <2>2, <2>3
<1>8. w \in Seq(K) /\ Len(w) = n
  BY <1>4, <1>5, <1>7
<1>9. ASSUME NEW s \in K PROVE \E i \in 1..n : w[i] = s
  <2>1. PICK i \in 1..n : Cardinality(Ahead(K, s)) = i - 1
    <3>1. Cardinality(Ahead(K, s)) + 1 \in 1..n
      BY <1>4
    <3> QED
      BY <1>4, <3>1
  <2>2. w[i] \in K /\ Cardinality(Ahead(K, w[i])) = Cardinality(Ahead(K, s))
    BY <1>7, <2>1
  <2>3. ~(Cardinality(Ahead(K, w[i])) < Cardinality(Ahead(K, s)))
            /\ ~(Cardinality(Ahead(K, s)) < Cardinality(Ahead(K, w[i])))
    BY <1>4, <2>2
  <2>4. ~Schedule!Precedes(w[i], s) /\ ~Schedule!Precedes(s, w[i])
    BY <1>2, <2>2, <2>3, AheadCounts
  <2>5. w[i] = s
    BY <1>2, <2>2, <2>4, PrecedesOrders
  <2> QED
    BY <2>5
<1>10. On(w) = K
  BY <1>7, <1>8, <1>9 DEF On
<1>11. ASSUME NEW i \in 1..n, NEW j \in 1..n PROVE i < j <=> Schedule!Precedes(w[i], w[j])
  <2>1. /\ w[i] \in K /\ w[j] \in K /\ i \in Nat /\ j \in Nat
        /\ Cardinality(Ahead(K, w[i])) = i - 1 /\ Cardinality(Ahead(K, w[j])) = j - 1
    BY <1>7
  <2>2. CASE i < j
    <3>1. ~Schedule!Precedes(w[j], w[i])
      BY <1>2, <2>1, <2>2, AheadCounts
    <3>2. w[i] # w[j]
      BY <2>1, <2>2
    <3> QED
      BY <1>2, <2>1, <2>2, <3>1, <3>2, PrecedesOrders
  <2>3. CASE Schedule!Precedes(w[i], w[j])
    <3>1. Cardinality(Ahead(K, w[i])) < Cardinality(Ahead(K, w[j]))
      BY <1>2, <2>1, <2>3, AheadCounts
    <3> QED
      BY <2>1, <2>3, <3>1
  <2> QED
    BY <2>2, <2>3
<1> QED
  BY <1>1, <1>3, <1>6, <1>7, <1>8, <1>10, <1>11

\* A sequence that has the slots of a day in their order is its column.
LEMMA ColumnUnique ==
  ASSUME ScheduleAssumptions, NEW d, NEW slots \in SUBSET Schedule!Placements,
         IsFiniteSet(OfDay(slots, d)),
         NEW w \in Seq(OfDay(slots, d)), On(w) = OfDay(slots, d),
         \A i, j \in 1..Len(w) : i < j => Schedule!Precedes(w[i], w[j])
  PROVE  w = Schedule!Column(slots, d) /\ Len(w) = Cardinality(OfDay(slots, d))
<1>1. PICK K : K = OfDay(slots, d)
  OBVIOUS
<1>2. K \in SUBSET OfDay(Schedule!Placements, d) /\ IsFiniteSet(K) /\ w \in Seq(K) /\ On(w) = K
  <2>1. K \in SUBSET slots /\ K \in SUBSET OfDay(Schedule!Placements, d)
    BY <1>1 DEF OfDay
  <2> QED
    BY <1>1, <2>1
<1>3. PICK v : v = Schedule!Column(slots, d)
  OBVIOUS
<1>4. /\ v \in Seq(K) /\ On(v) = K /\ Len(v) = Cardinality(K)
      /\ \A i, j \in 1..Len(v) : i < j <=> Schedule!Precedes(v[i], v[j])
  BY <1>1, <1>3, ColumnIs
<1>5. PICK n : n = Len(w)
  OBVIOUS
<1>6. /\ n \in Nat /\ w = [i \in 1..n |-> w[i]] /\ Len(v) \in Nat /\ v = [i \in 1..Len(v) |-> v[i]]
      /\ (\A i \in 1..n : w[i] \in K) /\ \A i \in 1..Len(v) : v[i] \in K
  BY <1>2, <1>4, <1>5
<1>7. \A i, j \in 1..n : w[i] = w[j] => i = j
  <2> SUFFICES ASSUME NEW i \in 1..n, NEW j \in 1..n, w[i] = w[j], i < j PROVE FALSE
    BY <1>6
  <2> QED
    BY <1>2, <1>5, <1>6, PrecedesOrders
<1>8. Len(v) = n
  <2>1. w \in [1..n -> K]
    BY <1>6
  <2>2. w \in Bijection(1..n, K)
    BY <1>2, <1>5, <1>7, <2>1 DEF On, Bijection, Injection, Surjection, IsInjective
  <2>3. IsFiniteSet(1..n) /\ Cardinality(1..n) = n
    <3>1. 1 \in Int /\ n \in Int
      BY <1>6
    <3>2. IsFiniteSet(1..n) /\ Cardinality(1..n) = IF 1 > n THEN 0 ELSE n - 1 + 1
      BY <3>1, FS_Interval
    <3> QED
      BY <1>6, <3>2
  <2>4. Cardinality(K) = n
    BY <2>2, <2>3, FS_Bijection DEF ExistsBijection
  <2> QED
    BY <1>4, <2>4
<1> DEFINE M == {i \in 1..n : w[i] # v[i]}
<1>9. ASSUME M # {} PROVE FALSE
  <2>1. M \in SUBSET Nat
    BY <1>6
  <2>2. PICK i \in M : \A m \in M : i <= m
    <3> HIDE DEF M
    <3> QED
      BY <1>9, <2>1, HasLeast
  <2>3. /\ i \in 1..n /\ w[i] # v[i] /\ \A j \in 1..n : j < i => w[j] = v[j]
    BY <1>6, <2>2
  <2>4. PICK k \in 1..n : v[k] = w[i]
    BY <1>4, <1>6, <1>8, <2>3 DEF On
  <2>5. PICK l \in 1..n : w[l] = v[i]
    BY <1>2, <1>5, <1>6, <1>8, <2>3 DEF On
  <2>6. k > i
    BY <1>6, <1>7, <2>3, <2>4
  <2>7. l > i
    <3> SUFFICES ASSUME l < i PROVE FALSE
      BY <1>6, <2>3, <2>5
    <3>1. v[l] = v[i]
      BY <2>3, <2>5
    <3> QED
      BY <1>2, <1>4, <1>6, <1>8, <2>3, <3>1, PrecedesOrders
  <2>8. Schedule!Precedes(w[i], v[i]) /\ Schedule!Precedes(v[i], w[i])
    BY <1>4, <1>5, <1>8, <2>3, <2>4, <2>5, <2>6, <2>7
  <2> QED
    BY <1>2, <1>6, <1>8, <2>3, <2>8, PrecedesOrders
<1> QED
  BY <1>1, <1>3, <1>4, <1>5, <1>6, <1>8, <1>9

-----------------------------------------------------------------------------
(* The merge                                                               *)

LEMMA InsertedIs ==
  ASSUME NEW T, NEW s \in Seq(T), NEW x \in T, NEW i \in 1..Len(s) + 1
  PROVE  /\ InsertedAt(s, i, x) \in Seq(T) /\ Len(InsertedAt(s, i, x)) = Len(s) + 1
         /\ \A j \in 1..Len(s) + 1 : InsertedAt(s, i, x)[j] = IF j < i THEN s[j]
               ELSE IF j = i THEN x ELSE s[j - 1]
         /\ On(InsertedAt(s, i, x)) = On(s) \cup {x}
         /\ \A y, z : Before(InsertedAt(s, i, x), y, z) =>
              Before(s, y, z) \/ (y = x /\ z \in On(s)) \/ (z = x /\ y \in On(s))
<1>1. PICK n : n = Len(s)
  OBVIOUS
<1>2. n \in Nat /\ i \in 1..n + 1 /\ \A j \in 1..n : s[j] \in T
  BY <1>1
<1>3. PICK w : w = [j \in 1..n + 1 |-> IF j < i THEN s[j] ELSE IF j = i THEN x ELSE s[j - 1]]
  OBVIOUS
<1>4. InsertedAt(s, i, x) = w
  BY <1>1, <1>3 DEF InsertedAt
<1>5. \A j \in 1..n + 1 : /\ j < i => w[j] = s[j] /\ j \in 1..n
                          /\ j = i => w[j] = x
                          /\ j > i => w[j] = s[j - 1] /\ j - 1 \in 1..n
  BY <1>2, <1>3
<1>6. \A j \in 1..n + 1 : w[j] \in T
  BY <1>2, <1>5
<1>7. w \in Seq(T) /\ Len(w) = n + 1
  BY <1>2, <1>3, <1>6
<1>8. On(w) = On(s) \cup {x}
  <2>1. On(w) \subseteq On(s) \cup {x}
    BY <1>1, <1>2, <1>5, <1>7 DEF On
  <2>2. x \in On(w)
    BY <1>2, <1>5, <1>7 DEF On
  <2>3. ASSUME NEW j \in 1..n PROVE s[j] \in On(w)
    <3>1. CASE j < i
      <4>1. j \in 1..n + 1 /\ w[j] = s[j]
        BY <1>2, <1>5, <3>1
      <4> QED
        BY <1>7, <4>1 DEF On
    <3>2. CASE j >= i
      <4>1. j + 1 \in 1..n + 1 /\ j + 1 > i /\ (j + 1) - 1 = j
        BY <1>2, <3>2
      <4>2. w[j + 1] = s[j]
        BY <1>5, <4>1
      <4> QED
        BY <1>7, <4>1, <4>2 DEF On
    <3> QED
      BY <1>2, <3>1, <3>2
  <2> QED
    BY <1>1, <2>1, <2>2, <2>3 DEF On
<1>9. ASSUME NEW j \in 1..n + 1, NEW k \in 1..n + 1, j < k
      PROVE  Before(s, w[j], w[k]) \/ (w[j] = x /\ w[k] \in On(s)) \/ (w[k] = x /\ w[j] \in On(s))
  <2>1. CASE j = i
    BY <1>1, <1>2, <1>5, <1>9, <2>1 DEF On
  <2>2. CASE k = i
    BY <1>1, <1>2, <1>5, <1>9, <2>2 DEF On
  <2>3. CASE j # i /\ k # i
    <3>1. PICK a \in 1..n, b \in 1..n : a < b /\ s[a] = w[j] /\ s[b] = w[k]
      <4>1. CASE j < i /\ k < i
        BY <1>5, <1>9, <4>1
      <4>2. CASE j < i /\ k > i
        <5>1. j < k - 1 \/ j = k - 1
          BY <1>2, <1>9, <4>2
        <5>2. j < k - 1
          BY <1>2, <1>9, <4>2
        <5> QED
          BY <1>5, <1>9, <4>2, <5>2
      <4>3. CASE j > i
        <5>1. k > i /\ j - 1 < k - 1
          BY <1>2, <1>9, <4>3
        <5> QED
          BY <1>5, <1>9, <4>3, <5>1
      <4> QED
        BY <1>2, <1>9, <2>3, <4>1, <4>2, <4>3
    <3> QED
      BY <1>1, <3>1 DEF Before
  <2> QED
    BY <2>1, <2>2, <2>3
<1>10. \A y, z : Before(w, y, z) => Before(s, y, z) \/ (y = x /\ z \in On(s)) \/ (z = x /\ y \in On(s))
  BY <1>7, <1>9 DEF Before
<1> QED
  BY <1>1, <1>3, <1>4, <1>7, <1>8, <1>10

\* One insertion of a moved card.
Put(s, x) == InsertedAt(s, IF x.order < Len(s) + 1 THEN x.order ELSE Len(s) + 1, x)

LEMMA InsertionsUnfold ==
  ASSUME NEW stay, NEW moved, Len(moved) \in Nat
  PROVE  \E m : /\ m = Schedule!Insertions(stay, moved) /\ m[0] = stay
                /\ \A n \in 1..Len(moved) : m[n] = Put(m[n - 1], moved[n])
<1>1. PICK L : L = Len(moved) /\ L \in Nat
  OBVIOUS
<1> DEFINE Good(k, f) == f = [n \in 0..k |-> IF n = 0 THEN stay ELSE Put(f[n - 1], moved[n])]
           B == {k \in 0..L : ~\E f : Good(k, f)}
<1>2. ASSUME B # {} PROVE FALSE
  <2>1. B \in SUBSET Nat
    BY <1>1
  <2>2. PICK k \in B : \A m \in B : k <= m
    <3> HIDE DEF B
    <3> QED
      BY <1>2, <2>1, HasLeast
  <2>3. k # 0
    <3>1. PICK f : f = [n \in 0..0 |-> stay]
      OBVIOUS
    <3>2. Good(0, f)
      BY <3>1
    <3>3. 0 \notin B
      BY <3>2
    <3> QED
      BY <2>2, <3>3
  <2>4. k \in 1..L /\ k - 1 \in 0..L /\ k - 1 \notin B
    BY <1>1, <2>2, <2>3
  <2>5. PICK f : Good(k - 1, f)
    BY <2>4
  <2>6. PICK g : g = [n \in 0..k |-> IF n = k THEN Put(f[k - 1], moved[k]) ELSE f[n]]
    OBVIOUS
  <2>7. \A n \in 0..k : g[n] = IF n = 0 THEN stay ELSE Put(g[n - 1], moved[n])
    <3> TAKE n \in 0..k
    <3>1. CASE n = k
      <4>1. k - 1 \in 0..k /\ k - 1 # k /\ k # 0
        BY <2>4
      <4>2. g[k - 1] = f[k - 1]
        BY <2>6, <4>1
      <4>3. g[k] = Put(f[k - 1], moved[k])
        BY <2>4, <2>6
      <4> QED
        BY <3>1, <4>1, <4>2, <4>3
    <3>2. CASE n # k /\ n # 0
      <4>1. n \in 0..(k - 1) /\ n - 1 \in 0..k /\ n - 1 # k /\ n \in 0..k
        BY <2>4, <3>2
      <4>2. f[n] = Put(f[n - 1], moved[n])
        BY <2>5, <3>2, <4>1
      <4>3. g[n] = f[n] /\ g[n - 1] = f[n - 1]
        BY <2>6, <3>2, <4>1
      <4> QED
        BY <3>2, <4>2, <4>3
    <3>3. CASE n = 0
      <4>1. 0 \in 0..(k - 1) /\ 0 # k /\ 0 \in 0..k
        BY <2>4
      <4>2. f[0] = stay
        BY <2>5, <4>1
      <4>3. g[0] = f[0]
        BY <2>6, <4>1
      <4> QED
        BY <3>3, <4>2, <4>3
    <3> QED
      BY <3>1, <3>2, <3>3
  <2>8. Good(k, g)
    BY <2>6, <2>7
  <2>9. k \notin B
    BY <2>8
  <2> QED
    BY <2>2, <2>9
<1>3. \E f : Good(L, f)
  BY <1>1, <1>2
<1>4. PICK m : m = CHOOSE f : Good(L, f)
  OBVIOUS
<1>5. Good(L, m)
  <2> HIDE DEF Good
  <2> QED
    BY <1>3, <1>4
<1>6. Schedule!Insertions(stay, moved) = CHOOSE f :
          f = [n \in 0..Len(moved) |-> IF n = 0 THEN stay ELSE Put(f[n - 1], moved[n])]
  BY DEF Schedule!Insertions, Put, Schedule!InsertedAt, InsertedAt
<1>7. Schedule!Insertions(stay, moved) = m
  BY <1>1, <1>4, <1>6
<1>8. m[0] = stay /\ \A n \in 1..L : m[n] = Put(m[n - 1], moved[n])
  <2>1. m = [n \in 0..L |-> IF n = 0 THEN stay ELSE Put(m[n - 1], moved[n])]
    BY <1>5
  <2>2. 0 \in 0..L /\ \A n \in 1..L : n \in 0..L /\ n # 0
    BY <1>1
  <2> QED
    BY <2>1, <2>2
<1> QED
  BY <1>1, <1>7, <1>8

Numbered(T) == \A x \in T : x.order \in Nat \ {0}

Inserting(T, stay, moved, m) ==
  /\ m = Schedule!Insertions(stay, moved) /\ m[0] = stay
  /\ \A n \in 1..Len(moved) : m[n] = Put(m[n - 1], moved[n])
  /\ \A n \in 0..Len(moved) : /\ m[n] \in Seq(T) /\ Len(m[n]) = Len(stay) + n
                              /\ On(m[n]) = On(stay) \cup {moved[k] : k \in 1..n}

LEMMA InsertionsAre ==
  ASSUME NEW T, NEW stay \in Seq(T), NEW moved \in Seq(T), Numbered(T)
  PROVE  \E m : Inserting(T, stay, moved, m)
<1>1. PICK L : L = Len(moved) /\ L \in Nat /\ \A k \in 1..L : moved[k] \in T
  OBVIOUS
<1>2. PICK m : /\ m = Schedule!Insertions(stay, moved) /\ m[0] = stay
               /\ \A n \in 1..L : m[n] = Put(m[n - 1], moved[n])
  BY <1>1, InsertionsUnfold
<1> DEFINE Good(n) == /\ m[n] \in Seq(T) /\ Len(m[n]) = Len(stay) + n
                      /\ On(m[n]) = On(stay) \cup {moved[k] : k \in 1..n}
           B == {n \in 0..L : ~Good(n)}
<1>3. ASSUME B # {} PROVE FALSE
  <2>1. B \in SUBSET Nat
    BY <1>1
  <2>2. PICK n \in B : \A k \in B : n <= k
    <3> HIDE DEF B
    <3> QED
      BY <1>3, <2>1, HasLeast
  <2>3. n # 0
    <3>1. Len(stay) + 0 = Len(stay) /\ {moved[k] : k \in 1..0} = {}
      OBVIOUS
    <3>2. Good(0)
      BY <1>2, <3>1
    <3> QED
      BY <2>2, <3>2
  <2>4. n \in 1..L /\ n - 1 \in 0..L /\ n - 1 \notin B
    <3>1. n \in 0..L /\ n \in Nat /\ n - 1 \in 0..L /\ n \in 1..L
      BY <1>1, <2>2, <2>3
    <3>2. ~(n <= n - 1)
      BY <3>1
    <3> HIDE DEF B
    <3> QED
      BY <2>2, <3>1, <3>2
  <2>5. Good(n - 1)
    BY <2>4
  <2>6. PICK w : w = m[n - 1]
    OBVIOUS
  <2>7. PICK x : x = moved[n]
    OBVIOUS
  <2>8. w \in Seq(T) /\ Len(w) = Len(stay) + (n - 1) /\ On(w) = On(stay)
            \cup {moved[k] : k \in 1..(n - 1)}
    BY <2>5, <2>6
  <2>9. x \in T /\ x.order \in Nat \ {0}
    BY <1>1, <2>4, <2>7 DEF Numbered
  <2>10. PICK i : i = IF x.order < Len(w) + 1 THEN x.order ELSE Len(w) + 1
    OBVIOUS
  <2>11. i \in 1..Len(w) + 1
    BY <2>8, <2>9, <2>10
  <2>12. m[n] = InsertedAt(w, i, x)
    BY <1>2, <2>4, <2>6, <2>7, <2>10 DEF Put
  <2>13. m[n] \in Seq(T) /\ Len(m[n]) = Len(w) + 1 /\ On(m[n]) = On(w) \cup {x}
    BY <2>8, <2>9, <2>11, <2>12, InsertedIs
  <2>14. Len(m[n]) = Len(stay) + n
    <3>1. Len(stay) \in Nat /\ n \in Nat
      BY <2>4
    <3> QED
      BY <2>8, <2>13, <3>1
  <2>15. {moved[k] : k \in 1..n} = {moved[k] : k \in 1..(n - 1)} \cup {moved[n]}
    <3>1. \A k : k \in 1..n <=> k \in 1..(n - 1) \/ k = n
      BY <2>4
    <3> QED
      BY <3>1
  <2>16. Good(n)
    BY <2>7, <2>8, <2>13, <2>14, <2>15
  <2> QED
    BY <2>2, <2>16
<1>4. \A n \in 0..L : Good(n)
  BY <1>3
<1>5. Inserting(T, stay, moved, m)
  BY <1>1, <1>2, <1>4 DEF Inserting
<1> QED
  BY <1>5

\* Of values in their order, the first q are 1 to q when all of these are among them.
Sorting(T, w, f, q) ==
  /\ w \in Seq(T) /\ q \in Nat /\ \A x \in T : f[x] \in Nat \ {0}
  /\ \A i, j \in 1..Len(w) : i < j => f[w[i]] < f[w[j]]
  /\ \A p \in 1..q : \E i \in 1..Len(w) : f[w[i]] = p

LEMMA SortedPlaces ==
  ASSUME NEW T, NEW w, NEW f, NEW q, Sorting(T, w, f, q)
  PROVE  q <= Len(w) /\ \A i \in 1..q : f[w[i]] = i
<1>1. PICK n : n = Len(w) /\ n \in Nat /\ \A i \in 1..n : w[i] \in T /\ f[w[i]] \in Nat \ {0}
  BY DEF Sorting
<1>a. q \in Nat
  BY DEF Sorting
<1>b. \A i, j \in 1..n : i < j => f[w[i]] < f[w[j]]
  BY <1>1 DEF Sorting
<1>c. \A p \in 1..q : \E i \in 1..n : f[w[i]] = p
  BY <1>1 DEF Sorting
<1> DEFINE M == {i \in 1..q : i > n \/ f[w[i]] # i}
<1>2. ASSUME M # {} PROVE FALSE
  <2>1. M \in SUBSET Nat
    BY <1>a
  <2>2. PICK i \in M : \A m \in M : i <= m
    <3> HIDE DEF M
    <3> QED
      BY <1>2, <2>1, HasLeast
  <2>3. /\ i \in 1..q /\ (i > n \/ f[w[i]] # i) /\ i \in Nat
        /\ \A j \in 1..q : j < i => j <= n /\ f[w[j]] = j
    BY <1>1, <1>a, <2>2
  <2>4. PICK k \in 1..n : f[w[k]] = i
    BY <1>c, <2>3
  <2>5. ~(k < i)
    <3> SUFFICES ASSUME k < i PROVE FALSE
      OBVIOUS
    <3>1. k \in 1..q
      BY <1>1, <1>a, <2>3
    <3> QED
      BY <2>3, <2>4, <3>1
  <2>6. i < k /\ i \in 1..n
    BY <1>1, <2>3, <2>4, <2>5
  <2>7. PICK v : v = f[w[i]]
    OBVIOUS
  <2>8. v \in Nat /\ v >= 1 /\ v < i
    BY <1>1, <1>b, <2>4, <2>6, <2>7
  <2>9. v \in 1..q /\ v \in 1..n
    BY <1>1, <1>a, <2>3, <2>6, <2>8
  <2>10. f[w[v]] = v
    BY <2>3, <2>8, <2>9
  <2>11. f[w[v]] < f[w[i]]
    BY <1>b, <2>6, <2>8, <2>9
  <2> QED
    BY <2>7, <2>8, <2>10, <2>11
<1>3. ASSUME NEW i \in 1..q PROVE i <= n /\ f[w[i]] = i
  <2>1. i \notin M
    BY <1>2
  <2>2. ~(i > n) /\ f[w[i]] = i
    BY <2>1
  <2> QED
    BY <1>1, <1>a, <2>2
<1>4. q <= n
  <2>1. CASE q = 0
    BY <1>1, <2>1
  <2>2. CASE q # 0
    <3>1. q \in 1..q
      BY <1>a, <2>2
    <3> QED
      BY <1>3, <3>1
  <2> QED
    BY <2>1, <2>2
<1> QED
  BY <1>1, <1>3, <1>4

\* Cards that stay in their order, with moved ones put in at the places f gives both, end at
\* those places.
PutInPlaces(T, stay, moved, f, L) ==
  /\ stay \in Seq(T) /\ moved \in Seq(T) /\ L \in Nat
  /\ \A x \in T : x.order \in Nat \ {0} /\ f[x] \in Nat /\ f[x] >= 1 /\ f[x] <= L
  /\ \A x, y \in T : f[x] = f[y] => x = y
  /\ On(stay) \cup On(moved) = T /\ On(stay) \cap On(moved) = {}
  /\ \A i, j \in 1..Len(stay) : i < j => f[stay[i]] < f[stay[j]]
  /\ \A i \in 1..Len(moved) : f[moved[i]] = moved[i].order
  /\ \A i, j \in 1..Len(moved) : i < j => f[moved[i]] < f[moved[j]]
  /\ \A p \in 1..L : \E x \in T : f[x] = p

LEMMA InsertionsOrdered ==
  ASSUME NEW T, NEW stay, NEW moved, NEW f, NEW L, PutInPlaces(T, stay, moved, f, L)
  PROVE  LET w == Schedule!Insertions(stay, moved)[Len(moved)]
         IN  w \in Seq(T) /\ On(w) = T /\ Len(w) = L /\ \A i \in 1..L : f[w[i]] = i
<1>a. stay \in Seq(T) /\ moved \in Seq(T) /\ L \in Nat
  BY DEF PutInPlaces
<1>3. \A x \in T : x.order \in Nat \ {0} /\ f[x] \in Nat /\ f[x] >= 1 /\ f[x] <= L
  BY DEF PutInPlaces
<1>b. On(stay) \cup On(moved) = T /\ On(stay) \cap On(moved) = {} /\ \A x, y \in T : f[x] = f[y]
    => x = y
  BY DEF PutInPlaces
<1>c. \A i, j \in 1..Len(stay) : i < j => f[stay[i]] < f[stay[j]]
  BY DEF PutInPlaces
<1>d. /\ \A i \in 1..Len(moved) : f[moved[i]] = moved[i].order
      /\ \A i, j \in 1..Len(moved) : i < j => f[moved[i]] < f[moved[j]]
  BY DEF PutInPlaces
<1>e. \A p \in 1..L : \E x \in T : f[x] = p
  BY DEF PutInPlaces
<1>1. PICK N : N = Len(moved) /\ N \in Nat /\ \A k \in 1..N : moved[k] \in T
  BY <1>a
<1>2. PICK m : /\ m = Schedule!Insertions(stay, moved) /\ m[0] = stay
               /\ \A n \in 1..N : m[n] = Put(m[n - 1], moved[n])
               /\ \A n \in 0..N : /\ m[n] \in Seq(T) /\ Len(m[n]) = Len(stay) + n
                                  /\ On(m[n]) = On(stay) \cup {moved[k] : k \in 1..n}
  <2>1. Numbered(T)
    BY <1>3 DEF Numbered
  <2>2. PICK m : Inserting(T, stay, moved, m)
    BY <2>1, <1>a, InsertionsAre
  <2> QED
    BY <1>1, <2>2 DEF Inserting
<1> DEFINE Sorted(w) == \A i, j \in 1..Len(w) : i < j => f[w[i]] < f[w[j]]
           B == {n \in 0..N : ~Sorted(m[n])}
<1>4. ASSUME B # {} PROVE FALSE
  <2>1. B \in SUBSET Nat
    BY <1>1
  <2>2. PICK n \in B : \A k \in B : n <= k
    <3> HIDE DEF B
    <3> QED
      BY <1>4, <2>1, HasLeast
  <2>3. n # 0
    <3>1. Sorted(m[0])
      BY <1>2, <1>c
    <3> HIDE DEF Sorted
    <3> QED
      BY <2>2, <3>1
  <2>4. n \in 1..N /\ n - 1 \in 0..N /\ n - 1 \notin B
    <3>1. n \in 0..N /\ n \in Nat /\ n - 1 \in 0..N /\ n \in 1..N
      BY <1>1, <2>2, <2>3
    <3>2. ~(n <= n - 1)
      BY <3>1
    <3> HIDE DEF B
    <3> QED
      BY <2>2, <3>1, <3>2
  <2>5. PICK w : w = m[n - 1]
    OBVIOUS
  <2>6. Sorted(w)
    BY <2>4, <2>5
  <2>7. w \in Seq(T) /\ On(w) = On(stay) \cup {moved[k] : k \in 1..(n - 1)}
    BY <1>2, <2>4, <2>5
  <2>8. PICK x : x = moved[n]
    OBVIOUS
  <2>9. PICK o : o = f[x]
    OBVIOUS
  <2>10. x \in T /\ o \in 1..L /\ o = x.order /\ o \in Nat /\ o >= 1
    BY <1>1, <1>3, <1>a, <1>d, <2>4, <2>8, <2>9
  <2>11. ASSUME NEW k \in 1..N, f[moved[k]] < o PROVE k \in 1..(n - 1)
    <3>1. ~(k = n) /\ ~(n < k)
      <4>1. n < k => f[moved[n]] < f[moved[k]]
        BY <1>1, <1>d, <2>4
      <4>2. f[moved[k]] \in Nat /\ f[moved[n]] = o
        BY <1>1, <1>3, <2>8, <2>9
      <4> QED
        BY <2>10, <2>11, <4>1, <4>2
    <3> QED
      BY <1>1, <2>4, <3>1
  <2>12. ASSUME NEW p \in 1..(o - 1) PROVE \E i \in 1..Len(w) : f[w[i]] = p
    <3>1. p \in 1..L /\ p < o
      BY <1>a, <2>10
    <3>2. PICK y \in T : f[y] = p
      BY <1>e, <3>1
    <3>3. y \in On(w)
      <4>1. CASE y \in On(stay)
        BY <2>7, <4>1
      <4>2. CASE y \in On(moved)
        <5>1. PICK k \in 1..N : moved[k] = y
          BY <1>1, <4>2 DEF On
        <5>2. k \in 1..(n - 1)
          BY <2>11, <3>1, <3>2, <5>1
        <5> QED
          BY <2>7, <5>1, <5>2
      <4> QED
        BY <1>b, <4>1, <4>2
    <3> QED
      BY <3>2, <3>3 DEF On
  <2>13. o - 1 <= Len(w) /\ \A i \in 1..(o - 1) : f[w[i]] = i
    <3>1. PICK q : q = o - 1
      OBVIOUS
    <3>2. q \in Nat /\ \A p \in 1..q : \E i \in 1..Len(w) : f[w[i]] = p
      BY <2>10, <2>12, <3>1
    <3>3. \A z \in T : f[z] \in Nat \ {0}
      BY <1>3
    <3>4. \A i, j \in 1..Len(w) : i < j => f[w[i]] < f[w[j]]
      BY <2>6
    <3>5. w \in Seq(T)
      BY <2>7
    <3>6. Sorting(T, w, f, q)
      BY <3>2, <3>3, <3>4, <3>5 DEF Sorting
    <3>7. q <= Len(w) /\ \A i \in 1..q : f[w[i]] = i
      BY <3>6, SortedPlaces
    <3> QED
      BY <3>1, <3>7
  <2>14. x \notin On(w)
    <3>1. x \notin On(stay)
      <4>1. x \in On(moved)
        BY <1>1, <2>4, <2>8 DEF On
      <4> QED
        BY <1>b, <4>1
    <3>2. ASSUME NEW k \in 1..(n - 1) PROVE moved[k] # x
      <4>1. k \in 1..N /\ k < n /\ n \in 1..N
        BY <1>1, <2>4
      <4>2. f[moved[k]] < f[moved[n]]
        BY <1>1, <1>d, <4>1
      <4>3. f[moved[k]] \in Nat
        BY <1>1, <1>3, <4>1
      <4>4. f[moved[k]] # f[moved[n]]
        <5>1. PICK a, b : a = f[moved[k]] /\ b = f[moved[n]]
          OBVIOUS
        <5> QED
          BY <2>8, <2>9, <2>10, <4>2, <4>3, <5>1
      <4> QED
        BY <2>8, <4>4
    <3> QED
      BY <2>7, <3>1, <3>2
  <2>15. ASSUME NEW i \in 1..Len(w), i >= o PROVE f[w[i]] > o
    <3>1. w[i] \in T /\ f[w[i]] \in Nat /\ f[w[i]] >= 1 /\ w[i] \in On(w)
      BY <1>3, <2>7 DEF On
    <3>2. f[w[i]] # o
      BY <1>b, <2>9, <2>10, <2>14, <3>1
    <3>3. f[w[i]] > o - 1
      <4>1. CASE o = 1
        BY <3>1, <4>1
      <4>2. CASE o # 1
        <5>1. o - 1 \in 1..(o - 1) /\ o - 1 \in 1..Len(w) /\ o - 1 < i
          BY <2>7, <2>10, <2>13, <2>15, <4>2
        <5>2. f[w[o - 1]] = o - 1 /\ f[w[o - 1]] < f[w[i]]
          BY <2>6, <2>13, <5>1
        <5> QED
          BY <5>2
      <4> QED
        BY <4>1, <4>2
    <3> QED
      BY <2>10, <3>1, <3>2, <3>3
  <2>16. m[n] = InsertedAt(w, o, x) /\ o \in 1..Len(w) + 1
    <3>1. m[n] = Put(w, x)
      BY <1>2, <2>4, <2>5, <2>8
    <3>2. Len(w) \in Nat
      BY <2>7
    <3>3. (IF x.order < Len(w) + 1 THEN x.order ELSE Len(w) + 1) = o
      BY <2>10, <2>13, <3>2
    <3> QED
      BY <2>10, <2>13, <3>1, <3>2, <3>3 DEF Put
  <2>17. PICK v : v = m[n]
    OBVIOUS
  <2>18. /\ v \in Seq(T) /\ Len(v) = Len(w) + 1
         /\ \A j \in 1..Len(w) + 1 : v[j] = IF j < o THEN w[j] ELSE IF j = o THEN x ELSE w[j - 1]
    <3>1. w \in Seq(T) /\ x \in T /\ o \in 1..Len(w) + 1
      BY <2>7, <2>10, <2>16
    <3>2. /\ InsertedAt(w, o, x) \in Seq(T) /\ Len(InsertedAt(w, o, x)) = Len(w) + 1
          /\ \A j \in 1..Len(w) + 1 : InsertedAt(w, o, x)[j] = IF j < o THEN w[j]
                ELSE IF j = o THEN x ELSE w[j - 1]
      BY <3>1, InsertedIs, SMTT(30)
    <3> QED
      BY <2>16, <2>17, <3>2
  <2>19. PICK l : l = Len(w) /\ l \in Nat
    BY <2>7
  <2>20. \A j \in 1..l + 1 : /\ j < o => f[v[j]] = j
                             /\ j = o => f[v[j]] = o
                             /\ j > o => j - 1 \in 1..l /\ v[j] = w[j - 1] /\ f[v[j]] > o
    <3> TAKE j \in 1..l + 1
    <3>1. CASE j < o
      <4>1. j \in 1..(o - 1) /\ v[j] = w[j]
        BY <2>10, <2>18, <2>19, <3>1
      <4> QED
        BY <2>13, <3>1, <4>1, <2>10
    <3>2. CASE j = o
      <4>1. v[j] = x /\ ~(j < o) /\ ~(j > o)
        BY <2>10, <2>18, <2>19, <3>2
      <4> QED
        BY <2>9, <4>1
    <3>3. CASE j > o
      <4>1. j - 1 \in 1..l /\ v[j] = w[j - 1] /\ j - 1 >= o
        BY <2>10, <2>18, <2>19, <3>3
      <4>2. f[w[j - 1]] > o
        BY <2>15, <2>19, <4>1
      <4> QED
        BY <2>10, <3>3, <4>1, <4>2
    <3> QED
      BY <2>10, <2>19, <3>1, <3>2, <3>3
  <2>21. \A j \in 1..l + 1 : f[v[j]] \in Nat
    BY <1>3, <2>18, <2>19
  <2>22. ASSUME NEW i \in 1..l + 1, NEW j \in 1..l + 1, i < j PROVE f[v[i]] < f[v[j]]
    <3>1. CASE j < o
      BY <2>10, <2>19, <2>20, <2>22, <3>1
    <3>2. CASE j = o
      BY <2>10, <2>19, <2>20, <2>22, <3>2
    <3>3. CASE j > o /\ i <= o
      <4>1. f[v[i]] <= o /\ f[v[j]] > o
        BY <2>10, <2>19, <2>20, <3>3
      <4> QED
        BY <2>10, <2>21, <4>1
    <3>4. CASE i > o
      <4>1. i - 1 \in 1..l /\ j - 1 \in 1..l /\ i - 1 < j - 1 /\ v[i] = w[i - 1] /\ v[j] = w[j - 1]
        BY <2>10, <2>19, <2>20, <2>22, <3>4
      <4> QED
        BY <2>6, <2>19, <4>1
    <3> QED
      BY <2>10, <2>19, <2>22, <3>1, <3>2, <3>3, <3>4
  <2>23. Sorted(v)
    BY <2>18, <2>19, <2>22
  <2>24. n \notin B
    BY <2>17, <2>23
  <2> QED
    BY <2>2, <2>24
<1>5. PICK w : w = m[N]
  OBVIOUS
<1>6. w \in Seq(T) /\ On(w) = On(stay) \cup {moved[k] : k \in 1..N} /\ Sorted(w)
  <2>1. N \in 0..N /\ N \notin B
    BY <1>1, <1>4
  <2> QED
    BY <1>2, <1>5, <2>1
<1>7. On(w) = T
  <2>1. On(moved) = {moved[k] : k \in 1..N}
    BY <1>1 DEF On
  <2> QED
    BY <1>6, <1>b, <2>1
<1>8. \A p \in 1..L : \E i \in 1..Len(w) : f[w[i]] = p
  <2> TAKE p \in 1..L
  <2>1. PICK x \in T : f[x] = p
    BY <1>e
  <2> QED
    BY <1>7, <2>1 DEF On
<1>9. L <= Len(w) /\ \A i \in 1..L : f[w[i]] = i
  <2>1. \A z \in T : f[z] \in Nat \ {0}
    BY <1>3
  <2>2. \A i, j \in 1..Len(w) : i < j => f[w[i]] < f[w[j]]
    BY <1>6
  <2>3. w \in Seq(T)
    BY <1>6
  <2>4. Sorting(T, w, f, L)
    BY <1>8, <1>a, <2>1, <2>2, <2>3 DEF Sorting
  <2> QED
    BY <2>4, SortedPlaces
<1>10. Len(w) = L
  <2> SUFFICES ASSUME Len(w) > L PROVE FALSE
    BY <1>a, <1>6, <1>9
  <2>1. Len(w) \in Nat /\ L + 1 \in 1..Len(w) /\ w[L + 1] \in T
    BY <1>a, <1>6
  <2>2. f[w[L + 1]] \in 1..L
    BY <1>a, <1>3, <2>1
  <2>3. PICK v : v = f[w[L + 1]]
    OBVIOUS
  <2>4. v \in 1..L /\ f[w[v]] = v /\ v \in 1..Len(w) /\ v < L + 1
    BY <1>a, <1>9, <2>1, <2>2, <2>3
  <2>5. f[w[v]] < f[w[L + 1]]
    BY <1>6, <2>1, <2>4
  <2> QED
    BY <2>3, <2>4, <2>5
<1> QED
  BY <1>1, <1>2, <1>5, <1>6, <1>7, <1>9, <1>10

-----------------------------------------------------------------------------
(* The board and the draft of it                                           *)

LEMMA MaxIs ==
  ASSUME NEW S \in SUBSET Nat, IsFiniteSet(S), S # {}
  PROVE  Schedule!MaxOf(S) \in S /\ \A y \in S : y <= Schedule!MaxOf(S)
<1> DEFINE Over(x) == {y \in S : y > x}
           counts == {Cardinality(Over(x)) : x \in S}
<1>1. \A x \in S : IsFiniteSet(Over(x)) /\ Cardinality(Over(x)) \in Nat
  BY FS_Subset, FS_CardinalityType
<1>2. PICK n \in counts : \A m \in counts : n <= m
  <2>1. counts \in SUBSET Nat /\ counts # {}
    BY <1>1
  <2> QED
    BY <2>1, HasLeast
<1>3. PICK x \in S : n = Cardinality(Over(x))
  BY <1>2
<1>4. \A y \in S : y <= x
  <2> SUFFICES ASSUME NEW y \in S, y > x PROVE FALSE
    OBVIOUS
  <2>1. Over(y) \subseteq Over(x) /\ y \in Over(x) /\ y \notin Over(y)
    <3>1. x \in Nat /\ y \in Nat /\ \A z \in S : z \in Nat
      OBVIOUS
    <3>2. \A z \in S : z > y => z > x
      BY <3>1
    <3>3. ~(y > y)
      BY <3>1
    <3> QED
      BY <3>2, <3>3
  <2>2. Over(y) # Over(x)
    BY <2>1
  <2>3. Cardinality(Over(y)) < Cardinality(Over(x))
    BY <1>1, <2>1, <2>2, FS_Subset
  <2>4. Cardinality(Over(y)) \in counts /\ Cardinality(Over(y)) \in Nat /\ n \in Nat
    BY <1>1, <1>3
  <2> QED
    BY <1>2, <1>3, <2>3, <2>4
<1>5. \E z \in S : \A y \in S : y <= z
  BY <1>4
<1> QED
  BY <1>5 DEF Schedule!MaxOf

\* A sequence with none of what is taken out stays as it is.
LEMMA WithoutNone ==
  ASSUME NEW T, NEW s \in Seq(T), NEW out, On(s) \cap out = {}
  PROVE  Without(s, out) = s
<1>1. PICK L : L = Len(s) /\ L \in Nat
  OBVIOUS
<1>2. {k \in 1..Len(s) : s[k] \notin out} = 1..L
  BY <1>1 DEF On
<1>3. IsFiniteSet(1..L) /\ Cardinality(1..L) = L
  <2>1. 1 \in Int /\ L \in Int
    BY <1>1
  <2>2. IsFiniteSet(1..L) /\ Cardinality(1..L) = IF 1 > L THEN 0 ELSE L - 1 + 1
    BY <2>1, FS_Interval
  <2> QED
    BY <1>1, <2>2
<1>4. PICK w : w = [i \in 1..L |-> L + 1 - i]
  OBVIOUS
<1>5. w \in Seq(1..L) /\ Len(w) = L /\ \A i \in 1..L : w[i] = L + 1 - i
  BY <1>1, <1>4
<1>6. On(w) = 1..L
  <2>1. \A x \in 1..L : w[L + 1 - x] = x /\ L + 1 - x \in 1..L
    BY <1>1, <1>5
  <2> QED
    <3>1. \A i \in 1..L : w[i] \in 1..L
      BY <1>1, <1>5
    <3> QED
      BY <1>5, <2>1, <3>1 DEF On
<1>7. Falls(w)
  BY <1>1, <1>5 DEF Falls, Before
<1>8. w = Newest(1..L, L)
  BY <1>1, <1>3, <1>5, <1>6, <1>7, FallsOnce
<1>9. Without(s, out) = [i \in 1..Len(w) |-> s[w[Len(w) + 1 - i]]]
  BY <1>2, <1>3, <1>8 DEF Without
<1>10. \A i \in 1..L : w[L + 1 - i] = i
  BY <1>1, <1>5
<1>11. Without(s, out) = [i \in 1..L |-> s[i]]
  BY <1>5, <1>9, <1>10
<1> QED
  BY <1>1, <1>11

\* The positions of the columns, and those of an anime before one of them.
Spots(columns) == UNION {{e} \X DOMAIN columns[e] : e \in ScheduleDays}
Earlier(columns, a, d, i) ==
  {p \in Spots(columns) : columns[p[1]][p[2]] = a /\ (p[2] < i \/ (p[2] = i /\ p[1] < d))}

LEMMA KeyIs ==
  ASSUME NEW columns, NEW d, NEW i
  PROVE  Schedule!KeyAt(columns, d, i) = <<columns[d][i],
         Cardinality(Earlier(columns, columns[d][i], d, i))>>
BY DEF Schedule!KeyAt, Earlier, Spots, Schedule!Cardinality, Cardinality

LEMMA EarlierCounts ==
  ASSUME ScheduleAssumptions, NEW columns \in [ScheduleDays -> Seq(ScheduleAnimes)],
         NEW d \in ScheduleDays, NEW i \in 1..Len(columns[d]), NEW a
  PROVE  IsFiniteSet(Earlier(columns, a, d, i)) /\ Cardinality(Earlier(columns, a, d, i)) \in Nat
<1>1. Earlier(columns, a, d, i) \subseteq ScheduleDays \X (1..i)
  <2> SUFFICES ASSUME NEW p \in Earlier(columns, a, d, i) PROVE p \in ScheduleDays \X (1..i)
    OBVIOUS
  <2>1. PICK e \in ScheduleDays : p \in {e} \X DOMAIN columns[e]
    BY DEF Earlier, Spots
  <2>2. p = <<p[1], p[2]>> /\ p[1] = e /\ p[2] \in DOMAIN columns[e] /\ (p[2] < i \/ p[2] = i)
    BY <2>1 DEF Earlier
  <2>3. DOMAIN columns[e] = 1..Len(columns[e]) /\ Len(columns[e]) \in Nat
    OBVIOUS
  <2>4. p[2] \in 1..i
    BY <2>2, <2>3
  <2> QED
    BY <2>2, <2>4
<1>2. IsFiniteSet(1..i) /\ IsFiniteSet(ScheduleDays)
  <2>1. 1 \in Int /\ i \in Int
    OBVIOUS
  <2> QED
    BY <2>1, FS_Interval DEF ScheduleAssumptions
<1>3. IsFiniteSet(ScheduleDays \X (1..i))
  BY <1>2, FS_Product
<1> QED
  BY <1>1, <1>3, FS_Subset, FS_CardinalityType

\* Of two positions of an anime, the later one has more of them before it.
LEMMA EarlierGrows ==
  ASSUME ScheduleAssumptions, NEW columns \in [ScheduleDays -> Seq(ScheduleAnimes)],
         NEW d \in ScheduleDays, NEW i \in 1..Len(columns[d]), NEW e \in ScheduleDays,
             NEW j \in 1..Len(columns[e]),
         columns[d][i] = columns[e][j], i < j \/ (i = j /\ d < e)
  PROVE  Cardinality(Earlier(columns, columns[d][i], d, i))
         < Cardinality(Earlier(columns, columns[e][j], e, j))
<1>1. PICK a : a = columns[d][i] /\ a = columns[e][j]
  OBVIOUS
<1>2. d \in Nat /\ e \in Nat /\ i \in Nat /\ j \in Nat
  BY DEF ScheduleAssumptions
<1>3. \A p \in Spots(columns) : p[1] \in Nat /\ p[2] \in Nat
  <2> TAKE p \in Spots(columns)
  <2>1. PICK f \in ScheduleDays : p \in {f} \X DOMAIN columns[f]
    BY DEF Spots
  <2>2. DOMAIN columns[f] = 1..Len(columns[f]) /\ Len(columns[f]) \in Nat /\ f \in Nat
    BY DEF ScheduleAssumptions
  <2> QED
    BY <2>1, <2>2
<1>4. Earlier(columns, a, d, i) \subseteq Earlier(columns, a, e, j)
  <2> SUFFICES ASSUME NEW p \in Earlier(columns, a, d, i) PROVE p \in Earlier(columns, a, e, j)
    OBVIOUS
  <2>1. p \in Spots(columns) /\ columns[p[1]][p[2]] = a /\ (p[2] < i \/ (p[2] = i /\ p[1] < d))
    BY DEF Earlier
  <2>2. p[2] < j \/ (p[2] = j /\ p[1] < e)
    BY <1>2, <1>3, <2>1
  <2> QED
    BY <2>1, <2>2 DEF Earlier
<1>5. <<d, i>> \in Spots(columns)
  <2>1. <<d, i>> \in {d} \X DOMAIN columns[d]
    OBVIOUS
  <2> QED
    BY <2>1 DEF Spots
<1>6. <<d, i>> \in Earlier(columns, a, e, j)
  BY <1>1, <1>5 DEF Earlier
<1>7. <<d, i>> \notin Earlier(columns, a, d, i)
  BY <1>2 DEF Earlier
<1>8. IsFiniteSet(Earlier(columns, a, e, j)) /\ Earlier(columns, a, d, i) # Earlier(columns, a, e, j)
  BY <1>6, <1>7, EarlierCounts
<1>9. Cardinality(Earlier(columns, a, d, i)) < Cardinality(Earlier(columns, a, e, j))
  <2>1. PICK E, F : E = Earlier(columns, a, d, i) /\ F = Earlier(columns, a, e, j)
    OBVIOUS
  <2>2. E \in SUBSET F /\ E # F /\ IsFiniteSet(F)
    BY <1>4, <1>8, <2>1
  <2>3. /\ Cardinality(E) \in Nat /\ Cardinality(F) \in Nat
        /\ Cardinality(E) <= Cardinality(F) /\ Cardinality(E) # Cardinality(F)
    BY <2>2, FS_Subset, FS_CardinalityType
  <2> QED
    BY <2>1, <2>3
<1> QED
  BY <1>1, <1>9

\* Each card is in one place.
Apart(o) ==
  /\ \A c \in Schedule!Containers : \A x : ~Before(o[c], x, x)
  /\ \A c, e \in Schedule!Containers : c # e => On(o[c]) \cap On(o[e]) = {}

LEMMA DraftIsOf ==
  ASSUME ScheduleAssumptions, NEW b, b.columns \in [ScheduleDays -> Seq(ScheduleAnimes)]
  PROVE  /\ Schedule!DraftOf(b) \in [Schedule!Containers -> Seq(Schedule!Keys)]
         /\ Schedule!DraftOf(b)[Schedule!Staging] = <<>>
         /\ \A d \in ScheduleDays : /\ Len(Schedule!DraftOf(b)[d]) = Len(b.columns[d])
                                    /\ \A i \in 1..Len(b.columns[d]) : Schedule!DraftOf(b)[d][i][1]
                                          = b.columns[d][i]
         /\ Apart(Schedule!DraftOf(b))
<1>1. PICK columns : columns = b.columns
  OBVIOUS
<1>2. columns \in [ScheduleDays -> Seq(ScheduleAnimes)]
  BY <1>1
<1>3. 0 \notin ScheduleDays /\ Schedule!Staging = 0 /\ Schedule!Containers = ScheduleDays \cup {0}
  BY DEF ScheduleAssumptions, Schedule!Staging, Schedule!Containers
<1>4. PICK o : o = Schedule!DraftOf(b)
  OBVIOUS
<1>5. o = [c \in Schedule!Containers |-> IF c = 0 THEN <<>>
             ELSE [i \in DOMAIN columns[c] |-> Schedule!KeyAt(columns, c, i)]]
  BY <1>1, <1>3, <1>4 DEF Schedule!DraftOf
<1>6. o[0] = <<>> /\ \A d \in ScheduleDays : o[d]
          = [i \in DOMAIN columns[d] |-> Schedule!KeyAt(columns, d, i)]
  BY <1>3, <1>5
<1>7. \A d \in ScheduleDays : \A i \in 1..Len(columns[d]) :
        /\ Schedule!KeyAt(columns, d, i) \in Schedule!Keys
        /\ Schedule!KeyAt(columns, d, i)[1] = columns[d][i]
        /\ Schedule!KeyAt(columns, d, i)[2] = Cardinality(Earlier(columns, columns[d][i], d, i))
  <2> TAKE d \in ScheduleDays
  <2> TAKE i \in 1..Len(columns[d])
  <2>1. columns[d] \in Seq(ScheduleAnimes) /\ columns[d][i] \in ScheduleAnimes
    BY <1>2
  <2>2. Cardinality(Earlier(columns, columns[d][i], d, i)) \in Nat
    BY <1>2, EarlierCounts
  <2> QED
    BY <2>1, <2>2, KeyIs DEF Schedule!Keys
<1>8. \A d \in ScheduleDays : /\ o[d] \in Seq(Schedule!Keys) /\ Len(o[d]) = Len(columns[d])
                              /\ \A i \in 1..Len(columns[d]) : o[d][i] = Schedule!KeyAt(columns, d, i)
  <2> TAKE d \in ScheduleDays
  <2>1. columns[d] \in Seq(ScheduleAnimes) /\ DOMAIN columns[d] = 1..Len(columns[d])
            /\ Len(columns[d]) \in Nat
    BY <1>2
  <2>2. o[d] = [i \in 1..Len(columns[d]) |-> Schedule!KeyAt(columns, d, i)]
    BY <1>6, <2>1
  <2> QED
    BY <1>7, <2>1, <2>2
<1>9. o \in [Schedule!Containers -> Seq(Schedule!Keys)]
  <2>1. \A c \in Schedule!Containers : o[c] \in Seq(Schedule!Keys)
    <3> TAKE c \in Schedule!Containers
    <3>1. CASE c \in ScheduleDays
      BY <1>8, <3>1
    <3>2. CASE c = 0
      <4>1. o[c] = <<>> /\ <<>> \in Seq(Schedule!Keys)
        BY <1>6, <3>2
      <4> QED
        BY <4>1
    <3> QED
      BY <1>3, <3>1, <3>2
  <2> QED
    BY <1>5, <2>1
<1>10. \A d, e \in ScheduleDays : \A i \in 1..Len(columns[d]), j \in 1..Len(columns[e]) :
         o[d][i] = o[e][j] => d = e /\ i = j
  <2> SUFFICES ASSUME NEW d \in ScheduleDays, NEW e \in ScheduleDays, NEW i \in 1..Len(columns[d]),
                      NEW j \in 1..Len(columns[e]), o[d][i] = o[e][j], ~(d = e /\ i = j)
               PROVE  FALSE
    OBVIOUS
  <2>1. columns[d][i] = columns[e][j]
    <3>1. Schedule!KeyAt(columns, d, i) = Schedule!KeyAt(columns, e, j)
      BY <1>8
    <3> QED
      BY <1>7, <3>1
  <2>2. Cardinality(Earlier(columns, columns[d][i], d, i))
            = Cardinality(Earlier(columns, columns[e][j], e, j))
    BY <1>7, <1>8
  <2>3. PICK m, n : /\ m = Cardinality(Earlier(columns, columns[d][i], d, i))
                    /\ n = Cardinality(Earlier(columns, columns[e][j], e, j))
    OBVIOUS
  <2>4. m \in Nat /\ n \in Nat /\ m = n
    BY <1>2, <2>2, <2>3, EarlierCounts
  <2>5. d \in Nat /\ e \in Nat /\ i \in Nat /\ j \in Nat
    <3>1. d \in Nat /\ e \in Nat
      BY DEF ScheduleAssumptions
    <3>2. \A n1 : \A k \in 1..n1 : k \in Nat
      OBVIOUS
    <3> QED
      BY <3>1, <3>2
  <2>6. ~(i < j \/ (i = j /\ d < e))
    <3> SUFFICES ASSUME i < j \/ (i = j /\ d < e) PROVE FALSE
      OBVIOUS
    <3>1. m < n
      BY <1>2, <2>1, <2>3, EarlierGrows
    <3> QED
      BY <2>4, <3>1
  <2>7. ~(j < i \/ (j = i /\ e < d))
    <3> SUFFICES ASSUME j < i \/ (j = i /\ e < d) PROVE FALSE
      OBVIOUS
    <3>1. n < m
      BY <1>2, <2>1, <2>3, EarlierGrows
    <3> QED
      BY <2>4, <3>1
  <2> QED
    BY <2>5, <2>6, <2>7
<1>11. \A c \in Schedule!Containers : \A x : ~Before(o[c], x, x)
  <2> SUFFICES ASSUME NEW c \in Schedule!Containers, NEW x, NEW i \in 1..Len(o[c]),
          NEW j \in 1..Len(o[c]),
                      i < j, o[c][i] = x, o[c][j] = x
               PROVE  FALSE
    BY DEF Before
  <2>1. c \in ScheduleDays
    BY <1>3, <1>6
  <2> QED
    BY <1>8, <1>10, <2>1
<1>12. \A c, e \in Schedule!Containers : c # e => On(o[c]) \cap On(o[e]) = {}
  <2> SUFFICES ASSUME NEW c \in Schedule!Containers, NEW e \in Schedule!Containers, c # e,
                      NEW i \in 1..Len(o[c]), NEW j \in 1..Len(o[e]), o[c][i] = o[e][j]
               PROVE  FALSE
    BY DEF On
  <2>1. c \in ScheduleDays /\ e \in ScheduleDays
    BY <1>3, <1>6
  <2> QED
    BY <1>8, <1>10, <2>1
<1>13. \A d \in ScheduleDays : Len(o[d]) = Len(columns[d]) /\ \A i \in 1..Len(columns[d]) :
           o[d][i][1] = columns[d][i]
  <2> TAKE d \in ScheduleDays
  <2>1. \A i \in 1..Len(columns[d]) : o[d][i][1] = columns[d][i]
    BY <1>7, <1>8
  <2> QED
    BY <1>8, <2>1
<1>14. Apart(o)
  BY <1>11, <1>12 DEF Apart
<1> QED
  BY <1>1, <1>3, <1>4, <1>6, <1>9, <1>13, <1>14

-----------------------------------------------------------------------------
(* What the draft asks for                                                 *)

OfAnimes(pl, ac) == {s \in pl : s.anime \in ac}
ColumnsOf(pl, ac) == [d \in ScheduleDays |-> Schedule!AnimesOf(Schedule!Column(OfAnimes(pl, ac), d))]

SlotsFit ==
  /\ placed \in SUBSET Schedule!Placements /\ \A d \in ScheduleDays : IsFiniteSet(OfDay(placed, d))
  /\ active \in SUBSET ScheduleAnimes /\ modified \in [ScheduleAnimes -> Nat]
BoardIsRead ==
  /\ board.columns = ColumnsOf(placed, DOMAIN board.entries)
  /\ DOMAIN board.entries \subseteq ScheduleAnimes /\ board.modifiedAt \in Nat
DraftFits ==
  /\ order \in [Schedule!Containers -> Seq(Schedule!Keys)] /\ Apart(order)
  /\ \A c \in Schedule!Containers : \A k \in On(order[c]) : k[1] \in DOMAIN board.entries

PlacedFits(pl) == pl \in SUBSET Schedule!Placements /\ \A d \in ScheduleDays : IsFiniteSet(OfDay(pl, d))

LEMMA ColumnsAre ==
  ASSUME ScheduleAssumptions, NEW pl, PlacedFits(pl), NEW ac
  PROVE  /\ ColumnsOf(pl, ac) \in [ScheduleDays -> Seq(ScheduleAnimes)]
         /\ \A d \in ScheduleDays :
              /\ OfAnimes(pl, ac) \in SUBSET Schedule!Placements
                    /\ IsFiniteSet(OfDay(OfAnimes(pl, ac), d))
              /\ Len(ColumnsOf(pl, ac)[d]) = Len(Schedule!Column(OfAnimes(pl, ac), d))
              /\ \A i \in 1..Len(Schedule!Column(OfAnimes(pl, ac), d)) :
                   ColumnsOf(pl, ac)[d][i] = Schedule!Column(OfAnimes(pl, ac), d)[i].anime
<1>1. PICK slots : slots = OfAnimes(pl, ac)
  OBVIOUS
<1>2. slots \in SUBSET Schedule!Placements
  BY <1>1 DEF OfAnimes, PlacedFits
<1>3. \A d \in ScheduleDays : IsFiniteSet(OfDay(slots, d))
  <2> TAKE d \in ScheduleDays
  <2>1. OfDay(slots, d) \in SUBSET OfDay(pl, d)
    BY <1>1 DEF OfAnimes, OfDay
  <2>2. IsFiniteSet(OfDay(pl, d))
    BY DEF PlacedFits
  <2> QED
    BY <2>1, <2>2, FS_Subset
<1>4. \A d \in ScheduleDays :
        /\ Schedule!AnimesOf(Schedule!Column(slots, d)) \in Seq(ScheduleAnimes)
        /\ Len(Schedule!AnimesOf(Schedule!Column(slots, d))) = Len(Schedule!Column(slots, d))
        /\ \A i \in 1..Len(Schedule!Column(slots, d)) :
             Schedule!AnimesOf(Schedule!Column(slots, d))[i] = Schedule!Column(slots, d)[i].anime
  <2> TAKE d \in ScheduleDays
  <2>1. Schedule!Column(slots, d) \in Seq(OfDay(slots, d))
    BY <1>2, <1>3, ColumnIs
  <2>2. PICK w : w = Schedule!Column(slots, d)
    OBVIOUS
  <2>3. w \in Seq(OfDay(slots, d)) /\ DOMAIN w = 1..Len(w) /\ Len(w) \in Nat
    BY <2>1, <2>2
  <2>4. \A i \in 1..Len(w) : w[i].anime \in ScheduleAnimes
    <3> TAKE i \in 1..Len(w)
    <3>1. w[i] \in Schedule!Placements
      BY <1>2, <2>3 DEF OfDay
    <3> QED
      BY <3>1 DEF Schedule!Placements
  <2>5. Schedule!AnimesOf(w) = [i \in 1..Len(w) |-> w[i].anime]
    BY <2>3 DEF Schedule!AnimesOf
  <2>6. Schedule!AnimesOf(w) \in Seq(ScheduleAnimes) /\ Len(Schedule!AnimesOf(w)) = Len(w)
    BY <2>3, <2>4, <2>5
  <2> QED
    BY <2>2, <2>5, <2>6
<1>5. PICK v : v = ColumnsOf(pl, ac)
  OBVIOUS
<1>6. v = [d \in ScheduleDays |-> Schedule!AnimesOf(Schedule!Column(slots, d))]
  BY <1>1, <1>5 DEF ColumnsOf
<1>7. v \in [ScheduleDays -> Seq(ScheduleAnimes)]
  BY <1>4, <1>6
<1> QED
  BY <1>1, <1>2, <1>3, <1>4, <1>5, <1>6, <1>7

LEMMA PlacesAre ==
  ASSUME NEW draft, NEW a
  PROVE  \A p : p \in Schedule!PlacesIn(draft, a) <=>
           \E d \in ScheduleDays : \E i \in DOMAIN draft[d] : draft[d][i][1] = a /\ p = <<d, i>>
<1>1. Schedule!PlacesIn(draft, a) = UNION {{<<d, i>> :
          i \in {j \in DOMAIN draft[d] : draft[d][j][1] = a}} : d \in ScheduleDays}
  BY DEF Schedule!PlacesIn
<1> QED
  BY <1>1

\* The command is the draft's: what its animes are changed to.
DraftBefore == Schedule!Removed(Schedule!DraftOf(board), Schedule!Staged)

LEMMA CommandIs ==
  ASSUME ScheduleAssumptions, SlotsFit, BoardIsRead, DraftFits, command = Schedule!ApplyEntries
  PROVE  /\ Schedule!Changed(command) = {a \in DOMAIN board.entries :
                /\ Schedule!PlacesIn(DraftBefore, a) # Schedule!PlacesIn(order, a)
                /\ Schedule!PlacesIn(order, a) = {} => a \notin Schedule!StagedAnimes}
         /\ \A s : s \in command.places <=>
              \E d \in ScheduleDays : \E i \in 1..Len(order[d]) :
                /\ order[d][i][1] \in Schedule!Changed(command)
                /\ s = [anime |-> order[d][i][1], day |-> d, order |-> i]
         /\ command.modifiedAt = board.modifiedAt /\ command.draft = order
         /\ Schedule!Changed(command) \subseteq ScheduleAnimes
<1> DEFINE changed == {a \in DOMAIN board.entries :
                /\ Schedule!PlacesIn(DraftBefore, a) # Schedule!PlacesIn(order, a)
                /\ Schedule!PlacesIn(order, a) = {} => a \notin Schedule!StagedAnimes}
<1>1. command = [entries |-> [a \in changed |-> board.entries[a]],
       places |-> UNION {{[anime |-> a, day |-> p[1], order |-> p[2]] :
           p \in Schedule!PlacesIn(order, a)} : a \in changed},
       modifiedAt |-> board.modifiedAt, draft |-> order]
  BY DEF Schedule!ApplyEntries, DraftBefore
<1> HIDE DEF changed
<1>2. /\ command.entries = [a \in changed |-> board.entries[a]]
      /\ command.places = UNION {{[anime |-> a, day |-> p[1], order |-> p[2]] :
            p \in Schedule!PlacesIn(order, a)} : a \in changed}
      /\ command.modifiedAt = board.modifiedAt /\ command.draft = order
  BY <1>1
<1>3. Schedule!Changed(command) = changed
  BY <1>2 DEF Schedule!Changed
<1>4. ASSUME NEW s
      PROVE s \in command.places <=> \E a \in changed : \E p \in Schedule!PlacesIn(order, a) :
                                       s = [anime |-> a, day |-> p[1], order |-> p[2]]
  BY <1>2
<1>5. \A d \in ScheduleDays : DOMAIN order[d] = 1..Len(order[d])
  <2> TAKE d \in ScheduleDays
  <2>1. d \in Schedule!Containers
    BY DEF Schedule!Containers
  <2>2. order[d] \in Seq(Schedule!Keys)
    BY <2>1 DEF DraftFits
  <2> QED
    BY <2>2
<1>6. ASSUME NEW s
      PROVE s \in command.places <=>
              \E d \in ScheduleDays : \E i \in 1..Len(order[d]) :
                /\ order[d][i][1] \in changed
                /\ s = [anime |-> order[d][i][1], day |-> d, order |-> i]
  <2>1. ASSUME s \in command.places
        PROVE  \E d \in ScheduleDays : \E i \in 1..Len(order[d]) :
                 order[d][i][1] \in changed /\ s = [anime |-> order[d][i][1], day |-> d, order |-> i]
    <3>1. PICK a \in changed : \E p \in Schedule!PlacesIn(order, a) :
              s = [anime |-> a, day |-> p[1], order |-> p[2]]
      BY <1>4, <2>1
    <3>2. PICK p \in Schedule!PlacesIn(order, a) : s = [anime |-> a, day |-> p[1], order |-> p[2]]
      BY <3>1
    <3>3. PICK d \in ScheduleDays : \E i \in DOMAIN order[d] : order[d][i][1] = a /\ p = <<d, i>>
      BY <3>2, PlacesAre
    <3>4. PICK i \in DOMAIN order[d] : order[d][i][1] = a /\ p = <<d, i>>
      BY <3>3
    <3>5. s = [anime |-> order[d][i][1], day |-> d, order |-> i] /\ i \in 1..Len(order[d])
      BY <1>5, <3>2, <3>4
    <3> QED
      BY <3>1, <3>4, <3>5
  <2>2. ASSUME NEW d \in ScheduleDays, NEW i \in 1..Len(order[d]), order[d][i][1] \in changed,
               s = [anime |-> order[d][i][1], day |-> d, order |-> i]
        PROVE  s \in command.places
    <3>1. PICK a : a = order[d][i][1]
      OBVIOUS
    <3>2. i \in DOMAIN order[d]
      BY <1>5
    <3>3. <<d, i>> \in Schedule!PlacesIn(order, a)
      BY <3>1, <3>2, PlacesAre
    <3>4. PICK p : p = <<d, i>>
      OBVIOUS
    <3>5. p[1] = d /\ p[2] = i /\ p \in Schedule!PlacesIn(order, a)
      BY <3>3, <3>4
    <3>6. s = [anime |-> a, day |-> p[1], order |-> p[2]] /\ a \in changed
      BY <2>2, <3>1, <3>5
    <3> QED
      BY <1>4, <3>5, <3>6
  <2> QED
    BY <2>1, <2>2
<1>7. changed \subseteq ScheduleAnimes
  BY DEF changed, BoardIsRead
<1> QED
  BY <1>2, <1>3, <1>6, <1>7 DEF changed

\* What is wanted of a day, by the animes that stay and those that change.
Staying == {s \in Schedule!Desired(command) : s.anime \notin Schedule!Changed(command)}

LEMMA DesiredFits ==
  ASSUME ScheduleAssumptions, SlotsFit, BoardIsRead, DraftFits, command = Schedule!ApplyEntries
  PROVE  /\ Schedule!Desired(command) \in SUBSET Schedule!Placements
         /\ \A d \in ScheduleDays : IsFiniteSet(OfDay(Schedule!Desired(command), d))
         /\ command.places \in SUBSET Schedule!Placements
         /\ \A d \in ScheduleDays : IsFiniteSet(OfDay(command.places, d))
         /\ Staying \in SUBSET Schedule!Placements
         /\ \A d \in ScheduleDays : IsFiniteSet(OfDay(Staying, d))
         /\ \A d \in ScheduleDays : OfDay(Schedule!Desired(command), d) = OfDay(Staying, d)
               \cup OfDay(command.places, d)
         /\ \A d \in ScheduleDays : OfDay(Staying, d) \cap OfDay(command.places, d) = {}
         /\ \A s : s \in Staying <=> s \in placed /\ s.anime \in active
               /\ s.anime \notin Schedule!Changed(command)
         /\ \A s \in command.places : s.anime \in Schedule!Changed(command)
         /\ Schedule!Reflowed(command) \subseteq ScheduleDays
               /\ Schedule!Affected(command) \subseteq ScheduleDays
<1>1. \A d \in ScheduleDays : order[d] \in Seq(Schedule!Keys)
  BY DEF DraftFits, Schedule!Containers
<1>2. ASSUME NEW s \in command.places
      PROVE  s \in Schedule!Placements /\ s.anime \in Schedule!Changed(command)
  <2>1. PICK d \in ScheduleDays : \E i \in 1..Len(order[d]) :
           order[d][i][1] \in Schedule!Changed(command)
               /\ s = [anime |-> order[d][i][1], day |-> d, order |-> i]
    BY CommandIs
  <2>2. PICK i \in 1..Len(order[d]) :
           order[d][i][1] \in Schedule!Changed(command)
               /\ s = [anime |-> order[d][i][1], day |-> d, order |-> i]
    BY <2>1
  <2>3. Schedule!Changed(command) \subseteq ScheduleAnimes
    BY CommandIs
  <2>4. i \in Nat \ {0}
    BY <1>1
  <2> QED
    BY <2>2, <2>3, <2>4 DEF Schedule!Placements
<1>3. command.places \in SUBSET Schedule!Placements
  BY <1>2
<1>4. \A s : s \in Staying <=> s \in placed /\ s.anime \in active
          /\ s.anime \notin Schedule!Changed(command)
  <2>1. Schedule!Desired(command) = {s \in {t \in placed : t.anime \in active} :
            s.anime \notin Schedule!Changed(command)} \cup command.places
    BY DEF Schedule!Desired, Schedule!Active
  <2> QED
    BY <1>2, <2>1 DEF Staying
<1>5. Schedule!Desired(command) = Staying \cup command.places
  <2>1. Schedule!Desired(command) = {s \in {t \in placed : t.anime \in active} :
            s.anime \notin Schedule!Changed(command)} \cup command.places
    BY DEF Schedule!Desired, Schedule!Active
  <2> QED
    BY <1>4, <2>1
<1>6. Staying \in SUBSET Schedule!Placements
  BY <1>4 DEF SlotsFit
<1>7. \A d \in ScheduleDays : OfDay(Schedule!Desired(command), d) = OfDay(Staying, d)
          \cup OfDay(command.places, d)
  BY <1>5 DEF OfDay
<1>8. \A d \in ScheduleDays : OfDay(Staying, d) \cap OfDay(command.places, d) = {}
  BY <1>2, <1>4 DEF OfDay
<1>9. \A d \in ScheduleDays : IsFiniteSet(OfDay(Staying, d))
  <2> TAKE d \in ScheduleDays
  <2>1. OfDay(Staying, d) \in SUBSET OfDay(placed, d)
    BY <1>4 DEF OfDay
  <2>2. IsFiniteSet(OfDay(placed, d))
    BY DEF SlotsFit
  <2> QED
    BY <2>1, <2>2, FS_Subset
<1>10. \A d \in ScheduleDays : IsFiniteSet(OfDay(command.places, d))
  <2> TAKE d \in ScheduleDays
  <2>1. PICK P : P = OfDay(command.places, d)
    OBVIOUS
  <2>2. PICK w : w = order[d]
    OBVIOUS
  <2>3. w \in Seq(Schedule!Keys) /\ Len(w) \in Nat
    BY <1>1, <2>2
  <2>4. \A s \in P : s.order \in 1..Len(w) /\ s
            = [anime |-> w[s.order][1], day |-> d, order |-> s.order]
    <3> TAKE s \in P
    <3>1. s \in command.places /\ s.day = d
      BY <2>1 DEF OfDay
    <3>2. PICK e \in ScheduleDays : \E i \in 1..Len(order[e]) :
              s = [anime |-> order[e][i][1], day |-> e, order |-> i]
      BY <3>1, CommandIs
    <3>3. PICK i \in 1..Len(order[e]) : s = [anime |-> order[e][i][1], day |-> e, order |-> i]
      BY <3>2
    <3>4. e = d /\ s.order = i
      BY <3>1, <3>3
    <3> QED
      BY <2>2, <3>3, <3>4
  <2> DEFINE g == [s \in P |-> s.order]
  <2>5. g \in Injection(P, 1..Len(w))
    <3>1. g \in [P -> 1..Len(w)]
      BY <2>4
    <3>2. \A r, s \in P : g[r] = g[s] => r = s
      BY <2>4
    <3> QED
      BY <3>1, <3>2 DEF Injection, IsInjective
  <2>6. IsFiniteSet(1..Len(w))
    <3>1. 1 \in Int /\ Len(w) \in Int
      BY <2>3
    <3> QED
      BY <3>1, FS_Interval
  <2> QED
    BY <2>1, <2>5, <2>6, FS_Injection
<1>11. \A d \in ScheduleDays : IsFiniteSet(OfDay(Schedule!Desired(command), d))
  <2> TAKE d \in ScheduleDays
  <2>1. IsFiniteSet(OfDay(Staying, d)) /\ IsFiniteSet(OfDay(command.places, d))
    BY <1>9, <1>10
  <2>2. IsFiniteSet(OfDay(Staying, d) \cup OfDay(command.places, d))
    BY <2>1, FS_Union
  <2> QED
    BY <1>7, <2>2
<1>12. Schedule!Affected(command) \subseteq ScheduleDays
  <2>1. \A s \in command.places : s.day \in ScheduleDays
    BY <1>3 DEF Schedule!Placements
  <2>2. \A s \in placed : s.day \in ScheduleDays
    BY DEF SlotsFit, Schedule!Placements
  <2> QED
    BY <2>1, <2>2 DEF Schedule!Affected, Schedule!Submitted, Schedule!Active
<1>13. Schedule!Reflowed(command) \subseteq ScheduleDays
  BY <1>12 DEF Schedule!Reflowed
<1>14. Schedule!Desired(command) \in SUBSET Schedule!Placements
  BY <1>3, <1>5, <1>6
<1> QED
  BY <1>2, <1>3, <1>4, <1>6, <1>7, <1>8, <1>9, <1>10, <1>11, <1>12, <1>13, <1>14

\* The column of a day as it is wanted, and the slots it makes.
Renumbered(w, d) == {[anime |-> w[i].anime, day |-> d, order |-> i] : i \in 1..Len(w)}
Arranged(d, w) ==
  /\ w \in Seq(OfDay(Schedule!Desired(command), d)) /\ On(w) = OfDay(Schedule!Desired(command), d)
  /\ d \notin Schedule!Reflowed(command) =>
       OfDay(Schedule!Normalized(command), d) = OfDay(Schedule!Desired(command), d)
  /\ d \in Schedule!Reflowed(command) =>
       /\ w = Schedule!Merged(command, d)
       /\ OfDay(Schedule!Normalized(command), d) = Renumbered(w, d)

LEMMA MergedIs ==
  ASSUME ScheduleAssumptions, SlotsFit, BoardIsRead, DraftFits, command = Schedule!ApplyEntries,
         NEW d \in ScheduleDays
  PROVE  /\ Schedule!Column(Staying, d) \in Seq(OfDay(Schedule!Desired(command), d))
         /\ Schedule!Column(command.places, d) \in Seq(OfDay(Schedule!Desired(command), d))
         /\ On(Schedule!Column(Staying, d)) = OfDay(Staying, d)
         /\ On(Schedule!Column(command.places, d)) = OfDay(command.places, d)
         /\ Schedule!Merged(command, d) = Schedule!Insertions(Schedule!Column(Staying, d),
              Schedule!Column(command.places, d))[Len(Schedule!Column(command.places, d))]
         /\ Schedule!Merged(command, d) \in Seq(OfDay(Schedule!Desired(command), d))
         /\ On(Schedule!Merged(command, d)) = OfDay(Schedule!Desired(command), d)
<1>1. PICK K : K = OfDay(Schedule!Desired(command), d)
  OBVIOUS
<1>2. PICK stay, moved : stay = Schedule!Column(Staying, d)
          /\ moved = Schedule!Column(command.places, d)
  OBVIOUS
<1>3. stay \in Seq(OfDay(Staying, d)) /\ On(stay) = OfDay(Staying, d)
  <2>1. Staying \in SUBSET Schedule!Placements /\ IsFiniteSet(OfDay(Staying, d))
    BY DesiredFits
  <2> QED
    BY <1>2, <2>1, ColumnIs
<1>4. moved \in Seq(OfDay(command.places, d)) /\ On(moved) = OfDay(command.places, d)
  <2>1. command.places \in SUBSET Schedule!Placements /\ IsFiniteSet(OfDay(command.places, d))
    BY DesiredFits
  <2> QED
    BY <1>2, <2>1, ColumnIs
<1>5. K = OfDay(Staying, d) \cup OfDay(command.places, d) /\ K \subseteq Schedule!Placements
  <2>1. K \subseteq Schedule!Desired(command)
    BY <1>1 DEF OfDay
  <2> QED
    BY <1>1, <2>1, DesiredFits
<1>6. stay \in Seq(K) /\ moved \in Seq(K)
  BY <1>3, <1>4, <1>5
<1>7. Numbered(K)
  BY <1>5 DEF Numbered, Schedule!Placements
<1>8. PICK m : Inserting(K, stay, moved, m)
  BY <1>6, <1>7, InsertionsAre
<1>9. m = Schedule!Insertions(stay, moved) /\ m[Len(moved)] \in Seq(K)
      /\ On(m[Len(moved)]) = On(stay) \cup {moved[k] : k \in 1..Len(moved)}
  <2>1. Len(moved) \in 0..Len(moved)
    BY <1>6
  <2> QED
    BY <1>8, <2>1 DEF Inserting
<1>10. On(m[Len(moved)]) = K
  <2>1. {moved[k] : k \in 1..Len(moved)} = On(moved)
    BY DEF On
  <2> QED
    BY <1>3, <1>4, <1>5, <1>9, <2>1
<1>11. Schedule!Merged(command, d) = m[Len(moved)]
  BY <1>2, <1>9 DEF Schedule!Merged, Staying
<1> QED
  BY <1>1, <1>2, <1>3, <1>4, <1>6, <1>9, <1>10, <1>11

LEMMA NormalizedIs ==
  ASSUME ScheduleAssumptions, SlotsFit, BoardIsRead, DraftFits, command = Schedule!ApplyEntries,
         NEW d \in ScheduleDays
  PROVE  \E w : Arranged(d, w)
<1>1. PICK reflowed, desired : reflowed = Schedule!Reflowed(command)
          /\ desired = Schedule!Desired(command)
  OBVIOUS
<1>2. Schedule!Normalized(command) = {s \in desired : s.day \notin reflowed}
        \cup UNION {{[anime |-> Schedule!Merged(command, e)[i].anime, day |-> e, order |-> i] :
                      i \in DOMAIN Schedule!Merged(command, e)} : e \in reflowed}
  BY <1>1 DEF Schedule!Normalized
<1>3. ASSUME d \notin reflowed
      PROVE  OfDay(Schedule!Normalized(command), d) = OfDay(desired, d)
  BY <1>2, <1>3 DEF OfDay
<1>4. ASSUME d \in reflowed
      PROVE  OfDay(Schedule!Normalized(command), d) = Renumbered(Schedule!Merged(command, d), d)
  <2>1. PICK v : v = Schedule!Merged(command, d)
    OBVIOUS
  <2>2. DOMAIN v = 1..Len(v)
    <3>1. v \in Seq(OfDay(Schedule!Desired(command), d))
      BY <2>1, MergedIs
    <3> QED
      BY <3>1
  <2>3. ASSUME NEW s \in OfDay(Schedule!Normalized(command), d)
        PROVE  s \in Renumbered(v, d)
    <3>1. s \in Schedule!Normalized(command) /\ s.day = d
      BY <2>3 DEF OfDay
    <3>2. PICK e \in reflowed : s \in {[anime |-> Schedule!Merged(command, e)[i].anime, day |-> e,
              order |-> i] :
                      i \in DOMAIN Schedule!Merged(command, e)}
      BY <1>2, <1>4, <3>1
    <3>3. e = d
      BY <3>1, <3>2
    <3> QED
      BY <2>1, <2>2, <3>2, <3>3 DEF Renumbered
  <2>4. ASSUME NEW s \in Renumbered(v, d)
        PROVE  s \in OfDay(Schedule!Normalized(command), d)
    <3>1. s \in {[anime |-> v[i].anime, day |-> d, order |-> i] : i \in DOMAIN v} /\ s.day = d
      BY <2>2, <2>4 DEF Renumbered
    <3>2. s \in Schedule!Normalized(command)
      BY <1>2, <1>4, <2>1, <3>1
    <3> QED
      BY <3>1, <3>2 DEF OfDay
  <2> QED
    BY <2>1, <2>3, <2>4
<1>5. CASE d \in reflowed
  <2>1. Arranged(d, Schedule!Merged(command, d))
    BY <1>1, <1>4, <1>5, MergedIs DEF Arranged
  <2> QED
    BY <2>1
<1>6. CASE d \notin reflowed
  <2>1. Arranged(d, Schedule!Merged(command, d))
    BY <1>1, <1>3, <1>6, MergedIs DEF Arranged
  <2> QED
    BY <2>1
<1> QED
  BY <1>5, <1>6

\* The animes of a day as stored are those that are wanted there.
LEMMA NormalizedFits ==
  ASSUME ScheduleAssumptions, SlotsFit, BoardIsRead, DraftFits, command = Schedule!ApplyEntries
  PROVE  /\ Schedule!Normalized(command) \in SUBSET Schedule!Placements
         /\ \A d \in ScheduleDays : /\ IsFiniteSet(OfDay(Schedule!Normalized(command), d))
                                    /\ {s.anime : s \in OfDay(Schedule!Normalized(command), d)}
                                         = {s.anime : s \in OfDay(Schedule!Desired(command), d)}
<1>1. ASSUME NEW d \in ScheduleDays
      PROVE  /\ OfDay(Schedule!Normalized(command), d) \subseteq Schedule!Placements
             /\ IsFiniteSet(OfDay(Schedule!Normalized(command), d))
             /\ {s.anime : s \in OfDay(Schedule!Normalized(command), d)}
                  = {s.anime : s \in OfDay(Schedule!Desired(command), d)}
  <2>1. PICK K, A : K = OfDay(Schedule!Desired(command), d)
            /\ A = OfDay(Schedule!Normalized(command), d)
    OBVIOUS
  <2>2. K \subseteq Schedule!Placements /\ IsFiniteSet(K)
    <3>1. OfDay(Schedule!Desired(command), d) \subseteq Schedule!Desired(command)
      BY DEF OfDay
    <3> QED
      BY <1>1, <2>1, <3>1, DesiredFits
  <2>3. PICK w : Arranged(d, w)
    BY <1>1, NormalizedIs
  <2>4. w \in Seq(K) /\ On(w) = K /\ (A = K \/ A = Renumbered(w, d))
    BY <2>1, <2>3 DEF Arranged
  <2>5. CASE A = K
    BY <2>1, <2>2, <2>5
  <2>6. CASE A = Renumbered(w, d)
    <3>1. Len(w) \in Nat /\ \A i \in 1..Len(w) : w[i] \in K
      BY <2>4
    <3>2. \A s \in A : s.order \in 1..Len(w) /\ s
              = [anime |-> w[s.order].anime, day |-> d, order |-> s.order]
      BY <2>6 DEF Renumbered
    <3>3. A \subseteq Schedule!Placements
      <4>1. \A i \in 1..Len(w) : w[i].anime \in ScheduleAnimes /\ i \in Nat \ {0}
        BY <2>2, <3>1 DEF Schedule!Placements
      <4> QED
        BY <1>1, <2>6, <4>1 DEF Renumbered, Schedule!Placements
    <3>4. IsFiniteSet(A)
      <4> DEFINE g == [s \in A |-> s.order]
      <4>1. g \in [A -> 1..Len(w)] /\ \A r, s \in A : g[r] = g[s] => r = s
        BY <3>2
      <4>2. g \in Injection(A, 1..Len(w))
        BY <4>1 DEF Injection, IsInjective
      <4>3. 1 \in Int /\ Len(w) \in Int
        BY <3>1
      <4>4. IsFiniteSet(1..Len(w))
        BY <4>3, FS_Interval
      <4> QED
        BY <4>2, <4>4, FS_Injection
    <3>5. {s.anime : s \in A} = {s.anime : s \in K}
      <4>1. {s.anime : s \in K} = {w[i].anime : i \in 1..Len(w)}
        BY <2>4 DEF On
      <4>2. {s.anime : s \in A} = {w[i].anime : i \in 1..Len(w)}
        <5>1. \A s \in A : s.order \in 1..Len(w) /\ s.anime = w[s.order].anime
          <6> TAKE s \in A
          <6>1. s.order \in 1..Len(w) /\ s = [anime |-> w[s.order].anime, day |-> d, order |-> s.order]
            BY <3>2
          <6> QED
            BY <6>1
        <5>2. \A i \in 1..Len(w) : \E s \in A : s.anime = w[i].anime
          <6> TAKE i \in 1..Len(w)
          <6>1. [anime |-> w[i].anime, day |-> d, order |-> i] \in A
            BY <2>6 DEF Renumbered
          <6> QED
            BY <6>1
        <5> QED
          BY <5>1, <5>2
      <4> QED
        BY <4>1, <4>2
    <3> QED
      BY <2>1, <3>3, <3>4, <3>5
  <2> QED
    BY <2>4, <2>5, <2>6
<1>2. \A s \in Schedule!Normalized(command) : s.day \in ScheduleDays
  <2>1. \A s \in Schedule!Desired(command) : s.day \in ScheduleDays
    BY DesiredFits DEF Schedule!Placements
  <2>2. Schedule!Reflowed(command) \subseteq ScheduleDays
    BY DesiredFits
  <2> QED
    BY <2>1, <2>2 DEF Schedule!Normalized
<1>3. Schedule!Normalized(command) \in SUBSET Schedule!Placements
  <2> SUFFICES ASSUME NEW s \in Schedule!Normalized(command) PROVE s \in Schedule!Placements
    OBVIOUS
  <2>1. s \in OfDay(Schedule!Normalized(command), s.day)
    BY DEF OfDay
  <2> QED
    BY <1>1, <1>2, <2>1
<1> QED
  BY <1>1, <1>3

-----------------------------------------------------------------------------
(* The animes of each day                                                  *)

AnimesIn(slots) == {s.anime : s \in slots}
Drafted(c) == {k[1] : k \in On(order[c])}

JoinedIsLater ==
  /\ \A a \in active \ DOMAIN board.entries : modified[a] > board.modifiedAt
  /\ \E a \in ScheduleAnimes : modified[a] >= board.modifiedAt

ModifiedAtOf(ac, md) == IF ac = {} THEN 0 ELSE Schedule!MaxOf({md[a] : a \in ac})

LEMMA ModifiedAtIs ==
  ASSUME ScheduleAssumptions, NEW ac \in SUBSET ScheduleAnimes, NEW md \in [ScheduleAnimes -> Nat]
  PROVE  /\ ModifiedAtOf(ac, md) \in Nat
         /\ \A a \in ac : md[a] <= ModifiedAtOf(ac, md)
         /\ ModifiedAtOf(ac, md) = 0 \/ \E a \in ac : md[a] = ModifiedAtOf(ac, md)
<1>1. CASE ac = {}
  BY <1>1 DEF ModifiedAtOf
<1>2. CASE ac # {}
  <2>1. PICK S : S = {md[a] : a \in ac}
    OBVIOUS
  <2>2. S \in SUBSET Nat /\ S # {}
    BY <1>2, <2>1
  <2>3. IsFiniteSet(S)
    <3> DEFINE g == [a \in ac |-> md[a]]
    <3>1. g \in Surjection(ac, S)
      BY <2>1 DEF Surjection
    <3>2. IsFiniteSet(ac)
      BY FS_Subset DEF ScheduleAssumptions
    <3> QED
      BY <3>1, <3>2, FS_Surjection
  <2>4. Schedule!MaxOf(S) \in S /\ \A y \in S : y <= Schedule!MaxOf(S)
    BY <2>2, <2>3, MaxIs
  <2>5. ModifiedAtOf(ac, md) = Schedule!MaxOf(S)
    BY <1>2, <2>1 DEF ModifiedAtOf
  <2> QED
    BY <2>1, <2>2, <2>4, <2>5
<1> QED
  BY <1>1, <1>2

LEMMA BoardModifiedIs ==
  ASSUME ScheduleAssumptions, SlotsFit
  PROVE  /\ Schedule!BoardModifiedAt \in Nat
         /\ \A a \in active : modified[a] <= Schedule!BoardModifiedAt
<1>1. Schedule!BoardModifiedAt = ModifiedAtOf(active, modified)
  BY DEF Schedule!BoardModifiedAt, ModifiedAtOf
<1>2. active \in SUBSET ScheduleAnimes /\ modified \in [ScheduleAnimes -> Nat]
  BY DEF SlotsFit
<1> QED
  BY <1>1, <1>2, ModifiedAtIs

LEMMA StampIsLater ==
  ASSUME ScheduleAssumptions, SlotsFit
  PROVE  Schedule!Stamp \in Nat /\ \A a \in ScheduleAnimes : modified[a] < Schedule!Stamp
<1>1. PICK S : S = {modified[a] : a \in ScheduleAnimes}
  OBVIOUS
<1>2. S \in SUBSET Nat /\ S # {}
  BY <1>1 DEF SlotsFit, ScheduleAssumptions
<1>3. IsFiniteSet(S)
  <2> DEFINE g == [a \in ScheduleAnimes |-> modified[a]]
  <2>1. g \in Surjection(ScheduleAnimes, S)
    BY <1>1 DEF Surjection
  <2>2. IsFiniteSet(ScheduleAnimes)
    BY DEF ScheduleAssumptions
  <2> QED
    BY <2>1, <2>2, FS_Surjection
<1>4. Schedule!MaxOf(S) \in S /\ \A y \in S : y <= Schedule!MaxOf(S)
  BY <1>2, <1>3, MaxIs
<1>5. Schedule!Stamp = Schedule!MaxOf(S) + 1
  BY <1>1 DEF Schedule!Stamp
<1>6. PICK m : m = Schedule!MaxOf(S)
  OBVIOUS
<1>7. m \in Nat /\ \A a \in ScheduleAnimes : modified[a] \in Nat /\ modified[a] <= m
  BY <1>1, <1>2, <1>4, <1>6
<1> QED
  BY <1>5, <1>6, <1>7

\* What the board read shows of a day, and what the draft built from it does.
LEMMA BoardShows ==
  ASSUME ScheduleAssumptions, SlotsFit, BoardIsRead, NEW d \in ScheduleDays
  PROVE  /\ board.columns \in [ScheduleDays -> Seq(ScheduleAnimes)]
         /\ \A a : a \in On(board.columns[d]) <=> \E s \in placed : s.day = d /\ s.anime = a
               /\ a \in DOMAIN board.entries
<1>1. PICK v, w, ac : ac = DOMAIN board.entries /\ v = board.columns
          /\ w = Schedule!Column(OfAnimes(placed, ac), d)
  OBVIOUS
<1>2. v = ColumnsOf(placed, ac)
  BY <1>1 DEF BoardIsRead
<1>3. PlacedFits(placed)
  BY DEF SlotsFit, PlacedFits
<1>4. /\ v \in [ScheduleDays -> Seq(ScheduleAnimes)] /\ Len(v[d]) = Len(w)
      /\ \A i \in 1..Len(w) : v[d][i] = w[i].anime
      /\ OfAnimes(placed, ac) \in SUBSET Schedule!Placements
            /\ IsFiniteSet(OfDay(OfAnimes(placed, ac), d))
  BY <1>1, <1>2, <1>3, ColumnsAre
<1>5. On(w) = OfDay(OfAnimes(placed, ac), d)
  BY <1>1, <1>4, ColumnIs
<1>6. On(v[d]) = AnimesIn(On(w))
  BY <1>4 DEF On, AnimesIn
<1>7. ASSUME NEW a
      PROVE  a \in AnimesIn(On(w)) <=> \E s \in placed : s.day = d /\ s.anime = a /\ a \in ac
  BY <1>5 DEF AnimesIn, OfDay, OfAnimes
<1> QED
  BY <1>1, <1>4, <1>6, <1>7

LEMMA WithoutIsSame ==
  ASSUME NEW s, NEW out PROVE Schedule!Without(s, out) = Without(s, out)
<1>1. \A S : Schedule!Cardinality(S) = Cardinality(S)
  BY DEF Schedule!Cardinality, Cardinality
<1>2. \A S, n : Schedule!Newest(S, n) = Newest(S, n)
  BY DEF Schedule!Newest, Newest, Schedule!Cardinality, Cardinality
<1>3. PICK stay : stay = {k \in 1..Len(s) : s[k] \notin out}
  OBVIOUS
<1>4. Schedule!Newest(stay, Schedule!Cardinality(stay)) = Newest(stay, Cardinality(stay))
  BY <1>1, <1>2
<1> QED
  BY <1>3, <1>4 DEF Schedule!Without, Without

LEMMA RemovedIs ==
  ASSUME NEW o, NEW keys
  PROVE  \A c \in Schedule!Containers : Schedule!Removed(o, keys)[c] = Without(o[c], keys)
BY WithoutIsSame DEF Schedule!Removed

LEMMA DraftShows ==
  ASSUME ScheduleAssumptions, SlotsFit, BoardIsRead, DraftFits, NEW d \in ScheduleDays, NEW a
  PROVE  /\ Schedule!StagedAnimes = Drafted(Schedule!Staging)
         /\ a \in Drafted(d) <=> \E i \in 1..Len(order[d]) : <<d, i>> \in Schedule!PlacesIn(order, a)
         /\ \A p : p \in Schedule!PlacesIn(DraftBefore, a) /\ p[1] = d => a \in On(board.columns[d])
         /\ a \in On(board.columns[d]) /\ a \notin Schedule!StagedAnimes
              => \E i : <<d, i>> \in Schedule!PlacesIn(DraftBefore, a)
<1>1. /\ order[Schedule!Staging] \in Seq(Schedule!Keys) /\ order[d] \in Seq(Schedule!Keys)
      /\ d \in Schedule!Containers
  BY DEF DraftFits, Schedule!Containers
<1>2. Schedule!Staged = On(order[Schedule!Staging])
  <2>1. PICK w : w = order[Schedule!Staging]
    OBVIOUS
  <2>2. w \in Seq(Schedule!Keys)
    BY <1>1, <2>1
  <2>3. Schedule!Range(w) = On(w)
    BY <2>2 DEF Schedule!Range, On
  <2> QED
    BY <2>1, <2>3 DEF Schedule!Staged
<1>3. Schedule!StagedAnimes = Drafted(Schedule!Staging)
  BY <1>2 DEF Schedule!StagedAnimes, Drafted
<1>4. a \in Drafted(d) <=> \E i \in 1..Len(order[d]) : <<d, i>> \in Schedule!PlacesIn(order, a)
  <2>1. DOMAIN order[d] = 1..Len(order[d])
    BY <1>1
  <2>2. \A i \in 1..Len(order[d]) : <<d, i>> \in Schedule!PlacesIn(order, a) <=> order[d][i][1] = a
    <3> TAKE i \in 1..Len(order[d])
    <3>1. <<d, i>> \in Schedule!PlacesIn(order, a) <=>
            \E e \in ScheduleDays : \E j \in DOMAIN order[e] : order[e][j][1] = a /\ <<d, i>> = <<e, j>>
      BY PlacesAre
    <3> QED
      BY <2>1, <3>1
  <2> QED
    BY <2>2 DEF Drafted, On
<1>5. PICK o : o = Schedule!DraftOf(board)
  OBVIOUS
<1>6. /\ o \in [Schedule!Containers -> Seq(Schedule!Keys)] /\ Len(o[d]) = Len(board.columns[d])
      /\ \A i \in 1..Len(board.columns[d]) : o[d][i][1] = board.columns[d][i]
  BY <1>5, BoardShows, DraftIsOf
<1>7. PICK b : b = DraftBefore[d]
  OBVIOUS
<1>8. b = Without(o[d], Schedule!Staged)
  <2>1. PICK g : g = Schedule!Staged
    OBVIOUS
  <2>2. DraftBefore = Schedule!Removed(o, g)
    BY <1>5, <2>1 DEF DraftBefore
  <2> QED
    BY <1>1, <1>7, <2>1, <2>2, RemovedIs
<1>9. b \in Seq(Schedule!Keys) /\ On(b) = On(o[d]) \ Schedule!Staged
  BY <1>1, <1>6, <1>8, WithoutFacts
<1>10. DOMAIN b = 1..Len(b)
  BY <1>9
<1>11. ASSUME NEW p \in Schedule!PlacesIn(DraftBefore, a), p[1] = d
       PROVE  a \in On(board.columns[d])
  <2>1. PICK e \in ScheduleDays : \E j \in DOMAIN DraftBefore[e] : DraftBefore[e][j][1] = a
            /\ p = <<e, j>>
    BY PlacesAre
  <2>2. PICK j \in DOMAIN DraftBefore[e] : DraftBefore[e][j][1] = a /\ p = <<e, j>>
    BY <2>1
  <2>3. e = d
    BY <1>11, <2>2
  <2>4. j \in 1..Len(b) /\ b[j][1] = a
    BY <1>7, <1>10, <2>2, <2>3
  <2>5. b[j] \in On(o[d])
    BY <1>9, <2>4 DEF On
  <2>6. PICK i \in 1..Len(o[d]) : o[d][i] = b[j]
    BY <2>5 DEF On
  <2>7. board.columns[d][i] = a /\ i \in 1..Len(board.columns[d])
    BY <1>6, <2>4, <2>6
  <2> QED
    BY <2>7 DEF On
<1>12. ASSUME a \in On(board.columns[d]), a \notin Schedule!StagedAnimes
       PROVE  \E i : <<d, i>> \in Schedule!PlacesIn(DraftBefore, a)
  <2>1. PICK i \in 1..Len(board.columns[d]) : board.columns[d][i] = a
    BY <1>12 DEF On
  <2>2. o[d][i][1] = a /\ o[d][i] \in On(o[d])
    BY <1>6, <2>1 DEF On
  <2>3. o[d][i] \notin Schedule!Staged
    BY <1>12, <2>2 DEF Schedule!StagedAnimes
  <2>4. PICK j \in 1..Len(b) : b[j] = o[d][i]
    BY <1>9, <2>2, <2>3 DEF On
  <2>5. j \in DOMAIN DraftBefore[d] /\ DraftBefore[d][j][1] = a
    BY <1>7, <1>10, <2>2, <2>4
  <2>6. <<d, j>> \in Schedule!PlacesIn(DraftBefore, a)
    BY <2>5, PlacesAre
  <2> QED
    BY <2>6
<1> QED
  BY <1>3, <1>4, <1>11, <1>12

LEMMA WantedAnimes ==
  ASSUME ScheduleAssumptions, SlotsFit, BoardIsRead, DraftFits, JoinedIsLater,
         command = Schedule!ApplyEntries,
         Schedule!Changed(command) \subseteq active, ~Schedule!IsStale(command), NEW d \in ScheduleDays
  PROVE  AnimesIn(OfDay(Schedule!Desired(command), d)) = (Drafted(d) \cap active) \cup
           {a \in On(board.columns[d]) \cap active :
              a \notin Schedule!Changed(command) /\ a \in Drafted(Schedule!Staging)}
<1>1. PICK Ch : Ch = Schedule!Changed(command)
  OBVIOUS
<1>2. PICK K : K = OfDay(Schedule!Desired(command), d)
  OBVIOUS
<1>3. \A a : a \in AnimesIn(K) <=> \/ \E s \in placed : s.day = d /\ s.anime = a /\ a \in active
                                      /\ a \notin Ch
                                   \/ a \in Ch /\ a \in Drafted(d)
  <2>1. \A s : s \in K <=> s.day = d /\ (s \in Staying \/ s \in command.places)
    <3>1. K = OfDay(Staying, d) \cup OfDay(command.places, d)
      BY <1>2, DesiredFits
    <3> QED
      BY <3>1 DEF OfDay
  <2>2. \A s : s \in Staying <=> s \in placed /\ s.anime \in active /\ s.anime \notin Ch
    BY <1>1, DesiredFits
  <2>3. \A s : s \in command.places <=> \E e \in ScheduleDays : \E i \in 1..Len(order[e]) :
                order[e][i][1] \in Ch /\ s = [anime |-> order[e][i][1], day |-> e, order |-> i]
    BY <1>1, CommandIs
  <2> TAKE a
  <2>4. ASSUME a \in AnimesIn(K)
        PROVE  \/ \E s \in placed : s.day = d /\ s.anime = a /\ a \in active /\ a \notin Ch
               \/ a \in Ch /\ a \in Drafted(d)
    <3>1. PICK s \in K : s.anime = a
      BY <2>4 DEF AnimesIn
    <3>2. CASE s \in Staying
      BY <2>1, <2>2, <3>1, <3>2
    <3>3. CASE s \in command.places
      <4>1. PICK e \in ScheduleDays : \E i \in 1..Len(order[e]) :
                order[e][i][1] \in Ch /\ s = [anime |-> order[e][i][1], day |-> e, order |-> i]
        BY <2>3, <3>3
      <4>2. PICK i \in 1..Len(order[e]) : order[e][i][1] \in Ch
                /\ s = [anime |-> order[e][i][1], day |-> e, order |-> i]
        BY <4>1
      <4>3. s.day = d
        BY <2>1, <3>1
      <4>4. e = d /\ order[d][i][1] = a /\ i \in 1..Len(order[d])
        BY <3>1, <4>2, <4>3
      <4> QED
        BY <4>2, <4>4 DEF Drafted, On
    <3> QED
      BY <2>1, <3>1, <3>2, <3>3
  <2>5. ASSUME NEW s \in placed, s.day = d, s.anime = a, a \in active, a \notin Ch
        PROVE  a \in AnimesIn(K)
    <3>1. s \in K
      BY <2>1, <2>2, <2>5
    <3> QED
      BY <2>5, <3>1 DEF AnimesIn
  <2>6. ASSUME a \in Ch, a \in Drafted(d)
        PROVE  a \in AnimesIn(K)
    <3>1. PICK i \in 1..Len(order[d]) : order[d][i][1] = a
      BY <2>6 DEF Drafted, On
    <3>2. PICK s : s = [anime |-> order[d][i][1], day |-> d, order |-> i]
      OBVIOUS
    <3>3. s \in command.places
      BY <2>3, <2>6, <3>1, <3>2
    <3>4. s \in K /\ s.anime = a
      BY <2>1, <3>1, <3>2, <3>3
    <3> QED
      BY <3>4 DEF AnimesIn
  <2> QED
    BY <2>4, <2>5, <2>6
<1>4. \A a \in active : a \in DOMAIN board.entries
  <2> SUFFICES ASSUME NEW a \in active, a \notin DOMAIN board.entries PROVE FALSE
    OBVIOUS
  <2>1. modified[a] > board.modifiedAt /\ modified[a] <= Schedule!BoardModifiedAt
    BY BoardModifiedIs DEF JoinedIsLater
  <2>2. board.modifiedAt = Schedule!BoardModifiedAt
    BY CommandIs DEF Schedule!IsStale
  <2>3. modified[a] \in Nat /\ board.modifiedAt \in Nat
    BY DEF SlotsFit, BoardIsRead
  <2> QED
    BY <2>1, <2>2, <2>3
<1>5. \A a : a \in On(board.columns[d]) <=> \E s \in placed : s.day = d /\ s.anime = a
          /\ a \in DOMAIN board.entries
  BY BoardShows
<1>6. \A a \in DOMAIN board.entries : a \notin Ch <=>
         \/ Schedule!PlacesIn(DraftBefore, a) = Schedule!PlacesIn(order, a)
         \/ Schedule!PlacesIn(order, a) = {} /\ a \in Schedule!StagedAnimes
  BY <1>1, CommandIs
<1>7. ASSUME NEW a, a \in AnimesIn(K)
      PROVE  a \in active /\ (a \in Drafted(d) \/
               (a \in On(board.columns[d]) /\ a \notin Ch /\ a \in Drafted(Schedule!Staging)))
  <2>1. CASE a \in Ch /\ a \in Drafted(d)
    BY <1>1, <2>1
  <2>2. CASE \E s \in placed : s.day = d /\ s.anime = a /\ a \in active /\ a \notin Ch
    <3>1. a \in active /\ a \notin Ch /\ a \in DOMAIN board.entries /\ a \in On(board.columns[d])
      BY <1>4, <1>5, <2>2
    <3>2. CASE a \in Schedule!StagedAnimes
      BY <3>1, <3>2, DraftShows
    <3>3. CASE a \notin Schedule!StagedAnimes
      <4>1. Schedule!PlacesIn(DraftBefore, a) = Schedule!PlacesIn(order, a)
        BY <1>6, <3>1, <3>3
      <4>2. PICK i : <<d, i>> \in Schedule!PlacesIn(order, a)
        BY <3>1, <3>3, <4>1, DraftShows
      <4>3. PICK e \in ScheduleDays : \E j \in DOMAIN order[e] : order[e][j][1] = a
                /\ <<d, i>> = <<e, j>>
        BY <4>2, PlacesAre
      <4>4. i \in DOMAIN order[d]
        BY <4>3
      <4>5. i \in 1..Len(order[d])
        <5>1. order[d] \in Seq(Schedule!Keys)
          BY DEF DraftFits, Schedule!Containers
        <5> QED
          BY <4>4, <5>1
      <4>6. a \in Drafted(d)
        BY <4>2, <4>5, DraftShows
      <4> QED
        BY <3>1, <4>6
    <3> QED
      BY <3>2, <3>3
  <2> QED
    BY <1>3, <1>7, <2>1, <2>2
<1>8. ASSUME NEW a \in active, a \in Drafted(d)
      PROVE  a \in AnimesIn(K)
  <2>1. CASE a \in Ch
    BY <1>3, <1>8, <2>1
  <2>2. CASE a \notin Ch
    <3>1. a \in DOMAIN board.entries
      BY <1>4
    <3>2. PICK i \in 1..Len(order[d]) : <<d, i>> \in Schedule!PlacesIn(order, a)
      BY <1>8, DraftShows
    <3>3. Schedule!PlacesIn(DraftBefore, a) = Schedule!PlacesIn(order, a)
      BY <1>6, <2>2, <3>1, <3>2
    <3>4. PICK p : p = <<d, i>> /\ p \in Schedule!PlacesIn(DraftBefore, a) /\ p[1] = d
      BY <3>2, <3>3
    <3>5. a \in On(board.columns[d])
      BY <3>4, DraftShows
    <3>6. \E s \in placed : s.day = d /\ s.anime = a
      BY <1>5, <3>5
    <3> QED
      BY <1>3, <2>2, <3>6
  <2> QED
    BY <2>1, <2>2
<1>9. ASSUME NEW a \in active, a \in On(board.columns[d]), a \notin Ch
      PROVE  a \in AnimesIn(K)
  <2>1. \E s \in placed : s.day = d /\ s.anime = a
    BY <1>5, <1>9
  <2> QED
    BY <1>3, <1>9, <2>1
<1> QED
  BY <1>1, <1>2, <1>7, <1>8, <1>9

-----------------------------------------------------------------------------
(* The order of each day                                                   *)

\* With nothing parked, an anime that is not in the command is where the board showed it.
LEMMA SamePlaces ==
  ASSUME ScheduleAssumptions, SlotsFit, BoardIsRead, DraftFits, command = Schedule!ApplyEntries,
         order[Schedule!Staging] = <<>>, NEW d \in ScheduleDays, NEW a \in DOMAIN board.entries,
         a \notin Schedule!Changed(command)
  PROVE  \A i : i \in 1..Len(order[d]) /\ order[d][i][1] = a
                  <=> i \in 1..Len(board.columns[d]) /\ board.columns[d][i] = a
<1>1. d \in Schedule!Containers /\ order[d] \in Seq(Schedule!Keys)
  BY DEF DraftFits, Schedule!Containers
<1>2. Schedule!Staged = {}
  <2>1. PICK w : w = order[Schedule!Staging] /\ w = <<>>
    OBVIOUS
  <2>2. Schedule!Range(w) = {}
    BY <2>1 DEF Schedule!Range
  <2> QED
    BY <2>1, <2>2 DEF Schedule!Staged
<1>3. PICK o, c : o = Schedule!DraftOf(board)[d] /\ c = board.columns[d]
  OBVIOUS
<1>4. board.columns \in [ScheduleDays -> Seq(ScheduleAnimes)]
  BY BoardShows
<1>5. /\ o \in Seq(Schedule!Keys) /\ Len(o) = Len(c) /\ \A i \in 1..Len(c) : o[i][1] = c[i]
  BY <1>1, <1>3, <1>4, DraftIsOf
<1>6. DraftBefore[d] = o
  <2>1. PICK g : g = Schedule!Staged /\ g = {}
    BY <1>2
  <2>2. DraftBefore = Schedule!Removed(Schedule!DraftOf(board), g)
    BY <2>1 DEF DraftBefore
  <2>3. DraftBefore[d] = Without(o, g)
    BY <1>1, <1>3, <2>2, RemovedIs
  <2>4. On(o) \cap g = {}
    BY <2>1
  <2> QED
    BY <1>5, <2>3, <2>4, WithoutNone
<1>7. Schedule!PlacesIn(DraftBefore, a) = Schedule!PlacesIn(order, a)
  <2>1. a \notin Schedule!StagedAnimes
    BY <1>2 DEF Schedule!StagedAnimes
  <2> QED
    BY <2>1, CommandIs
<1>8. ASSUME NEW draft, NEW i
      PROVE  <<d, i>> \in Schedule!PlacesIn(draft, a) <=> i \in DOMAIN draft[d] /\ draft[d][i][1] = a
  <2>1. <<d, i>> \in Schedule!PlacesIn(draft, a) <=>
           \E e \in ScheduleDays : \E j \in DOMAIN draft[e] : draft[e][j][1] = a /\ <<d, i>> = <<e, j>>
    BY PlacesAre
  <2> QED
    BY <2>1
<1> TAKE i
<1>9. <<d, i>> \in Schedule!PlacesIn(order, a) <=> i \in 1..Len(order[d]) /\ order[d][i][1] = a
  BY <1>1, <1>8
<1>10. <<d, i>> \in Schedule!PlacesIn(DraftBefore, a) <=> i \in 1..Len(c) /\ c[i] = a
  <2>1. DOMAIN o = 1..Len(c)
    BY <1>5
  <2> QED
    BY <1>5, <1>6, <1>8, <2>1
<1> QED
  BY <1>3, <1>7, <1>9, <1>10

\* The places of the wanted slots of a day on the draft.
ShownOn(d) == OfDay(OfAnimes(placed, active), d)
Seats(d, f) ==
  /\ \A s \in OfDay(Schedule!Desired(command), d) : f[s] \in 1..Len(order[d])
        /\ order[d][f[s]][1] = s.anime
  /\ \A r, s \in OfDay(Schedule!Desired(command), d) : f[r] = f[s] => r = s
  /\ \A p \in 1..Len(order[d]) : \E s \in OfDay(Schedule!Desired(command), d) : f[s] = p
  /\ \A s \in OfDay(command.places, d) : f[s] = s.order
  /\ \A s \in OfDay(Staying, d) : s \in ShownOn(d) /\ f[s] = Cardinality(Ahead(ShownOn(d), s)) + 1
  /\ \A r, s \in OfDay(Staying, d) : Schedule!Precedes(r, s) => f[r] < f[s]

LEMMA FreshSeats ==
  ASSUME ScheduleAssumptions, SlotsFit, BoardIsRead, DraftFits, command = Schedule!ApplyEntries,
         DOMAIN board.entries = active, order[Schedule!Staging] = <<>>, NEW d \in ScheduleDays
  PROVE  \E f : Seats(d, f)
<1>1. PICK K, P, M, S, L : /\ K = OfDay(Schedule!Desired(command), d) /\ P = ShownOn(d)
                              /\ L = Len(order[d])
                           /\ M = OfDay(command.places, d) /\ S = OfDay(Staying, d)
  OBVIOUS
<1>2. PICK Ch : Ch = Schedule!Changed(command)
  OBVIOUS
<1>3. PICK o : o = order[d]
  OBVIOUS
<1>4. o \in Seq(Schedule!Keys) /\ L = Len(o) /\ L \in Nat
  <2>1. order[d] \in Seq(Schedule!Keys)
    BY DEF DraftFits, Schedule!Containers
  <2> QED
    BY <1>1, <1>3, <2>1
<1>5. PICK slots, w : slots = OfAnimes(placed, active) /\ w = Schedule!Column(slots, d)
  OBVIOUS
<1>6. /\ slots \in SUBSET Schedule!Placements /\ P = OfDay(slots, d) /\ IsFiniteSet(P)
      /\ board.columns[d] \in Seq(ScheduleAnimes)
      /\ Len(board.columns[d]) = Len(w) /\ \A i \in 1..Len(w) : board.columns[d][i] = w[i].anime
  <2>1. board.columns = ColumnsOf(placed, active)
    BY DEF BoardIsRead
  <2>2. PlacedFits(placed)
    BY DEF SlotsFit, PlacedFits
  <2>3. /\ ColumnsOf(placed, active)[d] \in Seq(ScheduleAnimes)
        /\ slots \in SUBSET Schedule!Placements /\ IsFiniteSet(OfDay(slots, d))
        /\ Len(ColumnsOf(placed, active)[d]) = Len(w)
        /\ \A i \in 1..Len(w) : ColumnsOf(placed, active)[d][i] = w[i].anime
    BY <1>5, <2>2, ColumnsAre
  <2> QED
    BY <1>1, <1>5, <2>1, <2>3 DEF ShownOn
<1>7. /\ w \in Seq(P) /\ On(w) = P
      /\ \A i \in 1..Len(w) : Cardinality(Ahead(P, w[i])) = i - 1
  BY <1>5, <1>6, ColumnIs
<1>8. K = S \cup M /\ S \cap M = {}
  BY <1>1, DesiredFits
<1>9. \A s \in S : s \in P /\ s.anime \notin Ch /\ s.anime \in active
  <2>1. \A s \in Staying : s \in placed /\ s.anime \in active /\ s.anime \notin Ch
    BY <1>2, DesiredFits
  <2> QED
    BY <1>1, <2>1 DEF OfDay, ShownOn, OfAnimes
<1>10. \A s : s \in M <=> \E i \in 1..L : o[i][1] \in Ch
           /\ s = [anime |-> o[i][1], day |-> d, order |-> i]
  <2> TAKE s
  <2>1. s \in M <=> s \in command.places /\ s.day = d
    BY <1>1 DEF OfDay
  <2>2. s \in command.places <=> \E e \in ScheduleDays : \E i \in 1..Len(order[e]) :
                order[e][i][1] \in Ch /\ s = [anime |-> order[e][i][1], day |-> e, order |-> i]
    BY <1>2, CommandIs
  <2>3. ASSUME s \in command.places, s.day = d
        PROVE  \E i \in 1..L : o[i][1] \in Ch /\ s = [anime |-> o[i][1], day |-> d, order |-> i]
    <3>1. PICK e \in ScheduleDays : \E i \in 1..Len(order[e]) :
                order[e][i][1] \in Ch /\ s = [anime |-> order[e][i][1], day |-> e, order |-> i]
      BY <2>2, <2>3
    <3>2. e = d
      BY <2>3, <3>1
    <3> QED
      BY <1>1, <1>3, <3>1, <3>2
  <2>4. ASSUME NEW i \in 1..L, o[i][1] \in Ch, s = [anime |-> o[i][1], day |-> d, order |-> i]
        PROVE  s \in command.places /\ s.day = d
    BY <1>1, <1>3, <2>2, <2>4
  <2> QED
    BY <2>1, <2>3, <2>4
<1>11. ASSUME NEW a \in active, a \notin Ch
       PROVE  \A i : i \in 1..L /\ o[i][1] = a <=> i \in 1..Len(w) /\ w[i].anime = a
  <2>1. \A i : i \in 1..L /\ o[i][1] = a <=> i \in 1..Len(board.columns[d]) /\ board.columns[d][i] = a
    BY <1>1, <1>2, <1>3, <1>11, SamePlaces
  <2> QED
    BY <1>6, <2>1
<1> DEFINE g == [s \in K |-> IF s \in M THEN s.order ELSE Cardinality(Ahead(P, s)) + 1]
<1>12. PICK f : f = g
  OBVIOUS
<1>13. \A s \in M : f[s] = s.order /\ f[s] \in 1..L /\ o[f[s]][1] = s.anime /\ s.anime \in Ch
  <2> TAKE s \in M
  <2>1. PICK i \in 1..L : o[i][1] \in Ch /\ s = [anime |-> o[i][1], day |-> d, order |-> i]
    BY <1>10
  <2>2. f[s] = s.order
    BY <1>8, <1>12
  <2> QED
    BY <2>1, <2>2
<1>14. \A s \in S : f[s] = Cardinality(Ahead(P, s)) + 1 /\ f[s] \in 1..Len(w) /\ w[f[s]] = s
  <2> TAKE s \in S
  <2>1. f[s] = Cardinality(Ahead(P, s)) + 1
    BY <1>8, <1>12
  <2>2. PICK i \in 1..Len(w) : w[i] = s
    BY <1>7, <1>9 DEF On
  <2>3. Cardinality(Ahead(P, s)) = i - 1 /\ i \in Nat
    BY <1>7, <2>2
  <2> QED
    BY <2>1, <2>2, <2>3
<1>15. \A s \in S : f[s] \in 1..L /\ o[f[s]][1] = s.anime
  <2> TAKE s \in S
  <2>1. f[s] \in 1..Len(w) /\ w[f[s]].anime = s.anime /\ s.anime \in active /\ s.anime \notin Ch
    BY <1>9, <1>14
  <2> QED
    BY <1>11, <2>1
<1>16. \A s \in K : f[s] \in 1..L /\ o[f[s]][1] = s.anime
  BY <1>8, <1>13, <1>15
<1>17. \A r, s \in K : f[r] = f[s] => r = s
  <2> SUFFICES ASSUME NEW r \in K, NEW s \in K, f[r] = f[s] PROVE r = s
    OBVIOUS
  <2>1. r.anime = s.anime
    BY <1>16
  <2>2. CASE r \in M /\ s \in M
    <3>1. PICK i \in 1..L : r = [anime |-> o[i][1], day |-> d, order |-> i]
      BY <1>10, <2>2
    <3>2. PICK j \in 1..L : s = [anime |-> o[j][1], day |-> d, order |-> j]
      BY <1>10, <2>2
    <3>3. i = j
      BY <1>13, <2>2, <3>1, <3>2
    <3> QED
      BY <3>1, <3>2, <3>3
  <2>3. CASE r \in S /\ s \in S
    BY <1>14, <2>3
  <2> QED
    BY <1>8, <1>9, <1>13, <2>1, <2>2, <2>3
<1>18. \A p \in 1..L : \E s \in K : f[s] = p
  <2> TAKE p \in 1..L
  <2>1. PICK a : a = o[p][1]
    OBVIOUS
  <2>2. a \in active
    <3>1. o[p] \in On(order[d]) /\ d \in Schedule!Containers
      BY <1>1, <1>3 DEF On, Schedule!Containers
    <3> QED
      BY <2>1, <3>1 DEF DraftFits
  <2>3. CASE a \in Ch
    <3>1. PICK s : s = [anime |-> o[p][1], day |-> d, order |-> p]
      OBVIOUS
    <3>2. s \in M /\ s.order = p
      BY <1>10, <2>1, <2>3, <3>1
    <3> QED
      BY <1>8, <1>13, <3>2
  <2>4. CASE a \notin Ch
    <3>1. p \in 1..Len(w) /\ w[p].anime = a
      BY <1>11, <2>1, <2>2, <2>4
    <3>2. w[p] \in P /\ Cardinality(Ahead(P, w[p])) = p - 1
      BY <1>7, <3>1
    <3>3. PICK s : s = w[p]
      OBVIOUS
    <3>4. s \in S
      <4>1. s \in placed /\ s.anime \in active /\ s.day = d
        BY <1>1, <3>2, <3>3 DEF ShownOn, OfDay, OfAnimes
      <4>2. s \in Staying
        BY <1>2, <2>4, <3>1, <3>3, <4>1, DesiredFits
      <4> QED
        BY <1>1, <4>1, <4>2 DEF OfDay
    <3>5. f[s] = p
      BY <1>14, <3>2, <3>3, <3>4
    <3> QED
      BY <1>8, <3>4, <3>5
  <2> QED
    BY <2>3, <2>4
<1>19. \A r, s \in S : Schedule!Precedes(r, s) => f[r] < f[s]
  <2> SUFFICES ASSUME NEW r \in S, NEW s \in S, Schedule!Precedes(r, s) PROVE f[r] < f[s]
    OBVIOUS
  <2>1. P \in SUBSET OfDay(Schedule!Placements, d)
    BY <1>6 DEF OfDay
  <2>2. Cardinality(Ahead(P, r)) < Cardinality(Ahead(P, s))
    BY <1>6, <1>9, <2>1, AheadCounts
  <2>3. Cardinality(Ahead(P, r)) \in Nat /\ Cardinality(Ahead(P, s)) \in Nat
    BY <1>6, <1>9, <2>1, AheadCounts
  <2> QED
    BY <1>14, <2>2, <2>3
<1>20. Seats(d, f)
  BY <1>1, <1>3, <1>9, <1>13, <1>14, <1>16, <1>17, <1>18, <1>19 DEF Seats
<1> QED
  BY <1>20

\* Each slot has its place of 1 to L.
OnePlaceEach(K, f, L) ==
  /\ L \in Nat /\ \A s \in K : f[s] \in 1..L
  /\ \A r, s \in K : f[r] = f[s] => r = s
  /\ \A p \in 1..L : \E s \in K : f[s] = p

LEMMA SeatsCount ==
  ASSUME NEW K, NEW f, NEW L, OnePlaceEach(K, f, L)
  PROVE  IsFiniteSet(K) /\ Cardinality(K) = L
<1>a. /\ L \in Nat /\ \A s \in K : f[s] \in 1..L
      /\ \A r, s \in K : f[r] = f[s] => r = s
      /\ \A p \in 1..L : \E s \in K : f[s] = p
  BY DEF OnePlaceEach
<1> DEFINE g == [s \in K |-> f[s]]
<1>1. g \in Bijection(K, 1..L)
  <2>1. g \in [K -> 1..L]
    BY <1>a
  <2>2. \A r, s \in K : g[r] = g[s] => r = s
    BY <1>a
  <2>3. \A p \in 1..L : \E s \in K : g[s] = p
    BY <1>a
  <2> HIDE DEF g
  <2> QED
    BY <2>1, <2>2, <2>3 DEF Bijection, Injection, Surjection, IsInjective
<1>2. IsFiniteSet(1..L) /\ Cardinality(1..L) = L
  <2>1. 1 \in Int /\ L \in Int
    BY <1>a
  <2>2. IsFiniteSet(1..L) /\ Cardinality(1..L) = IF 1 > L THEN 0 ELSE L - 1 + 1
    BY <2>1, FS_Interval
  <2> QED
    BY <1>a, <2>2
<1>3. g \in Injection(K, 1..L)
  BY <1>1 DEF Bijection
<1>4. IsFiniteSet(K)
  BY <1>2, <1>3, FS_Injection
<1>5. ExistsBijection(K, 1..L)
  BY <1>1 DEF ExistsBijection
<1> QED
  BY <1>2, <1>4, <1>5, FS_Bijection

\* Where the board had no gaps, a slot that stays is at the place of its number.
LEMMA SeatIsOrder ==
  ASSUME ScheduleAssumptions, NEW d, NEW slots \in SUBSET Schedule!Placements,
         IsFiniteSet(OfDay(slots, d)),
         {s.order : s \in OfDay(slots, d)} = 1..Cardinality(OfDay(slots, d))
  PROVE  \A s \in OfDay(slots, d) : Cardinality(Ahead(OfDay(slots, d), s)) + 1 = s.order
<1>1. PICK P, u : P = OfDay(slots, d) /\ u = Schedule!Column(slots, d)
  OBVIOUS
<1>2. PICK n : n = Cardinality(P)
  OBVIOUS
<1>3. IsFiniteSet(P) /\ n \in Nat /\ {s.order : s \in P} = 1..n
  BY <1>1, <1>2, FS_CardinalityType
<1>4. /\ u \in Seq(P) /\ On(u) = P /\ Len(u) = n
      /\ \A i, j \in 1..Len(u) : i < j <=> Schedule!Precedes(u[i], u[j])
      /\ \A i \in 1..Len(u) : Cardinality(Ahead(P, u[i])) = i - 1
  BY <1>1, <1>2, ColumnIs
<1>5. \A s \in P : s.order \in Nat \ {0}
  BY <1>1 DEF OfDay, Schedule!Placements
<1> DEFINE g == [s \in P |-> s.order]
<1>6. \A r, s \in P : r.order = s.order => r = s
  <2>1. g \in Surjection(P, 1..n)
    BY <1>3 DEF Surjection
  <2>2. Cardinality(1..n) = n
    <3>1. 1 \in Int /\ n \in Int
      BY <1>3
    <3>2. Cardinality(1..n) = IF 1 > n THEN 0 ELSE n - 1 + 1
      BY <3>1, FS_Interval
    <3> QED
      BY <1>3, <3>2
  <2>3. g \in Injection(P, 1..n)
    BY <1>2, <1>3, <2>1, <2>2, FS_SurjSameCardinalityImpliesInj
  <2> QED
    BY <2>3 DEF Injection, IsInjective
<1>7. PICK f : f = g
  OBVIOUS
<1>8. \A s \in P : f[s] = s.order
  BY <1>7
<1>9. Sorting(P, u, f, n)
  <2>1. \A x \in P : f[x] \in Nat \ {0}
    BY <1>5, <1>8
  <2>2. ASSUME NEW i \in 1..Len(u), NEW j \in 1..Len(u), i < j
        PROVE  f[u[i]] < f[u[j]]
    <3>1. u[i] \in P /\ u[j] \in P /\ Schedule!Precedes(u[i], u[j])
              /\ ~Schedule!Precedes(u[j], u[i]) /\ u[i] # u[j]
      <4>1. ~Schedule!Precedes(u[i], u[i])
        BY <1>4
      <4> QED
        BY <1>4, <2>2, <4>1
    <3>2. u[i].order < u[j].order
      BY <1>5, <1>6, <3>1 DEF Schedule!Precedes
    <3> QED
      BY <1>8, <3>1, <3>2
  <2>3. ASSUME NEW p \in 1..n
        PROVE  \E i \in 1..Len(u) : f[u[i]] = p
    <3>1. PICK s \in P : s.order = p
      BY <1>3
    <3>2. PICK i \in 1..Len(u) : u[i] = s
      BY <1>4 DEF On
    <3> QED
      BY <1>8, <3>1, <3>2
  <2> QED
    BY <1>3, <1>4, <2>1, <2>2, <2>3 DEF Sorting
<1>10. \A i \in 1..n : f[u[i]] = i
  BY <1>9, SortedPlaces
<1>11. \A s \in P : Cardinality(Ahead(P, s)) + 1 = s.order
  <2> TAKE s \in P
  <2>1. PICK i \in 1..Len(u) : u[i] = s
    BY <1>4 DEF On
  <2>2. s.order = i /\ Cardinality(Ahead(P, s)) = i - 1 /\ i \in Nat
    BY <1>3, <1>4, <1>8, <1>10, <2>1
  <2> QED
    BY <2>2
<1> QED
  BY <1>1, <1>11

\* Two numberings of a column: by number, and by place.  Where they agree on the slots that
\* moved and put those that stay in one order, they are the same.
TwoNumberings(K, v, f, L) ==
  /\ v \in Seq(K) /\ On(v) = K /\ L \in Nat /\ Len(v) = L
  /\ \A s \in K : f[s] \in 1..L /\ s.order \in Nat
  /\ \A r, s \in K : f[r] = f[s] => r = s
  /\ \A p \in 1..L : \E s \in K : f[s] = p
  /\ \A i \in 1..L : v[i].order = i
  /\ \A r, s \in K : f[r] = r.order \/ f[s] = s.order \/ (r.order < s.order => f[r] < f[s])

LEMMA NumberingsAgree ==
  ASSUME NEW K, NEW v, NEW f, NEW L, TwoNumberings(K, v, f, L)
  PROVE  \A i \in 1..L : f[v[i]] = i
<1>a. v \in Seq(K) /\ On(v) = K /\ L \in Nat /\ Len(v) = L
  BY DEF TwoNumberings
<1>b. \A s \in K : f[s] \in 1..L /\ s.order \in Nat
  BY DEF TwoNumberings
<1>c. \A r, s \in K : f[r] = f[s] => r = s
  BY DEF TwoNumberings
<1>d. \A p \in 1..L : \E s \in K : f[s] = p
  BY DEF TwoNumberings
<1>e. \A i \in 1..L : v[i].order = i
  BY DEF TwoNumberings
<1>f. \A r, s \in K : f[r] = r.order \/ f[s] = s.order \/ (r.order < s.order => f[r] < f[s])
  BY DEF TwoNumberings
<1> DEFINE B == {i \in 1..L : f[v[i]] # i}
<1>1. SUFFICES ASSUME B # {} PROVE FALSE
  OBVIOUS
<1>2. PICK i \in B : \A j \in B : i <= j
  <2>1. B \in SUBSET Nat
    BY <1>a
  <2> QED
    BY <1>1, <2>1, HasLeast
<1>3. i \in 1..L /\ f[v[i]] # i /\ \A j \in 1..L : j < i => f[v[j]] = j
  <2>1. i \in 1..L /\ f[v[i]] # i
    BY <1>2
  <2>2. ASSUME NEW j \in 1..L, j < i PROVE f[v[j]] = j
    <3>1. j \notin B
      BY <1>2, <2>1, <2>2
    <3> QED
      BY <3>1
  <2> QED
    BY <2>1, <2>2
<1> HIDE DEF B
<1>4. PICK x, y : x = v[i] /\ y \in K /\ f[y] = i
  BY <1>d, <1>3
<1>5. x \in K /\ x.order = i /\ f[x] \in 1..L /\ f[x] # i
  BY <1>a, <1>b, <1>e, <1>3, <1>4
<1>6. PICK k \in 1..L : v[k] = y
  BY <1>a, <1>4 DEF On
<1>7. y.order = k /\ k # i
  BY <1>e, <1>4, <1>5, <1>6
<1>8. k > i
  <2> SUFFICES ASSUME k < i PROVE FALSE
    BY <1>a, <1>3, <1>7
  <2>1. f[y] = k
    BY <1>3, <1>6
  <2> QED
    BY <1>4, <1>7, <2>1
<1>9. f[x] > i
  <2> SUFFICES ASSUME f[x] < i PROVE FALSE
    BY <1>a, <1>3, <1>5
  <2>1. PICK j : j = f[x]
    OBVIOUS
  <2>2. j \in 1..L /\ j < i
    BY <1>5, <2>1
  <2>3. f[v[j]] = j /\ v[j] \in K
    BY <1>a, <1>3, <2>2
  <2>4. v[j] = x
    BY <1>c, <1>5, <2>1, <2>3
  <2> QED
    BY <1>a, <1>e, <1>5, <2>2, <2>4
<1>10. f[x] # x.order /\ f[y] # y.order /\ x.order < y.order
  BY <1>4, <1>5, <1>7, <1>8
<1>11. f[x] < f[y]
  BY <1>f, <1>4, <1>5, <1>10
<1> QED
  BY <1>a, <1>3, <1>4, <1>5, <1>9, <1>11

\* The column of a day as stored is the one the draft shows.
ShowsDraft(d) ==
  LET v == Schedule!Column(Schedule!Normalized(command), d)
  IN  Len(v) = Len(order[d]) /\ \A i \in 1..Len(order[d]) : v[i].anime = order[d][i][1]

LEMMA ReflowedShows ==
  ASSUME ScheduleAssumptions, SlotsFit, BoardIsRead, DraftFits, command = Schedule!ApplyEntries,
         NEW d \in ScheduleDays, NEW f, Seats(d, f), d \in Schedule!Reflowed(command)
  PROVE  /\ ShowsDraft(d)
         /\ {s.order : s \in OfDay(Schedule!Normalized(command), d)}
               = 1..Cardinality(OfDay(Schedule!Normalized(command), d))
<1>1. PICK K, stay, moved, L, w :
        /\ K = OfDay(Schedule!Desired(command), d) /\ L = Len(order[d])
              /\ w = Schedule!Merged(command, d)
        /\ stay = Schedule!Column(Staying, d) /\ moved = Schedule!Column(command.places, d)
  OBVIOUS
<1>2. /\ stay \in Seq(K) /\ moved \in Seq(K) /\ On(stay) = OfDay(Staying, d)
            /\ On(moved) = OfDay(command.places, d)
      /\ w = Schedule!Insertions(stay, moved)[Len(moved)]
  BY <1>1, MergedIs
<1>3. K \subseteq Schedule!Placements
  <2>1. K \subseteq Schedule!Desired(command)
    BY <1>1 DEF OfDay
  <2> QED
    BY <2>1, DesiredFits
<1>4. PICK o : o = order[d]
  OBVIOUS
<1>5. o \in Seq(Schedule!Keys) /\ L \in Nat
  <2>1. order[d] \in Seq(Schedule!Keys)
    BY DEF DraftFits, Schedule!Containers
  <2> QED
    BY <1>1, <1>4, <2>1
<1>6. /\ \A s \in K : f[s] \in 1..L /\ o[f[s]][1] = s.anime
      /\ \A r, s \in K : f[r] = f[s] => r = s
      /\ \A p \in 1..L : \E s \in K : f[s] = p
      /\ \A s \in On(moved) : f[s] = s.order
      /\ \A r, s \in On(stay) : Schedule!Precedes(r, s) => f[r] < f[s]
  BY <1>1, <1>2, <1>4 DEF Seats
<1>7. PutInPlaces(K, stay, moved, f, L)
  <2>1. On(stay) \cup On(moved) = K /\ On(stay) \cap On(moved) = {}
    BY <1>1, <1>2, DesiredFits
  <2>2. \A x \in K : x.order \in Nat \ {0} /\ f[x] \in Nat /\ f[x] >= 1 /\ f[x] <= L
    <3> TAKE x \in K
    <3>1. x.order \in Nat \ {0}
      BY <1>3 DEF Schedule!Placements
    <3>2. f[x] \in 1..L
      BY <1>6
    <3> QED
      BY <1>5, <3>1, <3>2
  <2>3. ASSUME NEW i \in 1..Len(stay), NEW j \in 1..Len(stay), i < j
        PROVE  f[stay[i]] < f[stay[j]]
    <3>1. Staying \in SUBSET Schedule!Placements /\ IsFiniteSet(OfDay(Staying, d))
      BY DesiredFits
    <3>2. Schedule!Precedes(stay[i], stay[j])
      BY <1>1, <2>3, <3>1, ColumnIs
    <3>3. stay[i] \in On(stay) /\ stay[j] \in On(stay)
      BY DEF On
    <3> QED
      BY <1>6, <3>2, <3>3
  <2>4. \A i \in 1..Len(moved) : moved[i] \in On(moved) /\ f[moved[i]] = moved[i].order
    BY <1>6 DEF On
  <2>5. ASSUME NEW i \in 1..Len(moved), NEW j \in 1..Len(moved), i < j
        PROVE  f[moved[i]] < f[moved[j]]
    <3>1. command.places \in SUBSET Schedule!Placements /\ IsFiniteSet(OfDay(command.places, d))
      BY DesiredFits
    <3>2. Schedule!Precedes(moved[i], moved[j])
      BY <1>1, <2>5, <3>1, ColumnIs
    <3>3. moved[i] \in K /\ moved[j] \in K
      BY <1>2
    <3>4. moved[i] # moved[j]
      <4>1. ~Schedule!Precedes(moved[i], moved[i])
        BY <1>1, <3>1, ColumnIs
      <4> QED
        BY <3>2, <4>1
    <3>5. f[moved[i]] # f[moved[j]]
      BY <1>6, <3>3, <3>4
    <3>6. PICK p, q : p = moved[i].order /\ q = moved[j].order
      OBVIOUS
    <3>7. f[moved[i]] = p /\ f[moved[j]] = q /\ p \in Nat /\ q \in Nat /\ (p < q \/ p = q)
      BY <2>2, <2>4, <3>2, <3>3, <3>6 DEF Schedule!Precedes
    <3> QED
      BY <3>5, <3>7
  <2> QED
    BY <1>2, <1>5, <1>6, <2>1, <2>2, <2>3, <2>4, <2>5 DEF PutInPlaces
<1>8. w \in Seq(K) /\ On(w) = K /\ Len(w) = L /\ \A i \in 1..L : f[w[i]] = i
  BY <1>2, <1>7, InsertionsOrdered
<1>9. \A i \in 1..L : w[i].anime = o[i][1]
  <2> TAKE i \in 1..L
  <2>1. w[i] \in K /\ f[w[i]] = i
    BY <1>8
  <2> QED
    BY <1>6, <2>1
<1>10. PICK A : A = OfDay(Schedule!Normalized(command), d)
  OBVIOUS
<1>11. A = Renumbered(w, d)
  <2>1. PICK x : Arranged(d, x)
    BY NormalizedIs
  <2> QED
    BY <1>1, <1>10, <2>1 DEF Arranged
<1>12. Schedule!Normalized(command) \in SUBSET Schedule!Placements /\ IsFiniteSet(A)
  BY <1>10, NormalizedFits
<1> DEFINE g == [i \in 1..L |-> [anime |-> w[i].anime, day |-> d, order |-> i]]
<1>13. PICK x : x = g
  OBVIOUS
<1>14. /\ Len(x) = L /\ \A i \in 1..L : x[i] = [anime |-> w[i].anime, day |-> d, order |-> i]
             /\ x[i] \in A
       /\ On(x) = A /\ x \in Seq(A)
  <2>1. \A i \in 1..L : x[i] = [anime |-> w[i].anime, day |-> d, order |-> i] /\ x[i] \in A
    BY <1>8, <1>11, <1>13 DEF Renumbered
  <2>2. x \in Seq(A) /\ Len(x) = L
    BY <1>5, <1>13, <2>1
  <2>3. On(x) = A
    BY <1>8, <1>11, <2>1, <2>2 DEF Renumbered, On
  <2> QED
    BY <2>1, <2>2, <2>3
<1>15. \A i, j \in 1..Len(x) : i < j => Schedule!Precedes(x[i], x[j])
  BY <1>14 DEF Schedule!Precedes
<1>16. x = Schedule!Column(Schedule!Normalized(command), d) /\ L = Cardinality(A)
  BY <1>10, <1>12, <1>14, <1>15, ColumnUnique
<1>17. \A i \in 1..L : x[i].anime = o[i][1]
  BY <1>9, <1>14
<1>18. {s.order : s \in A} = 1..L
  <2>1. \A i \in 1..L : x[i].order = i
    BY <1>14
  <2>2. \A s \in A : \E i \in 1..L : s = x[i]
    BY <1>14 DEF On
  <2> QED
    BY <1>14, <2>1, <2>2
<1> QED
  BY <1>1, <1>4, <1>10, <1>14, <1>16, <1>17, <1>18 DEF ShowsDraft

LEMMA PlainShows ==
  ASSUME ScheduleAssumptions, SlotsFit, BoardIsRead, DraftFits, command = Schedule!ApplyEntries,
         NEW d \in ScheduleDays, NEW f, Seats(d, f), d \notin Schedule!Reflowed(command),
         d \in Schedule!Affected(command),
         {s.order : s \in OfDay(Schedule!Desired(command), d)}
             = 1..Cardinality(OfDay(Schedule!Desired(command), d))
  PROVE  ShowsDraft(d)
<1>1. PICK K, L, v, o : /\ K = OfDay(Schedule!Desired(command), d) /\ L = Len(order[d]) /\ o = order[d]
                        /\ v = Schedule!Column(Schedule!Normalized(command), d)
  OBVIOUS
<1>2. o \in Seq(Schedule!Keys) /\ L \in Nat
  <2>1. order[d] \in Seq(Schedule!Keys)
    BY DEF DraftFits, Schedule!Containers
  <2> QED
    BY <1>1, <2>1
<1>3. /\ \A s \in K : f[s] \in 1..L /\ o[f[s]][1] = s.anime
      /\ \A r, s \in K : f[r] = f[s] => r = s
      /\ \A p \in 1..L : \E s \in K : f[s] = p
      /\ \A s \in OfDay(command.places, d) : f[s] = s.order
      /\ \A r, s \in OfDay(Staying, d) : Schedule!Precedes(r, s) => f[r] < f[s]
  BY <1>1 DEF Seats
<1>4. IsFiniteSet(K) /\ Cardinality(K) = L
  <2>1. OnePlaceEach(K, f, L)
    BY <1>2, <1>3 DEF OnePlaceEach
  <2> QED
    BY <2>1, SeatsCount
<1>5. OfDay(Schedule!Normalized(command), d) = K
  <2>1. PICK x : Arranged(d, x)
    BY NormalizedIs
  <2> QED
    BY <1>1, <2>1 DEF Arranged
<1>6. Schedule!Normalized(command) \in SUBSET Schedule!Placements
  BY NormalizedFits
<1>7. /\ v \in Seq(K) /\ On(v) = K /\ Len(v) = L
      /\ \A i, j \in 1..Len(v) : i < j <=> Schedule!Precedes(v[i], v[j])
  BY <1>1, <1>4, <1>5, <1>6, ColumnIs
<1>8. \A s \in K : s \in Schedule!Placements /\ s.order \in Nat \ {0}
  BY <1>5, <1>6 DEF OfDay, Schedule!Placements
<1>9. \A r, s \in K : r.order = s.order => r = s
  <2>1. ~Schedule!Collides(Schedule!Desired(command), d)
    BY DEF Schedule!Reflowed
  <2>2. ~ \E r, s \in K : r # s /\ r.order = s.order
    BY <1>1, <2>1 DEF Schedule!Collides, OfDay
  <2> QED
    BY <2>2
<1> DEFINE g == [s \in K |-> s.order]
<1>10. PICK h : h = g
  OBVIOUS
<1>11. \A s \in K : h[s] = s.order
  BY <1>10
<1>12. Sorting(K, v, h, L)
  <2>1. \A s \in K : h[s] \in Nat \ {0}
    BY <1>8, <1>11
  <2>2. ASSUME NEW i \in 1..Len(v), NEW j \in 1..Len(v), i < j
        PROVE  h[v[i]] < h[v[j]]
    <3>1. v[i] \in K /\ v[j] \in K /\ Schedule!Precedes(v[i], v[j]) /\ v[i] # v[j]
      <4>1. ~Schedule!Precedes(v[i], v[i])
        BY <1>7
      <4> QED
        BY <1>7, <2>2, <4>1
    <3>2. v[i].order < v[j].order
      BY <1>8, <1>9, <3>1 DEF Schedule!Precedes
    <3> QED
      BY <1>11, <3>1, <3>2
  <2>3. ASSUME NEW p \in 1..L
        PROVE  \E i \in 1..Len(v) : h[v[i]] = p
    <3>1. PICK s \in K : s.order = p
      BY <1>1, <1>4
    <3>2. PICK i \in 1..Len(v) : v[i] = s
      BY <1>7 DEF On
    <3> QED
      BY <1>11, <3>1, <3>2
  <2> QED
    BY <1>2, <1>7, <2>1, <2>2, <2>3 DEF Sorting
<1>13. \A i \in 1..L : v[i].order = i
  <2>1. \A i \in 1..L : h[v[i]] = i
    BY <1>12, SortedPlaces
  <2>2. \A i \in 1..L : v[i] \in K
    BY <1>7
  <2> QED
    BY <1>11, <2>1, <2>2
<1>14. \A r, s \in K : f[r] = r.order \/ f[s] = s.order \/ (r.order < s.order => f[r] < f[s])
  <2> SUFFICES ASSUME NEW r \in K, NEW s \in K, f[r] # r.order, f[s] # s.order, r.order < s.order
               PROVE  f[r] < f[s]
    OBVIOUS
  <2>1. K = OfDay(Staying, d) \cup OfDay(command.places, d)
    BY <1>1, DesiredFits
  <2>2. r \in OfDay(Staying, d) /\ s \in OfDay(Staying, d)
    BY <1>3, <2>1
  <2>3. Schedule!Precedes(r, s)
    BY DEF Schedule!Precedes
  <2> QED
    BY <1>3, <2>2, <2>3
<1>15. TwoNumberings(K, v, f, L)
  BY <1>2, <1>3, <1>7, <1>8, <1>13, <1>14 DEF TwoNumberings
<1>16. \A i \in 1..L : f[v[i]] = i
  BY <1>15, NumberingsAgree
<1>17. \A i \in 1..L : v[i].anime = o[i][1]
  <2> TAKE i \in 1..L
  <2>1. v[i] \in K /\ f[v[i]] = i
    BY <1>7, <1>16
  <2> QED
    BY <1>3, <2>1
<1> QED
  BY <1>1, <1>7, <1>17 DEF ShowsDraft

LEMMA UntouchedShows ==
  ASSUME ScheduleAssumptions, SlotsFit, BoardIsRead, DraftFits, command = Schedule!ApplyEntries,
         NEW d \in ScheduleDays, NEW f, Seats(d, f), d \notin Schedule!Affected(command)
  PROVE  ShowsDraft(d)
<1>1. PICK K, L, v, o : /\ K = OfDay(Schedule!Desired(command), d) /\ L = Len(order[d]) /\ o = order[d]
                        /\ v = Schedule!Column(Schedule!Normalized(command), d)
  OBVIOUS
<1>2. o \in Seq(Schedule!Keys) /\ L \in Nat
  <2>1. order[d] \in Seq(Schedule!Keys)
    BY DEF DraftFits, Schedule!Containers
  <2> QED
    BY <1>1, <2>1
<1>3. /\ \A s \in K : f[s] \in 1..L /\ o[f[s]][1] = s.anime
      /\ \A r, s \in K : f[r] = f[s] => r = s
      /\ \A p \in 1..L : \E s \in K : f[s] = p
      /\ \A s \in OfDay(Staying, d) : s \in ShownOn(d) /\ f[s] = Cardinality(Ahead(ShownOn(d), s)) + 1
  BY <1>1 DEF Seats
<1>4. IsFiniteSet(K) /\ Cardinality(K) = L
  <2>1. OnePlaceEach(K, f, L)
    BY <1>2, <1>3 DEF OnePlaceEach
  <2> QED
    BY <2>1, SeatsCount
<1>5. d \notin Schedule!Reflowed(command)
  BY DEF Schedule!Reflowed
<1>6. OfDay(Schedule!Normalized(command), d) = K
  <2>1. PICK x : Arranged(d, x)
    BY NormalizedIs
  <2> QED
    BY <1>1, <1>5, <2>1 DEF Arranged
<1>7. Schedule!Normalized(command) \in SUBSET Schedule!Placements
  BY NormalizedFits
<1>8. /\ v \in Seq(K) /\ On(v) = K /\ Len(v) = L
      /\ \A i \in 1..Len(v) : Cardinality(Ahead(K, v[i])) = i - 1
  BY <1>1, <1>4, <1>6, <1>7, ColumnIs
<1>9. OfDay(command.places, d) = {}
  BY DEF Schedule!Affected, Schedule!Submitted, OfDay
<1>10. K = OfDay(Staying, d)
  BY <1>1, <1>9, DesiredFits
<1>11. ShownOn(d) = K
  <2>1. \A s \in ShownOn(d) : s.anime \notin Schedule!Changed(command)
    BY DEF Schedule!Affected, Schedule!Active, ShownOn, OfDay, OfAnimes
  <2>2. \A s : s \in Staying <=> s \in placed /\ s.anime \in active
            /\ s.anime \notin Schedule!Changed(command)
    BY DesiredFits
  <2>3. \A s \in ShownOn(d) : s \in placed /\ s.anime \in active /\ s.day = d
    BY DEF ShownOn, OfDay, OfAnimes
  <2>4. \A s \in ShownOn(d) : s \in OfDay(Staying, d)
    BY <2>1, <2>2, <2>3 DEF OfDay
  <2> QED
    BY <1>3, <1>10, <2>4
<1>12. \A i \in 1..L : v[i].anime = o[i][1]
  <2> TAKE i \in 1..L
  <2>1. v[i] \in K /\ Cardinality(Ahead(K, v[i])) = i - 1
    BY <1>8
  <2>2. f[v[i]] = Cardinality(Ahead(K, v[i])) + 1
    BY <1>3, <1>10, <1>11, <2>1
  <2>3. f[v[i]] = i
    BY <2>1, <2>2
  <2> QED
    BY <1>3, <2>1, <2>3
<1> QED
  BY <1>1, <1>8, <1>12 DEF ShowsDraft

\* A draft of the board as it is, with nothing parked: it is refused only for gaps, and what is
\* stored is what it shows.
Gaps == \E d \in ScheduleDays : ~Schedule!IsContiguous({s \in Schedule!Active(placed) : s.day = d})

LEMMA FreshDraft ==
  ASSUME ScheduleAssumptions, SlotsFit, BoardIsRead, DraftFits, command = Schedule!ApplyEntries,
         DOMAIN board.entries = active, order[Schedule!Staging] = <<>>
  PROVE  /\ ~Schedule!Refused(command, Schedule!Normalized(command)) => \A d \in ScheduleDays :
            ShowsDraft(d)
         /\ ~Gaps => ~Schedule!Refused(command, Schedule!Normalized(command))
<1>1. ASSUME NEW S, NEW d
      PROVE  Schedule!IsContiguous({s \in S : s.day = d})
               <=> {s.order : s \in OfDay(S, d)} = 1..Cardinality(OfDay(S, d))
  BY DEF Schedule!IsContiguous, OfDay, Schedule!Cardinality, Cardinality
<1>2. ASSUME NEW d \in ScheduleDays, ~Schedule!Refused(command, Schedule!Normalized(command))
      PROVE  ShowsDraft(d)
  <2>1. PICK f : Seats(d, f)
    BY <1>2, FreshSeats
  <2>2. CASE d \in Schedule!Reflowed(command)
    BY <1>2, <2>1, <2>2, ReflowedShows
  <2>3. CASE d \notin Schedule!Affected(command)
    BY <1>2, <2>1, <2>3, UntouchedShows
  <2>4. CASE d \notin Schedule!Reflowed(command) /\ d \in Schedule!Affected(command)
    <3>1. PICK A : A = OfDay(Schedule!Normalized(command), d)
      OBVIOUS
    <3>2. {s.order : s \in A} = 1..Cardinality(A)
      <4>1. Schedule!IsContiguous({s \in Schedule!Normalized(command) : s.day = d})
        BY <1>2, <2>4 DEF Schedule!Refused
      <4> QED
        BY <1>1, <3>1, <4>1
    <3>3. A = OfDay(Schedule!Desired(command), d)
      <4>1. PICK x : Arranged(d, x)
        BY <1>2, NormalizedIs
      <4> QED
        BY <2>4, <3>1, <4>1 DEF Arranged
    <3> QED
      BY <1>2, <2>1, <2>4, <3>2, <3>3, PlainShows
  <2> QED
    BY <2>2, <2>3, <2>4
<1>3. ASSUME ~Gaps, NEW d \in Schedule!Affected(command)
      PROVE  Schedule!IsContiguous({s \in Schedule!Normalized(command) : s.day = d})
  <2>1. d \in ScheduleDays
    BY <1>3, DesiredFits
  <2>2. PICK f : Seats(d, f)
    BY <2>1, FreshSeats
  <2>3. PICK A : A = OfDay(Schedule!Normalized(command), d)
    OBVIOUS
  <2>4. {s.order : s \in A} = 1..Cardinality(A)
    <3>1. CASE d \in Schedule!Reflowed(command)
      BY <2>1, <2>2, <2>3, <3>1, ReflowedShows
    <3>2. CASE d \notin Schedule!Reflowed(command)
      <4>1. A = OfDay(Schedule!Desired(command), d)
        <5>1. PICK x : Arranged(d, x)
          BY <2>1, NormalizedIs
        <5> QED
          BY <2>3, <3>2, <5>1 DEF Arranged
      <4>2. PICK L, P : L = Len(order[d]) /\ P = ShownOn(d)
        OBVIOUS
      <4>3. L \in Nat
        <5>1. order[d] \in Seq(Schedule!Keys)
          BY <2>1 DEF DraftFits, Schedule!Containers
        <5> QED
          BY <4>2, <5>1
      <4>4. /\ \A s \in A : f[s] \in 1..L
            /\ \A r, s \in A : f[r] = f[s] => r = s
            /\ \A p \in 1..L : \E s \in A : f[s] = p
            /\ \A s \in OfDay(command.places, d) : f[s] = s.order
            /\ \A s \in OfDay(Staying, d) : s \in P /\ f[s] = Cardinality(Ahead(P, s)) + 1
        BY <2>2, <4>1, <4>2 DEF Seats
      <4>5. Cardinality(A) = L
        <5>1. OnePlaceEach(A, f, L)
          BY <4>3, <4>4 DEF OnePlaceEach
        <5> QED
          BY <5>1, SeatsCount
      <4>6. \A s \in P : Cardinality(Ahead(P, s)) + 1 = s.order
        <5>1. PICK slots : slots = Schedule!Active(placed)
          OBVIOUS
        <5>2. P = OfDay(slots, d) /\ slots \in SUBSET Schedule!Placements
          BY <4>2, <5>1 DEF ShownOn, OfAnimes, Schedule!Active, SlotsFit
        <5>3. IsFiniteSet(P)
          <6>1. P \in SUBSET OfDay(placed, d)
            BY <5>1, <5>2 DEF Schedule!Active, OfDay
          <6>2. IsFiniteSet(OfDay(placed, d))
            BY <2>1 DEF SlotsFit
          <6> QED
            BY <6>1, <6>2, FS_Subset
        <5>4. {s.order : s \in P} = 1..Cardinality(P)
          <6>1. Schedule!IsContiguous({s \in slots : s.day = d})
            BY <1>3, <2>1, <5>1 DEF Gaps
          <6> QED
            BY <1>1, <5>2, <6>1
        <5> QED
          BY <5>2, <5>3, <5>4, SeatIsOrder
      <4>7. A = OfDay(Staying, d) \cup OfDay(command.places, d)
        BY <2>1, <4>1, DesiredFits
      <4>8. \A s \in A : f[s] = s.order
        BY <4>4, <4>6, <4>7
      <4>9. {s.order : s \in A} = 1..L
        BY <4>4, <4>8
      <4> QED
        BY <4>5, <4>9
    <3> QED
      BY <3>1, <3>2
  <2> QED
    BY <1>1, <2>3, <2>4
<1>4. Schedule!Changed(command) \subseteq active
  BY CommandIs
<1> QED
  BY <1>2, <1>3, <1>4 DEF Schedule!Refused

-----------------------------------------------------------------------------
(* The answer                                                              *)

SeenOf(r, d) == Without([i \in DOMAIN r.draft[d] |-> r.draft[d][i][1]], ScheduleAnimes \ r.active)
ParkedOf(r) == {k[1] : k \in Schedule!Range(r.draft[Schedule!Staging])}
KeptOf(r, d) == {a \in Schedule!Range(r.before.columns[d]) \cap r.active : a \notin r.entries
    /\ a \in ParkedOf(r)}
AppliedFits(r) ==
  r # <<>> /\ r.outcome = "applied" =>
    /\ r.draft[Schedule!Staging] = <<>> /\ r.fresh => \A d \in ScheduleDays : r.after[d] = SeenOf(r, d)
    /\ \A d \in ScheduleDays : Schedule!Range(r.after[d]) = Schedule!Range(SeenOf(r, d))
          \cup KeptOf(r, d)
TakenFits(r) ==
  r # <<>> /\ r.fresh /\ ~r.gaps /\ r.draft[Schedule!Staging] = <<>> => r.outcome = "applied"

LEMMA AppliedIs == Schedule!AppliedIsTheDraft <=> AppliedFits(result)
<1>1. \A d : Schedule!Seen(d) = SeenOf(result, d)
  BY WithoutIsSame DEF Schedule!Seen, SeenOf
<1>2. \A d : Schedule!KeptParked(d) = KeptOf(result, d)
  BY DEF Schedule!KeptParked, KeptOf, ParkedOf
<1> QED
  BY <1>1, <1>2 DEF Schedule!AppliedIsTheDraft, AppliedFits, Schedule!Applied,
    Schedule!NothingParked

LEMMA TakenIs == Schedule!DraftsAreTaken <=> TakenFits(result)
BY DEF Schedule!DraftsAreTaken, TakenFits, Schedule!NothingParked

Outcome ==
  IF Schedule!Refused(command, Schedule!Normalized(command)) THEN "error"
  ELSE IF Schedule!IsStale(command) THEN "conflict" ELSE "applied"
Kept == Schedule!Normalized(command) \cup {s \in placed : s.anime \notin active}

\* What is stored when the command is applied.
LEMMA KeptFits ==
  ASSUME ScheduleAssumptions, SlotsFit, BoardIsRead, DraftFits, command = Schedule!ApplyEntries,
         Schedule!Changed(command) \subseteq active
  PROVE  /\ Kept \in SUBSET Schedule!Placements /\ \A d \in ScheduleDays : IsFiniteSet(OfDay(Kept, d))
         /\ OfAnimes(Kept, active) = Schedule!Normalized(command)
<1>1. /\ Schedule!Normalized(command) \in SUBSET Schedule!Placements
      /\ \A d \in ScheduleDays : /\ IsFiniteSet(OfDay(Schedule!Normalized(command), d))
                                 /\ {s.anime : s \in OfDay(Schedule!Normalized(command), d)}
                                      = {s.anime : s \in OfDay(Schedule!Desired(command), d)}
  BY NormalizedFits
<1>2. \A d \in ScheduleDays : \A s \in OfDay(Schedule!Desired(command), d) : s.anime \in active
  <2> TAKE d \in ScheduleDays
  <2> TAKE s \in OfDay(Schedule!Desired(command), d)
  <2>1. s \in Staying \/ s \in command.places
    <3>1. s \in OfDay(Staying, d) \cup OfDay(command.places, d)
      BY DesiredFits
    <3> QED
      BY <3>1 DEF OfDay
  <2>2. s \in Staying => s.anime \in active
    BY DesiredFits
  <2>3. s \in command.places => s.anime \in Schedule!Changed(command)
    BY DesiredFits
  <2> QED
    BY <2>1, <2>2, <2>3
<1>3. \A s \in Schedule!Normalized(command) : s.anime \in active
  <2> TAKE s \in Schedule!Normalized(command)
  <2>1. s.day \in ScheduleDays
    BY <1>1 DEF Schedule!Placements
  <2>2. s \in OfDay(Schedule!Normalized(command), s.day)
    BY DEF OfDay
  <2>3. s.anime \in {t.anime : t \in OfDay(Schedule!Desired(command), s.day)}
    BY <1>1, <2>1, <2>2
  <2> QED
    BY <1>2, <2>1, <2>3
<1>4. OfAnimes(Kept, active) = Schedule!Normalized(command)
  BY <1>3 DEF OfAnimes, Kept
<1>5. Kept \in SUBSET Schedule!Placements
  BY <1>1 DEF Kept, SlotsFit
<1>6. \A d \in ScheduleDays : IsFiniteSet(OfDay(Kept, d))
  <2> TAKE d \in ScheduleDays
  <2>1. IsFiniteSet(OfDay(Schedule!Normalized(command), d)) /\ IsFiniteSet(OfDay(placed, d))
    BY <1>1 DEF SlotsFit
  <2>2. IsFiniteSet(OfDay(Schedule!Normalized(command), d) \cup OfDay(placed, d))
    BY <2>1, FS_Union
  <2>3. OfDay(Kept, d) \in SUBSET (OfDay(Schedule!Normalized(command), d) \cup OfDay(placed, d))
    BY DEF OfDay, Kept
  <2> QED
    BY <2>2, <2>3, FS_Subset
<1> QED
  BY <1>4, <1>5, <1>6

LEMMA RangeIsOn ==
  ASSUME NEW T, NEW s \in Seq(T) PROVE Schedule!Range(s) = On(s)
BY DEF Schedule!Range, On

LEMMA AnswerFits ==
  ASSUME ScheduleAssumptions, SlotsFit, BoardIsRead, DraftFits, JoinedIsLater,
         command = Schedule!ApplyEntries,
         NEW r, NEW pl, pl = (IF Outcome = "applied" THEN Kept ELSE placed),
         r = [outcome |-> Outcome, draft |-> command.draft, before |-> board,
             entries |-> Schedule!Changed(command),
              fresh |-> ~Schedule!IsStale(command) /\ DOMAIN board.entries = active, gaps |-> Gaps,
              active |-> active, after |-> ColumnsOf(pl, active)]
  PROVE  AppliedFits(r) /\ TakenFits(r)
<1>1. /\ r.outcome = Outcome /\ r.draft = order /\ r.before = board
            /\ r.entries = Schedule!Changed(command)
      /\ r.fresh = (~Schedule!IsStale(command) /\ DOMAIN board.entries = active) /\ r.gaps = Gaps
      /\ r.active = active /\ r.after = ColumnsOf(pl, active)
  BY CommandIs
<1>2. TakenFits(r)
  <2> SUFFICES ASSUME r.fresh, ~r.gaps, r.draft[Schedule!Staging] = <<>> PROVE r.outcome = "applied"
    BY DEF TakenFits
  <2>1. ~Schedule!IsStale(command) /\ DOMAIN board.entries = active /\ ~Gaps
            /\ order[Schedule!Staging] = <<>>
    BY <1>1
  <2>2. ~Schedule!Refused(command, Schedule!Normalized(command))
    BY <2>1, FreshDraft
  <2> QED
    BY <1>1, <2>1, <2>2 DEF Outcome
<1>3. AppliedFits(r)
  <2> SUFFICES ASSUME r.outcome = "applied"
               PROVE  /\ r.draft[Schedule!Staging] = <<>> /\ r.fresh => \A d \in ScheduleDays :
                         r.after[d] = SeenOf(r, d)
                      /\ \A d \in ScheduleDays : Schedule!Range(r.after[d])
                            = Schedule!Range(SeenOf(r, d)) \cup KeptOf(r, d)
    BY DEF AppliedFits
  <2>1. ~Schedule!Refused(command, Schedule!Normalized(command)) /\ ~Schedule!IsStale(command)
            /\ pl = Kept
    BY <1>1 DEF Outcome
  <2>2. Schedule!Changed(command) \subseteq active
    BY <2>1 DEF Schedule!Refused
  <2>3. PICK after : after = Schedule!Normalized(command)
    OBVIOUS
  <2>4. pl \in SUBSET Schedule!Placements /\ (\A d \in ScheduleDays : IsFiniteSet(OfDay(pl, d)))
            /\ OfAnimes(pl, active) = after
    BY <2>1, <2>2, <2>3, KeptFits
  <2>5. \A d \in ScheduleDays :
          /\ r.after[d] \in Seq(ScheduleAnimes) /\ Len(r.after[d]) = Len(Schedule!Column(after, d))
          /\ \A i \in 1..Len(Schedule!Column(after, d)) :
                r.after[d][i] = Schedule!Column(after, d)[i].anime
    <3>1. PICK c : c = ColumnsOf(pl, active)
      OBVIOUS
    <3>2. /\ c \in [ScheduleDays -> Seq(ScheduleAnimes)]
          /\ \A d \in ScheduleDays :
               /\ Len(c[d]) = Len(Schedule!Column(OfAnimes(pl, active), d))
               /\ \A i \in 1..Len(Schedule!Column(OfAnimes(pl, active), d)) :
                    c[d][i] = Schedule!Column(OfAnimes(pl, active), d)[i].anime
      <4>1. PlacedFits(pl)
        BY <2>4 DEF PlacedFits
      <4>2. PICK ac : ac = active
        OBVIOUS
      <4>3. /\ ColumnsOf(pl, ac) \in [ScheduleDays -> Seq(ScheduleAnimes)]
            /\ \A d \in ScheduleDays :
               /\ OfAnimes(pl, ac) \in SUBSET Schedule!Placements
                     /\ IsFiniteSet(OfDay(OfAnimes(pl, ac), d))
               /\ Len(ColumnsOf(pl, ac)[d]) = Len(Schedule!Column(OfAnimes(pl, ac), d))
               /\ \A i \in 1..Len(Schedule!Column(OfAnimes(pl, ac), d)) :
                    ColumnsOf(pl, ac)[d][i] = Schedule!Column(OfAnimes(pl, ac), d)[i].anime
        BY <4>1, ColumnsAre
      <4> QED
        BY <3>1, <4>2, <4>3
    <3>3. r.after = c /\ OfAnimes(pl, active) = after
      BY <1>1, <2>4, <3>1
    <3> QED
      BY <3>2, <3>3
  <2>6. \A d \in ScheduleDays : order[d] \in Seq(Schedule!Keys) /\ d \in Schedule!Containers
    BY DEF DraftFits, Schedule!Containers
  <2>7. ASSUME NEW d \in ScheduleDays
        PROVE  \E w : /\ w = [i \in DOMAIN r.draft[d] |-> r.draft[d][i][1]]
                         /\ w \in Seq(DOMAIN board.entries)
                      /\ Len(w) = Len(order[d]) /\ On(w) = Drafted(d) /\ \A i \in 1..Len(order[d]) :
                            w[i] = order[d][i][1]
                      /\ SeenOf(r, d) = Without(w, ScheduleAnimes \ active)
    <3>1. PICK o, w : o = order[d] /\ w = [i \in DOMAIN o |-> o[i][1]]
      OBVIOUS
    <3>2. o \in Seq(Schedule!Keys) /\ DOMAIN o = 1..Len(o) /\ Len(o) \in Nat
      BY <2>6, <3>1
    <3>3. \A i \in 1..Len(o) : o[i][1] \in DOMAIN board.entries
      <4>1. \A i \in 1..Len(o) : o[i] \in On(order[d])
        BY <3>1 DEF On
      <4> QED
        BY <2>6, <4>1 DEF DraftFits
    <3>4. w \in Seq(DOMAIN board.entries) /\ Len(w) = Len(o) /\ \A i \in 1..Len(o) : w[i] = o[i][1]
      BY <3>1, <3>2, <3>3
    <3>5. On(w) = Drafted(d)
      BY <3>1, <3>4 DEF On, Drafted
    <3>6. w = [i \in DOMAIN r.draft[d] |-> r.draft[d][i][1]]
      BY <1>1, <3>1
    <3>7. SeenOf(r, d) = Without(w, ScheduleAnimes \ active)
      BY <1>1, <3>6 DEF SeenOf
    <3> QED
      BY <3>1, <3>4, <3>5, <3>6, <3>7
  <2>8. ASSUME r.draft[Schedule!Staging] = <<>>, r.fresh, NEW d \in ScheduleDays
        PROVE  r.after[d] = SeenOf(r, d)
    <3>1. DOMAIN board.entries = active /\ order[Schedule!Staging] = <<>>
      BY <1>1, <2>8
    <3>2. ShowsDraft(d)
      BY <2>1, <3>1, FreshDraft
    <3>3. PICK v, o : v = Schedule!Column(after, d) /\ o = order[d]
      OBVIOUS
    <3>4. Len(v) = Len(o) /\ \A i \in 1..Len(o) : v[i].anime = o[i][1]
      BY <2>3, <3>2, <3>3 DEF ShowsDraft
    <3>5. PICK w : /\ w \in Seq(DOMAIN board.entries)
                   /\ Len(w) = Len(order[d]) /\ \A i \in 1..Len(order[d]) : w[i] = order[d][i][1]
                   /\ SeenOf(r, d) = Without(w, ScheduleAnimes \ active)
      BY <2>7
    <3>6. On(w) \cap (ScheduleAnimes \ active) = {}
      BY <3>1, <3>5 DEF On
    <3>7. SeenOf(r, d) = w
      BY <3>5, <3>6, WithoutNone
    <3>8. PICK u : u = r.after[d]
      OBVIOUS
    <3>9. /\ u \in Seq(ScheduleAnimes) /\ Len(u) = Len(v) /\ \A i \in 1..Len(v) : u[i] = v[i].anime
      BY <2>5, <3>3, <3>8
    <3>10. Len(u) = Len(w) /\ \A i \in 1..Len(w) : u[i] = w[i]
      BY <3>3, <3>4, <3>5, <3>9
    <3>11. u = w
      BY <3>5, <3>9, <3>10
    <3> QED
      BY <3>7, <3>8, <3>11
  <2>9. ASSUME NEW d \in ScheduleDays
        PROVE  Schedule!Range(r.after[d]) = Schedule!Range(SeenOf(r, d)) \cup KeptOf(r, d)
    <3>1. PICK w : /\ w \in Seq(DOMAIN board.entries) /\ On(w) = Drafted(d)
                   /\ SeenOf(r, d) = Without(w, ScheduleAnimes \ active)
      BY <2>7, <2>9
    <3>2. Schedule!Range(SeenOf(r, d)) = Drafted(d) \cap active
      <4>1. /\ SeenOf(r, d) \in Seq(DOMAIN board.entries)
            /\ On(SeenOf(r, d)) = On(w) \ (ScheduleAnimes \ active)
        BY <3>1, WithoutFacts
      <4>2. \A a \in On(w) : a \in ScheduleAnimes
        BY <3>1 DEF On, BoardIsRead
      <4> QED
        BY <3>1, <4>1, <4>2, RangeIsOn
    <3>3. Schedule!Range(r.after[d]) = AnimesIn(OfDay(after, d))
      <4>1. PICK u, v : u = r.after[d] /\ v = Schedule!Column(after, d)
        OBVIOUS
      <4>2. u \in Seq(ScheduleAnimes) /\ Len(u) = Len(v) /\ \A i \in 1..Len(v) : u[i] = v[i].anime
        BY <2>5, <4>1
      <4>3. On(v) = OfDay(after, d)
        <5>1. after \in SUBSET Schedule!Placements /\ IsFiniteSet(OfDay(after, d))
          BY <2>3, NormalizedFits
        <5> QED
          BY <4>1, <5>1, ColumnIs
      <4>4. On(u) = AnimesIn(On(v))
        BY <4>2 DEF On, AnimesIn
      <4>5. Schedule!Range(u) = On(u)
        BY <4>2, RangeIsOn
      <4> QED
        BY <4>1, <4>3, <4>4, <4>5
    <3>4. AnimesIn(OfDay(after, d)) = AnimesIn(OfDay(Schedule!Desired(command), d))
      BY <2>3, NormalizedFits DEF AnimesIn
    <3>5. ParkedOf(r) = Drafted(Schedule!Staging)
      <4>1. PICK w0 : w0 = order[Schedule!Staging]
        OBVIOUS
      <4>2. w0 \in Seq(Schedule!Keys)
        BY <4>1 DEF DraftFits, Schedule!Containers
      <4>3. Schedule!Range(w0) = On(w0)
        BY <4>2, RangeIsOn
      <4> QED
        BY <1>1, <4>1, <4>3 DEF ParkedOf, Drafted
    <3>6. Schedule!Range(board.columns[d]) = On(board.columns[d])
      <4>1. board.columns[d] \in Seq(ScheduleAnimes)
        BY BoardShows
      <4> QED
        BY <4>1, RangeIsOn
    <3>7. KeptOf(r, d) = {a \in On(board.columns[d]) \cap active :
              a \notin Schedule!Changed(command) /\ a \in Drafted(Schedule!Staging)}
      BY <1>1, <3>5, <3>6 DEF KeptOf
    <3>8. AnimesIn(OfDay(Schedule!Desired(command), d)) = (Drafted(d) \cap active) \cup KeptOf(r, d)
      BY <2>1, <2>2, <3>7, WantedAnimes
    <3> QED
      BY <3>2, <3>3, <3>4, <3>8
  <2> QED
    BY <2>8, <2>9
<1> QED
  BY <1>2, <1>3

-----------------------------------------------------------------------------
(* The steps                                                               *)

DraftOk(o, ac) ==
  /\ o \in [Schedule!Containers -> Seq(Schedule!Keys)] /\ Apart(o)
  /\ \A c \in Schedule!Containers : \A k \in On(o[c]) : k[1] \in ac

CardsIn(o) == UNION {On(o[c]) : c \in Schedule!Containers}

LEMMA RemovedFits ==
  ASSUME NEW o, NEW ac, DraftOk(o, ac), NEW keys
  PROVE  /\ DraftOk(Schedule!Removed(o, keys), ac)
         /\ \A c \in Schedule!Containers : On(Schedule!Removed(o, keys)[c]) = On(o[c]) \ keys
<1>1. PICK p : p = Schedule!Removed(o, keys)
  OBVIOUS
<1>2. p = [c \in Schedule!Containers |-> Schedule!Without(o[c], keys)]
  BY <1>1 DEF Schedule!Removed
<1>3. ASSUME NEW c \in Schedule!Containers
      PROVE  /\ p[c] \in Seq(Schedule!Keys) /\ On(p[c]) = On(o[c]) \ keys
             /\ \A x, y : Before(p[c], x, y) => Before(o[c], x, y)
  <2>1. o[c] \in Seq(Schedule!Keys) /\ p[c] = Without(o[c], keys)
    BY <1>1, <1>3, RemovedIs DEF DraftOk
  <2> QED
    BY <2>1, WithoutFacts
<1>4. p \in [Schedule!Containers -> Seq(Schedule!Keys)]
  BY <1>2, <1>3
<1>5. Apart(p)
  BY <1>3 DEF DraftOk, Apart
<1>6. DraftOk(p, ac)
  BY <1>3, <1>4, <1>5 DEF DraftOk
<1> QED
  BY <1>1, <1>3, <1>6

LEMMA InsertFits ==
  ASSUME NEW o, NEW ac, DraftOk(o, ac), NEW k \in Schedule!Keys, k[1] \in ac,
         NEW c \in Schedule!Containers,
         k \notin CardsIn(o), NEW i \in 1..Len(o[c]) + 1
  PROVE  DraftOk([o EXCEPT ![c] = InsertedAt(o[c], i, k)], ac)
<1>1. PICK p, w : p = [o EXCEPT ![c] = w] /\ w = InsertedAt(o[c], i, k)
  OBVIOUS
<1>2. o \in [Schedule!Containers -> Seq(Schedule!Keys)] /\ o[c] \in Seq(Schedule!Keys)
  BY DEF DraftOk
<1>3. /\ w \in Seq(Schedule!Keys) /\ On(w) = On(o[c]) \cup {k}
      /\ \A y, z : Before(w, y, z) => Before(o[c], y, z) \/ (y = k /\ z \in On(o[c]))
            \/ (z = k /\ y \in On(o[c]))
  BY <1>1, <1>2, InsertedIs
<1>4. p \in [Schedule!Containers -> Seq(Schedule!Keys)] /\ p[c] = w /\ \A e \in Schedule!Containers :
          e # c => p[e] = o[e]
  BY <1>1, <1>2, <1>3
<1>5. \A e \in Schedule!Containers : \A x : ~Before(p[e], x, x)
  <2> SUFFICES ASSUME NEW e \in Schedule!Containers, NEW x, Before(p[e], x, x) PROVE FALSE
    OBVIOUS
  <2>1. CASE e # c
    BY <1>4, <2>1 DEF DraftOk, Apart
  <2>2. CASE e = c
    <3>1. Before(o[c], x, x) \/ (x = k /\ k \in On(o[c]))
      BY <1>3, <1>4, <2>2
    <3> QED
      BY <3>1 DEF DraftOk, Apart, CardsIn
  <2> QED
    BY <2>1, <2>2
<1>6. \A e, f \in Schedule!Containers : e # f => On(p[e]) \cap On(p[f]) = {}
  <2> SUFFICES ASSUME NEW e \in Schedule!Containers, NEW f \in Schedule!Containers, e # f,
                      NEW x \in On(p[e]), x \in On(p[f])
               PROVE  FALSE
    OBVIOUS
  <2>1. \A g \in Schedule!Containers : On(p[g]) = IF g = c THEN On(o[g]) \cup {k} ELSE On(o[g])
    BY <1>3, <1>4
  <2>2. On(o[e]) \cap On(o[f]) = {} /\ k \notin On(o[e]) /\ k \notin On(o[f])
    BY DEF DraftOk, Apart, CardsIn
  <2> QED
    BY <2>1, <2>2
<1>7. \A e \in Schedule!Containers : \A x \in On(p[e]) : x[1] \in ac
  <2> TAKE e \in Schedule!Containers
  <2> TAKE x \in On(p[e])
  <2>1. x \in On(o[e]) \/ x = k
    BY <1>3, <1>4
  <2> QED
    BY <2>1 DEF DraftOk
<1> QED
  BY <1>1, <1>4, <1>5, <1>6, <1>7 DEF DraftOk, Apart

ReadOf(pl, ac, md) ==
  [columns |-> ColumnsOf(pl, ac), entries |-> [a \in ac |-> md[a]], modifiedAt |-> ModifiedAtOf(ac, md)]
BoardOk(b, pl, ac, md, o) ==
  /\ b.columns = ColumnsOf(pl, ac) /\ DOMAIN b.entries = ac /\ b.modifiedAt \in Nat
  /\ \E a \in ScheduleAnimes : md[a] >= b.modifiedAt
  /\ DraftOk(o, ac)

LEMMA ReadFits ==
  ASSUME ScheduleAssumptions, NEW pl, PlacedFits(pl), NEW ac \in SUBSET ScheduleAnimes,
         NEW md \in [ScheduleAnimes -> Nat],
         NEW b, b = ReadOf(pl, ac, md)
  PROVE  BoardOk(b, pl, ac, md, Schedule!DraftOf(b))
<1>1. b.columns = ColumnsOf(pl, ac) /\ DOMAIN b.entries = ac /\ b.modifiedAt = ModifiedAtOf(ac, md)
  BY DEF ReadOf
<1>2. b.modifiedAt \in Nat /\ \E a \in ScheduleAnimes : md[a] >= b.modifiedAt
  <2>1. PICK m : m = ModifiedAtOf(ac, md)
    OBVIOUS
  <2>2. m \in Nat /\ (m = 0 \/ \E a \in ac : md[a] = m)
    BY <2>1, ModifiedAtIs
  <2>3. \E a \in ScheduleAnimes : md[a] >= m
    <3>1. CASE m = 0
      <4>1. PICK a : a \in ScheduleAnimes
        BY DEF ScheduleAssumptions
      <4>2. md[a] \in Nat
        BY <4>1
      <4> QED
        BY <3>1, <4>1, <4>2
    <3>2. CASE \E a \in ac : md[a] = m
      BY <2>2, <3>2
    <3> QED
      BY <2>2, <3>1, <3>2
  <2> QED
    BY <1>1, <2>1, <2>2, <2>3
<1>3. PICK c : c = ColumnsOf(pl, ac)
  OBVIOUS
<1>4. c \in [ScheduleDays -> Seq(ScheduleAnimes)]
  BY <1>3, ColumnsAre
<1>5. \A d \in ScheduleDays : On(c[d]) \subseteq ac
  <2> TAKE d \in ScheduleDays
  <2>1. PICK w : w = Schedule!Column(OfAnimes(pl, ac), d)
    OBVIOUS
  <2>2. /\ Len(c[d]) = Len(w) /\ \A i \in 1..Len(w) : c[d][i] = w[i].anime
        /\ OfAnimes(pl, ac) \in SUBSET Schedule!Placements /\ IsFiniteSet(OfDay(OfAnimes(pl, ac), d))
    BY <1>3, <2>1, ColumnsAre
  <2>3. On(w) = OfDay(OfAnimes(pl, ac), d)
    BY <2>1, <2>2, ColumnIs
  <2>4. \A i \in 1..Len(w) : w[i].anime \in ac
    BY <2>3 DEF On, OfDay, OfAnimes
  <2> QED
    BY <2>2, <2>4 DEF On
<1>6. PICK o : o = Schedule!DraftOf(b)
  OBVIOUS
<1>7. /\ o \in [Schedule!Containers -> Seq(Schedule!Keys)] /\ o[Schedule!Staging] = <<>>
      /\ \A d \in ScheduleDays : /\ Len(o[d]) = Len(c[d]) /\ \A i \in 1..Len(c[d]) :
                                    o[d][i][1] = c[d][i]
      /\ Apart(o)
  BY <1>1, <1>3, <1>4, <1>6, DraftIsOf
<1>8. \A e \in Schedule!Containers : \A k \in On(o[e]) : k[1] \in ac
  <2> TAKE e \in Schedule!Containers
  <2> TAKE k \in On(o[e])
  <2>1. PICK i \in 1..Len(o[e]) : o[e][i] = k
    BY DEF On
  <2>2. e \in ScheduleDays
    <3> SUFFICES ASSUME e \notin ScheduleDays PROVE FALSE
      OBVIOUS
    <3>1. e = Schedule!Staging
      BY DEF Schedule!Containers
    <3>2. o[e] = <<>>
      BY <1>7, <3>1
    <3> QED
      BY <2>1, <3>2
  <2>3. k[1] = c[e][i] /\ i \in 1..Len(c[e])
    BY <1>7, <2>1, <2>2
  <2> QED
    BY <1>5, <2>2, <2>3 DEF On
<1>9. DraftOk(o, ac)
  BY <1>7, <1>8 DEF DraftOk
<1> QED
  BY <1>1, <1>2, <1>6, <1>9 DEF BoardOk

ApplyIsOfTheDraft ==
  /\ applying \in BOOLEAN /\ applying = (command # <<>>)
  /\ applying => command = Schedule!ApplyEntries
ScheduleInv ==
  /\ SlotsFit /\ BoardIsRead /\ DraftFits /\ JoinedIsLater /\ ApplyIsOfTheDraft
  /\ Schedule!AppliedIsTheDraft /\ Schedule!DraftsAreTaken

LEMMA ScheduleInvFits ==
  ASSUME ScheduleAssumptions, ScheduleInv
  PROVE  Schedule!TypeOK /\ Schedule!AppliedIsTheDraft /\ Schedule!DraftsAreTaken
<1>1. \A c, e \in Schedule!Containers : \A i \in DOMAIN order[c], j \in DOMAIN order[e] :
        order[c][i] = order[e][j] => c = e /\ i = j
  <2> SUFFICES ASSUME NEW c \in Schedule!Containers, NEW e \in Schedule!Containers,
          NEW i \in DOMAIN order[c],
                      NEW j \in DOMAIN order[e], order[c][i] = order[e][j]
               PROVE  c = e /\ i = j
    OBVIOUS
  <2>1. PICK o : o = order
    OBVIOUS
  <2>2. o \in [Schedule!Containers -> Seq(Schedule!Keys)] /\ Apart(o)
    BY <2>1 DEF ScheduleInv, DraftFits
  <2>3. o[c] \in Seq(Schedule!Keys) /\ o[e] \in Seq(Schedule!Keys) /\ i \in 1..Len(o[c])
            /\ j \in 1..Len(o[e])
    BY <2>1, <2>2
  <2>4. c = e
    <3>1. o[c][i] \in On(o[c]) /\ o[c][i] \in On(o[e])
      BY <2>1, <2>3 DEF On
    <3> QED
      BY <2>2, <3>1 DEF Apart
  <2>5. ~(i < j) /\ ~(j < i)
    <3>1. ~Before(o[c], o[c][i], o[c][i])
      BY <2>2 DEF Apart
    <3> QED
      BY <2>1, <2>3, <2>4, <3>1 DEF Before
  <2> QED
    BY <2>3, <2>4, <2>5
<1> QED
  BY <1>1 DEF ScheduleInv, SlotsFit, DraftFits, ApplyIsOfTheDraft, Schedule!TypeOK

LEMMA BoardReadIs == Schedule!BoardRead = ReadOf(placed, active, modified)
<1>1. Schedule!BoardModifiedAt = ModifiedAtOf(active, modified)
  BY DEF Schedule!BoardModifiedAt, ModifiedAtOf
<1>2. Schedule!Active(placed) = OfAnimes(placed, active)
  BY DEF Schedule!Active, OfAnimes
<1> QED
  BY <1>1, <1>2 DEF Schedule!BoardRead, ReadOf, ColumnsOf

\* A board read from what is stored, and its draft, are as the invariant has them.
LEMMA BoardOkFits ==
  ASSUME BoardOk(board, placed, active, modified, order), SlotsFit
  PROVE  BoardIsRead /\ DraftFits /\ JoinedIsLater
BY DEF BoardOk, DraftOk, SlotsFit, BoardIsRead, DraftFits, JoinedIsLater

LEMMA ScheduleInit ==
  ASSUME ScheduleAssumptions, Schedule!Init
  PROVE  ScheduleInv
<1>1. /\ placed \in Boards /\ active = ScheduleAnimes /\ modified = [a \in ScheduleAnimes |-> 0]
      /\ board = Schedule!BoardRead /\ order = Schedule!DraftOf(board) /\ applying = FALSE
            /\ command = <<>> /\ result = <<>>
  BY DEF Schedule!Init
<1>2. PlacedFits(placed)
  <2>1. placed \subseteq Schedule!Placements /\ IsFiniteSet(placed)
    BY <1>1 DEF ScheduleAssumptions
  <2>2. ASSUME NEW d \in ScheduleDays PROVE IsFiniteSet(OfDay(placed, d))
    <3>1. OfDay(placed, d) \in SUBSET placed
      BY DEF OfDay
    <3> QED
      BY <2>1, <3>1, FS_Subset
  <2> QED
    BY <2>1, <2>2 DEF PlacedFits
<1>3. modified \in [ScheduleAnimes -> Nat] /\ active \in SUBSET ScheduleAnimes
  BY <1>1
<1>4. SlotsFit
  BY <1>2, <1>3 DEF SlotsFit, PlacedFits
<1>5. board = ReadOf(placed, active, modified)
  BY <1>1, BoardReadIs
<1>6. BoardOk(board, placed, active, modified, order)
  BY <1>1, <1>2, <1>3, <1>5, ReadFits
<1>7. BoardIsRead /\ DraftFits /\ JoinedIsLater
  BY <1>4, <1>6, BoardOkFits
<1>8. ApplyIsOfTheDraft
  BY <1>1 DEF ApplyIsOfTheDraft
<1>9. Schedule!AppliedIsTheDraft /\ Schedule!DraftsAreTaken
  <2>1. AppliedFits(result) /\ TakenFits(result)
    BY <1>1 DEF AppliedFits, TakenFits
  <2> QED
    BY <2>1, AppliedIs, TakenIs
<1> QED
  BY <1>4, <1>7, <1>8, <1>9 DEF ScheduleInv

\* The result alone says whether an apply stored its draft.
LEMMA ResultNext ==
  /\ Schedule!AppliedIsTheDraft' <=> AppliedFits(result')
  /\ Schedule!DraftsAreTaken' <=> TakenFits(result')
<1>1. \A d : Schedule!Seen(d)' = SeenOf(result', d)
  BY WithoutIsSame DEF Schedule!Seen, SeenOf
<1>2. \A d : Schedule!KeptParked(d)' = KeptOf(result', d)
  BY DEF Schedule!KeptParked, KeptOf, ParkedOf
<1>3. Schedule!AppliedIsTheDraft' <=> AppliedFits(result')
  BY <1>1, <1>2 DEF Schedule!AppliedIsTheDraft, AppliedFits, Schedule!Applied,
    Schedule!NothingParked
<1>4. Schedule!DraftsAreTaken' <=> TakenFits(result')
  BY DEF Schedule!DraftsAreTaken, TakenFits, Schedule!NothingParked
<1> QED
  BY <1>3, <1>4

LEMMA ResultStays ==
  ASSUME Schedule!AppliedIsTheDraft, Schedule!DraftsAreTaken, result' = result
  PROVE  Schedule!AppliedIsTheDraft' /\ Schedule!DraftsAreTaken'
BY AppliedIs, TakenIs, ResultNext

\* A new draft of the board, with no apply on its way.
LEMMA DraftStep ==
  ASSUME ScheduleAssumptions, ScheduleInv, DraftOk(order', DOMAIN board.entries), ~applying,
         UNCHANGED <<placed, active, modified, board, applying, command, result>>
  PROVE  ScheduleInv'
<1>1. SlotsFit' /\ BoardIsRead' /\ JoinedIsLater'
  BY DEF ScheduleInv, SlotsFit, BoardIsRead, JoinedIsLater
<1>2. DraftFits'
  BY DEF DraftOk, DraftFits
<1>3. ApplyIsOfTheDraft'
  BY DEF ScheduleInv, ApplyIsOfTheDraft
<1>4. Schedule!AppliedIsTheDraft' /\ Schedule!DraftsAreTaken'
  BY ResultStays DEF ScheduleInv
<1> QED
  BY <1>1, <1>2, <1>3, <1>4 DEF ScheduleInv

LEMMA CardsIs ==
  ASSUME ScheduleInv
  PROVE  Schedule!Cards = CardsIn(order) /\ DraftOk(order, DOMAIN board.entries)
<1>1. \A c \in Schedule!Containers : order[c] \in Seq(Schedule!Keys)
  BY DEF ScheduleInv, DraftFits
<1>2. \A c \in Schedule!Containers : Schedule!Range(order[c]) = On(order[c])
  BY <1>1, RangeIsOn
<1>3. DraftOk(order, DOMAIN board.entries)
  BY DEF ScheduleInv, DraftFits, DraftOk
<1> QED
  BY <1>2, <1>3 DEF Schedule!Cards, CardsIn

LEMMA CardFits ==
  ASSUME NEW o, NEW ac, DraftOk(o, ac), NEW k \in CardsIn(o)
  PROVE  k \in Schedule!Keys /\ k[1] \in ac
<1>1. PICK c \in Schedule!Containers : k \in On(o[c])
  BY DEF CardsIn
<1>2. o[c] \in Seq(Schedule!Keys)
  BY DEF DraftOk
<1>3. PICK i \in 1..Len(o[c]) : o[c][i] = k
  BY <1>1 DEF On
<1> QED
  BY <1>1, <1>2, <1>3 DEF DraftOk

LEMMA DragStep ==
  ASSUME ScheduleAssumptions, ScheduleInv, NEW k \in Schedule!Cards, NEW c \in Schedule!Containers,
         NEW i \in 1..MaxCards, Schedule!Drag(k, c, i)
  PROVE  ScheduleInv'
<1>1. PICK o, ac : o = order /\ ac = DOMAIN board.entries
  OBVIOUS
<1>2. DraftOk(o, ac) /\ k \in CardsIn(o)
  BY <1>1, CardsIs
<1>3. PICK rest : rest = Schedule!Removed(o, {k})
  OBVIOUS
<1>4. /\ DraftOk(rest, ac) /\ \A e \in Schedule!Containers : On(rest[e]) = On(o[e]) \ {k}
  BY <1>2, <1>3, RemovedFits
<1>5. k \in Schedule!Keys /\ k[1] \in ac
  BY <1>2, CardFits
<1>6. k \notin CardsIn(rest)
  BY <1>4 DEF CardsIn
<1>7. i <= Len(rest[c]) + 1 /\ order' = [rest EXCEPT ![c] = Schedule!InsertedAt(rest[c], i, k)]
      /\ ~applying /\ UNCHANGED <<placed, active, modified, board, applying, command, result>>
  BY <1>1, <1>3 DEF Schedule!Drag, Schedule!Settled
<1>8. Schedule!InsertedAt(rest[c], i, k) = InsertedAt(rest[c], i, k)
  BY DEF Schedule!InsertedAt, InsertedAt
<1>9. i \in 1..Len(rest[c]) + 1
  <2>1. rest[c] \in Seq(Schedule!Keys)
    BY <1>4 DEF DraftOk
  <2>2. Len(rest[c]) \in Nat
    BY <2>1
  <2> QED
    BY <1>7, <2>2 DEF ScheduleAssumptions
<1>10. DraftOk([rest EXCEPT ![c] = InsertedAt(rest[c], i, k)], ac)
  BY <1>4, <1>5, <1>6, <1>9, InsertFits
<1> QED
  BY <1>1, <1>7, <1>8, <1>10, DraftStep

LEMMA DuplicateStep ==
  ASSUME ScheduleAssumptions, ScheduleInv, NEW a \in ScheduleAnimes, Schedule!Duplicate(a)
  PROVE  ScheduleInv'
<1>1. PICK o, ac : o = order /\ ac = DOMAIN board.entries
  OBVIOUS
<1>2. DraftOk(o, ac) /\ Schedule!Cards = CardsIn(o)
  BY <1>1, CardsIs
<1>3. PICK n \in 0..MaxCards : /\ <<a, n>> \notin CardsIn(o)
                               /\ order' = [o EXCEPT ![Schedule!Staging] = Append(@, <<a, n>>)]
  BY <1>1, <1>2 DEF Schedule!Duplicate
<1>4. ~applying /\ UNCHANGED <<placed, active, modified, board, applying, command, result>>
          /\ Schedule!CardsOf(a) # {}
  BY DEF Schedule!Duplicate, Schedule!Settled
<1>5. PICK k, c, s, j : k = <<a, n>> /\ c = Schedule!Staging /\ s = o[c] /\ j = Len(s) + 1
  OBVIOUS
<1>6. c \in Schedule!Containers
  BY <1>5 DEF Schedule!Containers
<1>7. o \in [Schedule!Containers -> Seq(Schedule!Keys)] /\ s \in Seq(Schedule!Keys)
  BY <1>2, <1>5, <1>6 DEF DraftOk
<1>8. k \in Schedule!Keys /\ k[1] \in ac /\ k \notin CardsIn(o)
  <2>1. PICK x \in CardsIn(o) : x[1] = a
    BY <1>2, <1>4 DEF Schedule!CardsOf
  <2>2. x[1] \in ac
    BY <1>2, CardFits
  <2>3. n \in Nat
    BY DEF ScheduleAssumptions
  <2> QED
    BY <1>3, <1>5, <2>1, <2>2, <2>3 DEF Schedule!Keys
<1>9. order' = [o EXCEPT ![c] = Append(s, k)]
  BY <1>3, <1>5, <1>6, <1>7
<1>10. Append(s, k) = InsertedAt(s, j, k)
  <2>1. Len(s) \in Nat /\ Append(s, k) \in Seq(Schedule!Keys) /\ Len(Append(s, k)) = Len(s) + 1
        /\ \A i \in 1..Len(s) + 1 : Append(s, k)[i] = IF i = Len(s) + 1 THEN k ELSE s[i]
    BY <1>7, <1>8
  <2>2. InsertedAt(s, j, k) = [i \in 1..Len(s) + 1 |-> IF i = Len(s) + 1 THEN k ELSE s[i]]
    BY <1>5, <2>1 DEF InsertedAt
  <2>3. Append(s, k) = [i \in 1..Len(s) + 1 |-> Append(s, k)[i]]
    <3>1. PICK p : p = Append(s, k)
      OBVIOUS
    <3>2. p \in Seq(Schedule!Keys) /\ Len(p) = Len(s) + 1
      BY <2>1, <3>1
    <3>3. p = [i \in 1..Len(p) |-> p[i]]
      BY <3>2
    <3> QED
      BY <3>1, <3>2, <3>3
  <2> QED
    BY <2>1, <2>2, <2>3
<1>11. j \in 1..Len(o[c]) + 1
  BY <1>5, <1>7
<1>12. DraftOk([o EXCEPT ![c] = InsertedAt(o[c], j, k)], ac)
  BY <1>2, <1>6, <1>8, <1>11, InsertFits
<1> QED
  BY <1>1, <1>4, <1>5, <1>9, <1>10, <1>12, DraftStep

LEMMA RemoveStep ==
  ASSUME ScheduleAssumptions, ScheduleInv, NEW k, Schedule!RemoveCard(k)
  PROVE  ScheduleInv'
<1>1. PICK o, ac : o = order /\ ac = DOMAIN board.entries
  OBVIOUS
<1>2. DraftOk(o, ac)
  BY <1>1, CardsIs
<1>3. order' = Schedule!Removed(o, {k}) /\ ~applying
      /\ UNCHANGED <<placed, active, modified, board, applying, command, result>>
  BY <1>1 DEF Schedule!RemoveCard, Schedule!Settled
<1>4. DraftOk(order', ac)
  BY <1>2, <1>3, RemovedFits
<1> QED
  BY <1>1, <1>3, <1>4, DraftStep

LEMMA OpenStep ==
  ASSUME ScheduleAssumptions, ScheduleInv, Schedule!OpenSchedule
  PROVE  ScheduleInv'
<1>1. /\ ~applying /\ board' = ReadOf(placed, active, modified) /\ order' = Schedule!DraftOf(board')
      /\ UNCHANGED <<placed, active, modified, applying, command, result>>
  BY BoardReadIs DEF Schedule!OpenSchedule
<1>2. PICK b, o, pl, ac, md : b = board' /\ o = order' /\ pl = placed /\ ac = active /\ md = modified
  OBVIOUS
<1>3. PlacedFits(pl) /\ ac \in SUBSET ScheduleAnimes /\ md \in [ScheduleAnimes -> Nat]
  BY <1>2 DEF ScheduleInv, SlotsFit, PlacedFits
<1>4. b = ReadOf(pl, ac, md) /\ o = Schedule!DraftOf(b)
  BY <1>1, <1>2
<1>5. BoardOk(b, pl, ac, md, o)
  BY <1>3, <1>4, ReadFits
<1>6. SlotsFit'
  BY <1>1 DEF ScheduleInv, SlotsFit
<1>7. BoardOk(board', placed', active', modified', order')
  BY <1>1, <1>2, <1>5
<1>8. BoardIsRead' /\ DraftFits' /\ JoinedIsLater'
  BY <1>6, <1>7 DEF BoardOk, DraftOk, SlotsFit, BoardIsRead, DraftFits, JoinedIsLater
<1>9. ApplyIsOfTheDraft'
  BY <1>1 DEF ScheduleInv, ApplyIsOfTheDraft
<1>10. Schedule!AppliedIsTheDraft' /\ Schedule!DraftsAreTaken'
  BY <1>1, ResultStays DEF ScheduleInv
<1> QED
  BY <1>6, <1>8, <1>9, <1>10 DEF ScheduleInv

LEMMA ApplyEntriesStays ==
  ASSUME board' = board, order' = order
  PROVE  Schedule!ApplyEntries' = Schedule!ApplyEntries
BY DEF Schedule!ApplyEntries, Schedule!Staged, Schedule!StagedAnimes

LEMMA ToggleStep ==
  ASSUME ScheduleAssumptions, ScheduleInv, NEW a \in ScheduleAnimes, Schedule!Toggle(a)
  PROVE  ScheduleInv'
<1>1. PICK t : t = Schedule!Stamp
  OBVIOUS
<1>2. /\ active' = (IF a \in active THEN active \ {a} ELSE active \cup {a})
      /\ modified' = [modified EXCEPT ![a] = t]
      /\ UNCHANGED <<placed, board, order, applying, command, result>>
  BY <1>1 DEF Schedule!Toggle
<1>3. t \in Nat /\ \A x \in ScheduleAnimes : modified[x] < t
  BY <1>1, StampIsLater DEF ScheduleInv
<1>4. /\ active \in SUBSET ScheduleAnimes /\ modified \in [ScheduleAnimes -> Nat]
            /\ board.modifiedAt \in Nat
  BY DEF ScheduleInv, SlotsFit, BoardIsRead
<1>5. SlotsFit'
  BY <1>2, <1>3 DEF ScheduleInv, SlotsFit
<1>6. BoardIsRead' /\ DraftFits'
  BY <1>2 DEF ScheduleInv, BoardIsRead, DraftFits
<1>7. \A x \in ScheduleAnimes : modified'[x] = IF x = a THEN t ELSE modified[x]
  BY <1>2, <1>4
<1>8. PICK z \in ScheduleAnimes : modified[z] >= board.modifiedAt
  BY DEF ScheduleInv, JoinedIsLater
<1>9. t > board.modifiedAt
  <2>1. modified[z] \in Nat /\ modified[z] < t
    BY <1>3, <1>4
  <2> QED
    BY <1>3, <1>4, <1>8, <2>1
<1>10. \A x \in active' \ DOMAIN board'.entries : modified'[x] > board'.modifiedAt
  <2> SUFFICES ASSUME NEW x \in active', x \notin DOMAIN board'.entries
               PROVE  modified'[x] > board'.modifiedAt
    OBVIOUS
  <2>1. x \in ScheduleAnimes /\ board' = board
    BY <1>2, <1>5 DEF SlotsFit
  <2>2. CASE x = a
    BY <1>7, <1>9, <2>1, <2>2
  <2>3. CASE x # a
    <3>1. x \in active \ DOMAIN board.entries
      BY <1>2, <2>1, <2>3
    <3>2. modified[x] > board.modifiedAt
      BY <3>1 DEF ScheduleInv, JoinedIsLater
    <3> QED
      BY <1>7, <2>1, <2>3, <3>2
  <2> QED
    BY <2>2, <2>3
<1>11. modified'[z] >= board'.modifiedAt
  <2>1. CASE z = a
    BY <1>2, <1>3, <1>4, <1>7, <1>9, <2>1
  <2>2. CASE z # a
    BY <1>2, <1>7, <1>8, <2>2
  <2> QED
    BY <2>1, <2>2
<1>12. JoinedIsLater'
  BY <1>10, <1>11 DEF JoinedIsLater
<1>13. ApplyIsOfTheDraft'
  BY <1>2, ApplyEntriesStays DEF ScheduleInv, ApplyIsOfTheDraft
<1>14. Schedule!AppliedIsTheDraft' /\ Schedule!DraftsAreTaken'
  BY <1>2, ResultStays DEF ScheduleInv
<1> QED
  BY <1>5, <1>6, <1>12, <1>13, <1>14 DEF ScheduleInv

LEMMA ApplyStep ==
  ASSUME ScheduleAssumptions, ScheduleInv, Schedule!Apply
  PROVE  ScheduleInv'
<1>1. /\ command' = Schedule!ApplyEntries /\ applying' = TRUE
      /\ UNCHANGED <<placed, active, modified, board, order, result>>
  BY DEF Schedule!Apply
<1>2. SlotsFit' /\ BoardIsRead' /\ DraftFits' /\ JoinedIsLater'
  BY <1>1 DEF ScheduleInv, SlotsFit, BoardIsRead, DraftFits, JoinedIsLater
<1>3. Schedule!ApplyEntries # <<>>
  <2>1. Schedule!ApplyEntries.draft = order /\ "draft" \in DOMAIN Schedule!ApplyEntries
    BY DEF Schedule!ApplyEntries
  <2>2. DOMAIN <<>> = {}
    OBVIOUS
  <2> QED
    BY <2>1, <2>2
<1>4. ApplyIsOfTheDraft'
  BY <1>1, <1>3, ApplyEntriesStays DEF ApplyIsOfTheDraft
<1>5. Schedule!AppliedIsTheDraft' /\ Schedule!DraftsAreTaken'
  BY <1>1, ResultStays DEF ScheduleInv
<1> QED
  BY <1>2, <1>4, <1>5 DEF ScheduleInv

LEMMA ThrownStep ==
  ASSUME ScheduleAssumptions, ScheduleInv, Schedule!AnswerThrown
  PROVE  ScheduleInv'
<1>1. /\ command' = <<>> /\ applying' = FALSE
      /\ UNCHANGED <<placed, active, modified, board, order, result>>
  BY DEF Schedule!AnswerThrown
<1>2. SlotsFit' /\ BoardIsRead' /\ DraftFits' /\ JoinedIsLater'
  BY <1>1 DEF ScheduleInv, SlotsFit, BoardIsRead, DraftFits, JoinedIsLater
<1>3. ApplyIsOfTheDraft'
  BY <1>1 DEF ApplyIsOfTheDraft
<1>4. Schedule!AppliedIsTheDraft' /\ Schedule!DraftsAreTaken'
  BY <1>1, ResultStays DEF ScheduleInv
<1> QED
  BY <1>2, <1>3, <1>4 DEF ScheduleInv

LEMMA AnswerStep ==
  ASSUME ScheduleAssumptions, ScheduleInv, Schedule!Answer
  PROVE  ScheduleInv'
<1> DEFINE touched == {a \in active : {s \in Schedule!Normalized(command) :
        s.anime = a} # {s \in placed : s.anime = a}}
<1>1. /\ applying /\ applying' = FALSE /\ command' = <<>> /\ active' = active
      /\ IF Outcome = "applied"
         THEN /\ placed' = Kept
              /\ modified' = [a \in ScheduleAnimes |-> IF a \in touched THEN Schedule!Stamp
                    ELSE modified[a]]
         ELSE UNCHANGED <<placed, modified>>
      /\ board' = Schedule!BoardRead' /\ order' = Schedule!DraftOf(board')
      /\ result' = [outcome |-> Outcome, draft |-> command.draft, before |-> board,
            entries |-> Schedule!Changed(command),
                    fresh |-> ~Schedule!IsStale(command) /\ DOMAIN board.entries = active,
                        gaps |-> Gaps,
                    active |-> active, after |-> board'.columns]
  BY DEF Schedule!Answer, Outcome, Kept, Gaps
<1> HIDE DEF touched
<1>2. /\ SlotsFit /\ BoardIsRead /\ DraftFits /\ JoinedIsLater /\ command = Schedule!ApplyEntries
  BY <1>1 DEF ScheduleInv, ApplyIsOfTheDraft
<1>3. placed' = IF Outcome = "applied" THEN Kept ELSE placed
  BY <1>1
<1>4. PlacedFits(placed')
  <2>1. CASE Outcome = "applied"
    <3>1. Schedule!Changed(command) \subseteq active
      BY <2>1 DEF Outcome, Schedule!Refused
    <3>2. PlacedFits(Kept)
      BY <1>2, <3>1, KeptFits DEF PlacedFits
    <3> QED
      BY <1>3, <2>1, <3>2
  <2>2. CASE Outcome # "applied"
    BY <1>2, <1>3, <2>2 DEF SlotsFit, PlacedFits
  <2> QED
    BY <2>1, <2>2
<1>5. active' \in SUBSET ScheduleAnimes /\ modified' \in [ScheduleAnimes -> Nat]
  <2>1. active \in SUBSET ScheduleAnimes /\ modified \in [ScheduleAnimes -> Nat]
            /\ Schedule!Stamp \in Nat
    BY <1>2, StampIsLater DEF SlotsFit
  <2>2. CASE Outcome = "applied"
    BY <1>1, <2>1, <2>2
  <2>3. CASE Outcome # "applied"
    BY <1>1, <2>1, <2>3
  <2> QED
    BY <1>1, <2>1, <2>2, <2>3
<1>6. SlotsFit'
  BY <1>4, <1>5 DEF SlotsFit, PlacedFits
<1>7. board' = ReadOf(placed', active', modified')
  <2>1. Schedule!BoardModifiedAt' = ModifiedAtOf(active', modified')
    BY DEF Schedule!BoardModifiedAt, ModifiedAtOf
  <2>2. Schedule!Active(placed)' = OfAnimes(placed', active')
    BY DEF Schedule!Active, OfAnimes
  <2>3. Schedule!BoardRead' = ReadOf(placed', active', modified')
    BY <2>1, <2>2 DEF Schedule!BoardRead, ReadOf, ColumnsOf
  <2> QED
    BY <1>1, <2>3
<1>8. PICK b, o, pl, ac, md : b = board' /\ o = order' /\ pl = placed' /\ ac = active' /\ md = modified'
  OBVIOUS
<1>9. BoardOk(b, pl, ac, md, o)
  <2>1. PlacedFits(pl) /\ ac \in SUBSET ScheduleAnimes /\ md \in [ScheduleAnimes -> Nat]
    BY <1>4, <1>5, <1>8
  <2>2. b = ReadOf(pl, ac, md) /\ o = Schedule!DraftOf(b)
    BY <1>1, <1>7, <1>8
  <2> QED
    BY <2>1, <2>2, ReadFits
<1>10. BoardIsRead' /\ DraftFits' /\ JoinedIsLater'
  BY <1>6, <1>8, <1>9 DEF BoardOk, DraftOk, SlotsFit, BoardIsRead, DraftFits, JoinedIsLater
<1>11. ApplyIsOfTheDraft'
  BY <1>1 DEF ApplyIsOfTheDraft
<1>12. AppliedFits(result') /\ TakenFits(result')
  <2>1. b.columns = ColumnsOf(pl, active) /\ pl = IF Outcome = "applied" THEN Kept ELSE placed
    BY <1>1, <1>3, <1>8, <1>9 DEF BoardOk
  <2>2. PICK r : r = result'
    OBVIOUS
  <2>3. r = [outcome |-> Outcome, draft |-> command.draft, before |-> board,
            entries |-> Schedule!Changed(command),
             fresh |-> ~Schedule!IsStale(command) /\ DOMAIN board.entries = active, gaps |-> Gaps,
             active |-> active, after |-> ColumnsOf(pl, active)]
    BY <1>1, <1>8, <2>1, <2>2
  <2>4. AppliedFits(r) /\ TakenFits(r)
    BY <1>2, <2>1, <2>3, AnswerFits
  <2> QED
    BY <2>2, <2>4
<1>13. Schedule!AppliedIsTheDraft' /\ Schedule!DraftsAreTaken'
  BY <1>12, ResultNext
<1> QED
  BY <1>6, <1>10, <1>11, <1>13 DEF ScheduleInv

LEMMA ScheduleStutter ==
  ASSUME ScheduleInv, UNCHANGED Schedule!vars
  PROVE  ScheduleInv'
<1>1. UNCHANGED <<placed, active, modified, board, order, applying, command, result>>
  BY DEF Schedule!vars
<1>2. SlotsFit' /\ BoardIsRead' /\ DraftFits' /\ JoinedIsLater'
  BY <1>1 DEF ScheduleInv, SlotsFit, BoardIsRead, DraftFits, JoinedIsLater
<1>3. ApplyIsOfTheDraft'
  BY <1>1, ApplyEntriesStays DEF ScheduleInv, ApplyIsOfTheDraft
<1>4. Schedule!AppliedIsTheDraft' /\ Schedule!DraftsAreTaken'
  BY <1>1, ResultStays DEF ScheduleInv
<1> QED
  BY <1>2, <1>3, <1>4 DEF ScheduleInv

LEMMA ScheduleStep ==
  ASSUME ScheduleAssumptions, ScheduleInv, [Schedule!Next]_Schedule!vars
  PROVE  ScheduleInv'
<1>1. ASSUME NEW k \in Schedule!Cards, NEW c \in Schedule!Containers, NEW i \in 1..MaxCards,
             Schedule!Drag(k, c, i)
      PROVE  ScheduleInv'
  BY <1>1, DragStep
<1>2. ASSUME NEW k \in Schedule!Cards, Schedule!RemoveCard(k)
      PROVE  ScheduleInv'
  BY <1>2, RemoveStep
<1>3. ASSUME NEW a \in ScheduleAnimes, Schedule!Duplicate(a)
      PROVE  ScheduleInv'
  BY <1>3, DuplicateStep
<1>4. ASSUME NEW a \in ScheduleAnimes, Schedule!Toggle(a)
      PROVE  ScheduleInv'
  BY <1>4, ToggleStep
<1>5. CASE Schedule!OpenSchedule
  BY <1>5, OpenStep
<1>6. CASE Schedule!Apply
  BY <1>6, ApplyStep
<1>7. CASE Schedule!Answered
  BY <1>7, ThrownStep, AnswerStep DEF Schedule!Answered
<1>8. CASE UNCHANGED Schedule!vars
  BY <1>8, ScheduleStutter
<1> QED
  BY <1>1, <1>2, <1>3, <1>4, <1>5, <1>6, <1>7, <1>8 DEF Schedule!Next

\* For any animes, days, stored placements and moves: what an apply stores is what the user
\* saw, and a draft of the board as it is gets applied, but as the properties say
\* (ScheduleModal, buildScheduleApplyEntries, normalizeDesiredSchedule).
THEOREM ScheduleIsSafe ==
  ASSUME ScheduleAssumptions
  PROVE  Schedule!Spec => [](Schedule!TypeOK /\ Schedule!AppliedIsTheDraft /\ Schedule!DraftsAreTaken)
<1>1. Schedule!Init => ScheduleInv
  BY ScheduleInit
<1>2. ScheduleInv /\ [Schedule!Next]_(Schedule!vars) => ScheduleInv'
  BY ScheduleStep
<1> QED
  BY <1>1, <1>2, ScheduleInvFits, PTL DEF Schedule!Spec

==============================================================================
