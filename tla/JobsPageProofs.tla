---------------------------- MODULE JobsPageProofs ----------------------------
(* Proofs about JobsPage, for any jobs, requests and changes on the server. *)
EXTENDS JobsPage, FiniteSetTheorems, SequenceTheorems, WellFoundedInduction, TLAPS

USE JobsAssumption, BoundsAssumption

-------------------------------------------------------------------------------
(* What the operators on sequences keep.                                   *)

LEMMA PartOfSeq ==
    ASSUME NEW S, NEW s \in Seq(S), NEW m \in 1..(Len(s) + 1), NEW n \in (m - 1)..Len(s)
    PROVE  /\ SubSeq(s, m, n) \in Seq(S) /\ Len(SubSeq(s, m, n)) = n - m + 1
           /\ \A i \in 1..(n - m + 1) : SubSeq(s, m, n)[i] = s[m + i - 1]
<1>1. Len(s) \in Nat /\ m \in Int /\ n \in Int /\ n - m + 1 >= 0 /\ \A i \in m..n : i \in 1..Len(s) /\ s[i] \in S
  BY ElementOfSeq
<1> DEFINE t == SubSeq(s, m, n)
<1>2. /\ t \in Seq(S) /\ Len(t) = IF m <= n THEN n - m + 1 ELSE 0
      /\ \A i \in 1..(n - m + 1) : t[i] = s[m + i - 1]
  BY <1>1, SubSeqProperties
<1> HIDE DEF t
<1>3. (IF m <= n THEN n - m + 1 ELSE 0) = n - m + 1
  BY <1>1
<1>4. QED
  BY <1>2, <1>3 DEF t

LEMMA RemoveAtIs ==
    ASSUME NEW S, NEW s \in Seq(S), NEW i \in 1..Len(s)
    PROVE  /\ RemoveAt(s, i) \in Seq(S) /\ Len(RemoveAt(s, i)) = Len(s) - 1
           /\ \A k \in 1..(Len(s) - 1) : RemoveAt(s, i)[k] = IF k < i THEN s[k] ELSE s[k + 1]
<1> DEFINE a == SubSeq(s, 1, i - 1)
           b == SubSeq(s, i + 1, Len(s))
           n == Len(s)
<1>1. n \in Nat /\ 1 \in 1..(n + 1) /\ i - 1 \in (1 - 1)..n /\ i + 1 \in 1..(n + 1) /\ n \in (i + 1 - 1)..n
  OBVIOUS
<1>2. a \in Seq(S) /\ Len(a) = (i - 1) - 1 + 1 /\ \A k \in 1..((i - 1) - 1 + 1) : a[k] = s[1 + k - 1]
  BY <1>1, PartOfSeq
<1>3. b \in Seq(S) /\ Len(b) = n - (i + 1) + 1 /\ \A k \in 1..(n - (i + 1) + 1) : b[k] = s[i + 1 + k - 1]
  BY <1>1, PartOfSeq
<1> HIDE DEF a, b
<1>4. /\ a \o b \in Seq(S) /\ Len(a \o b) = Len(a) + Len(b)
      /\ \A k \in 1..(Len(a) + Len(b)) : (a \o b)[k] = IF k <= Len(a) THEN a[k] ELSE b[k - Len(a)]
  BY <1>2, <1>3, ConcatProperties
<1>5. RemoveAt(s, i) = a \o b
  BY DEF RemoveAt, a, b
<1> HIDE DEF n
<1>6. Len(a) = i - 1 /\ Len(b) = n - i /\ Len(a) + Len(b) = n - 1
  BY <1>1, <1>2, <1>3
<1>7. /\ \A k \in 1..(i - 1) : a[k] = s[k]
      /\ \A k \in 1..(n - i) : b[k] = s[i + k]
  BY <1>1, <1>2, <1>3
<1>8. \A k \in 1..(n - 1) : (a \o b)[k] = IF k < i THEN s[k] ELSE s[k + 1]
  <2> SUFFICES ASSUME NEW k \in 1..(n - 1) PROVE (a \o b)[k] = IF k < i THEN s[k] ELSE s[k + 1]
    OBVIOUS
  <2>1. (a \o b)[k] = IF k <= i - 1 THEN a[k] ELSE b[k - (i - 1)]
    BY <1>4, <1>6
  <2>2. CASE k < i
    BY <1>1, <1>7, <2>1, <2>2
  <2>3. CASE ~(k < i)
    <3>1. k - (i - 1) \in 1..(n - i) /\ i + (k - (i - 1)) = k + 1 /\ ~(k <= i - 1)
      BY <1>1, <2>3
    <3>2. QED
      BY <1>7, <2>1, <2>3, <3>1
  <2>4. QED
    BY <2>2, <2>3
<1>9. QED
  BY <1>4, <1>5, <1>6, <1>8 DEF n

LEMMA InsertAtIs ==
    ASSUME NEW S, NEW s \in Seq(S), NEW i \in 1..(Len(s) + 1), NEW e \in S
    PROVE  /\ InsertAt(s, i, e) \in Seq(S) /\ Len(InsertAt(s, i, e)) = Len(s) + 1
           /\ \A k \in 1..(Len(s) + 1) :
                 InsertAt(s, i, e)[k] = IF k < i THEN s[k] ELSE IF k = i THEN e ELSE s[k - 1]
<1> DEFINE a == SubSeq(s, 1, i - 1)
           b == SubSeq(s, i, Len(s))
           n == Len(s)
           t == Append(a, e)
<1>1. n \in Nat /\ 1 \in 1..(n + 1) /\ i - 1 \in (1 - 1)..n /\ n \in (i - 1)..n
  OBVIOUS
<1>2. a \in Seq(S) /\ Len(a) = (i - 1) - 1 + 1 /\ \A k \in 1..((i - 1) - 1 + 1) : a[k] = s[1 + k - 1]
  BY <1>1, PartOfSeq
<1>3. b \in Seq(S) /\ Len(b) = n - i + 1 /\ \A k \in 1..(n - i + 1) : b[k] = s[i + k - 1]
  BY <1>1, PartOfSeq
<1> HIDE DEF a, b
<1>4. /\ t \in Seq(S) /\ Len(t) = Len(a) + 1 /\ \A k \in 1..Len(a) : t[k] = a[k]
      /\ t[Len(a) + 1] = e
  BY <1>2, AppendProperties
<1>5. t = a \o <<e>>
  BY <1>2, AppendIsConcat
<1> HIDE DEF t
<1>6. /\ t \o b \in Seq(S) /\ Len(t \o b) = Len(t) + Len(b)
      /\ \A k \in 1..(Len(t) + Len(b)) : (t \o b)[k] = IF k <= Len(t) THEN t[k] ELSE b[k - Len(t)]
  BY <1>3, <1>4, ConcatProperties
<1>7. InsertAt(s, i, e) = t \o b
  BY <1>5 DEF InsertAt, a, b
<1> HIDE DEF n
<1>8. Len(a) = i - 1 /\ Len(t) = i /\ Len(b) = n - i + 1 /\ Len(t) + Len(b) = n + 1
  <2>1. i \in Nat /\ n \in Nat
    BY <1>1
  <2>2. Len(a) = (i - 1) - 1 + 1
    BY <1>2
  <2>3. Len(b) = n - i + 1
    BY <1>3
  <2>4. Len(t) = Len(a) + 1
    BY <1>4
  <2>5. QED
    BY <2>1, <2>2, <2>3, <2>4
<1>9. /\ \A k \in 1..(i - 1) : t[k] = s[k]
      /\ t[i] = e
      /\ \A k \in 1..(n - i + 1) : b[k] = s[i + k - 1]
  BY <1>1, <1>2, <1>3, <1>4, <1>8
<1>10. \A k \in 1..(n + 1) : (t \o b)[k] = IF k < i THEN s[k] ELSE IF k = i THEN e ELSE s[k - 1]
  <2> SUFFICES ASSUME NEW k \in 1..(n + 1)
               PROVE  (t \o b)[k] = IF k < i THEN s[k] ELSE IF k = i THEN e ELSE s[k - 1]
    OBVIOUS
  <2>1. (t \o b)[k] = IF k <= i THEN t[k] ELSE b[k - i]
    BY <1>6, <1>8
  <2>2. CASE k < i
    BY <1>1, <1>9, <2>1, <2>2
  <2>3. CASE k = i
    BY <1>1, <1>9, <2>1, <2>3
  <2>4. CASE k > i
    <3>1. k - i \in 1..(n - i + 1) /\ i + (k - i) - 1 = k - 1 /\ ~(k <= i) /\ ~(k < i) /\ k # i
      BY <1>1, <2>4
    <3>2. QED
      BY <1>9, <2>1, <3>1
  <2>5. k < i \/ k = i \/ k > i
    BY <1>1
  <2>6. QED
    BY <2>2, <2>3, <2>4, <2>5
<1>11. QED
  BY <1>6, <1>7, <1>8, <1>10 DEF n

(* Min of a set of naturals is in it: the order of the naturals is well    *)
(* founded.                                                                *)
LEMMA MinIsLeast ==
    ASSUME NEW S, S \subseteq Nat, S # {}
    PROVE  Min(S) \in S /\ \A y \in S : Min(S) <= y
<1> DEFINE R == {pair \in Nat \X Nat : pair[1] < pair[2]}
<1>1. IsWellFoundedOn(R, Nat)
  BY NatLessThanWellFounded DEF OpToRel
<1>2. \A x, y \in Nat : y < x => <<y, x>> \in R
  OBVIOUS
<1> HIDE DEF R
<1>3. PICK x \in S : \A y \in S : ~(<<y, x>> \in R)
  BY <1>1, WFMin
<1>4. \A y \in S : x \in Nat /\ y \in Nat /\ ~(y < x)
  BY <1>2, <1>3
<1>5. \A y \in S : x <= y
  BY <1>4
<1>6. QED
  BY <1>5 DEF Min

-------------------------------------------------------------------------------
(* The places of a list in order: Nth numbers them.                        *)

LEMMA NthIs ==
    ASSUME NEW P, IsFiniteSet(P), P \subseteq Int
    PROVE  /\ Cardinality(P) \in Nat
           /\ \A n \in 1..Cardinality(P) : Nth(P, n) \in P
           /\ \A m, n \in 1..Cardinality(P) : Nth(P, m) = Nth(P, n) => m = n
           /\ \A k \in P : \E n \in 1..Cardinality(P) : Nth(P, n) = k
<1> DEFINE c == Cardinality(P)
           below(k) == {i \in P : i <= k}
           rank(k) == Cardinality(below(k))
<1>1. c \in Nat
  BY FS_CardinalityType
<1>2. \A k \in P : IsFiniteSet(below(k)) /\ rank(k) \in 1..c
  <2> SUFFICES ASSUME NEW k \in P PROVE IsFiniteSet(below(k)) /\ rank(k) \in 1..c
    OBVIOUS
  <2>1. below(k) \in SUBSET P /\ k \in below(k)
    OBVIOUS
  <2> HIDE DEF below
  <2>2. IsFiniteSet(below(k)) /\ rank(k) <= c
    BY <2>1, FS_Subset
  <2>3. rank(k) \in Nat /\ rank(k) # 0
    BY <2>1, <2>2, FS_CardinalityType, FS_EmptySet
  <2>4. QED
    BY <1>1, <2>2, <2>3
<1>3. \A i, k \in P : rank(i) = rank(k) => ~(i < k)
  <2> SUFFICES ASSUME NEW i \in P, NEW k \in P, rank(i) = rank(k), i < k PROVE FALSE
    OBVIOUS
  <2>0. i \in Int /\ k \in Int /\ \A j \in P : j \in Int
    OBVIOUS
  <2> HIDE DEF rank
  <2>1. below(i) \in SUBSET below(k) /\ k \in below(k) /\ k \notin below(i)
    <3>1. \A j \in P : j <= i => j <= k
      BY <2>0
    <3>2. k <= k /\ ~(k <= i)
      BY <2>0
    <3>3. QED
      BY <3>1, <3>2
  <2> USE DEF rank
  <2> HIDE DEF below
  <2>2. below(i) = below(k)
    BY <1>2, <2>1, FS_Subset
  <2>3. QED
    BY <2>1, <2>2
<1> HIDE DEF below
<1>4. \A i, k \in P : rank(i) = rank(k) => i = k
  BY <1>3
<1> DEFINE r == [k \in P |-> rank(k)]
<1>5. r \in Injection(P, 1..c)
  BY <1>2, <1>4 DEF Injection, IsInjective
<1>6. IsFiniteSet(1..c) /\ Cardinality(1..c) = c
  <2>1. 1 \in Int /\ c \in Int
    BY <1>1
  <2>2. IsFiniteSet(1..c) /\ Cardinality(1..c) = IF 1 > c THEN 0 ELSE c - 1 + 1
    BY <2>1, FS_Interval
  <2> HIDE DEF c
  <2>3. QED
    BY <1>1, <2>2
<1> HIDE DEF r
<1>7. r \in Surjection(P, 1..c)
  BY <1>5, <1>6, FS_Injection
<1>8. \A n \in 1..c : \E k \in P : rank(k) = n
  BY <1>7 DEF Surjection, r
<1>9. \A n \in 1..c : Nth(P, n) \in P /\ rank(Nth(P, n)) = n
  BY <1>8 DEF Nth, below
<1> HIDE DEF c, rank
<1>10. \A k \in P : rank(k) \in 1..c /\ Nth(P, rank(k)) = k
  BY <1>2, <1>4, <1>9
<1>11. QED
  BY <1>1, <1>9, <1>10 DEF c

LEMMA NthOfInterval ==
    ASSUME NEW a \in Nat, NEW n \in Nat
    PROVE  /\ IsFiniteSet((a + 1)..(a + n)) /\ Cardinality((a + 1)..(a + n)) = n
           /\ \A i \in 1..n : Nth((a + 1)..(a + n), i) = a + i
<1> DEFINE P == (a + 1)..(a + n)
           below(k) == {i \in P : i <= k}
<1>1. \A i \in 0..n : IsFiniteSet((a + 1)..(a + i)) /\ Cardinality((a + 1)..(a + i)) = i
  <2> SUFFICES ASSUME NEW i \in 0..n
               PROVE  IsFiniteSet((a + 1)..(a + i)) /\ Cardinality((a + 1)..(a + i)) = i
    OBVIOUS
  <2>1. a + 1 \in Int /\ a + i \in Int
    OBVIOUS
  <2>2. /\ IsFiniteSet((a + 1)..(a + i))
        /\ Cardinality((a + 1)..(a + i)) = IF a + 1 > a + i THEN 0 ELSE (a + i) - (a + 1) + 1
    BY <2>1, FS_Interval
  <2>3. (IF a + 1 > a + i THEN 0 ELSE (a + i) - (a + 1) + 1) = i
    OBVIOUS
  <2>4. QED
    BY <2>2, <2>3
<1>2. \A i \in 1..n : below(a + i) = (a + 1)..(a + i)
  OBVIOUS
<1>3. \A i \in 1..n : a + i \in P /\ Cardinality(below(a + i)) = i
  <2>1. \A i \in 1..n : i \in 0..n /\ a + i \in P
    OBVIOUS
  <2> HIDE DEF P, below
  <2>2. QED
    BY <1>1, <1>2, <2>1
<1>4. \A k \in P : k - a \in 1..n /\ a + (k - a) = k
  OBVIOUS
<1> HIDE DEF P, below
<1>5. \A k \in P : \A i \in 1..n : Cardinality(below(k)) = i => k = a + i
  BY <1>3, <1>4
<1>6. \A i \in 1..n : Nth(P, i) = a + i
  BY <1>3, <1>5 DEF Nth, below
<1>7. n \in 0..n
  OBVIOUS
<1>8. IsFiniteSet(P) /\ Cardinality(P) = n
  BY <1>1, <1>7 DEF P
<1>9. QED
  BY <1>6, <1>8 DEF P

(* The elements of a list at some places.                                  *)
LEMMA AtIs ==
    ASSUME NEW S, NEW s \in Seq(S), NEW P \in SUBSET (1..Len(s))
    PROVE  /\ Cardinality(P) \in Nat /\ At(s, P) \in Seq(S) /\ Len(At(s, P)) = Cardinality(P)
           /\ \A n \in 1..Cardinality(P) : Nth(P, n) \in P /\ At(s, P)[n] = s[Nth(P, n)]
           /\ \A m, n \in 1..Cardinality(P) : Nth(P, m) = Nth(P, n) => m = n
           /\ \A k \in P : \E n \in 1..Cardinality(P) : Nth(P, n) = k
<1>1. Len(s) \in Nat /\ \A k \in 1..Len(s) : s[k] \in S
  BY ElementOfSeq
<1>2. IsFiniteSet(P) /\ P \subseteq Int
  <2>1. 1 \in Int /\ Len(s) \in Int
    BY <1>1
  <2>2. IsFiniteSet(1..Len(s))
    BY <2>1, FS_Interval
  <2>3. IsFiniteSet(P)
    BY <2>2, FS_Subset
  <2>4. QED
    BY <2>3
<1> DEFINE c == Cardinality(P)
<1>3. /\ c \in Nat /\ \A n \in 1..c : Nth(P, n) \in P
      /\ \A m, n \in 1..c : Nth(P, m) = Nth(P, n) => m = n
      /\ \A k \in P : \E n \in 1..c : Nth(P, n) = k
  BY <1>2, NthIs
<1>4. At(s, P) = [n \in 1..c |-> s[Nth(P, n)]]
  BY DEF At
<1> HIDE DEF c
<1>5. \A n \in 1..c : s[Nth(P, n)] \in S
  BY <1>1, <1>3
<1>6. At(s, P) \in Seq(S) /\ Len(At(s, P)) = c /\ \A n \in 1..c : At(s, P)[n] = s[Nth(P, n)]
  BY <1>3, <1>4, <1>5
<1>7. QED
  BY <1>3, <1>6 DEF c

-------------------------------------------------------------------------------
(* The start, and the steps that leave the page alone.                     *)

LEMMA JobNumbers ==
    /\ Absent = -1 /\ Gone = -2 /\ Absent \notin Versions /\ Gone \notin Versions /\ 0 \in Versions
    /\ Jobs \subseteq Int /\ IsFiniteSet(Jobs) /\ Pending \subseteq Jobs /\ 0 \notin Pending
    /\ Pending \cap Old = {}
<1>1. IsFiniteSet(Jobs)
  BY FS_Union DEF Jobs
<1>2. Absent = -1 /\ Gone = -2
  BY DEF Absent, Gone
<1>3. Absent \notin Versions /\ Gone \notin Versions /\ 0 \in Versions
  BY <1>2 DEF Versions
<1>4. \A j \in Pending : j \in Int /\ j > 0
  OBVIOUS
<1>5. \A j \in Old : j \in Int /\ ~(j > 0)
  OBVIOUS
<1>6. Jobs \subseteq Int /\ Pending \subseteq Jobs
  BY <1>4, <1>5 DEF Jobs
<1>7. 0 \notin Pending /\ Pending \cap Old = {}
  BY <1>4, <1>5
<1>8. QED
  BY <1>1, <1>2, <1>3, <1>6, <1>7

LEMMA JobsInit == Init => IInv
<1> SUFFICES ASSUME Init PROVE IInv
  OBVIOUS
<1>1. <<>> \in Seq(Cards) /\ <<>> \in Seq(Requests) /\ <<>> \in Seq(JobInfo) /\ Len(<<>>) = 0 /\ DOMAIN <<>> = {}
  BY EmptySeq
<1>2. TypeOK
  <2>1. server \in [Jobs -> Versions \cup {Absent, Gone}]
    BY JobNumbers DEF Init
  <2>2. 0 \in 0..MaxChanges
    OBVIOUS
  <2>3. QED
    BY <1>1, <2>1, <2>2 DEF Init, TypeOK
<1>3. \A j \in Pending : server[j] = Absent /\ result[j] = Absent
  BY JobNumbers DEF Init
<1>4. LayoutInv /\ PendingInv /\ ReadInv
  BY <1>1 DEF Init, LayoutInv, PendingInv, ReadInv
<1>5. HeardInv
  <2>1. \A j \in Jobs : server[j] <= changes
    BY JobNumbers DEF Init
  <2>2. QED
    BY <1>1, <1>3, <2>1 DEF Init, HeardInv
<1>6. OnceInv /\ ShownInv
  BY <1>1 DEF Init, OnceInv, ShownInv
<1>7. QED
  BY <1>2, <1>4, <1>5, <1>6 DEF IInv

LEMMA ServerChangesStep == ASSUME IInv, NEW j \in Jobs, ServerChanges(j) PROVE IInv'
<1>0. /\ TypeOK /\ HeardInv
      /\ UNCHANGED <<state, event, result, requests, cards, pendingCount, jobs, alive, shifted, raced, applied>>
      /\ server \in [Jobs -> Versions \cup {Absent, Gone}]
  BY DEF IInv, TypeOK, ServerChanges, page, history
<1>1. changes \in Nat /\ changes <= MaxChanges /\ server[j] <= changes
  BY <1>0 DEF TypeOK, HeardInv
<1>1a. server[j] \in Versions /\ j \in Pending => state[j] # "no"
  BY <1>0, JobNumbers DEF HeardInv
<1>2. PICK v \in Versions \cup {Gone} :
         /\ server' = [server EXCEPT ![j] = v]
         /\ j \in Pending => state[j] # "no"
         /\ v <= changes' /\ changes' \in 0..MaxChanges /\ changes <= changes'
  <2>1. CASE j \in Pending /\ state[j] = "working" /\ server' = [server EXCEPT ![j] = 0] /\ UNCHANGED changes
    <3>1. 0 \in Versions /\ 0 <= changes' /\ changes' \in 0..MaxChanges /\ changes <= changes'
      BY <1>1, <2>1, JobNumbers
    <3>2. QED
      BY <2>1, <3>1
  <2>2. CASE server[j] \in Versions /\ changes < MaxChanges /\ changes' = changes + 1
             /\ server' = [server EXCEPT ![j] = Gone]
    <3>1. Gone <= changes' /\ changes' \in 0..MaxChanges /\ changes <= changes'
      BY <1>1, <2>2, JobNumbers
    <3>2. QED
      BY <1>1a, <2>2, <3>1
  <2>3. CASE server[j] \in Versions /\ changes < MaxChanges /\ changes' = changes + 1
             /\ server' = [server EXCEPT ![j] = @ + 1]
    <3> DEFINE v == server[j] + 1
    <3>1. v \in Versions /\ v <= changes' /\ changes' \in 0..MaxChanges /\ changes <= changes'
      BY <1>1, <2>3 DEF Versions
    <3>2. server' = [server EXCEPT ![j] = v]
      BY <2>3
    <3> HIDE DEF v
    <3>3. QED
      BY <1>1a, <2>3, <3>1, <3>2
  <2>4. QED
    BY <2>1, <2>2, <2>3 DEF ServerChanges
<1>3. /\ server' \in [Jobs -> Versions \cup {Absent, Gone}] /\ server'[j] = v
      /\ \A k \in Jobs : k # j => server'[k] = server[k]
  BY <1>0, <1>2
<1>4. TypeOK'
  BY <1>0, <1>2, <1>3 DEF TypeOK
<1>5. HeardInv'
  <2>1. \A k \in Jobs : server'[k] <= changes'
    <3> SUFFICES ASSUME NEW k \in Jobs PROVE server'[k] <= changes'
      OBVIOUS
    <3>1. CASE k = j
      BY <1>2, <1>3, <3>1
    <3>2. CASE k # j
      <4>1. server'[k] = server[k] /\ server[k] <= changes
        BY <1>0, <1>3, <3>2 DEF HeardInv
      <4>2. server[k] \in Int
        BY <1>0, JobNumbers DEF Versions
      <4>3. QED
        BY <1>1, <1>2, <4>1, <4>2
    <3>3. QED
      BY <3>1, <3>2
  <2>2. \A k \in Pending : server'[k] # Absent => state'[k] # "no"
    BY <1>0, <1>2, <1>3, JobNumbers DEF HeardInv
  <2>3. QED
    BY <1>0, <2>1, <2>2 DEF HeardInv, GoodList, Printed
<1>6. LayoutInv' /\ PendingInv' /\ OnceInv' /\ ShownInv' /\ ReadInv'
  BY <1>0 DEF IInv, LayoutInv, PendingInv, OnceInv, ShownInv, ReadInv
<1>7. QED
  BY <1>4, <1>5, <1>6 DEF IInv

(* The requests for the list.                                              *)
ListsGood == \A n \in DOMAIN requests : GoodList(requests[n].list)

(* A job that was printed stays so. *)
PrintedStay == \A j \in Pending : state'[j] = "no" => state[j] = "no"

(* GoodList, in the next state. *)
GoodAfter(list) ==
    /\ \A k \in DOMAIN list : list[k].id \in Pending => state'[list[k].id] # "no"
    /\ \A i, k \in DOMAIN list : list[i].id = list[k].id => i = k

LEMMA GoodStays == PrintedStay => \A list : GoodList(list) => GoodAfter(list)
<1>1. QED
  BY DEF PrintedStay, GoodList, GoodAfter, Printed

LEMMA ListsGoodAfter == ListsGood' <=> \A n \in DOMAIN requests' : GoodAfter(requests'[n].list)
<1>1. QED
  BY DEF ListsGood, GoodList, GoodAfter, Printed

LEMMA PostIs ==
    ASSUME TypeOK, ListsGood, PrintedStay, NEW close \in Pending \cup {0}, Post(close)
    PROVE  requests' \in Seq(Requests) /\ ListsGood'
<1> DEFINE r == [close |-> close, answered |-> FALSE, list |-> <<>>]
           s == requests
<1>1. r \in Requests /\ r.list = <<>>
  BY EmptySeq DEF Requests
<1>2. s \in Seq(Requests)
  BY DEF TypeOK
<1>3. requests' = Append(s, r)
  BY DEF Post
<1> HIDE DEF r, s
<1>4. /\ requests' \in Seq(Requests) /\ Len(requests') = Len(s) + 1 /\ Len(s) \in Nat
      /\ \A i \in 1..Len(s) : requests'[i] = s[i]
      /\ requests'[Len(s) + 1] = r
  BY <1>1, <1>2, <1>3, AppendProperties
<1>5. DOMAIN requests' = 1..(Len(s) + 1) /\ DOMAIN s = 1..Len(s)
  BY <1>2, <1>4
<1>6. \A i \in DOMAIN requests' : i \in DOMAIN s \/ requests'[i] = r
  BY <1>4, <1>5
<1>7. \A i \in DOMAIN requests' : requests'[i].list = <<>> \/ \E n \in DOMAIN s : requests'[i].list = s[n].list
  BY <1>1, <1>4, <1>5, <1>6
<1>8. GoodAfter(<<>>)
  BY EmptySeq DEF GoodAfter
<1>9. \A n \in DOMAIN s : GoodAfter(s[n].list)
  BY GoodStays DEF ListsGood, s
<1>10. ListsGood'
  BY <1>7, <1>8, <1>9, ListsGoodAfter
<1>11. QED
  BY <1>4, <1>10

LEMMA JobEndsStep == ASSUME IInv, NEW j \in Pending, JobEnds(j) PROVE IInv'
<1>0. /\ TypeOK /\ HeardInv /\ ReadInv /\ state[j] = "working"
      /\ UNCHANGED <<server, changes, requests, cards, pendingCount, jobs, alive, shifted, raced, applied>>
      /\ state \in [Pending -> {"no", "working", "complete", "failed"}]
      /\ result \in [Pending -> Versions \cup {Absent}] /\ event' = [event EXCEPT ![j] = TRUE]
  BY DEF IInv, TypeOK, JobEnds, page, history
<1>1. PICK e \in {"complete", "failed"}, v \in Versions \cup {Absent} :
         /\ state' = [state EXCEPT ![j] = e] /\ result' = [result EXCEPT ![j] = v]
         /\ e = "complete" => v # Absent
         /\ e = "failed" => v = Absent
  <2>1. CASE server[j] \in Versions /\ state' = [state EXCEPT ![j] = "complete"]
             /\ result' = [result EXCEPT ![j] = server[j]]
    <3>1. server[j] # Absent
      BY <2>1, JobNumbers
    <3>2. QED
      BY <2>1, <3>1
  <2>2. CASE state' = [state EXCEPT ![j] = "failed"] /\ UNCHANGED result
    <3>1. result[j] = Absent
      BY <1>0 DEF HeardInv
    <3>2. result' = [result EXCEPT ![j] = Absent]
      BY <1>0, <2>2, <3>1
    <3>3. QED
      BY <2>2, <3>2
  <2>3. QED
    BY <2>1, <2>2 DEF JobEnds
<1>2. /\ state' \in [Pending -> {"no", "working", "complete", "failed"}] /\ state'[j] = e
      /\ result' \in [Pending -> Versions \cup {Absent}] /\ result'[j] = v
      /\ \A k \in Pending : k # j => state'[k] = state[k] /\ result'[k] = result[k]
  BY <1>0, <1>1
<1>3. PrintedStay
  BY <1>0, <1>2 DEF PrintedStay
<1>4. TypeOK'
  BY <1>0, <1>2 DEF TypeOK
<1>5. HeardInv'
  <2>1. ListsGood'
    BY <1>0, <1>3, GoodStays, ListsGoodAfter DEF HeardInv
  <2>2. \A k \in applied : Printed(k)'
    BY <1>0, <1>3 DEF HeardInv, Printed, PrintedStay
  <2>3. \A k \in Pending : state[k] # "no" => state'[k] # "no"
    BY <1>3 DEF PrintedStay
  <2>4. \A k \in Pending : result'[k] # Absent => state'[k] = "complete"
    BY <1>0, <1>1, <1>2 DEF HeardInv
  <2>5. QED
    BY <1>0, <2>1, <2>2, <2>3, <2>4 DEF HeardInv, ListsGood
<1>6. PendingInv'
  BY <1>0, <1>3 DEF IInv, PendingInv, PrintedStay
<1>7. ReadInv'
  <2>1. \A k \in Pending : state'[k] = "complete" => k = j \/ (state[k] = "complete" /\ result'[k] = result[k])
    BY <1>2
  <2>2. \A i \in 1..pendingCount : cards[i].id \in Pending
    BY DEF IInv, PendingInv
  <2>3. QED
    BY <1>0, <1>1, <1>2, <2>1, <2>2 DEF ReadInv
<1>8. LayoutInv' /\ OnceInv' /\ ShownInv'
  BY <1>0 DEF IInv, LayoutInv, OnceInv, ShownInv
<1>9. QED
  BY <1>4, <1>5, <1>6, <1>7, <1>8 DEF IInv

(* Steps that only change the requests.                                    *)
LEMMA RequestsKeep ==
    ASSUME IInv, requests' \in Seq(Requests), ListsGood',
           UNCHANGED <<server, changes, state, event, result, page, alive, history>>
    PROVE  IInv'
<1> USE DEF page, history
<1>0. TypeOK /\ HeardInv
  BY DEF IInv
<1>1. TypeOK'
  BY <1>0 DEF TypeOK
<1>2. HeardInv'
  BY <1>0 DEF HeardInv, ListsGood, Printed
<1>3. LayoutInv' /\ PendingInv' /\ OnceInv' /\ ShownInv' /\ ReadInv'
  BY DEF IInv, LayoutInv, PendingInv, OnceInv, ShownInv, ReadInv
<1>4. QED
  BY <1>1, <1>2, <1>3 DEF IInv

LEMMA PostStep ==
    ASSUME IInv, SelectPage \/ \E j \in Pending : CloseClick(j)
    PROVE  IInv'
<1>1. PICK close \in Pending \cup {0} : Post(close)
  BY DEF SelectPage, CloseClick
<1>2. UNCHANGED <<server, changes, state, event, result, page, alive, history>>
  BY DEF SelectPage, CloseClick
<1>3. PrintedStay
  BY <1>2 DEF PrintedStay
<1>4. ListsGood /\ TypeOK
  BY DEF IInv, HeardInv, ListsGood
<1>5. requests' \in Seq(Requests) /\ ListsGood'
  BY <1>1, <1>3, <1>4, PostIs
<1>6. QED
  BY <1>2, <1>5, RequestsKeep

(* The list the server gives.                                              *)
LEMMA ListIs ==
    ASSUME TypeOK, HeardInv
    PROVE  ListOfServer \in Seq(JobInfo) /\ GoodList(ListOfServer)
<1> DEFINE there == {j \in Jobs : server[j] \in Versions}
           c == Cardinality(there)
           newest(n) == Nth(there, c + 1 - n)
           list == [n \in 1..c |-> [id |-> newest(n), version |-> server[newest(n)]]]
<1>1. IsFiniteSet(there) /\ there \subseteq Int
  <2>1. IsFiniteSet(there)
    BY JobNumbers, FS_Subset
  <2>2. QED
    BY <2>1, JobNumbers
<1>2. ListOfServer = list
  BY DEF ListOfServer
<1> HIDE DEF there, list
<1>3. /\ c \in Nat /\ \A n \in 1..c : Nth(there, n) \in there
      /\ \A m, n \in 1..c : Nth(there, m) = Nth(there, n) => m = n
  BY <1>1, NthIs
<1> HIDE DEF c
<1>4. \A n \in 1..c : c + 1 - n \in 1..c
  BY <1>3
<1>5. /\ \A n \in 1..c : newest(n) \in there
      /\ \A m, n \in 1..c : newest(m) = newest(n) => m = n
  <2>1. \A n \in 1..c : newest(n) \in there
    BY <1>3, <1>4
  <2>2. ASSUME NEW m \in 1..c, NEW n \in 1..c, newest(m) = newest(n) PROVE m = n
    <3>1. c + 1 - m = c + 1 - n
      BY <1>3, <1>4, <2>2
    <3>2. QED
      BY <1>3, <3>1
  <2>3. QED
    BY <2>1, <2>2
<1> HIDE DEF newest
<1>6. \A j \in there : j \in Jobs /\ server[j] \in Versions /\ Printed(j)
  <2>1. \A j \in there : j \in Jobs /\ server[j] \in Versions
    BY DEF there
  <2>2. \A j \in there : server[j] # Absent
    BY <2>1, JobNumbers
  <2>3. QED
    BY <2>1, <2>2 DEF HeardInv, Printed
<1>7. \A n \in 1..c : /\ [id |-> newest(n), version |-> server[newest(n)]] \in JobInfo
                      /\ list[n].id = newest(n)
  BY <1>5, <1>6 DEF JobInfo, list
<1>8. list \in Seq(JobInfo) /\ DOMAIN list = 1..c
  BY <1>3, <1>7 DEF list
<1>9. GoodList(list)
  <2>0. \A n \in 1..c : list[n].id = newest(n)
    BY <1>7
  <2>1. ASSUME NEW n \in 1..c PROVE Printed(list[n].id)
    <3>1. Printed(newest(n))
      BY <1>5, <1>6
    <3>2. QED
      BY <2>0, <3>1
  <2>2. ASSUME NEW m \in 1..c, NEW n \in 1..c, list[m].id = list[n].id PROVE m = n
    BY <1>5, <2>0, <2>2
  <2>3. QED
    BY <1>8, <2>1, <2>2, Zenon DEF GoodList
<1>10. QED
  BY <1>2, <1>8, <1>9

LEMMA ServerAnswersStep == ASSUME IInv, NEW n, ServerAnswers(n) PROVE IInv'
<1> DEFINE s == requests
           list == ListOfServer
<1>0. TypeOK /\ HeardInv /\ s \in Seq(Requests) /\ n \in DOMAIN s /\ n \in 1..Len(s) /\ s[n] \in Requests
  BY ElementOfSeq DEF IInv, TypeOK, ServerAnswers
<1>1. UNCHANGED <<server, changes, state, event, result, page, alive, history>>
  BY DEF ServerAnswers
<1>2. PrintedStay /\ \A i \in DOMAIN s : GoodAfter(s[i].list)
  <2>1. PrintedStay
    BY <1>1 DEF PrintedStay
  <2>2. QED
    BY <1>0, <2>1, GoodStays DEF HeardInv
<1>3. list \in Seq(JobInfo) /\ GoodAfter(list)
  BY <1>0, <1>2, ListIs, GoodStays
<1> HIDE DEF list
<1>4. CASE requests' = [requests EXCEPT ![n].answered = TRUE, ![n].list = list]
  <2> DEFINE r == [s[n] EXCEPT !.answered = TRUE, !.list = list]
  <2>1. r \in Requests /\ r.list = list
    BY <1>0, <1>3 DEF Requests
  <2>2. requests' = [s EXCEPT ![n] = r]
    BY <1>0, <1>4
  <2> HIDE DEF r, s
  <2>3. /\ requests' \in Seq(Requests) /\ Len(requests') = Len(s)
        /\ \A i \in 1..Len(s) : requests'[i] = IF i = n THEN r ELSE s[i]
    BY <1>0, <2>1, <2>2, ExceptSeq
  <2>4. DOMAIN requests' = DOMAIN s /\ DOMAIN s = 1..Len(s)
    BY <1>0, <2>3
  <2>5. \A i \in DOMAIN requests' : GoodAfter(requests'[i].list)
    BY <1>2, <1>3, <2>1, <2>3, <2>4
  <2>6. QED
    BY <1>1, <2>3, <2>5, RequestsKeep, ListsGoodAfter
<1>5. CASE requests' = RemoveAt(requests, n)
  <2> HIDE DEF s
  <2>1. /\ requests' \in Seq(Requests) /\ Len(requests') = Len(s) - 1
        /\ \A k \in 1..(Len(s) - 1) : requests'[k] = IF k < n THEN s[k] ELSE s[k + 1]
    BY <1>0, <1>5, RemoveAtIs DEF s
  <2>2. DOMAIN requests' = 1..(Len(s) - 1) /\ DOMAIN s = 1..Len(s) /\ Len(s) \in Nat
    BY <1>0, <2>1
  <2>3. \A k \in 1..(Len(s) - 1) : k \in 1..Len(s) /\ k + 1 \in 1..Len(s)
    BY <2>2
  <2>4. \A i \in DOMAIN requests' : GoodAfter(requests'[i].list)
    BY <1>2, <2>1, <2>2, <2>3
  <2>5. QED
    BY <1>1, <2>1, <2>4, RequestsKeep, ListsGoodAfter
<1>6. QED
  BY <1>4, <1>5 DEF ServerAnswers, list

-------------------------------------------------------------------------------
(* The pending cards.                                                      *)

LEMMA PrependIs ==
    ASSUME NEW S, NEW s \in Seq(S), NEW e \in S
    PROVE  /\ <<e>> \o s \in Seq(S) /\ Len(<<e>> \o s) = Len(s) + 1
           /\ (<<e>> \o s)[1] = e /\ \A k \in 1..Len(s) : (<<e>> \o s)[k + 1] = s[k]
<1> DEFINE t == <<e>> \o s
<1>1. <<e>> \in Seq(S) /\ Len(<<e>>) = 1 /\ <<e>>[1] = e /\ Len(s) \in Nat
  OBVIOUS
<1>2. /\ t \in Seq(S) /\ Len(t) = 1 + Len(s)
      /\ \A i \in 1..(1 + Len(s)) : t[i] = IF i <= 1 THEN <<e>>[i] ELSE s[i - 1]
  BY <1>1, ConcatProperties
<1> HIDE DEF t
<1>3. t[1] = e
  BY <1>1, <1>2
<1>4. \A k \in 1..Len(s) : t[k + 1] = s[k]
  <2>1. \A k \in 1..Len(s) : k + 1 \in 1..(1 + Len(s)) /\ ~(k + 1 <= 1) /\ (k + 1) - 1 = k
    BY <1>1
  <2>2. QED
    BY <1>2, <2>1
<1>5. QED
  BY <1>1, <1>2, <1>3, <1>4 DEF t

LEMMA CtrlIs ==
    ASSUME TypeOK, LayoutInv, PendingInv, NEW j
    PROVE  /\ GetPendingJobCtrl(j) = {i \in 1..pendingCount : cards[i].id = j}
           /\ \/ GetPendingJobCtrl(j) = {} /\ Cardinality(GetPendingJobCtrl(j)) = 0
              \/ \E i \in 1..pendingCount : /\ GetPendingJobCtrl(j) = {i} /\ Min(GetPendingJobCtrl(j)) = i
                                            /\ Cardinality(GetPendingJobCtrl(j)) = 1
<1> DEFINE G == GetPendingJobCtrl(j)
<1>1. /\ Len(cards) = pendingCount + Len(jobs) /\ pendingCount \in Nat /\ Len(jobs) \in Nat
      /\ DOMAIN cards = 1..Len(cards)
  BY DEF TypeOK, LayoutInv
<1>2. \A i \in 1..pendingCount : i \in DOMAIN cards /\ cards[i].pending
  BY <1>1 DEF LayoutInv
<1>3. G = {i \in 1..pendingCount : cards[i].id = j}
  BY <1>2 DEF GetPendingJobCtrl
<1> HIDE DEF G
<1>4. \A i, k \in G : i = k
  BY <1>3 DEF PendingInv
<1>5. CASE G = {}
  BY <1>3, <1>5, FS_EmptySet DEF G
<1>6. CASE G # {}
  <2>1. G \subseteq Nat
    BY <1>3
  <2>2. PICK i \in G : Min(G) = i
    BY <1>6, <2>1, MinIsLeast
  <2>3. G = {i} /\ i \in 1..pendingCount
    BY <1>3, <1>4
  <2>4. Cardinality(G) = 1
    BY <2>3, FS_Singleton
  <2>5. QED
    BY <1>3, <2>2, <2>3, <2>4 DEF G
<1>7. QED
  BY <1>5, <1>6

LEMMA OnceKeeps ==
    ASSUME OnceInv, UNCHANGED <<jobs, raced, applied>>,
           ~raced => \A i \in 1..pendingCount' : cards'[i].id \notin applied
    PROVE  OnceInv'
<1>1. jobs' = jobs /\ raced' = raced /\ applied' = applied
  OBVIOUS
<1>2. CASE raced
  BY <1>1, <1>2 DEF OnceInv
<1>3. CASE ~raced
  <2>1. (\A i, k \in DOMAIN jobs : jobs[i].id = jobs[k].id => i = k)'
    BY <1>1, <1>3 DEF OnceInv
  <2>2. {jobs'[k].id : k \in DOMAIN jobs'} = applied'
    BY <1>1, <1>3, Zenon DEF OnceInv
  <2>3. (\A i \in 1..pendingCount : cards[i].id \notin applied)'
    BY <1>1, <1>3
  <2>4. QED
    BY <2>1, <2>2, <2>3, Zenon DEF OnceInv
<1>4. QED
  BY <1>2, <1>3

LEMMA CreatePendingJobStep == ASSUME IInv, NEW j \in Pending, CreatePendingJob(j) PROVE IInv'
<1>0. /\ TypeOK /\ LayoutInv /\ PendingInv /\ HeardInv /\ OnceInv /\ ShownInv /\ ReadInv
      /\ state[j] = "no" /\ state' = [state EXCEPT ![j] = "working"]
      /\ cards' = <<PendingCard(j)>> \o cards /\ pendingCount' = pendingCount + 1
      /\ UNCHANGED <<server, changes, event, result, jobs, alive, shifted, raced, applied>>
      /\ cards \in Seq(Cards) /\ jobs \in Seq(JobInfo) /\ pendingCount \in Nat
      /\ state \in [Pending -> {"no", "working", "complete", "failed"}]
  BY DEF IInv, TypeOK, CreatePendingJob, history
<1> DEFINE c == PendingCard(j)
           n == Len(cards)
<1>1. c \in Cards /\ c.pending = TRUE /\ c.id = j
  BY JobNumbers DEF PendingCard, Cards
<1>2. /\ cards' \in Seq(Cards) /\ Len(cards') = n + 1 /\ n \in Nat
      /\ cards'[1] = c /\ \A k \in 1..n : cards'[k + 1] = cards[k]
  BY <1>0, <1>1, PrependIs
<1> HIDE DEF c
<1>3. /\ DOMAIN cards' = 1..(n + 1) /\ DOMAIN cards = 1..n /\ Len(jobs) \in Nat /\ DOMAIN jobs = 1..Len(jobs)
      /\ n = pendingCount + Len(jobs)
  BY <1>0, <1>2 DEF LayoutInv
<1> HIDE DEF n
<1>4. \A i \in 1..(n + 1) : i = 1 \/ (i - 1 \in 1..n /\ cards'[i] = cards[i - 1])
  <2>1. \A i \in 1..(n + 1) : i = 1 \/ (i - 1 \in 1..n /\ (i - 1) + 1 = i)
    BY <1>2
  <2>2. QED
    BY <1>2, <2>1
<1>5. \A i \in 1..pendingCount' : i \in 1..(n + 1) /\ (i = 1 \/ i - 1 \in 1..pendingCount)
  BY <1>0, <1>3
<1>6. /\ state' \in [Pending -> {"no", "working", "complete", "failed"}] /\ state'[j] = "working"
      /\ \A k \in Pending : k # j => state'[k] = state[k]
  BY <1>0
<1>7. PrintedStay
  BY <1>0, <1>6 DEF PrintedStay
<1>8. requests' \in Seq(Requests) /\ ListsGood'
  <2>1. PICK close \in Pending \cup {0} : Post(close)
    BY DEF CreatePendingJob
  <2>2. ListsGood
    BY <1>0 DEF HeardInv, ListsGood
  <2>3. QED
    BY <1>0, <1>7, <2>1, <2>2, PostIs
<1>9. TypeOK'
  BY <1>0, <1>2, <1>6, <1>8 DEF TypeOK
<1>10. LayoutInv'
  <2>1. Len(cards') = pendingCount' + Len(jobs')
    BY <1>0, <1>2, <1>3
  <2>2. \A i \in 1..(n + 1) : cards'[i].pending <=> i <= pendingCount'
    <3> SUFFICES ASSUME NEW i \in 1..(n + 1) PROVE cards'[i].pending <=> i <= pendingCount'
      OBVIOUS
    <3>1. CASE i = 1
      BY <1>0, <1>1, <1>2, <3>1
    <3>2. CASE i # 1
      <4>1. i - 1 \in DOMAIN cards /\ cards'[i] = cards[i - 1]
        BY <1>3, <1>4, <3>2
      <4>2. cards[i - 1].pending <=> i - 1 <= pendingCount
        BY <1>0, <4>1 DEF LayoutInv
      <4>3. i - 1 <= pendingCount <=> i <= pendingCount'
        BY <1>0
      <4>4. QED
        BY <4>1, <4>2, <4>3
    <3>3. QED
      BY <3>1, <3>2
  <2>3. QED
    BY <1>3, <2>1, <2>2 DEF LayoutInv
<1>11. \A i \in 1..pendingCount : cards[i].id # j /\ cards[i].id \in Pending
  BY <1>0 DEF PendingInv
<1>12. \A i \in 1..pendingCount' :
          \/ i = 1 /\ cards'[i].id = j
          \/ i - 1 \in 1..pendingCount /\ cards'[i].id = cards[i - 1].id
  BY <1>1, <1>2, <1>4, <1>5
<1>13. PendingInv'
  <2>1. \A i, k \in 1..pendingCount' : cards'[i].id = cards'[k].id => i = k
    <3> SUFFICES ASSUME NEW i \in 1..pendingCount', NEW k \in 1..pendingCount', cards'[i].id = cards'[k].id
                 PROVE  i = k
      OBVIOUS
    <3>1. (i = 1 /\ k = 1) \/ (i - 1 \in 1..pendingCount /\ k - 1 \in 1..pendingCount /\ cards[i - 1].id = cards[k - 1].id)
      BY <1>11, <1>12
    <3>2. i - 1 = k - 1 => i = k
      BY <1>0
    <3>3. QED
      BY <1>0, <3>1, <3>2 DEF PendingInv
  <2>2. \A i \in 1..pendingCount' : cards'[i].id \in Pending /\ state'[cards'[i].id] # "no"
    <3>1. \A k \in 1..pendingCount : state[cards[k].id] # "no"
      BY <1>0 DEF PendingInv
    <3>2. \A k \in 1..pendingCount : cards[k].id \in Pending /\ state'[cards[k].id] # "no"
      BY <1>6, <1>11, <3>1
    <3>3. j \in Pending /\ state'[j] # "no"
      BY <1>6
    <3>4. QED
      BY <1>12, <3>2, <3>3
  <2>3. QED
    BY <2>1, <2>2 DEF PendingInv
<1>14. HeardInv'
  <2>1. \A k \in applied : Printed(k)'
    BY <1>0, <1>7 DEF HeardInv, Printed, PrintedStay
  <2>2. \A k \in Pending : state[k] # "no" => state'[k] # "no"
    BY <1>7 DEF PrintedStay
  <2>3. \A k \in Pending : result[k] # Absent => state'[k] = "complete"
    BY <1>0, <1>6 DEF HeardInv
  <2>4. QED
    BY <1>0, <1>8, <2>1, <2>2, <2>3 DEF HeardInv, ListsGood
<1>15. OnceInv'
  <2>1. j \notin applied
    BY <1>0 DEF HeardInv, Printed
  <2>2. ~raced => \A i \in 1..pendingCount' : cards'[i].id \notin applied
    BY <1>0, <1>12, <2>1 DEF OnceInv
  <2>3. UNCHANGED <<jobs, raced, applied>>
    BY <1>0
  <2>4. QED
    BY <1>0, <2>2, <2>3, OnceKeeps
<1>16. ShownInv'
  <2>1. \A k \in DOMAIN jobs : cards'[pendingCount' + k] = cards[pendingCount + k]
    <3>1. \A k \in 1..Len(jobs) : pendingCount + k \in 1..n /\ (pendingCount + k) + 1 = pendingCount' + k
      BY <1>0, <1>3
    <3>2. QED
      BY <1>2, <1>3, <3>1
  <2>2. QED
    BY <1>0, <2>1 DEF ShownInv
<1>17. ReadInv'
  <2>1. \A k \in 1..pendingCount : state'[cards[k].id] = "complete" => result'[cards[k].id] # Absent
    <3>1. \A k \in 1..pendingCount : state'[cards[k].id] = state[cards[k].id]
      BY <1>6, <1>11
    <3>2. QED
      BY <1>0, <3>1 DEF ReadInv
  <2>2. state'[j] # "complete"
    BY <1>6
  <2>3. QED
    BY <1>12, <2>1, <2>2 DEF ReadInv
<1>18. QED
  BY <1>9, <1>10, <1>13, <1>14, <1>15, <1>16, <1>17 DEF IInv

LEMMA HandleJobProgressStep == ASSUME IInv, NEW j \in Pending, HandleJobProgress(j) PROVE IInv'
<1>0. /\ TypeOK /\ LayoutInv /\ PendingInv /\ HeardInv /\ OnceInv /\ ShownInv /\ ReadInv
      /\ event' = [event EXCEPT ![j] = FALSE]
      /\ cards' = [i \in DOMAIN cards |-> IF i \in GetPendingJobCtrl(j)
                                          THEN [cards[i] EXCEPT !.ended = TRUE] ELSE cards[i]]
      /\ UNCHANGED <<server, changes, state, result, requests, pendingCount, jobs, alive, shifted, raced, applied>>
      /\ cards \in Seq(Cards) /\ jobs \in Seq(JobInfo) /\ pendingCount \in Nat
  BY DEF IInv, TypeOK, HandleJobProgress, history
<1> DEFINE n == Len(cards)
<1>1. /\ n \in Nat /\ DOMAIN cards = 1..n /\ n = pendingCount + Len(jobs) /\ Len(jobs) \in Nat
      /\ DOMAIN jobs = 1..Len(jobs) /\ \A i \in 1..n : cards[i] \in Cards
  BY <1>0, ElementOfSeq DEF LayoutInv
<1>2. \A i \in 1..n : /\ cards'[i] \in Cards /\ cards'[i].id = cards[i].id
                      /\ (cards'[i].pending <=> cards[i].pending)
                      /\ i \notin GetPendingJobCtrl(j) => cards'[i] = cards[i]
  <2> SUFFICES ASSUME NEW i \in 1..n
               PROVE  /\ cards'[i] \in Cards /\ cards'[i].id = cards[i].id
                      /\ (cards'[i].pending <=> cards[i].pending)
                      /\ i \notin GetPendingJobCtrl(j) => cards'[i] = cards[i]
    OBVIOUS
  <2>1. CASE i \in GetPendingJobCtrl(j)
    BY <1>0, <1>1, <2>1 DEF Cards
  <2>2. CASE i \notin GetPendingJobCtrl(j)
    BY <1>0, <1>1, <2>2
  <2>3. QED
    BY <2>1, <2>2
<1>3. DOMAIN cards' = 1..n
  BY <1>0, <1>1
<1>4. cards' = [i \in 1..n |-> cards'[i]]
  BY <1>0, <1>1
<1>5. cards' \in Seq(Cards) /\ Len(cards') = n
  BY <1>1, <1>2, <1>3, <1>4
<1> HIDE DEF n
<1>6. TypeOK'
  BY <1>0, <1>5 DEF TypeOK
<1>7. LayoutInv'
  BY <1>0, <1>1, <1>2, <1>3, <1>5 DEF LayoutInv
<1>8. \A i \in 1..pendingCount : i \in 1..n
  BY <1>0, <1>1
<1>9. PendingInv' /\ ReadInv' /\ OnceInv'
  <2>1. \A i \in 1..pendingCount : cards'[i].id = cards[i].id
    BY <1>2, <1>8
  <2>2. UNCHANGED <<state, result, pendingCount, jobs, raced, applied>>
    BY <1>0
  <2>3. PendingInv'
    BY <1>0, <2>1, <2>2 DEF PendingInv
  <2>4. ReadInv'
    BY <1>0, <2>1, <2>2 DEF ReadInv
  <2>5. ~raced => \A i \in 1..pendingCount' : cards'[i].id \notin applied
    BY <1>0, <2>1, <2>2 DEF OnceInv
  <2>6. OnceInv'
    BY <1>0, <2>2, <2>5, OnceKeeps
  <2>7. QED
    BY <2>3, <2>4, <2>6
<1>10. HeardInv'
  BY <1>0 DEF HeardInv, GoodList, Printed
<1>11. ShownInv'
  <2>1. \A k \in 1..Len(jobs) : pendingCount + k \in 1..n /\ pendingCount + k \notin 1..pendingCount
    BY <1>0, <1>1
  <2>2. \A k \in 1..Len(jobs) : cards'[pendingCount + k] = cards[pendingCount + k]
    BY <1>2, <2>1 DEF GetPendingJobCtrl
  <2>3. QED
    BY <1>0, <1>1, <2>2 DEF ShownInv
<1>12. QED
  BY <1>6, <1>7, <1>9, <1>10, <1>11 DEF IInv

-------------------------------------------------------------------------------
(* A pending card is replaced by the card of the complete job.             *)

LEMMA JobCardIs ==
    ASSUME NEW job \in JobInfo
    PROVE  /\ JobCard(job) \in Cards /\ JobCard(job).pending = FALSE
           /\ JobCard(job).id = job.id /\ JobCard(job).version = job.version
<1>1. QED
  BY DEF JobCard, JobInfo, Cards

(* The result comes when the card is closed: it is only read.              *)
LEMMA ResultOnlyRead ==
    ASSUME IInv, NEW j \in Pending, ReplacePendingJobWithComplete(j), GetPendingJobCtrl(j) = {}
    PROVE  IInv'
<1>0. /\ TypeOK /\ LayoutInv /\ PendingInv /\ HeardInv /\ OnceInv /\ ShownInv /\ ReadInv
      /\ result' = [result EXCEPT ![j] = Absent]
      /\ UNCHANGED <<server, changes, state, event, requests, cards, pendingCount, jobs, alive, shifted, raced, applied>>
      /\ result \in [Pending -> Versions \cup {Absent}]
  BY DEF IInv, TypeOK, ReplacePendingJobWithComplete, page
<1>1. /\ result' \in [Pending -> Versions \cup {Absent}] /\ result'[j] = Absent
      /\ \A k \in Pending : k # j => result'[k] = result[k]
  BY <1>0
<1>2. \A k \in 1..pendingCount : cards[k].id # j /\ cards[k].id \in Pending
  BY <1>0, CtrlIs DEF PendingInv
<1>3. TypeOK'
  BY <1>0, <1>1 DEF TypeOK
<1>4. ReadInv'
  BY <1>0, <1>1, <1>2 DEF ReadInv
<1>5. HeardInv'
  <2>1. \A k \in Pending : result'[k] # Absent => state[k] = "complete"
    BY <1>0, <1>1 DEF HeardInv
  <2>2. QED
    BY <1>0, <2>1 DEF HeardInv, GoodList, Printed
<1>6. LayoutInv' /\ PendingInv' /\ OnceInv' /\ ShownInv'
  BY <1>0 DEF LayoutInv, PendingInv, OnceInv, ShownInv
<1>7. QED
  BY <1>3, <1>4, <1>5, <1>6 DEF IInv

(* t is s with its i-th element taken out and e put behind the c-th.       *)
Replaced(t, S, s, c, i, e) ==
    /\ t \in Seq(S) /\ Len(t) = Len(s) /\ t[c] = e
    /\ \A k \in 1..(c - 1) : t[k] = IF k < i THEN s[k] ELSE s[k + 1]
    /\ \A k \in (c + 1)..Len(s) : t[k] = s[k]

(* The cards after it: those of the other pending jobs, then the new one.  *)
LEMMA ReplacedCards ==
    ASSUME NEW S, NEW s \in Seq(S), NEW c \in 1..Len(s), NEW i \in 1..c, NEW e \in S,
           NEW t, t = RemoveAt(InsertAt(s, c + 1, e), i)
    PROVE  Replaced(t, S, s, c, i, e)
<1> DEFINE n == Len(s)
           u == InsertAt(s, c + 1, e)
<1>0. t = RemoveAt(u, i)
  OBVIOUS
<1>1. n \in Nat /\ c + 1 \in 1..(n + 1) /\ c \in Nat /\ c <= n /\ i \in Nat /\ i >= 1 /\ i <= c
  OBVIOUS
<1>2. /\ u \in Seq(S) /\ Len(u) = n + 1
      /\ \A k \in 1..(n + 1) : u[k] = IF k < c + 1 THEN s[k] ELSE IF k = c + 1 THEN e ELSE s[k - 1]
  <2>1. c + 1 \in 1..(Len(s) + 1)
    BY <1>1
  <2>2. /\ InsertAt(s, c + 1, e) \in Seq(S) /\ Len(InsertAt(s, c + 1, e)) = Len(s) + 1
        /\ \A k \in 1..(Len(s) + 1) :
              InsertAt(s, c + 1, e)[k] = IF k < c + 1 THEN s[k] ELSE IF k = c + 1 THEN e ELSE s[k - 1]
    <3> DEFINE place == c + 1
    <3> HIDE DEF place
    <3>1. place \in 1..(Len(s) + 1)
      BY <2>1 DEF place
    <3>2. /\ InsertAt(s, place, e) \in Seq(S) /\ Len(InsertAt(s, place, e)) = Len(s) + 1
          /\ \A k \in 1..(Len(s) + 1) :
                InsertAt(s, place, e)[k] = IF k < place THEN s[k] ELSE IF k = place THEN e ELSE s[k - 1]
      BY <3>1, InsertAtIs
    <3>3. QED
      BY <3>2 DEF place
  <2>3. QED
    BY <2>2
<1> HIDE DEF u
<1>3. i \in 1..Len(u)
  <2> HIDE DEF n
  <2>1. QED
    BY <1>1, <1>2
<1>4. /\ t \in Seq(S) /\ Len(t) = Len(u) - 1
      /\ \A k \in 1..(Len(u) - 1) : t[k] = IF k < i THEN u[k] ELSE u[k + 1]
  <2> DEFINE r == RemoveAt(u, i)
  <2>1. /\ r \in Seq(S) /\ Len(r) = Len(u) - 1
        /\ \A k \in 1..(Len(u) - 1) : r[k] = IF k < i THEN u[k] ELSE u[k + 1]
    BY <1>2, <1>3, RemoveAtIs
  <2>2. t = r
    BY <1>0
  <2> HIDE DEF r
  <2>3. QED
    BY <2>1, <2>2
<1> HIDE DEF n
<1>5. Len(u) - 1 = n
  BY <1>1, <1>2
<1>6. \A k \in 1..n : t[k] = IF k < i THEN u[k] ELSE u[k + 1]
  BY <1>4, <1>5
<1>7. \A k \in 1..c : u[k] = s[k]
  <2>1. \A k \in 1..c : k \in 1..(n + 1) /\ k < c + 1
    BY <1>1
  <2>2. QED
    BY <1>2, <2>1
<1>8. u[c + 1] = e
  BY <1>1, <1>2
<1>9. \A k \in (c + 1)..n : u[k + 1] = s[k]
  <2>1. \A k \in (c + 1)..n : k + 1 \in 1..(n + 1) /\ ~(k + 1 < c + 1) /\ k + 1 # c + 1 /\ (k + 1) - 1 = k
    BY <1>1
  <2>2. QED
    BY <1>2, <2>1
<1>10. t[c] = e
  BY <1>1, <1>6, <1>8
<1>11. \A k \in 1..(c - 1) : t[k] = IF k < i THEN s[k] ELSE s[k + 1]
  <2>1. \A k \in 1..(c - 1) : k \in 1..n /\ k \in 1..c /\ k + 1 \in 1..c
    BY <1>1
  <2>2. QED
    BY <1>6, <1>7, <2>1
<1>12. \A k \in (c + 1)..n : t[k] = s[k]
  <2>1. \A k \in (c + 1)..n : k \in 1..n /\ ~(k < i)
    BY <1>1
  <2>2. QED
    BY <1>6, <1>9, <2>1
<1>13. QED
  BY <1>4, <1>5, <1>10, <1>11, <1>12 DEF n, Replaced

LEMMA CardReplaced ==
    ASSUME IInv, NEW j \in Pending, ReplacePendingJobWithComplete(j), GetPendingJobCtrl(j) # {}
    PROVE  IInv'
<1> DEFINE job == [id |-> j, version |-> result[j]]
           n == Len(cards)
           p == pendingCount
<1>0. /\ TypeOK /\ LayoutInv /\ PendingInv /\ HeardInv /\ OnceInv /\ ShownInv /\ ReadInv
      /\ result' = [result EXCEPT ![j] = Absent] /\ result[j] # Absent
      /\ UNCHANGED <<server, changes, state, event, requests, alive, shifted, raced>>
      /\ pendingCount' = p - 1 /\ applied' = applied \cup {j} /\ jobs' = <<job>> \o jobs
      /\ result \in [Pending -> Versions \cup {Absent}]
      /\ cards \in Seq(Cards) /\ jobs \in Seq(JobInfo) /\ p \in Nat
  BY DEF IInv, TypeOK, ReplacePendingJobWithComplete
<1>1. PICK i \in 1..p : GetPendingJobCtrl(j) = {i} /\ Min(GetPendingJobCtrl(j)) = i
  BY <1>0, CtrlIs
<1>2. cards[i].id = j /\ \A k \in 1..p : k # i => cards[k].id # j
  BY <1>0, <1>1, CtrlIs
<1>3. cards' = RemoveAt(InsertAt(cards, p + 1, JobCard(job)), i)
  BY <1>1 DEF ReplacePendingJobWithComplete
<1>4. job \in JobInfo /\ job.id = j
  BY <1>0, JobNumbers DEF JobInfo
<1> HIDE DEF job
<1>5. JobCard(job) \in Cards /\ JobCard(job).pending = FALSE /\ JobCard(job).id = j
  BY <1>4, JobCardIs
<1>6. n \in Nat /\ Len(jobs) \in Nat /\ n = p + Len(jobs) /\ DOMAIN cards = 1..n /\ DOMAIN jobs = 1..Len(jobs)
  BY <1>0 DEF LayoutInv
<1>7. p \in 1..n
  <2> HIDE DEF n, p
  <2>1. QED
    BY <1>0, <1>1, <1>6
<1>8. /\ cards' \in Seq(Cards) /\ Len(cards') = n /\ cards'[p] = JobCard(job)
      /\ \A k \in 1..(p - 1) : cards'[k] = IF k < i THEN cards[k] ELSE cards[k + 1]
      /\ \A k \in (p + 1)..n : cards'[k] = cards[k]
  <2> DEFINE e == JobCard(job)
             t == cards'
  <2>1. cards \in Seq(Cards) /\ e \in Cards /\ p \in 1..Len(cards) /\ i \in 1..p
    BY <1>0, <1>1, <1>5, <1>7
  <2> HIDE DEF e, p
  <2>2. t = RemoveAt(InsertAt(cards, p + 1, e), i)
    BY <1>3 DEF e, p
  <2> HIDE DEF t
  <2>3. Replaced(t, Cards, cards, p, i, e)
    BY <2>1, <2>2, ReplacedCards
  <2>4. QED
    BY <2>3 DEF e, t, Replaced
<1>9. /\ jobs' \in Seq(JobInfo) /\ Len(jobs') = Len(jobs) + 1
      /\ jobs'[1] = job /\ \A k \in 1..Len(jobs) : jobs'[k + 1] = jobs[k]
  BY <1>0, <1>4, PrependIs
<1> HIDE DEF n, p
<1>10. DOMAIN cards' = 1..n /\ DOMAIN jobs' = 1..(Len(jobs) + 1)
  BY <1>6, <1>8, <1>9
<1> DEFINE was(k) == IF k < i THEN k ELSE k + 1
<1>11. \A k \in 1..(p - 1) : was(k) \in 1..p /\ was(k) # i /\ cards'[k] = cards[was(k)]
  <2>1. \A k \in 1..(p - 1) : was(k) \in 1..p /\ was(k) # i
    BY <1>0, <1>1
  <2>2. \A k \in 1..(p - 1) : cards'[k] = cards[was(k)]
    BY <1>8
  <2>3. QED
    BY <2>1, <2>2
<1>12. \A k, m \in 1..(p - 1) : was(k) = was(m) => k = m
  BY <1>0, <1>1
<1> HIDE DEF was
<1>13. \A k \in 1..(Len(jobs) + 1) : k = 1 \/ (k - 1 \in 1..Len(jobs) /\ jobs'[k] = jobs[k - 1])
  <2>1. \A k \in 1..(Len(jobs) + 1) : k = 1 \/ (k - 1 \in 1..Len(jobs) /\ (k - 1) + 1 = k)
    BY <1>6
  <2>2. QED
    BY <1>9, <2>1
<1>14. /\ result' \in [Pending -> Versions \cup {Absent}] /\ result'[j] = Absent
       /\ \A k \in Pending : k # j => result'[k] = result[k]
  BY <1>0
<1>15. TypeOK'
  <2>1. applied' \subseteq Jobs
    BY <1>0, JobNumbers DEF TypeOK
  <2>2. pendingCount' \in Nat
    BY <1>0, <1>7
  <2>3. QED
    BY <1>0, <1>8, <1>9, <1>14, <2>1, <2>2 DEF TypeOK
<1>16. LayoutInv'
  <2>1. Len(cards') = pendingCount' + Len(jobs')
    BY <1>0, <1>6, <1>8, <1>9
  <2>2. \A k \in 1..n : cards'[k].pending <=> k <= p - 1
    <3> SUFFICES ASSUME NEW k \in 1..n PROVE cards'[k].pending <=> k <= p - 1
      OBVIOUS
    <3>0. \A m \in 1..n : cards[m].pending <=> m <= p
      BY <1>0, <1>6 DEF LayoutInv, p
    <3>1. CASE k \in 1..(p - 1)
      <4>0. was(k) \in 1..p /\ p \in Nat /\ p <= n
        BY <1>0, <1>7, <1>11, <3>1
      <4>1. was(k) \in 1..n /\ was(k) <= p /\ k <= p - 1
        BY <1>6, <3>1, <4>0
      <4>2. cards[was(k)].pending
        BY <3>0, <4>1
      <4>3. QED
        BY <1>11, <3>1, <4>1, <4>2
    <3>2. CASE k = p
      <4>1. ~(k <= p - 1)
        BY <1>0, <3>2
      <4>2. cards'[k].pending = FALSE
        BY <1>5, <1>8, <3>2
      <4>3. QED
        BY <4>1, <4>2
    <3>3. CASE k \in (p + 1)..n
      <4>1. ~(k <= p - 1) /\ ~(k <= p)
        BY <1>0, <3>3
      <4>2. cards'[k] = cards[k]
        BY <1>8, <3>3
      <4>3. QED
        BY <3>0, <4>1, <4>2
    <3>4. k \in 1..(p - 1) \/ k = p \/ k \in (p + 1)..n
      BY <1>0, <1>6
    <3>5. QED
      BY <3>1, <3>2, <3>3, <3>4
  <2>3. QED
    BY <1>0, <1>10, <2>1, <2>2 DEF LayoutInv
<1>17. PendingInv'
  <2>0. \A k \in 1..p : cards[k].id \in Pending /\ state[cards[k].id] # "no"
    BY <1>0 DEF PendingInv, p
  <2>1. \A k \in 1..(p - 1) : cards'[k].id \in Pending /\ state[cards'[k].id] # "no"
    BY <1>11, <2>0
  <2>2. \A k, m \in 1..(p - 1) : cards'[k].id = cards'[m].id => k = m
    <3>1. \A k, m \in 1..p : cards[k].id = cards[m].id => k = m
      BY <1>0 DEF PendingInv, p
    <3>2. QED
      BY <1>11, <1>12, <3>1
  <2>3. QED
    BY <1>0, <2>1, <2>2 DEF PendingInv
<1>18. \A k \in 1..(p - 1) : cards'[k].id # j
  BY <1>2, <1>11
<1>19. HeardInv'
  <2>1. \A k \in Pending : result'[k] # Absent => state[k] = "complete"
    BY <1>0, <1>14 DEF HeardInv
  <2>2. state[j] = "complete"
    BY <1>0 DEF HeardInv
  <2>3. \A k \in applied' : k \in Pending => state[k] # "no"
    BY <1>0, <2>2 DEF HeardInv, Printed
  <2>4. QED
    BY <1>0, <2>1, <2>3 DEF HeardInv, GoodList, Printed
<1>20. OnceInv'
  <2> SUFFICES ASSUME ~raced PROVE OnceInv'
    BY <1>0 DEF OnceInv
  <2>1. /\ \A k, m \in 1..Len(jobs) : jobs[k].id = jobs[m].id => k = m
        /\ \A k \in 1..p : cards[k].id \notin applied
    BY <1>0, <1>6 DEF OnceInv, p
  <2>2. /\ \A k \in 1..Len(jobs) : jobs[k].id \in applied
        /\ \A a \in applied : \E k \in 1..Len(jobs) : jobs[k].id = a
    BY <1>0, <1>6, Zenon DEF OnceInv
  <2>3. j \notin applied
    BY <1>1, <1>2, <2>1
  <2>4. \A k \in 1..(Len(jobs) + 1) : \/ k = 1 /\ jobs'[k].id = j
                                      \/ k - 1 \in 1..Len(jobs) /\ jobs'[k].id = jobs[k - 1].id /\ jobs'[k].id # j
    BY <1>4, <1>9, <1>13, <2>2, <2>3
  <2>5. \A k, m \in 1..(Len(jobs) + 1) : jobs'[k].id = jobs'[m].id => k = m
    <3> SUFFICES ASSUME NEW k \in 1..(Len(jobs) + 1), NEW m \in 1..(Len(jobs) + 1), jobs'[k].id = jobs'[m].id
                 PROVE  k = m
      OBVIOUS
    <3>1. (k = 1 /\ m = 1) \/ (k - 1 \in 1..Len(jobs) /\ m - 1 \in 1..Len(jobs) /\ jobs[k - 1].id = jobs[m - 1].id)
      BY <2>4
    <3>2. k - 1 = m - 1 => k = m
      OBVIOUS
    <3>3. QED
      BY <2>1, <3>1, <3>2
  <2>6. \A k \in 1..(Len(jobs) + 1) : jobs'[k].id \in applied'
    BY <1>0, <2>2, <2>4
  <2>7. \A a \in applied' : \E k \in 1..(Len(jobs) + 1) : jobs'[k].id = a
    <3> SUFFICES ASSUME NEW a \in applied' PROVE \E k \in 1..(Len(jobs) + 1) : jobs'[k].id = a
      OBVIOUS
    <3>1. CASE a = j
      <4>1. 1 \in 1..(Len(jobs) + 1) /\ jobs'[1].id = j
        BY <1>4, <1>6, <1>9
      <4>2. QED
        BY <3>1, <4>1
    <3>2. CASE a # j
      <4>1. PICK k \in 1..Len(jobs) : jobs[k].id = a
        BY <1>0, <2>2, <3>2
      <4>2. k + 1 \in 1..(Len(jobs) + 1) /\ jobs'[k + 1].id = a
        BY <1>6, <1>9, <4>1
      <4>3. QED
        BY <4>2
    <3>3. QED
      BY <3>1, <3>2
  <2>8. {jobs'[k].id : k \in DOMAIN jobs'} = applied'
    BY <1>10, <2>6, <2>7
  <2>9. \A k \in 1..(p - 1) : cards'[k].id \notin applied'
    BY <1>0, <1>11, <1>18, <2>1
  <2>10. (\A i_1 \in 1..pendingCount : cards[i_1].id \notin applied)'
    BY <1>0, <2>9
  <2>11. (\A k, m \in DOMAIN jobs : jobs[k].id = jobs[m].id => k = m)'
    BY <1>10, <2>5
  <2>12. QED
    BY <2>8, <2>10, <2>11, Zenon DEF OnceInv
<1>21. ShownInv'
  <2> SUFFICES ASSUME ~shifted, ~raced PROVE ShownInv'
    BY <1>0 DEF ShownInv
  <2>0. \A k \in 1..Len(jobs) : cards[p + k] = JobCard(jobs[k])
    BY <1>0, <1>6 DEF ShownInv, p
  <2>1. \A k \in 1..(Len(jobs) + 1) : cards'[p - 1 + k] = JobCard(jobs'[k])
    <3> SUFFICES ASSUME NEW k \in 1..(Len(jobs) + 1) PROVE cards'[p - 1 + k] = JobCard(jobs'[k])
      OBVIOUS
    <3>1. CASE k = 1
      <4>1. p - 1 + k = p
        BY <1>0, <3>1
      <4>2. QED
        BY <1>8, <1>9, <3>1, <4>1
    <3>2. CASE k # 1
      <4>1. k - 1 \in 1..Len(jobs) /\ jobs'[k] = jobs[k - 1]
        BY <1>13, <3>2
      <4>2. p - 1 + k = p + (k - 1) /\ p + (k - 1) \in (p + 1)..n
        BY <1>0, <1>6, <4>1
      <4>3. QED
        BY <1>8, <2>0, <4>1, <4>2
    <3>3. QED
      BY <3>1, <3>2
  <2>2. QED
    BY <1>0, <1>10, <2>1 DEF ShownInv
<1>22. ReadInv'
  <2>1. \A k \in 1..p : state[cards[k].id] = "complete" => result[cards[k].id] # Absent
    BY <1>0 DEF ReadInv, p
  <2>2. \A k \in 1..p : cards[k].id \in Pending
    BY <1>0 DEF PendingInv, p
  <2>3. \A k \in 1..(p - 1) : cards'[k].id \in Pending /\ (state[cards'[k].id] = "complete" => result[cards'[k].id] # Absent)
    BY <1>11, <2>1, <2>2
  <2>4. \A k \in 1..(p - 1) : state[cards'[k].id] = "complete" => result'[cards'[k].id] # Absent
    BY <1>14, <1>18, <2>3
  <2>5. QED
    BY <1>0, <2>4 DEF ReadInv
<1>23. QED
  BY <1>15, <1>16, <1>17, <1>19, <1>20, <1>21, <1>22 DEF IInv

LEMMA ReplacePendingJobWithCompleteStep ==
    ASSUME IInv, NEW j \in Pending, ReplacePendingJobWithComplete(j)
    PROVE  IInv'
<1>1. QED
  BY ResultOnlyRead, CardReplaced

-------------------------------------------------------------------------------
(* A list arrives.  The items it is applied to are those of the page, or   *)
(* those left when "Close" took a pending card away; all of this is true   *)
(* of them as it is of the page.                                           *)

ItemsGood(items, count) ==
    /\ items \in Seq(Cards) /\ count \in Nat /\ Len(items) = count + Len(jobs)
    /\ \A i \in 1..Len(items) : items[i].pending <=> i <= count
    /\ \A i \in 1..count : /\ items[i].id \in Pending /\ state[items[i].id] # "no"
                           /\ state[items[i].id] = "complete" => result[items[i].id] # Absent
    /\ \A i, k \in 1..count : items[i].id = items[k].id => i = k
    /\ ~shifted /\ ~raced => \A k \in 1..Len(jobs) : items[count + k] = JobCard(jobs[k])

LEMMA PageItems == IInv => ItemsGood(cards, pendingCount) /\ Len(jobs) \in Nat /\ DOMAIN jobs = 1..Len(jobs)
<1> SUFFICES ASSUME IInv PROVE ItemsGood(cards, pendingCount) /\ Len(jobs) \in Nat /\ DOMAIN jobs = 1..Len(jobs)
  OBVIOUS
<1>1. /\ cards \in Seq(Cards) /\ jobs \in Seq(JobInfo) /\ pendingCount \in Nat
      /\ LayoutInv /\ PendingInv /\ ReadInv /\ ShownInv
  BY DEF IInv, TypeOK
<1>2. /\ Len(jobs) \in Nat /\ DOMAIN jobs = 1..Len(jobs) /\ DOMAIN cards = 1..Len(cards)
      /\ Len(cards) = pendingCount + Len(jobs)
  BY <1>1 DEF LayoutInv
<1>3. \A i \in 1..Len(cards) : cards[i].pending <=> i <= pendingCount
  BY <1>1, <1>2 DEF LayoutInv
<1>4. \A i \in 1..pendingCount : /\ cards[i].id \in Pending /\ state[cards[i].id] # "no"
                                 /\ state[cards[i].id] = "complete" => result[cards[i].id] # Absent
  BY <1>1 DEF PendingInv, ReadInv
<1>5. \A i, k \in 1..pendingCount : cards[i].id = cards[k].id => i = k
  BY <1>1 DEF PendingInv
<1>6. ~shifted /\ ~raced => \A k \in 1..Len(jobs) : cards[pendingCount + k] = JobCard(jobs[k])
  BY <1>1, <1>2 DEF ShownInv
<1>7. QED
  BY <1>1, <1>2, <1>3, <1>4, <1>5, <1>6 DEF ItemsGood

LEMMA DeleteKeeps ==
    ASSUME NEW items, NEW count, ItemsGood(items, count), NEW i \in 1..count, Len(jobs) \in Nat
    PROVE  ItemsGood(RemoveAt(items, i), count - 1)
<1> DEFINE t == RemoveAt(items, i)
           n == Len(items)
<1>1. items \in Seq(Cards) /\ count \in Nat /\ n = count + Len(jobs) /\ n \in Nat
  BY DEF ItemsGood
<1>2. i \in 1..n
  <2> HIDE DEF n
  <2>1. QED
    BY <1>1
<1>3. t \in Seq(Cards) /\ Len(t) = n - 1 /\ \A k \in 1..(n - 1) : t[k] = IF k < i THEN items[k] ELSE items[k + 1]
  BY <1>1, <1>2, RemoveAtIs
<1> HIDE DEF t, n
<1>4. \A k \in 1..n : items[k].pending <=> k <= count
  BY DEF ItemsGood, n
<1> DEFINE was(k) == IF k < i THEN k ELSE k + 1
<1>5. \A k \in 1..(n - 1) : was(k) \in 1..n /\ t[k] = items[was(k)] /\ (was(k) <= count <=> k <= count - 1)
  <2>1. \A k \in 1..(n - 1) : was(k) \in 1..n /\ (was(k) <= count <=> k <= count - 1)
    BY <1>1
  <2>2. \A k \in 1..(n - 1) : t[k] = items[was(k)]
    BY <1>3
  <2>3. QED
    BY <2>1, <2>2
<1>6. \A k \in 1..(count - 1) : k \in 1..(n - 1) /\ was(k) \in 1..count
  BY <1>1
<1>7. \A k, m \in 1..(count - 1) : was(k) = was(m) => k = m
  BY <1>1
<1>8. \A k \in 1..Len(jobs) : count - 1 + k \in 1..(n - 1) /\ was(count - 1 + k) = count + k
  BY <1>1
<1> HIDE DEF was
<1>9. \A k \in 1..(n - 1) : t[k].pending <=> k <= count - 1
  BY <1>4, <1>5
<1>10. \A k \in 1..(count - 1) : /\ t[k].id \in Pending /\ state[t[k].id] # "no"
                                 /\ state[t[k].id] = "complete" => result[t[k].id] # Absent
  <2>1. \A k \in 1..count : /\ items[k].id \in Pending /\ state[items[k].id] # "no"
                            /\ state[items[k].id] = "complete" => result[items[k].id] # Absent
    BY DEF ItemsGood
  <2>2. QED
    BY <1>5, <1>6, <2>1
<1>11. \A k, m \in 1..(count - 1) : t[k].id = t[m].id => k = m
  <2>1. \A k, m \in 1..count : items[k].id = items[m].id => k = m
    BY DEF ItemsGood
  <2>2. QED
    BY <1>5, <1>6, <1>7, <2>1
<1>12. ~shifted /\ ~raced => \A k \in 1..Len(jobs) : t[count - 1 + k] = JobCard(jobs[k])
  <2>1. ~shifted /\ ~raced => \A k \in 1..Len(jobs) : items[count + k] = JobCard(jobs[k])
    BY DEF ItemsGood
  <2>2. QED
    BY <1>5, <1>8, <2>1
<1>13. count - 1 \in Nat /\ Len(t) = (count - 1) + Len(jobs) /\ Len(t) = n - 1
  BY <1>1, <1>3
<1>14. QED
  BY <1>3, <1>9, <1>10, <1>11, <1>12, <1>13 DEF ItemsGood, t

(* The items and the number of pending cards that a list is applied to.    *)
ItemsFor(close) == IF GetPendingJobCtrl(close) = {} THEN cards ELSE RemoveAt(cards, Min(GetPendingJobCtrl(close)))
CountFor(close) == pendingCount - Cardinality(GetPendingJobCtrl(close))

LEMMA ItemsOfList ==
    ASSUME IInv, NEW close
    PROVE  ItemsGood(ItemsFor(close), CountFor(close)) /\ CountFor(close) <= pendingCount
<1> DEFINE gone == GetPendingJobCtrl(close)
           items == ItemsFor(close)
           count == CountFor(close)
<1>0. /\ items = IF gone = {} THEN cards ELSE RemoveAt(cards, Min(gone))
      /\ count = pendingCount - Cardinality(gone)
  BY DEF ItemsFor, CountFor
<1>1. ItemsGood(cards, pendingCount) /\ Len(jobs) \in Nat /\ pendingCount \in Nat
  BY PageItems DEF IInv, TypeOK
<1>2. \/ gone = {} /\ Cardinality(gone) = 0
      \/ \E i \in 1..pendingCount : gone = {i} /\ Min(gone) = i /\ Cardinality(gone) = 1
  BY CtrlIs DEF IInv
<1> HIDE DEF gone, items, count
<1>3. CASE gone = {} /\ Cardinality(gone) = 0
  <2>1. items = cards /\ count = pendingCount /\ count <= pendingCount
    BY <1>0, <1>1, <1>3
  <2>2. QED
    BY <1>1, <2>1 DEF items, count
<1>4. CASE \E i \in 1..pendingCount : gone = {i} /\ Min(gone) = i /\ Cardinality(gone) = 1
  <2>1. PICK i \in 1..pendingCount : gone = {i} /\ Min(gone) = i /\ Cardinality(gone) = 1
    BY <1>4
  <2>2. items = RemoveAt(cards, i) /\ count = pendingCount - 1 /\ count <= pendingCount
    BY <1>0, <1>1, <2>1
  <2>3. ItemsGood(RemoveAt(cards, i), pendingCount - 1)
    BY <1>1, <2>1, DeleteKeeps
  <2>4. QED
    BY <2>2, <2>3 DEF items, count
<1>5. QED
  BY <1>2, <1>3, <1>4

(* What the list changes.                                                  *)
LEMMA ListedIs ==
    ASSUME TypeOK, NEW list \in Seq(JobInfo)
    PROVE  /\ Known \subseteq 1..Len(jobs) /\ Erased(list) \subseteq Known /\ Changed(list) \subseteq Known
           /\ Erased(list) \cap Changed(list) = {}
           /\ Added(list) \subseteq 1..Len(list)
           /\ \A id \in Listed(list) : InList(list, id) \in JobInfo /\ InList(list, id).id = id
           /\ Listed(list) \subseteq Jobs
<1>1. jobs \in Seq(JobInfo) /\ DOMAIN jobs = 1..Len(jobs) /\ DOMAIN list = 1..Len(list)
  BY DEF TypeOK
<1>2. \A n \in DOMAIN list : list[n] \in JobInfo
  BY <1>1, ElementOfSeq
<1>3. \A id \in Listed(list) : \E job \in Range(list) : job.id = id
  BY DEF Listed, Range
<1>4. \A job \in Range(list) : job \in JobInfo
  BY <1>2 DEF Range
<1>5. \A id \in Listed(list) : InList(list, id) \in JobInfo /\ InList(list, id).id = id
  BY <1>3, <1>4 DEF InList
<1>6. Listed(list) \subseteq Jobs
  BY <1>2 DEF Listed, JobInfo
<1>7. Known \subseteq 1..Len(jobs)
  BY <1>1 DEF Known
<1>8. Erased(list) \subseteq Known /\ Changed(list) \subseteq Known /\ Erased(list) \cap Changed(list) = {}
  BY DEF Erased, Changed
<1>9. Added(list) \subseteq 1..Len(list)
  BY <1>1 DEF Added
<1>10. QED
  BY <1>5, <1>6, <1>7, <1>8, <1>9

LEMMA NowIs ==
    ASSUME TypeOK, NEW list \in Seq(JobInfo)
    PROVE  /\ Now(list) \in Seq(JobInfo) /\ Len(Now(list)) = Len(jobs)
           /\ \A k \in 1..Len(jobs) : /\ Now(list)[k].id = jobs[k].id
                                      /\ k \notin Changed(list) => Now(list)[k] = jobs[k]
<1> DEFINE now == Now(list)
<1>1. Len(jobs) \in Nat /\ DOMAIN jobs = 1..Len(jobs) /\ \A k \in 1..Len(jobs) : jobs[k] \in JobInfo
  BY ElementOfSeq DEF TypeOK
<1>2. now = [k \in 1..Len(jobs) |-> IF k \in Changed(list) THEN InList(list, jobs[k].id) ELSE jobs[k]]
  BY <1>1 DEF Now
<1> HIDE DEF now
<1>3. \A k \in Changed(list) : jobs[k].id \in Listed(list)
  BY DEF Changed, Erased
<1>4. \A k \in 1..Len(jobs) : now[k] = IF k \in Changed(list) THEN InList(list, jobs[k].id) ELSE jobs[k]
  BY <1>2
<1>5. \A k \in 1..Len(jobs) : /\ now[k] \in JobInfo /\ now[k].id = jobs[k].id
                              /\ k \notin Changed(list) => now[k] = jobs[k]
  BY <1>1, <1>3, <1>4, ListedIs
<1>6. now = [k \in 1..Len(jobs) |-> now[k]]
  BY <1>2
<1>7. now \in Seq(JobInfo) /\ Len(now) = Len(jobs)
  BY <1>1, <1>5, <1>6
<1>8. QED
  BY <1>5, <1>7 DEF now

LEMMA UpdatedIs ==
    ASSUME TypeOK, NEW list \in Seq(JobInfo), NEW items \in Seq(Cards)
    PROVE  /\ Updated(list, items) \in Seq(Cards) /\ Len(Updated(list, items)) = Len(items)
           /\ \A i \in 1..Len(items) : /\ i \notin Changed(list) => Updated(list, items)[i] = items[i]
                                       /\ ~items[i].pending => ~Updated(list, items)[i].pending
<1> DEFINE u == Updated(list, items)
<1>1. Len(items) \in Nat /\ DOMAIN items = 1..Len(items) /\ \A i \in 1..Len(items) : items[i] \in Cards
  BY ElementOfSeq
<1>2. u = [i \in 1..Len(items) |-> IF i \in Changed(list) THEN UpdateJob(items[i], Now(list)) ELSE items[i]]
  BY <1>1 DEF Updated
<1> HIDE DEF u
<1>3. \A i \in 1..Len(items) : u[i] = IF i \in Changed(list) THEN UpdateJob(items[i], Now(list)) ELSE items[i]
  BY <1>2
<1>4. \A card \in Cards : \/ UpdateJob(card, Now(list)) = card
                          \/ \E k \in 1..Len(jobs) : UpdateJob(card, Now(list)) = JobCard(Now(list)[k])
  <2>1. \A card : (\E k \in Known : Now(list)[k].id = card.id) =>
                      (CHOOSE k \in Known : Now(list)[k].id = card.id) \in Known
    OBVIOUS
  <2>2. QED
    BY <2>1, ListedIs DEF UpdateJob
<1>5. \A k \in 1..Len(jobs) : Now(list)[k] \in JobInfo
  BY NowIs, ElementOfSeq
<1>6. \A card \in Cards : /\ UpdateJob(card, Now(list)) \in Cards
                          /\ ~card.pending => ~UpdateJob(card, Now(list)).pending
  BY <1>4, <1>5, JobCardIs
<1>7. \A i \in 1..Len(items) : /\ u[i] \in Cards /\ (i \notin Changed(list) => u[i] = items[i])
                               /\ ~items[i].pending => ~u[i].pending
  BY <1>1, <1>3, <1>6
<1>8. u = [i \in 1..Len(items) |-> u[i]]
  BY <1>2
<1>9. u \in Seq(Cards) /\ Len(u) = Len(items)
  BY <1>1, <1>7, <1>8
<1>10. QED
  BY <1>7, <1>9 DEF u

(* How many jobs stay: as many as there are cards of theirs.               *)
LEMMA StayersIs ==
    ASSUME NEW c \in Nat, NEW n \in Nat, NEW E \in SUBSET (1..n), \A k \in E : k > c
    PROVE  /\ (1..n) \ E \subseteq 1..n /\ ((c + 1)..(c + n)) \ E \subseteq (c + 1)..(c + n)
           /\ Cardinality(((c + 1)..(c + n)) \ E) = Cardinality((1..n) \ E)
<1> DEFINE A == (c + 1)..(c + n)
           B == 1..n
<1>1. IsFiniteSet(A) /\ Cardinality(A) = n
  BY NthOfInterval
<1>2. IsFiniteSet(B) /\ Cardinality(B) = n
  <2>1. 0 \in Nat /\ 0 + 1 = 1 /\ 0 + n = n
    OBVIOUS
  <2>2. IsFiniteSet((0 + 1)..(0 + n)) /\ Cardinality((0 + 1)..(0 + n)) = n
    BY <2>1, NthOfInterval
  <2>3. QED
    BY <2>1, <2>2
<1>3. A \cap E = E /\ B \cap E = E
  <2>1. \A k \in E : k \in 1..n /\ k > c
    OBVIOUS
  <2>2. \A k \in E : k \in A /\ k \in B
    BY <2>1
  <2>3. QED
    BY <2>2
<1> HIDE DEF A, B
<1>4. Cardinality(A \ E) = Cardinality(A) - Cardinality(E) /\ Cardinality(B \ E) = Cardinality(B) - Cardinality(E)
  <2>1. Cardinality(A \cap E) = Cardinality(E) /\ Cardinality(B \cap E) = Cardinality(E)
    BY <1>3
  <2>2. Cardinality(A \ E) = Cardinality(A) - Cardinality(A \cap E)
    BY <1>1, FS_Difference
  <2>3. Cardinality(B \ E) = Cardinality(B) - Cardinality(B \cap E)
    BY <1>2, FS_Difference
  <2>4. QED
    BY <2>1, <2>2, <2>3
<1>5. Cardinality(A \ E) = Cardinality(B \ E)
  BY <1>1, <1>2, <1>4
<1>6. A \ E \subseteq A /\ B \ E \subseteq B
  OBVIOUS
<1>7. QED
  BY <1>5, <1>6 DEF A, B

(* Three lists one after the other.                                        *)
Joined(e, S, a, b, c) ==
    /\ e \in Seq(S) /\ Len(e) = Len(a) + Len(b) + Len(c)
    /\ \A k \in 1..Len(a) : e[k] = a[k]
    /\ \A k \in 1..Len(b) : e[Len(a) + k] = b[k]
    /\ \A k \in 1..Len(c) : e[Len(a) + Len(b) + k] = c[k]

LEMMA ConcatOfThree ==
    ASSUME NEW S, NEW a \in Seq(S), NEW b \in Seq(S), NEW c \in Seq(S)
    PROVE  Joined(a \o b \o c, S, a, b, c)
<1> DEFINE d == a \o b
           e == d \o c
           la == Len(a)
           lb == Len(b)
           lc == Len(c)
<1>1. la \in Nat /\ lb \in Nat /\ lc \in Nat
  OBVIOUS
<1>2. d \in Seq(S) /\ Len(d) = la + lb /\ \A i \in 1..(la + lb) : d[i] = IF i <= la THEN a[i] ELSE b[i - la]
  BY ConcatProperties
<1> HIDE DEF d
<1>3. e \in Seq(S) /\ Len(e) = Len(d) + lc /\ \A i \in 1..(Len(d) + lc) : e[i] = IF i <= Len(d) THEN d[i] ELSE c[i - Len(d)]
  BY <1>2, ConcatProperties
<1> HIDE DEF e, la, lb, lc
<1>4. Len(e) = la + lb + lc /\ \A i \in 1..(la + lb + lc) : e[i] = IF i <= la + lb THEN d[i] ELSE c[i - (la + lb)]
  BY <1>2, <1>3
<1>5. \A k \in 1..la : e[k] = a[k]
  <2>1. \A k \in 1..la : k \in 1..(la + lb) /\ k \in 1..(la + lb + lc) /\ k <= la + lb /\ k <= la
    BY <1>1
  <2>2. QED
    BY <1>2, <1>4, <2>1
<1>6. \A k \in 1..lb : e[la + k] = b[k]
  <2>1. \A k \in 1..lb : /\ la + k \in 1..(la + lb) /\ la + k \in 1..(la + lb + lc)
                         /\ la + k <= la + lb /\ ~(la + k <= la) /\ (la + k) - la = k
    BY <1>1
  <2>2. QED
    BY <1>2, <1>4, <2>1
<1>7. \A k \in 1..lc : e[la + lb + k] = c[k]
  <2>1. \A k \in 1..lc : /\ la + lb + k \in 1..(la + lb + lc)
                         /\ ~(la + lb + k <= la + lb) /\ (la + lb + k) - (la + lb) = k
    BY <1>1
  <2>2. QED
    BY <1>4, <2>1
<1>8. QED
  BY <1>3, <1>4, <1>5, <1>6, <1>7 DEF e, d, la, lb, lc, Joined

(* What UpdateContent makes: the new jobs, the known ones that stay, and    *)
(* their cards.                                                            *)
New(list) == At(list, Added(list))
Stay(list) == At(Now(list), DOMAIN jobs \ Erased(list))
NewCards(list) == [n \in DOMAIN New(list) |-> JobCard(New(list)[n])]
StayCards(list, items, count) == At(Updated(list, items), ((count + 1)..Len(items)) \ Erased(list))
Touched(list) == Erased(list) \cup Changed(list)

LEMMA UpdateIs ==
    ASSUME NEW list, NEW items, NEW count, UpdateContent(list, items, count)
    PROVE  /\ (\E k \in Touched(list) : items[k].pending) =>
                  alive' = FALSE /\ UNCHANGED <<page, shifted, raced, applied>>
           /\ ~(\E k \in Touched(list) : items[k].pending) =>
                  /\ jobs' = New(list) \o Stay(list)
                  /\ cards' = SubSeq(items, 1, count) \o NewCards(list) \o StayCards(list, items, count)
                  /\ pendingCount' = count
                  /\ shifted' = (shifted \/ (count > 0 /\ Touched(list) # {}))
                  /\ raced' = (raced \/ \E i \in 1..count : items[i].id \in Listed(list))
                  /\ applied' = Listed(list)
                  /\ UNCHANGED alive
<1>1. QED
  BY DEF UpdateContent, New, Stay, NewCards, StayCards, Touched

LEMMA NewIs ==
    ASSUME TypeOK, NEW list \in Seq(JobInfo)
    PROVE  LET f == Cardinality(Added(list)) IN
           /\ f \in Nat /\ New(list) \in Seq(JobInfo) /\ Len(New(list)) = f
           /\ NewCards(list) \in Seq(Cards) /\ Len(NewCards(list)) = f
           /\ \A n \in 1..f : /\ Nth(Added(list), n) \in Added(list) /\ New(list)[n] = list[Nth(Added(list), n)]
                              /\ NewCards(list)[n] = JobCard(New(list)[n]) /\ ~NewCards(list)[n].pending
           /\ \A m, n \in 1..f : Nth(Added(list), m) = Nth(Added(list), n) => m = n
           /\ \A k \in Added(list) : \E n \in 1..f : Nth(Added(list), n) = k
<1> DEFINE f == Cardinality(Added(list))
           P == Added(list)
           new == New(list)
           c == NewCards(list)
<1>1. P \in SUBSET (1..Len(list))
  BY ListedIs
<1>2. /\ f \in Nat /\ new \in Seq(JobInfo) /\ Len(new) = f
      /\ \A n \in 1..f : Nth(P, n) \in P /\ new[n] = list[Nth(P, n)]
      /\ \A m, n \in 1..f : Nth(P, m) = Nth(P, n) => m = n
      /\ \A k \in P : \E n \in 1..f : Nth(P, n) = k
  BY <1>1, AtIs DEF New
<1>3. c = [n \in DOMAIN new |-> JobCard(new[n])]
  BY DEF NewCards
<1> HIDE DEF f, P, new, c
<1>4. DOMAIN new = 1..f /\ \A n \in 1..f : new[n] \in JobInfo
  BY <1>2, ElementOfSeq
<1>5. \A n \in 1..f : JobCard(new[n]) \in Cards /\ ~JobCard(new[n]).pending
  BY <1>4, JobCardIs
<1>6. c = [n \in 1..f |-> JobCard(new[n])]
  BY <1>3, <1>4
<1>7. c \in Seq(Cards) /\ Len(c) = f /\ \A n \in 1..f : c[n] = JobCard(new[n])
  BY <1>2, <1>5, <1>6
<1>8. \A n \in 1..f : ~c[n].pending
  BY <1>5, <1>7
<1>9. QED
  BY <1>2, <1>7, <1>8 DEF f, P, new, c

(* The places of the jobs that stay, and of their cards.                   *)
JobPlaces(list) == (1..Len(jobs)) \ Erased(list)
CardPlaces(list, count) == ((count + 1)..(count + Len(jobs))) \ Erased(list)

LEMMA StayIs ==
    ASSUME TypeOK, NEW list \in Seq(JobInfo)
    PROVE  LET m == Cardinality(JobPlaces(list)) IN
           /\ m \in Nat /\ Stay(list) \in Seq(JobInfo) /\ Len(Stay(list)) = m
           /\ \A n \in 1..m : /\ Nth(JobPlaces(list), n) \in JobPlaces(list)
                              /\ Stay(list)[n] = Now(list)[Nth(JobPlaces(list), n)]
           /\ \A i, n \in 1..m : Nth(JobPlaces(list), i) = Nth(JobPlaces(list), n) => i = n
           /\ \A k \in JobPlaces(list) : \E n \in 1..m : Nth(JobPlaces(list), n) = k
<1> DEFINE P == JobPlaces(list)
           now == Now(list)
<1>1. now \in Seq(JobInfo) /\ Len(now) = Len(jobs) /\ DOMAIN jobs = 1..Len(jobs)
  BY NowIs DEF TypeOK
<1>2. P \in SUBSET (1..Len(now))
  BY <1>1 DEF JobPlaces
<1>3. Stay(list) = At(now, P)
  BY <1>1 DEF Stay, JobPlaces
<1> HIDE DEF P, now
<1>4. /\ Cardinality(P) \in Nat /\ At(now, P) \in Seq(JobInfo) /\ Len(At(now, P)) = Cardinality(P)
      /\ \A n \in 1..Cardinality(P) : Nth(P, n) \in P /\ At(now, P)[n] = now[Nth(P, n)]
      /\ \A i, n \in 1..Cardinality(P) : Nth(P, i) = Nth(P, n) => i = n
      /\ \A k \in P : \E n \in 1..Cardinality(P) : Nth(P, n) = k
  BY <1>1, <1>2, AtIs
<1>5. QED
  BY <1>3, <1>4 DEF P, now

(* As many cards stay as jobs.                                            *)
LEMMA PlacesAgree ==
    ASSUME NEW list, NEW count \in Nat, Len(jobs) \in Nat,
           Erased(list) \in SUBSET (1..Len(jobs)), \A k \in Erased(list) : k > count
    PROVE  /\ Cardinality(CardPlaces(list, count)) = Cardinality(JobPlaces(list))
           /\ CardPlaces(list, count) \subseteq (count + 1)..(count + Len(jobs))
<1>1. QED
  BY StayersIs DEF CardPlaces, JobPlaces

LEMMA StayCardsIs ==
    ASSUME IInv, NEW list \in Seq(JobInfo), NEW items, NEW count, ItemsGood(items, count),
           ~\E k \in Touched(list) : items[k].pending
    PROVE  LET m == Cardinality(JobPlaces(list)) IN
           /\ StayCards(list, items, count) \in Seq(Cards) /\ Len(StayCards(list, items, count)) = m
           /\ \A n \in 1..m : /\ Nth(CardPlaces(list, count), n) \in CardPlaces(list, count)
                              /\ StayCards(list, items, count)[n] = Updated(list, items)[Nth(CardPlaces(list, count), n)]
                              /\ ~StayCards(list, items, count)[n].pending
           /\ \A k \in Touched(list) : k > count
<1> DEFINE P == CardPlaces(list, count)
           l == Len(jobs)
           u == Updated(list, items)
           E == Erased(list)
           m == Cardinality(JobPlaces(list))
           c == StayCards(list, items, count)
<1>0. TypeOK /\ l \in Nat /\ DOMAIN jobs = 1..l
  BY PageItems DEF IInv
<1>1. /\ items \in Seq(Cards) /\ count \in Nat /\ Len(items) = count + l
      /\ \A i \in 1..Len(items) : items[i].pending <=> i <= count
  BY DEF ItemsGood
<1>2. u \in Seq(Cards) /\ Len(u) = Len(items) /\ \A i \in 1..Len(items) : ~items[i].pending => ~u[i].pending
  BY <1>0, <1>1, UpdatedIs
<1>3. Touched(list) \subseteq 1..l /\ E \subseteq Touched(list)
  BY <1>0, ListedIs DEF Touched
<1> HIDE DEF E, l
<1>4. \A k \in Touched(list) : k > count
  <2> SUFFICES ASSUME NEW k \in Touched(list) PROVE k > count
    OBVIOUS
  <2>1. k \in 1..Len(items)
    BY <1>0, <1>1, <1>3
  <2>2. ~(k <= count)
    BY <1>1, <2>1
  <2>3. QED
    BY <1>1, <2>1, <2>2
<1>5. E \in SUBSET (1..l) /\ \A k \in E : k > count
  BY <1>3, <1>4
<1>7. Cardinality(P) = m /\ P \subseteq (count + 1)..(count + l)
  <2>1. Erased(list) \in SUBSET (1..Len(jobs)) /\ \A k \in Erased(list) : k > count
    BY <1>5 DEF E, l
  <2>2. QED
    BY <1>0, <1>1, <2>1, PlacesAgree DEF l
<1>8. c = At(u, P)
  BY <1>1 DEF StayCards, CardPlaces, E, l
<1> HIDE DEF P, u, m, c
<1>9. P \in SUBSET (1..Len(u)) /\ \A k \in P : k \in 1..Len(items) /\ ~(k <= count)
  <2>1. \A k \in (count + 1)..(count + l) : k \in 1..Len(u) /\ k \in 1..Len(items) /\ ~(k <= count)
    BY <1>0, <1>1, <1>2
  <2>2. QED
    BY <1>7, <2>1
<1>10. /\ At(u, P) \in Seq(Cards) /\ Len(At(u, P)) = m
       /\ \A n \in 1..m : Nth(P, n) \in P /\ At(u, P)[n] = u[Nth(P, n)]
  BY <1>2, <1>7, <1>9, AtIs
<1>11. \A k \in P : ~u[k].pending
  BY <1>1, <1>2, <1>9
<1>12. \A n \in 1..m : ~c[n].pending
  BY <1>8, <1>10, <1>11
<1>13. QED
  BY <1>4, <1>8, <1>10, <1>12 DEF P, u, m, c

(* Each job that stays has its own card, if the list was applied beside no *)
(* pending card or changed nothing.                                        *)
LEMMA StayCardsShow ==
    ASSUME IInv, NEW list \in Seq(JobInfo), NEW items, NEW count, ItemsGood(items, count),
           ~\E k \in Touched(list) : items[k].pending,
           ~shifted, ~raced, count = 0 \/ Touched(list) = {}
    PROVE  \A n \in 1..Cardinality(JobPlaces(list)) : StayCards(list, items, count)[n] = JobCard(Stay(list)[n])
<1> DEFINE m == Cardinality(JobPlaces(list))
           l == Len(jobs)
           u == Updated(list, items)
           now == Now(list)
<1>0. TypeOK /\ l \in Nat /\ DOMAIN jobs = 1..l
  BY PageItems DEF IInv
<1>1. /\ items \in Seq(Cards) /\ count \in Nat /\ Len(items) = count + l
      /\ \A k \in 1..l : items[count + k] = JobCard(jobs[k])
  BY DEF ItemsGood
<1>2. DOMAIN items = 1..(count + l)
  BY <1>1
<1>3. \A k \in 1..l : now[k].id = jobs[k].id /\ (k \notin Changed(list) => now[k] = jobs[k])
  BY <1>0, NowIs
<1>4. \A i \in 1..(count + l) : i \notin Changed(list) => u[i] = items[i]
  BY <1>0, <1>1, UpdatedIs
<1>5. \A n \in 1..m : /\ StayCards(list, items, count)[n] = u[Nth(CardPlaces(list, count), n)]
                      /\ Nth(JobPlaces(list), n) \in JobPlaces(list)
                      /\ Stay(list)[n] = now[Nth(JobPlaces(list), n)]
  BY <1>0, StayIs, StayCardsIs
<1>6. \A i, k \in 1..l : jobs[i].id = jobs[k].id => i = k
  BY <1>0 DEF IInv, OnceInv
<1>7. Changed(list) \subseteq Known /\ Known \subseteq 1..l
  BY <1>0, ListedIs
<1> HIDE DEF m, l
<1>8. CASE count = 0
  <2>1. CardPlaces(list, count) = JobPlaces(list)
    <3>1. count + 1 = 1 /\ count + l = l
      BY <1>0, <1>8
    <3>2. QED
      BY <3>1 DEF CardPlaces, JobPlaces, l
  <2>2. \A k \in 1..l : items[k] = JobCard(jobs[k])
    <3>1. \A k \in 1..l : count + k = k
      BY <1>0, <1>8
    <3>2. QED
      BY <1>1, <3>1
  <2>3. \A k \in 1..l : k \in 1..(count + l)
    BY <1>0, <1>8
  <2>4. \A k \in 1..l : u[k] = JobCard(now[k])
    <3> SUFFICES ASSUME NEW k \in 1..l PROVE u[k] = JobCard(now[k])
      OBVIOUS
    <3>1. CASE k \notin Changed(list)
      BY <1>3, <1>4, <2>2, <2>3, <3>1
    <3>2. CASE k \in Changed(list)
      <4>1. u[k] = UpdateJob(items[k], now)
        BY <1>2, <2>3, <3>2 DEF Updated
      <4>2. items[k].id = jobs[k].id
        <5>1. JobCard(jobs[k]).id = jobs[k].id
          BY DEF JobCard
        <5>2. QED
          BY <2>2, <5>1
      <4>3. k \in Known /\ now[k].id = items[k].id
        BY <1>3, <1>7, <3>2, <4>2
      <4>4. \A i \in Known : now[i].id = items[k].id => i = k
        BY <1>3, <1>6, <1>7, <4>2
      <4>5. (CHOOSE i \in Known : now[i].id = items[k].id) = k
        BY <4>3, <4>4
      <4>6. QED
        BY <4>1, <4>3, <4>5 DEF UpdateJob
    <3>3. QED
      BY <3>1, <3>2
  <2>5. \A k \in JobPlaces(list) : k \in 1..l
    BY DEF JobPlaces, l
  <2>6. QED
    BY <1>5, <2>1, <2>4, <2>5 DEF m
<1>9. CASE Touched(list) = {}
  <2>1. Changed(list) = {} /\ Erased(list) = {}
    BY <1>9 DEF Touched
  <2>2. JobPlaces(list) = 1..l /\ CardPlaces(list, count) = (count + 1)..(count + l)
    BY <2>1 DEF JobPlaces, CardPlaces, l
  <2>3. /\ m = l /\ \A n \in 1..l : Nth(CardPlaces(list, count), n) = count + n
        /\ \A n \in 1..l : Nth(JobPlaces(list), n) = n
    <3>1. \A n \in 1..l : Nth((count + 1)..(count + l), n) = count + n
      BY <1>0, <1>1, NthOfInterval
    <3>2. 0 \in Nat /\ 0 + 1 = 1 /\ 0 + l = l /\ \A n \in 1..l : 0 + n = n
      BY <1>0
    <3>3. /\ Cardinality((0 + 1)..(0 + l)) = l
          /\ \A n \in 1..l : Nth((0 + 1)..(0 + l), n) = 0 + n
      BY <1>0, <3>2, NthOfInterval
    <3>4. QED
      BY <2>2, <3>1, <3>2, <3>3 DEF m
  <2>4. \A n \in 1..l : u[count + n] = items[count + n] /\ now[n] = jobs[n]
    <3>1. \A n \in 1..l : count + n \in 1..(count + l)
      BY <1>0, <1>1
    <3>2. QED
      BY <1>3, <1>4, <2>1, <3>1
  <2>5. QED
    BY <1>1, <1>5, <2>3, <2>4 DEF m
<1>10. QED
  BY <1>8, <1>9

(* The jobs after it are those of the list, each once.                     *)
ListedOnce(after, list) ==
    /\ after \in Seq(JobInfo)
    /\ \A i, k \in 1..Len(after) : after[i].id = after[k].id => i = k
    /\ \A k \in 1..Len(after) : after[k].id \in Listed(list)
    /\ \A id \in Listed(list) : \E k \in 1..Len(after) : after[k].id = id

LEMMA JobsAfter ==
    ASSUME IInv, ~raced, NEW list \in Seq(JobInfo), GoodList(list), NEW after, after = New(list) \o Stay(list)
    PROVE  ListedOnce(after, list)
<1> DEFINE f == Cardinality(Added(list))
           m == Cardinality(JobPlaces(list))
           a(n) == Nth(Added(list), n)
           b(n) == Nth(JobPlaces(list), n)
           l == Len(jobs)
<1>0. TypeOK /\ l \in Nat /\ DOMAIN jobs = 1..l
  BY PageItems DEF IInv
<1>1. /\ f \in Nat /\ New(list) \in Seq(JobInfo) /\ Len(New(list)) = f
      /\ \A n \in 1..f : a(n) \in Added(list) /\ New(list)[n] = list[a(n)]
      /\ \A i, n \in 1..f : a(i) = a(n) => i = n
      /\ \A k \in Added(list) : \E n \in 1..f : a(n) = k
  BY <1>0, NewIs
<1>2. /\ m \in Nat /\ Stay(list) \in Seq(JobInfo) /\ Len(Stay(list)) = m
      /\ \A n \in 1..m : b(n) \in JobPlaces(list) /\ Stay(list)[n] = Now(list)[b(n)]
      /\ \A i, n \in 1..m : b(i) = b(n) => i = n
      /\ \A k \in JobPlaces(list) : \E n \in 1..m : b(n) = k
  BY <1>0, StayIs
<1>3. \A k \in 1..l : Now(list)[k].id = jobs[k].id
  BY <1>0, NowIs
<1>4. \A i, k \in 1..l : jobs[i].id = jobs[k].id => i = k
  BY <1>0 DEF IInv, OnceInv
<1>5. Known = 1..l
  <2>1. \A k \in 1..l : \A i \in 1..(k - 1) : i \in 1..l /\ i # k
    BY <1>0
  <2>2. \A k \in 1..l : \A i \in 1..(k - 1) : jobs[i].id # jobs[k].id
    BY <1>4, <2>1
  <2>3. QED
    BY <1>0, <2>2 DEF Known
<1>6. \A k \in JobPlaces(list) : k \in 1..l /\ jobs[k].id \in Listed(list)
  BY <1>5 DEF JobPlaces, Erased, l
<1>7. \A k \in 1..l : jobs[k].id \in Listed(list) => k \in JobPlaces(list)
  BY DEF JobPlaces, Erased, l
<1>8. \A n \in Added(list) : /\ n \in DOMAIN list /\ list[n].id \in Listed(list)
                             /\ \A k \in 1..l : list[n].id # jobs[k].id
  BY <1>5 DEF Added, Listed
<1>9. \A n \in DOMAIN list : n \in Added(list) \/ \E k \in 1..l : list[n].id = jobs[k].id
  BY <1>5 DEF Added
<1>10. \A i, k \in DOMAIN list : list[i].id = list[k].id => i = k
  BY DEF GoodList
<1> HIDE DEF f, m, a, b, l
<1>11. /\ after \in Seq(JobInfo) /\ Len(after) = f + m
       /\ \A i \in 1..(f + m) : after[i] = IF i <= f THEN New(list)[i] ELSE Stay(list)[i - f]
  <2> DEFINE x == New(list)
             y == Stay(list)
             z == x \o y
  <2>0. x \in Seq(JobInfo) /\ y \in Seq(JobInfo) /\ Len(x) = f /\ Len(y) = m /\ after = z
    BY <1>1, <1>2
  <2> HIDE DEF x, y
  <2>1. /\ z \in Seq(JobInfo) /\ Len(z) = Len(x) + Len(y)
        /\ \A i \in 1..(Len(x) + Len(y)) : z[i] = IF i <= Len(x) THEN x[i] ELSE y[i - Len(x)]
    BY <2>0, ConcatProperties
  <2> HIDE DEF z
  <2>2. QED
    BY <2>0, <2>1 DEF x, y
<1>12. \A i \in 1..f : i \in 1..(f + m) /\ after[i].id = list[a(i)].id /\ after[i].id \in Listed(list)
  <2>1. \A i \in 1..f : i \in 1..(f + m) /\ i <= f
    BY <1>1, <1>2
  <2>2. QED
    BY <1>1, <1>8, <1>11, <2>1
<1>13. \A i \in 1..m : /\ f + i \in 1..(f + m) /\ after[f + i].id = jobs[b(i)].id
                       /\ after[f + i].id \in Listed(list)
  <2>1. \A i \in 1..m : f + i \in 1..(f + m) /\ ~(f + i <= f) /\ (f + i) - f = i
    BY <1>1, <1>2
  <2>2. \A i \in 1..m : after[f + i] = Now(list)[b(i)]
    BY <1>2, <1>11, <2>1
  <2>3. \A i \in 1..m : b(i) \in 1..l /\ jobs[b(i)].id \in Listed(list)
    BY <1>2, <1>6
  <2>4. \A i \in 1..m : after[f + i].id = jobs[b(i)].id
    BY <1>3, <2>2, <2>3
  <2>5. QED
    BY <2>1, <2>3, <2>4
<1>14. \A i \in 1..(f + m) : i \in 1..f \/ \E n \in 1..m : i = f + n
  <2>1. \A i \in 1..(f + m) : i \in 1..f \/ (i - f \in 1..m /\ i = f + (i - f))
    BY <1>1, <1>2
  <2>2. QED
    BY <2>1
<1>15. \A k \in 1..(f + m) : after[k].id \in Listed(list)
  BY <1>12, <1>13, <1>14
<1>16. \A i, k \in 1..(f + m) : after[i].id = after[k].id => i = k
  <2>1. \A i, k \in 1..f : after[i].id = after[k].id => i = k
    BY <1>1, <1>8, <1>10, <1>12
  <2>2. \A i, k \in 1..m : after[f + i].id = after[f + k].id => i = k
    <3> SUFFICES ASSUME NEW i \in 1..m, NEW k \in 1..m, after[f + i].id = after[f + k].id PROVE i = k
      OBVIOUS
    <3>1. jobs[b(i)].id = jobs[b(k)].id
      BY <1>13
    <3>2. b(i) \in 1..l /\ b(k) \in 1..l
      BY <1>2, <1>6
    <3>3. b(i) = b(k)
      BY <1>4, <3>1, <3>2
    <3>4. QED
      BY <1>2, <3>3
  <2>3. \A i \in 1..f, k \in 1..m : after[i].id # after[f + k].id
    <3> SUFFICES ASSUME NEW i \in 1..f, NEW k \in 1..m PROVE after[i].id # after[f + k].id
      OBVIOUS
    <3>1. after[i].id = list[a(i)].id /\ after[f + k].id = jobs[b(k)].id
      BY <1>12, <1>13
    <3>2. a(i) \in Added(list) /\ b(k) \in 1..l
      BY <1>1, <1>2, <1>6
    <3>3. QED
      BY <1>8, <3>1, <3>2
  <2> SUFFICES ASSUME NEW i \in 1..(f + m), NEW k \in 1..(f + m), after[i].id = after[k].id
               PROVE  i = k
    OBVIOUS
  <2>4. CASE i \in 1..f /\ k \in 1..f
    BY <2>1, <2>4
  <2>5. CASE i \in 1..f /\ \E n \in 1..m : k = f + n
    BY <2>3, <2>5
  <2>6. CASE (\E n \in 1..m : i = f + n) /\ k \in 1..f
    BY <2>3, <2>6
  <2>7. CASE (\E n \in 1..m : i = f + n) /\ (\E n \in 1..m : k = f + n)
    BY <2>2, <2>7
  <2>8. QED
    BY <1>14, <2>4, <2>5, <2>6, <2>7
<1>17. ASSUME NEW id \in Listed(list) PROVE \E k \in 1..(f + m) : after[k].id = id
  <2>1. PICK n \in DOMAIN list : list[n].id = id
    BY DEF Listed
  <2>2. CASE n \in Added(list)
    <3>1. PICK i \in 1..f : a(i) = n
      BY <1>1, <2>2
    <3>2. QED
      BY <1>12, <2>1, <3>1
  <2>3. CASE \E k \in 1..l : list[n].id = jobs[k].id
    <3>1. PICK k \in 1..l : id = jobs[k].id
      BY <2>1, <2>3
    <3>2. k \in JobPlaces(list)
      BY <1>7, <3>1
    <3>3. PICK i \in 1..m : b(i) = k
      BY <1>2, <3>2
    <3>4. QED
      BY <1>13, <3>1, <3>3
  <2>4. QED
    BY <1>9, <2>1, <2>2, <2>3
<1>18. QED
  BY <1>11, <1>15, <1>16, <1>17 DEF ListedOnce

(* Nothing but the page changes; the requests become fewer.                *)
LEMMA ListAppliedStep ==
    ASSUME IInv, NEW list \in Seq(JobInfo), GoodList(list), NEW items, NEW count, ItemsGood(items, count),
           UpdateContent(list, items, count), ~\E k \in Touched(list) : items[k].pending,
           UNCHANGED <<server, changes, state, event, result>>,
           requests' \in Seq(Requests), ListsGood'
    PROVE  IInv'
<1> DEFINE f == Cardinality(Added(list))
           m == Cardinality(JobPlaces(list))
           first == SubSeq(items, 1, count)
           new == New(list)
           newCards == NewCards(list)
           stay == Stay(list)
           stayCards == StayCards(list, items, count)
<1>0. /\ TypeOK /\ HeardInv
      /\ server \in [Jobs -> Versions \cup {Absent, Gone}]
      /\ {alive, shifted, raced} \subseteq BOOLEAN
  BY DEF IInv, TypeOK
<1>1. /\ jobs' = new \o stay /\ cards' = first \o newCards \o stayCards /\ pendingCount' = count
      /\ shifted' = (shifted \/ (count > 0 /\ Touched(list) # {}))
      /\ raced' = (raced \/ \E i \in 1..count : items[i].id \in Listed(list))
      /\ applied' = Listed(list) /\ alive' = alive
  BY UpdateIs
<1>2. /\ f \in Nat /\ new \in Seq(JobInfo) /\ Len(new) = f
      /\ newCards \in Seq(Cards) /\ Len(newCards) = f
      /\ \A n \in 1..f : newCards[n] = JobCard(new[n]) /\ ~newCards[n].pending
  BY <1>0, NewIs
<1>3. m \in Nat /\ stay \in Seq(JobInfo) /\ Len(stay) = m
  BY <1>0, StayIs
<1>4. /\ stayCards \in Seq(Cards) /\ Len(stayCards) = m
      /\ \A n \in 1..m : ~stayCards[n].pending
  BY StayCardsIs
<1>5. /\ items \in Seq(Cards) /\ count \in Nat /\ Len(items) = count + Len(jobs) /\ Len(jobs) \in Nat
      /\ \A i \in 1..Len(items) : items[i].pending <=> i <= count
      /\ \A i \in 1..count : /\ items[i].id \in Pending /\ state[items[i].id] # "no"
                             /\ state[items[i].id] = "complete" => result[items[i].id] # Absent
      /\ \A i, k \in 1..count : items[i].id = items[k].id => i = k
  BY PageItems DEF ItemsGood
<1>6. /\ first \in Seq(Cards) /\ Len(first) = count
      /\ \A k \in 1..count : first[k] = items[k] /\ items[k].pending
  <2>1. 1 \in 1..(Len(items) + 1) /\ count \in (1 - 1)..Len(items) /\ \A k \in 1..count : k \in 1..Len(items) /\ k <= count
    BY <1>5
  <2>2. /\ first \in Seq(Cards) /\ Len(first) = count - 1 + 1
        /\ \A k \in 1..(count - 1 + 1) : first[k] = items[1 + k - 1]
    BY <1>5, <2>1, PartOfSeq
  <2> HIDE DEF first
  <2>3. count - 1 + 1 = count /\ \A k \in 1..count : 1 + k - 1 = k
    BY <1>5
  <2>4. QED
    BY <1>5, <2>1, <2>2, <2>3
<1> HIDE DEF first, new, newCards, stay, stayCards, f, m
<1>7. /\ cards' \in Seq(Cards) /\ Len(cards') = count + f + m
      /\ \A k \in 1..count : cards'[k] = items[k] /\ cards'[k].pending
      /\ \A k \in 1..f : cards'[count + k] = newCards[k]
      /\ \A k \in 1..m : cards'[count + f + k] = stayCards[k]
  <2> DEFINE t == first \o newCards \o stayCards
  <2>1. Joined(t, Cards, first, newCards, stayCards)
    BY <1>2, <1>4, <1>6, ConcatOfThree
  <2>2. cards' = t
    BY <1>1
  <2> HIDE DEF t
  <2>3. QED
    BY <1>2, <1>4, <1>6, <2>1, <2>2 DEF Joined
<1>8. /\ jobs' \in Seq(JobInfo) /\ Len(jobs') = f + m
      /\ \A i \in 1..(f + m) : jobs'[i] = IF i <= f THEN new[i] ELSE stay[i - f]
  BY <1>1, <1>2, <1>3, ConcatProperties
<1>9. DOMAIN cards' = 1..(count + f + m) /\ DOMAIN jobs' = 1..(f + m)
  BY <1>2, <1>3, <1>5, <1>7, <1>8
<1>10. TypeOK'
  <2>1. applied' \subseteq Jobs
    BY <1>0, <1>1, ListedIs
  <2>2. {alive', shifted', raced'} \subseteq BOOLEAN
    BY <1>0, <1>1
  <2>3. QED
    BY <1>0, <1>1, <1>5, <1>7, <1>8, <2>1, <2>2 DEF TypeOK
<1>11. LayoutInv'
  <2>1. \A i \in 1..(count + f + m) : cards'[i].pending <=> i <= count
    <3> SUFFICES ASSUME NEW i \in 1..(count + f + m) PROVE cards'[i].pending <=> i <= count
      OBVIOUS
    <3>1. CASE i \in 1..count
      <4>1. cards'[i].pending
        BY <1>7, <3>1
      <4>2. i <= count
        BY <1>5, <3>1
      <4>3. QED
        BY <4>1, <4>2, Zenon
    <3>2. CASE i - count \in 1..f
      <4>1. count + (i - count) = i /\ ~(i <= count)
        BY <1>2, <1>3, <1>5, <3>2
      <4>2. ~cards'[i].pending
        BY <1>2, <1>7, <3>2, <4>1
      <4>3. QED
        BY <4>1, <4>2, Zenon
    <3>3. CASE i - count - f \in 1..m
      <4>1. count + f + (i - count - f) = i /\ ~(i <= count)
        BY <1>2, <1>3, <1>5, <3>3
      <4>2. ~cards'[i].pending
        BY <1>4, <1>7, <3>3, <4>1
      <4>3. QED
        BY <4>1, <4>2
    <3>4. i \in 1..count \/ i - count \in 1..f \/ i - count - f \in 1..m
      BY <1>2, <1>3, <1>5
    <3>5. QED
      BY <3>1, <3>2, <3>3, <3>4
  <2>2. Len(cards') = pendingCount' + Len(jobs')
    BY <1>1, <1>2, <1>3, <1>5, <1>7, <1>8
  <2>3. QED
    BY <1>1, <1>9, <2>1, <2>2 DEF LayoutInv
<1>12. PendingInv'
  <2>1. \A i \in 1..count : cards'[i].id \in Pending /\ state[cards'[i].id] # "no"
    BY <1>5, <1>7
  <2>2. \A i, k \in 1..count : cards'[i].id = cards'[k].id => i = k
    BY <1>5, <1>7
  <2>3. pendingCount' = count /\ state' = state
    BY <1>1
  <2>4. QED
    BY <2>1, <2>2, <2>3 DEF PendingInv
<1>13. ReadInv'
  <2>1. \A i \in 1..count : state[cards'[i].id] = "complete" => result[cards'[i].id] # Absent
    BY <1>5, <1>7
  <2>2. pendingCount' = count /\ state' = state /\ result' = result
    BY <1>1
  <2>3. QED
    BY <2>1, <2>2 DEF ReadInv
<1>14. HeardInv'
  <2>1. \A j \in Listed(list) : Printed(j)
    BY DEF GoodList, Listed
  <2>2. \A j \in applied' : Printed(j)'
    BY <1>1, <2>1 DEF Printed
  <2>3. QED
    BY <1>0, <2>2 DEF HeardInv, ListsGood
<1>15. OnceInv'
  <2>1. CASE raced'
    BY <2>1 DEF OnceInv
  <2>2. CASE ~raced'
    <3>1. ~raced /\ \A i \in 1..count : items[i].id \notin Listed(list)
      BY <1>1, <2>2
    <3>2. /\ \A i, k \in 1..(f + m) : jobs'[i].id = jobs'[k].id => i = k
          /\ \A k \in 1..(f + m) : jobs'[k].id \in Listed(list)
          /\ \A id \in Listed(list) : \E k \in 1..(f + m) : jobs'[k].id = id
      <4>1. jobs' = New(list) \o Stay(list) /\ Len(jobs') = f + m
        BY <1>1, <1>8 DEF new, stay
      <4>2. ListedOnce(jobs', list)
        BY <3>1, <4>1, JobsAfter
      <4>3. QED
        BY <4>1, <4>2 DEF ListedOnce
    <3>3. (\A i, k \in DOMAIN jobs : jobs[i].id = jobs[k].id => i = k)'
      BY <1>9, <3>2
    <3>4. {jobs'[k].id : k \in DOMAIN jobs'} = applied'
      <4>1. \A k \in DOMAIN jobs' : jobs'[k].id \in applied'
        BY <1>1, <1>9, <3>2
      <4>2. \A id \in applied' : \E k \in DOMAIN jobs' : jobs'[k].id = id
        BY <1>1, <1>9, <3>2
      <4>3. QED
        BY <4>1, <4>2
    <3>5. (\A i \in 1..pendingCount : cards[i].id \notin applied)'
      BY <1>1, <1>7, <3>1
    <3>6. QED
      BY <3>3, <3>4, <3>5, Zenon DEF OnceInv
  <2>3. QED
    BY <2>1, <2>2
<1>16. ShownInv'
  <2> SUFFICES ASSUME ~shifted', ~raced' PROVE ShownInv'
    BY DEF ShownInv
  <2>1. ~shifted /\ ~raced /\ (count = 0 \/ Touched(list) = {})
    <3>1. ~shifted /\ ~raced /\ (~(count > 0) \/ Touched(list) = {})
      BY <1>1
    <3>2. count > 0 \/ count = 0
      BY <1>5
    <3>3. QED
      BY <3>1, <3>2
  <2>2. \A n \in 1..m : stayCards[n] = JobCard(stay[n])
    BY <2>1, StayCardsShow DEF stayCards, stay, m
  <2>3. \A k \in 1..(f + m) : cards'[count + k] = JobCard(jobs'[k])
    <3> SUFFICES ASSUME NEW k \in 1..(f + m) PROVE cards'[count + k] = JobCard(jobs'[k])
      OBVIOUS
    <3>1. CASE k \in 1..f
      <4>1. k <= f
        BY <1>2, <3>1
      <4>2. QED
        BY <1>2, <1>7, <1>8, <3>1, <4>1
    <3>2. CASE k - f \in 1..m
      <4>1. count + f + (k - f) = count + k /\ ~(k <= f)
        BY <1>2, <1>3, <1>5, <3>2
      <4>2. QED
        BY <1>7, <1>8, <2>2, <3>2, <4>1
    <3>3. k \in 1..f \/ k - f \in 1..m
      BY <1>2, <1>3
    <3>4. QED
      BY <3>1, <3>2, <3>3
  <2>4. QED
    BY <1>1, <1>9, <2>3 DEF ShownInv
<1>17. QED
  BY <1>10, <1>11, <1>12, <1>13, <1>14, <1>15, <1>16 DEF IInv

LEMMA ListArrivesStep == ASSUME IInv, NEW n, ListArrives(n) PROVE IInv'
<1> DEFINE s == requests
           list == s[n].list
           close == s[n].close
           items == ItemsFor(close)
           count == CountFor(close)
<1>0. /\ TypeOK /\ HeardInv /\ s \in Seq(Requests) /\ n \in DOMAIN s /\ n \in 1..Len(s) /\ s[n] \in Requests
      /\ UNCHANGED <<server, changes, state, event, result>> /\ requests' = RemoveAt(s, n)
  BY ElementOfSeq DEF IInv, TypeOK, ListArrives
<1>1. list \in Seq(JobInfo) /\ GoodList(list)
  BY <1>0 DEF Requests, HeardInv
<1>2. ItemsGood(items, count)
  BY ItemsOfList
<1>3. UpdateContent(list, items, count)
  BY DEF ListArrives, ItemsFor, CountFor
<1>4. requests' \in Seq(Requests) /\ ListsGood'
  <2>0. PrintedStay
    BY <1>0 DEF PrintedStay
  <2>1. \A i \in DOMAIN s : GoodAfter(s[i].list)
    BY <1>0, <2>0, GoodStays DEF HeardInv
  <2> HIDE DEF s
  <2>2. /\ requests' \in Seq(Requests) /\ Len(requests') = Len(s) - 1
        /\ \A k \in 1..(Len(s) - 1) : requests'[k] = IF k < n THEN s[k] ELSE s[k + 1]
    BY <1>0, RemoveAtIs
  <2>3. DOMAIN requests' = 1..(Len(s) - 1) /\ DOMAIN s = 1..Len(s) /\ Len(s) \in Nat
    BY <1>0, <2>2
  <2>4. \A k \in 1..(Len(s) - 1) : k \in 1..Len(s) /\ k + 1 \in 1..Len(s)
    BY <2>3
  <2>5. \A i \in DOMAIN requests' : GoodAfter(requests'[i].list)
    BY <2>1, <2>2, <2>3, <2>4
  <2>6. QED
    BY <2>2, <2>5, ListsGoodAfter
<1> HIDE DEF s, list, close, items, count
<1>5. CASE ~\E k \in Touched(list) : items[k].pending
  BY <1>0, <1>1, <1>2, <1>3, <1>4, <1>5, ListAppliedStep
<1>6. CASE \E k \in Touched(list) : items[k].pending
  <2>1. alive' = FALSE /\ UNCHANGED <<cards, pendingCount, jobs, shifted, raced, applied>>
    BY <1>3, <1>6, UpdateIs DEF page
  <2>2. TypeOK'
    BY <1>0, <1>4, <2>1 DEF TypeOK
  <2>3. HeardInv'
    BY <1>0, <1>4, <2>1 DEF HeardInv, ListsGood, Printed
  <2>4. LayoutInv' /\ PendingInv' /\ OnceInv' /\ ShownInv' /\ ReadInv'
    BY <1>0, <2>1 DEF IInv, LayoutInv, PendingInv, OnceInv, ShownInv, ReadInv
  <2>5. QED
    BY <2>2, <2>3, <2>4 DEF IInv
<1>7. QED
  BY <1>5, <1>6

(* It dies only if a pending card stands where that of a known job should. *)
LEMMA DeathIsBesidePending ==
    ASSUME IInv, NEW n, ListArrives(n), alive, ~alive'
    PROVE  pendingCount > 0
<1> DEFINE list == requests[n].list
           items == ItemsFor(requests[n].close)
           count == CountFor(requests[n].close)
<1>1. TypeOK /\ list \in Seq(JobInfo) /\ pendingCount \in Nat
  <2>1. requests \in Seq(Requests) /\ n \in DOMAIN requests
    BY DEF IInv, TypeOK, ListArrives
  <2>2. requests[n] \in Requests
    BY <2>1, ElementOfSeq
  <2>3. QED
    BY <2>2 DEF Requests, IInv, TypeOK
<1>2. ItemsGood(items, count) /\ count <= pendingCount
  BY ItemsOfList
<1>3. UpdateContent(list, items, count)
  BY DEF ListArrives, ItemsFor, CountFor
<1> HIDE DEF list, items, count
<1>4. PICK k \in Touched(list) : items[k].pending
  BY <1>3, UpdateIs
<1>5. k \in 1..Len(jobs) /\ Len(jobs) \in Nat
  BY <1>1, ListedIs, PageItems DEF Touched
<1>6. count \in Nat /\ k \in 1..Len(items) /\ (items[k].pending => k <= count)
  <2>1. count \in Nat /\ Len(items) = count + Len(jobs) /\ \A i \in 1..Len(items) : items[i].pending <=> i <= count
    BY <1>2 DEF ItemsGood
  <2>2. k \in 1..Len(items)
    BY <1>5, <2>1
  <2>3. QED
    BY <2>1, <2>2
<1>7. QED
  BY <1>1, <1>2, <1>4, <1>5, <1>6

-------------------------------------------------------------------------------
(* The theorems.                                                           *)

LEMMA StepKeeps == IInv /\ [Next]_vars => IInv'
<1> SUFFICES ASSUME IInv, [Next]_vars PROVE IInv'
  OBVIOUS
<1>1. ASSUME NEW j \in Pending, CreatePendingJob(j) PROVE IInv'
  BY <1>1, CreatePendingJobStep
<1>2. ASSUME NEW j \in Pending, JobEnds(j) PROVE IInv'
  BY <1>2, JobEndsStep
<1>3. ASSUME NEW j \in Pending, HandleJobProgress(j) PROVE IInv'
  BY <1>3, HandleJobProgressStep
<1>4. ASSUME NEW j \in Pending, ReplacePendingJobWithComplete(j) PROVE IInv'
  BY <1>4, ReplacePendingJobWithCompleteStep
<1>5. ASSUME NEW j \in Jobs, ServerChanges(j) PROVE IInv'
  BY <1>5, ServerChangesStep
<1>6. CASE SelectPage \/ \E j \in Pending : CloseClick(j)
  BY <1>6, PostStep
<1>7. ASSUME NEW n \in 1..MaxRequests, ServerAnswers(n) PROVE IInv'
  BY <1>7, ServerAnswersStep
<1>8. ASSUME NEW n \in 1..MaxRequests, ListArrives(n) PROVE IInv'
  BY <1>8, ListArrivesStep
<1>9. CASE UNCHANGED vars
  <2>1. UNCHANGED <<server, changes, state, event, result, requests, cards, pendingCount, jobs, alive, shifted, raced, applied>>
    BY <1>9 DEF vars, page, history
  <2>2. TypeOK' /\ HeardInv'
    BY <2>1 DEF IInv, TypeOK, HeardInv, GoodList, Printed
  <2>3. LayoutInv' /\ PendingInv' /\ OnceInv' /\ ShownInv' /\ ReadInv'
    BY <2>1 DEF IInv, LayoutInv, PendingInv, OnceInv, ShownInv, ReadInv
  <2>4. QED
    BY <2>2, <2>3 DEF IInv
<1>10. QED
  BY <1>1, <1>2, <1>3, <1>4, <1>5, <1>6, <1>7, <1>8, <1>9 DEF Next

(* What every step of the page preserves, in every behaviour.              *)
THEOREM PageInvariant == Spec => []IInv
<1>1. QED
  BY JobsInit, StepKeeps, PTL DEF Spec

(* The page is laid out as its code counts on: m_pendingCount pending      *)
(* cards, then one for each known job; and that card shows its job, until  *)
(* a list that changes something is applied beside pending cards.          *)
THEOREM PageIsTrue == Spec => []CardsTrue
<1>1. IInv => CardsTrue
  <2> SUFFICES ASSUME IInv PROVE CardsTrue
    OBVIOUS
  <2>1. LayoutInv /\ ShownInv
    BY DEF IInv
  <2>2. QED
    BY <2>1 DEF CardsTrue, LayoutInv, ShownInv
<1>2. QED
  BY <1>1, PageInvariant, PTL

(* Until a list names a job beside its pending card, no job is shown       *)
(* twice, and those shown are those of the last list and those completed   *)
(* since.                                                                  *)
THEOREM NoJobIsShownTwice == Spec => []JobsShownOnce
<1>1. IInv => JobsShownOnce
  <2> SUFFICES ASSUME IInv, ~raced PROVE JobsShownOnce
    BY DEF JobsShownOnce
  <2>1. OnceInv
    BY DEF IInv
  <2>2. \A i, k \in DOMAIN jobs : jobs[i].id = jobs[k].id => i = k
    BY <2>1 DEF OnceInv
  <2>3. IsInjective([k \in DOMAIN jobs |-> jobs[k].id])
    BY <2>2 DEF IsInjective
  <2>4. {jobs[k].id : k \in DOMAIN jobs} = applied
    BY <2>1, Zenon DEF OnceInv
  <2>5. QED
    BY <2>3, <2>4, Zenon DEF JobsShownOnce
<1>2. QED
  BY <1>1, PageInvariant, PTL

(* Once the result of a completed job was read, its pending card is gone.  *)
THEOREM NoCompleteJobIsPending == Spec => []CompleteIsShown
<1>1. IInv => CompleteIsShown
  <2> SUFFICES ASSUME IInv, NEW j \in Pending, state[j] = "complete", result[j] = Absent,
                      NEW i \in DOMAIN cards, cards[i].pending, cards[i].id = j
               PROVE  FALSE
    BY DEF CompleteIsShown
  <2>1. /\ pendingCount \in Nat /\ Len(cards) \in Nat /\ DOMAIN cards = 1..Len(cards)
        /\ LayoutInv /\ ReadInv
    BY DEF IInv, TypeOK
  <2>2. i <= pendingCount
    BY <2>1 DEF LayoutInv
  <2>3. i \in 1..pendingCount
    BY <2>1, <2>2
  <2>4. QED
    BY <2>1, <2>3 DEF ReadInv
<1>2. QED
  BY <1>1, PageInvariant, PTL

(* The null pointer is used only beside pending cards: with none, item k   *)
(* of the sizer is the card of the k-th known job.                         *)
THEOREM DeathNeedsPending == Spec => DiesOnlyBesidePending
<1>1. IInv /\ [Next]_vars => [alive /\ ~alive' => pendingCount > 0]_vars
  <2> SUFFICES ASSUME IInv, Next, alive, ~alive' PROVE pendingCount > 0
    OBVIOUS
  <2>1. PICK n \in 1..MaxRequests : ListArrives(n)
    BY DEF Next, SelectPage, ServerChanges, CreatePendingJob, JobEnds, HandleJobProgress, CloseClick,
           ReplacePendingJobWithComplete, ServerAnswers
  <2>2. QED
    BY <2>1, DeathIsBesidePending
<1>2. QED
  BY <1>1, PageInvariant, PTL DEF Spec, DiesOnlyBesidePending
===============================================================================
