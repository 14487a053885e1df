--------------------------- MODULE ConversionsProofs ---------------------------
(* Proofs about Conversions, for any contents, answers, sizes of paper,     *)
(* picture and window, number of pages, and lists of installers.            *)
EXTENDS Conversions, FiniteSetTheorems, SequenceTheorems, WellFoundedInduction, TLAPS

(* Only ReadAnswer makes an answer, and so on.                             *)
LEMMA OneKindEach ==
    ASSUME Next
    PROVE  /\ input'.kind = "content" => SendContent
           /\ input'.kind = "answer" => ReadAnswer
           /\ input'.kind = "pages" => ShowPages
           /\ input'.kind = "picture" => PreviewPicture
           /\ input'.kind = "updates" => LookForUpdate
           /\ input'.kind = "canvas" => OpenPreview \/ (input.kind = "canvas" /\ Preview(input.canvas))
<1>1. CASE SendContent
  BY <1>1 DEF SendContent
<1>2. CASE ReadAnswer
  BY <1>2 DEF ReadAnswer
<1>3. CASE ShowPages
  BY <1>3 DEF ShowPages
<1>4. CASE PreviewPicture
  BY <1>4 DEF PreviewPicture
<1>5. CASE LookForUpdate
  BY <1>5 DEF LookForUpdate
<1>6. CASE OpenPreview
  BY <1>6 DEF OpenPreview, Became
<1>7. CASE input.kind = "canvas" /\ Preview(input.canvas)
  <2>1. input'.kind = "canvas"
    BY <1>7 DEF Preview, PaintCanvas, ScrollCanvas, ResizeCanvas, ChooseProfile, ChooseSettings, Became
  <2>2. QED
    BY <1>7, <2>1
<1>8. CASE Forget
  BY <1>8 DEF Forget, Nothing
<1>9. QED
  BY <1>1, <1>2, <1>3, <1>4, <1>5, <1>6, <1>7, <1>8 DEF Next, Pick

-------------------------------------------------------------------------------
(* Answers.                                                                *)

LEMMA AnswerFramed ==
    ASSUME NEW length \in Nat \cup {NoHeader}, NEW body \in Nat, NEW buffered \in Nat, buffered <= body,
           NEW after \in {"open", "eof", "reset"},
           NEW answer,
           answer = [kind |-> "answer", length |-> length, body |-> body, buffered |-> buffered, after |-> after]
    PROVE  LET read == ReadContent(answer)
           IN IF length >= 10
              THEN /\ read.end = "delivered" <=> body >= length /\ buffered <= length
                   /\ read.end = "delivered" => read.size = length
                   /\ read.end = "waits" <=> body < length /\ after = "open"
              ELSE /\ read.end = "waits" <=> after = "open"
                   /\ read.end = "delivered" => read.size = body
<1> DEFINE read == ReadContent(answer)
<1>1. /\ answer.length = length /\ answer.body = body /\ answer.buffered = buffered /\ answer.after = after
      /\ length \in Int /\ NoHeader = -1 /\ InvalidContentLength = -1
  BY DEF NoHeader, InvalidContentLength
<1>2. GetContentLength(answer) = IF length > 9 THEN length ELSE -1
  BY <1>1 DEF GetContentLength, HeaderValue
<1>3. \A n : /\ Delivered(n).end = "delivered" /\ Delivered(n).size = n
             /\ Failed.end = "failed" /\ Waits.end = "waits"
  BY DEF Delivered, Failed, Waits
<1>4. CASE length >= 10
  <2>1. GetContentLength(answer) = length /\ length # -1
    BY <1>1, <1>2, <1>4
  <2>2. read = IF length <= buffered THEN ByLength(length, buffered)
               ELSE IF length <= body THEN ByLength(length, length)
               ELSE IF after = "open" THEN Waits
               ELSE IF after = "reset" THEN Failed
               ELSE ByLength(length, body)
    BY <1>1, <2>1 DEF ReadContent
  <2> HIDE DEF read
  <2>3. \A size : ByLength(length, size) = IF size = length THEN Delivered(size) ELSE Failed
    BY DEF ByLength
  <2>4. CASE length <= buffered
    <3>1. read = IF buffered = length THEN Delivered(buffered) ELSE Failed
      BY <2>2, <2>3, <2>4
    <3>2. QED
      BY <1>1, <1>3, <1>4, <2>4, <3>1 DEF read
  <2>5. CASE ~(length <= buffered) /\ length <= body
    <3>1. read = Delivered(length)
      BY <2>2, <2>3, <2>5
    <3>2. QED
      BY <1>1, <1>3, <1>4, <2>5, <3>1 DEF read
  <2>6. CASE ~(length <= buffered) /\ ~(length <= body)
    <3>1. read = IF after = "open" THEN Waits ELSE Failed
      BY <1>1, <2>2, <2>3, <2>6
    <3>2. QED
      BY <1>1, <1>3, <1>4, <2>6, <3>1 DEF read
  <2>7. QED
    BY <2>4, <2>5, <2>6
<1>5. CASE ~(length >= 10)
  <2>1. GetContentLength(answer) = -1
    BY <1>1, <1>2, <1>5
  <2>2. read = ReadAll(answer)
    BY <1>1, <2>1 DEF ReadContent
  <2> HIDE DEF read
  <2>3. QED
    BY <1>1, <1>3, <1>5, <2>2 DEF ReadAll, read
<1>6. QED
  BY <1>4, <1>5

(* ContentFramed: for any announced length and any number of bytes an       *)
(* answer is delivered whole or not at all (HttpClientMT.cpp:440-474).     *)
THEOREM AnswersAreFramed == Spec => []ContentFramed
<1>1. Init => ContentFramed
  BY DEF Init, Nothing, ContentFramed
<1>2. ContentFramed /\ [Next]_input => ContentFramed'
  <2> SUFFICES ASSUME ContentFramed, [Next]_input PROVE ContentFramed'
    OBVIOUS
  <2>1. CASE Next
    <3>1. SUFFICES ASSUME ReadAnswer PROVE ContentFramed'
      BY <2>1, OneKindEach DEF ContentFramed
    <3>2. PICK length \in Lengths \cup {NoHeader}, body \in Bodies, buffered \in Bodies,
               after \in {"open", "eof", "reset"} :
             /\ buffered <= body
             /\ input' = [kind |-> "answer", length |-> length, body |-> body, buffered |-> buffered, after |-> after]
      BY <3>1 DEF ReadAnswer
    <3>3. length \in Nat \cup {NoHeader} /\ body \in Nat /\ buffered \in Nat
      BY AnswersAssumption
    <3>4. QED
      BY <3>2, <3>3, AnswerFramed DEF ContentFramed
  <2>2. CASE UNCHANGED input
    BY <2>2 DEF ContentFramed
  <2>3. QED
    BY <2>1, <2>2
<1>3. QED
  BY <1>1, <1>2, PTL DEF Spec

-------------------------------------------------------------------------------
(* Installers.                                                             *)

(* Min of a set of naturals is in it: the order of the naturals is well    *)
(* founded.                                                                *)
LEMMA MinIsLeast ==
    ASSUME NEW S, S \subseteq Nat, S # {}
    PROVE  Min(S) \in S /\ \A y \in S : Min(S) <= y
<1> DEFINE R == {pair \in Nat \X Nat : pair[1] < pair[2]}
<1>1. IsWellFoundedOn(R, Nat)
  BY NatLessThanWellFounded DEF OpToRel
<1>2. \A x, y \in Nat : y < x => <<y, x>> \in R
  OBVIOUS
<1> HIDE DEF R
<1>3. PICK x \in S : \A y \in S : ~(<<y, x>> \in R)
  BY <1>1, WFMin
<1>4. \A y \in S : x \in Nat /\ y \in Nat /\ ~(y < x)
  BY <1>2, <1>3
<1>5. \A y \in S : x <= y
  BY <1>4
<1>6. QED
  BY <1>5 DEF Min

Entries == [os : Nat \cup {Unreadable}, version : Nat \cup {Unreadable}]

(* The list that is read is the entries before the first unreadable one.   *)
LEMMA UpdateListIs ==
    ASSUME NEW entries \in Seq(Entries)
    PROVE  /\ UpdateList(entries) \in Seq(Entries) /\ Len(UpdateList(entries)) <= Len(entries)
           /\ \A i \in 1..Len(UpdateList(entries)) : UpdateList(entries)[i] = entries[i]
           /\ \A i \in 1..Len(entries) :
                 (\A j \in 1..i : IsReadable(entries[j])) <=> i <= Len(UpdateList(entries))
<1> DEFINE bad == {i \in DOMAIN entries : ~IsReadable(entries[i])}
           list == UpdateList(entries)
<1>1. Len(entries) \in Nat /\ DOMAIN entries = 1..Len(entries) /\ \A i \in 1..Len(entries) : entries[i] \in Entries
  OBVIOUS
<1>2. CASE bad = {}
  <2>1. list = entries
    BY <1>2 DEF UpdateList
  <2>2. \A i \in 1..Len(entries) : IsReadable(entries[i])
    BY <1>1, <1>2
  <2> HIDE DEF list
  <2>3. \A i \in 1..Len(entries) : (\A j \in 1..i : IsReadable(entries[j])) /\ i <= Len(list)
    BY <1>1, <2>1, <2>2
  <2>4. QED
    BY <1>1, <2>1, <2>3 DEF list
<1>3. CASE bad # {}
  <2> DEFINE m == Min(bad)
  <2>1. bad \subseteq Nat
    BY <1>1
  <2>2. m \in bad /\ \A i \in bad : m <= i
    BY <1>3, <2>1, MinIsLeast
  <2>3. m \in 1..Len(entries) /\ ~IsReadable(entries[m]) /\ \A i \in 1..Len(entries) : i < m => IsReadable(entries[i])
    <3> HIDE DEF m
    <3>1. m \in 1..Len(entries) /\ ~IsReadable(entries[m])
      BY <1>1, <2>2
    <3>2. ASSUME NEW i \in 1..Len(entries), i < m PROVE IsReadable(entries[i])
      <4>1. ~(m <= i)
        BY <1>1, <3>1, <3>2
      <4>2. QED
        BY <1>1, <2>2, <4>1
    <3>3. QED
      BY <3>1, <3>2
  <2>4. list = SubSeq(entries, 1, m - 1)
    BY <1>3 DEF UpdateList
  <2> HIDE DEF list, m, bad
  <2>5. \A i \in 1..(m - 1) : i \in 1..Len(entries) /\ entries[i] \in Entries
    BY <1>1, <2>3
  <2>6. list \in Seq(Entries) /\ Len(list) = m - 1 /\ \A i \in 1..(m - 1) : list[i] = entries[i]
    BY <1>1, <2>3, <2>4, <2>5, SubSeqProperties
  <2>7. \A i \in 1..Len(entries) : (\A j \in 1..i : IsReadable(entries[j])) <=> i <= m - 1
    <3> SUFFICES ASSUME NEW i \in 1..Len(entries)
                 PROVE  (\A j \in 1..i : IsReadable(entries[j])) <=> i <= m - 1
      OBVIOUS
    <3>1. ASSUME i <= m - 1 PROVE \A j \in 1..i : IsReadable(entries[j])
      BY <1>1, <2>3, <3>1
    <3>2. ASSUME ~(i <= m - 1) PROVE m \in 1..i
      BY <1>1, <2>3, <3>2
    <3>3. QED
      BY <2>3, <3>1, <3>2
  <2>8. QED
    BY <1>1, <2>3, <2>6, <2>7 DEF list
<1>4. QED
  BY <1>2, <1>3

(* Sorting keeps the entries, whatever order it gives to equal ones.       *)
LEMMA SortedIs ==
    ASSUME NEW list \in Seq(Entries), NEW sorted \in SortedLists(list)
    PROVE  /\ DOMAIN sorted = 1..Len(list)
           /\ {sorted[i] : i \in 1..Len(list)} = {list[i] : i \in 1..Len(list)}
           /\ \A i, j \in 1..Len(list) : i < j => sorted[i].os >= sorted[j].os
<1> DEFINE D == 1..Len(list)
<1>1. Len(list) \in Nat /\ DOMAIN list = D
  OBVIOUS
<1>2. PICK p \in [D -> D] :
         /\ sorted = [i \in D |-> list[p[i]]]
         /\ \A i, j \in D : i < j => p[i] # p[j] /\ list[p[i]].os >= list[p[j]].os
  BY <1>1 DEF SortedLists
<1>3. p \in Injection(D, D)
  <2>1. \A i, j \in D : i # j => i < j \/ j < i
    BY <1>1
  <2>2. \A i, j \in D : p[i] = p[j] => i = j
    BY <1>2, <2>1
  <2>3. QED
    BY <2>2 DEF Injection, IsInjective
<1>4. p \in Surjection(D, D)
  <2>1. IsFiniteSet(D)
    BY <1>1, FS_Interval
  <2>2. QED
    BY <1>3, <2>1, FS_Injection
<1>5. \A k \in D : \E i \in D : p[i] = k
  BY <1>4 DEF Surjection
<1>6. {sorted[i] : i \in D} = {list[i] : i \in D}
  <2>1. \A i \in D : sorted[i] = list[p[i]] /\ p[i] \in D
    BY <1>2
  <2>2. \A k \in D : \E i \in D : sorted[i] = list[k]
    BY <1>5, <2>1
  <2> HIDE DEF D
  <2>3. {sorted[i] : i \in D} \subseteq {list[i] : i \in D}
    BY <2>1
  <2>4. {list[i] : i \in D} \subseteq {sorted[i] : i \in D}
    BY <2>2
  <2>5. QED
    BY <2>3, <2>4
<1>7. QED
  BY <1>1, <1>2, <1>6

LEMMA UpdateIsChosen ==
    ASSUME NEW entries \in Seq(Entries), NEW os \in Nat, NEW current \in Nat,
           NEW list \in SortedLists(UpdateList(entries))
    PROVE  LET best == Best(entries, os)
               offered == Found(list, os, current)
           IN /\ \A e \in offered : e \in best /\ e.version > current
              /\ offered = {} => best = {} \/ \E e \in best : e.version <= current
<1> DEFINE readable == {i \in DOMAIN entries : \A j \in 1..i : IsReadable(entries[j])}
           runnable == {entries[i] : i \in {j \in readable : entries[j].os <= os}}
           best == Best(entries, os)
           offered == Found(list, os, current)
           read == UpdateList(entries)
           N == 1..Len(read)
           here == Runnable(list, os)
<1>1. /\ read \in Seq(Entries) /\ Len(read) \in Nat /\ Len(read) <= Len(entries) /\ Len(entries) \in Nat
      /\ \A i \in N : read[i] = entries[i] /\ read[i] \in Entries
      /\ \A i \in 1..Len(entries) : (\A j \in 1..i : IsReadable(entries[j])) <=> i <= Len(read)
  BY UpdateListIs
<1>2. /\ DOMAIN list = N /\ {list[i] : i \in N} = {read[i] : i \in N}
      /\ \A i, j \in N : i < j => list[i].os >= list[j].os
  BY <1>1, SortedIs
<1>3. readable = N
  BY <1>1
<1> HIDE DEF readable
<1>4. runnable = {e \in {read[i] : i \in N} : e.os <= os}
  BY <1>1, <1>3
<1>5. \A e \in {read[i] : i \in N} : e.os \in Int /\ e.version \in Int
  BY <1>1 DEF Entries, Unreadable
<1>0. best = {e \in runnable : \A f \in runnable : f.os <= e.os}
  BY DEF Best, readable
<1> HIDE DEF read, runnable, best
<1>6. \A i \in N : list[i].os \in Int /\ list[i].version \in Int
  BY <1>2, <1>5
<1>7. here = {i \in N : list[i].os <= os} /\ runnable = {list[i] : i \in here}
  <2>1. here = {i \in N : list[i].os <= os}
    BY <1>2, <1>6 DEF Runnable
  <2>2. QED
    BY <1>2, <1>4, <2>1
<1>8. offered = IF here # {} /\ current < list[Min(here)].version THEN {list[Min(here)]} ELSE {}
  BY DEF Found
<1> HIDE DEF here, offered
<1>9. CASE here = {}
  <2>1. runnable = {} /\ offered = {}
    BY <1>7, <1>8, <1>9
  <2>2. best = {}
    BY <1>0, <2>1
  <2>3. QED
    BY <2>1, <2>2 DEF best, offered
<1>10. CASE here # {}
  <2> DEFINE m == Min(here)
  <2>1. here \subseteq Nat
    BY <1>1, <1>7
  <2>2. m \in here /\ \A i \in here : m <= i
    BY <1>10, <2>1, MinIsLeast
  <2> HIDE DEF m
  <2>3. \A i \in here : list[i].os <= list[m].os
    <3> SUFFICES ASSUME NEW i \in here PROVE list[i].os <= list[m].os
      OBVIOUS
    <3>1. m <= i /\ m \in N /\ i \in N /\ (m = i \/ m < i)
      BY <1>1, <1>7, <2>2
    <3>2. QED
      BY <1>2, <1>6, <3>1
  <2>4. list[m] \in best
    BY <1>0, <1>7, <2>2, <2>3
  <2>5. list[m].version \in Int
    BY <1>6, <1>7, <2>2
  <2>6. offered = IF current < list[m].version THEN {list[m]} ELSE {}
    BY <1>8, <1>10 DEF m
  <2>7. CASE current < list[m].version
    <3>1. \A e \in offered : e \in best /\ e.version > current
      BY <2>4, <2>5, <2>6, <2>7
    <3>2. offered # {}
      BY <2>6, <2>7
    <3>3. QED
      BY <3>1, <3>2 DEF best, offered
  <2>8. CASE ~(current < list[m].version)
    <3>1. offered = {} /\ list[m].version <= current
      BY <2>5, <2>6, <2>8
    <3>2. QED
      BY <2>4, <3>1 DEF best, offered
  <2>9. QED
    BY <2>7, <2>8
<1>11. QED
  BY <1>9, <1>10

(* UpdateChosen: whatever lists the server sends and however the sort       *)
(* treats equal entries (CoreManager.cpp:374-407).                         *)
THEOREM UpdatesAreChosen == Spec => []UpdateChosen
<1>1. Init => UpdateChosen
  BY DEF Init, Nothing, UpdateChosen
<1>2. UpdateChosen /\ [Next]_input => UpdateChosen'
  <2> SUFFICES ASSUME UpdateChosen, [Next]_input PROVE UpdateChosen'
    OBVIOUS
  <2>1. CASE Next
    <3>1. SUFFICES ASSUME LookForUpdate PROVE UpdateChosen'
      BY <2>1, OneKindEach DEF UpdateChosen
    <3>2. PICK entries \in Lists, os \in Systems, current \in Versions :
             \E list \in SortedLists(UpdateList(entries)) :
                input' = [kind |-> "updates", entries |-> entries, list |-> list, os |-> os, current |-> current]
      BY <3>1 DEF LookForUpdate
    <3>3. PICK list \in SortedLists(UpdateList(entries)) :
             input' = [kind |-> "updates", entries |-> entries, list |-> list, os |-> os, current |-> current]
      BY <3>2
    <3>4. entries \in Seq(Entries) /\ os \in Nat /\ current \in Nat
      BY ListsAssumption DEF Entries
    <3>5. /\ input'.entries = entries /\ input'.list = list /\ input'.os = os /\ input'.current = current
      BY <3>3
    <3>6. /\ \A e \in Found(list, os, current) : e \in Best(entries, os) /\ e.version > current
          /\ Found(list, os, current) = {} =>
                Best(entries, os) = {} \/ \E e \in Best(entries, os) : e.version <= current
      BY <3>4, UpdateIsChosen
    <3>7. QED
      BY <3>5, <3>6 DEF UpdateChosen
  <2>2. CASE UNCHANGED input
    BY <2>2 DEF UpdateChosen
  <2>3. QED
    BY <2>1, <2>2
<1>3. QED
  BY <1>1, <1>2, PTL DEF Spec

-------------------------------------------------------------------------------
(* Contents.  What the loops over the parts compute is a function of the   *)
(* number of parts done: that there is one, and what holds of it, follows  *)
(* from the least number for which it does not.                            *)

LEMMA UpTo ==
    ASSUME NEW L \in Nat, NEW G, 0 \in G, \A n \in 1..L : n - 1 \in G => n \in G
    PROVE  0..L \subseteq G
<1> DEFINE bad == {n \in 0..L : n \notin G}
<1> SUFFICES ASSUME bad # {} PROVE FALSE
  OBVIOUS
<1>1. Min(bad) \in bad /\ \A n \in bad : Min(bad) <= n
  <2>1. bad \subseteq Nat
    OBVIOUS
  <2>2. QED
    BY <2>1, MinIsLeast
<1> DEFINE m == Min(bad)
<1>2. m \in 0..L /\ m \notin G /\ m # 0
  BY <1>1
<1> HIDE DEF m
<1>3. m \in 1..L /\ m - 1 \in 0..L /\ m - 1 < m
  BY <1>2
<1>4. m - 1 \in G
  <2>1. m - 1 \notin bad
    BY <1>1, <1>3 DEF m
  <2>2. QED
    BY <1>3, <2>1
<1>5. QED
  BY <1>2, <1>3, <1>4

IsLoop(f, S, base, L, step) ==
    /\ f \in [0..L -> S]
    /\ f[0] = base
    /\ \A n \in 1..L : f[n] = step[n][f[n - 1]]

LEMMA LoopExists ==
    ASSUME NEW S, NEW base \in S, NEW L \in Nat, NEW step \in [1..L -> [S -> S]]
    PROVE  \E f : IsLoop(f, S, base, L, step)
<1> DEFINE Runs(k) == \E f \in [0..k -> S] : f[0] = base /\ \A n \in 1..k : f[n] = step[n][f[n - 1]]
           G == {k \in 0..L : Runs(k)}
<1>1. 0 \in G
  <2>1. [n \in 0..0 |-> base] \in [0..0 -> S]
    OBVIOUS
  <2>2. \A n \in 1..0 : FALSE
    OBVIOUS
  <2>3. [n \in 0..0 |-> base][0] = base
    OBVIOUS
  <2>4. Runs(0)
    BY <2>1, <2>2, <2>3
  <2>5. QED
    BY <2>4
<1>2. ASSUME NEW k \in 1..L, k - 1 \in G PROVE k \in G
  <2>1. PICK f \in [0..(k - 1) -> S] : f[0] = base /\ \A n \in 1..(k - 1) : f[n] = step[n][f[n - 1]]
    BY <1>2
  <2> DEFINE g == [n \in 0..k |-> IF n = k THEN step[k][f[k - 1]] ELSE f[n]]
  <2>2. f[k - 1] \in S /\ step[k][f[k - 1]] \in S
    BY <1>2, <2>1
  <2>3. \A n \in 0..k : n # k => n \in 0..(k - 1) /\ f[n] \in S
    BY <1>2, <2>1
  <2>4. g \in [0..k -> S]
    BY <2>2, <2>3
  <2>5. g[0] = base
    BY <1>2, <2>1
  <2>6. \A n \in 1..k : g[n] = step[n][g[n - 1]]
    <3> SUFFICES ASSUME NEW n \in 1..k PROVE g[n] = step[n][g[n - 1]]
      OBVIOUS
    <3>1. n - 1 \in 0..k /\ n - 1 # k /\ g[n - 1] = f[n - 1]
      BY <1>2
    <3>2. CASE n = k
      BY <1>2, <3>1, <3>2
    <3>3. CASE n # k
      <4>1. n \in 1..(k - 1)
        BY <1>2, <3>3
      <4>2. g[n] = f[n]
        BY <1>2, <3>3
      <4>3. QED
        BY <2>1, <3>1, <4>1, <4>2
    <3>4. QED
      BY <3>2, <3>3
  <2> HIDE DEF g
  <2>7. Runs(k)
    BY <2>4, <2>5, <2>6
  <2> HIDE DEF Runs
  <2>8. QED
    BY <1>2, <2>7
<1> HIDE DEF G
<1>3. 0..L \subseteq G
  BY <1>1, <1>2, UpTo
<1>4. L \in G
  BY <1>3
<1>5. QED
  BY <1>4 DEF G, IsLoop

LEMMA MultipartLengthIs ==
    ASSUME NEW parts \in Seq(Parts)
    PROVE  \E result \in [0..Len(parts) -> Nat] :
              /\ result[0] = 0
              /\ \A n \in 1..Len(parts) : result[n] = result[n - 1] + (Boundary + 4 + CalcSize(parts[n]) + 2)
              /\ MultipartLength(parts) = IF parts = <<>> THEN 0 ELSE result[Len(parts)] + Boundary + 6
<1> DEFINE L == Len(parts)
           result[n \in 0..L] == IF n = 0 THEN 0 ELSE result[n - 1] + (Boundary + 4 + CalcSize(parts[n]) + 2)
           step == [n \in 1..L |-> [sum \in Nat |-> sum + (Boundary + 4 + CalcSize(parts[n]) + 2)]]
<1>1. L \in Nat /\ \A n \in 1..L : parts[n] \in Parts /\ CalcSize(parts[n]) \in Nat
  <2>1. L \in Nat /\ \A n \in 1..L : parts[n] \in Parts
    OBVIOUS
  <2>2. \A part \in Parts : CalcSize(part) \in Nat
    BY DEF Parts, CalcSize
  <2>3. QED
    BY <2>1, <2>2
<1>2. MultipartLength(parts) = IF parts = <<>> THEN 0 ELSE result[L] + Boundary + 6
  BY DEF MultipartLength
<1>3. step \in [1..L -> [Nat -> Nat]]
  BY <1>1 DEF Boundary
<1>4. PICK f \in [0..L -> Nat] : f[0] = 0 /\ \A n \in 1..L : f[n] = step[n][f[n - 1]]
  <2>1. 0 \in Nat
    OBVIOUS
  <2> HIDE DEF step, L
  <2>2. PICK f : IsLoop(f, Nat, 0, L, step)
    BY <1>1, <1>3, <2>1, LoopExists
  <2>3. QED
    BY <2>2 DEF IsLoop
<1>5. \A n \in 1..L : f[n] = f[n - 1] + (Boundary + 4 + CalcSize(parts[n]) + 2)
  <2> SUFFICES ASSUME NEW n \in 1..L PROVE f[n] = f[n - 1] + (Boundary + 4 + CalcSize(parts[n]) + 2)
    OBVIOUS
  <2>1. f[n - 1] \in Nat
    BY <1>1
  <2>2. QED
    BY <1>4, <2>1
<1>6. f = [n \in 0..L |-> IF n = 0 THEN 0 ELSE f[n - 1] + (Boundary + 4 + CalcSize(parts[n]) + 2)]
  BY <1>1, <1>4, <1>5
<1>7. result = [n \in 0..L |-> IF n = 0 THEN 0 ELSE result[n - 1] + (Boundary + 4 + CalcSize(parts[n]) + 2)]
  BY <1>6
<1> HIDE DEF result
<1>8. /\ result[0] = 0
      /\ \A n \in 1..L : result[n] = result[n - 1] + (Boundary + 4 + CalcSize(parts[n]) + 2)
  BY <1>1, <1>7
<1>9. \A n \in 0..L : result[n] \in Nat
  <2> DEFINE G == {n \in 0..L : result[n] \in Nat}
  <2>1. 0 \in G
    BY <1>1, <1>8
  <2>2. ASSUME NEW n \in 1..L, n - 1 \in G PROVE n \in G
    <3>1. result[n - 1] \in Nat /\ CalcSize(parts[n]) \in Nat /\ n \in 0..L
      BY <1>1, <2>2
    <3>2. QED
      BY <1>8, <2>2, <3>1 DEF Boundary
  <2> HIDE DEF G, L
  <2>3. 0..L \subseteq G
    BY <1>1, <2>1, <2>2, UpTo
  <2>4. QED
    BY <2>3 DEF G
<1>10. result \in [0..L -> Nat]
  BY <1>7, <1>9
<1>11. QED
  BY <1>2, <1>8, <1>10

Streams == [bytes : Nat, failed : BOOLEAN]

LEMMA PutIs ==
    \A ost \in Streams, n \in Nat :
        /\ Put(ost, n) \in Streams /\ Put(ost, n).failed = ost.failed
        /\ Put(ost, n).bytes = IF ost.failed THEN ost.bytes ELSE ost.bytes + n
<1> SUFFICES ASSUME NEW ost \in Streams, NEW n \in Nat
             PROVE  /\ Put(ost, n) \in Streams /\ Put(ost, n).failed = ost.failed
                    /\ Put(ost, n).bytes = IF ost.failed THEN ost.bytes ELSE ost.bytes + n
  OBVIOUS
<1>1. Put(ost, n) = IF ost.failed THEN ost ELSE [ost EXCEPT !.bytes = ost.bytes + n]
  BY DEF Put
<1>2. CASE ost.failed
  BY <1>1, <1>2 DEF Streams
<1>3. CASE ~ost.failed
  BY <1>1, <1>3 DEF Streams
<1>4. QED
  BY <1>2, <1>3

(* A part with its boundary: an empty one sets failbit.                    *)
LEMMA SavePartIs ==
    ASSUME NEW ost \in Streams, NEW part \in [headers : Nat, size : Nat, pos : Nat]
    PROVE  LET out == Put(SavePart(Put(ost, Boundary + 4), part), 2)
               room == Boundary + 4 + CalcSize(part) + 2
           IN /\ out \in Streams
              /\ out.failed <=> ost.failed \/ part.size = 0
              /\ ost.failed => out.bytes = ost.bytes
              /\ ~ost.failed => IF part.size > 0 THEN out.bytes = ost.bytes + room ELSE out.bytes < ost.bytes + room
<1> DEFINE a == Put(ost, Boundary + 4)
           b == Put(a, part.headers + 4)
           fresh == [part EXCEPT !.pos = 0]
           c == PutBuffer(b, fresh)
           out == Put(c, 2)
<1>1. part.headers \in Nat /\ part.size \in Nat /\ fresh.size = part.size /\ fresh.pos = 0 /\ Boundary = 40
  BY DEF Boundary
<1>2. a \in Streams /\ a.failed = ost.failed /\ a.bytes = IF ost.failed THEN ost.bytes ELSE ost.bytes + 44
  <2>1. 44 \in Nat /\ Boundary + 4 = 44
    BY <1>1
  <2>2. a = Put(ost, 44)
    BY <2>1
  <2> HIDE DEF a
  <2>3. QED
    BY <2>1, <2>2, PutIs
<1>3. /\ b \in Streams /\ b.failed = ost.failed
      /\ b.bytes = IF ost.failed THEN ost.bytes ELSE ost.bytes + 44 + part.headers + 4
  <2> HIDE DEF a
  <2>1. part.headers + 4 \in Nat
    BY <1>1
  <2>2. b \in Streams /\ b.failed = a.failed /\ b.bytes = IF a.failed THEN a.bytes ELSE a.bytes + (part.headers + 4)
    BY <1>2, <2>1, PutIs
  <2> HIDE DEF b
  <2>3. ost.bytes \in Nat
    BY DEF Streams
  <2>4. QED
    BY <1>1, <1>2, <2>2, <2>3
<1>4. c = IF b.failed \/ part.size > 0 THEN Put(b, part.size) ELSE [b EXCEPT !.failed = TRUE]
  <2> HIDE DEF b, fresh
  <2>1. part.size - 0 = part.size
    BY <1>1
  <2>2. QED
    BY <1>1, <2>1 DEF PutBuffer
<1>5. SavePart(Put(ost, Boundary + 4), part) = c
  BY DEF SavePart
<1> HIDE DEF a, b, c, fresh
<1>6. /\ c \in Streams /\ (c.failed <=> ost.failed \/ part.size = 0)
      /\ ost.failed => c.bytes = ost.bytes
      /\ ~ost.failed => c.bytes = ost.bytes + 44 + part.headers + 4 + part.size
  <2>1. ost.bytes \in Nat /\ ost.failed \in BOOLEAN /\ b.failed \in BOOLEAN
    BY <1>3 DEF Streams
  <2>2. CASE b.failed \/ part.size > 0
    <3>1. c \in Streams /\ c.failed = b.failed /\ c.bytes = IF b.failed THEN b.bytes ELSE b.bytes + part.size
      BY <1>1, <1>3, <1>4, <2>2, PutIs
    <3>2. QED
      BY <1>1, <1>3, <2>1, <2>2, <3>1
  <2>3. CASE ~(b.failed \/ part.size > 0)
    <3>1. c \in Streams /\ c.failed = TRUE /\ c.bytes = b.bytes
      BY <1>3, <1>4, <2>3 DEF Streams
    <3>2. part.size = 0
      BY <1>1, <2>3
    <3>3. QED
      BY <1>1, <1>3, <2>1, <2>3, <3>1, <3>2
  <2>4. QED
    BY <2>2, <2>3
<1>7. out \in Streams /\ out.failed = c.failed /\ out.bytes = IF c.failed THEN c.bytes ELSE c.bytes + 2
  BY <1>6, PutIs
<1> HIDE DEF out
<1>8. CalcSize(part) = part.headers + 4 + part.size
  BY DEF CalcSize
<1>9. ost.bytes \in Nat /\ ost.failed \in BOOLEAN /\ c.failed \in BOOLEAN
  BY <1>6 DEF Streams
<1>10. /\ out.failed <=> ost.failed \/ part.size = 0
       /\ ost.failed => out.bytes = ost.bytes
       /\ ~ost.failed => IF part.size > 0 THEN out.bytes = ost.bytes + (Boundary + 4 + CalcSize(part) + 2)
                         ELSE out.bytes < ost.bytes + (Boundary + 4 + CalcSize(part) + 2)
  BY <1>1, <1>6, <1>7, <1>8, <1>9
<1>11. QED
  BY <1>5, <1>7, <1>10 DEF out

SavedParts == [headers : Nat, size : Nat, pos : Nat]

LEMMA SaveMultipartIs ==
    ASSUME NEW parts \in Seq(SavedParts), NEW ost \in Streams
    PROVE  \E after \in [0..Len(parts) -> Streams] :
              /\ after[0] = ost
              /\ \A n \in 1..Len(parts) : after[n] = Put(SavePart(Put(after[n - 1], Boundary + 4), parts[n]), 2)
              /\ SaveMultipart(ost, parts) = IF parts = <<>> THEN ost ELSE Put(after[Len(parts)], Boundary + 6)
<1> DEFINE L == Len(parts)
           after[n \in 0..L] == IF n = 0 THEN ost ELSE Put(SavePart(Put(after[n - 1], Boundary + 4), parts[n]), 2)
           Step(o, n) == Put(SavePart(Put(o, Boundary + 4), parts[n]), 2)
           step == [n \in 1..L |-> [o \in Streams |-> Step(o, n)]]
<1>1. L \in Nat /\ \A n \in 1..L : parts[n] \in SavedParts
  OBVIOUS
<1>2. SaveMultipart(ost, parts) = IF parts = <<>> THEN ost ELSE Put(after[L], Boundary + 6)
  BY DEF SaveMultipart
<1>3. \A o \in Streams, n \in 1..L : Step(o, n) \in Streams
  BY <1>1, SavePartIs DEF SavedParts
<1>4. step \in [1..L -> [Streams -> Streams]]
  <2> HIDE DEF Step
  <2>1. QED
    BY <1>3
<1>5. PICK f : IsLoop(f, Streams, ost, L, step)
  <2> HIDE DEF step, L
  <2>1. QED
    BY <1>1, <1>4, LoopExists
<1>6. f \in [0..L -> Streams] /\ f[0] = ost /\ \A n \in 1..L : n - 1 \in 0..L /\ f[n] = Step(f[n - 1], n)
  <2>1. \A n \in 1..L : n - 1 \in 0..L
    BY <1>1
  <2> HIDE DEF Step
  <2>2. QED
    BY <1>5, <2>1 DEF IsLoop
<1>7. f = [n \in 0..L |-> IF n = 0 THEN ost ELSE Step(f[n - 1], n)]
  <2> HIDE DEF Step
  <2>1. \A n \in 0..L : n = 0 \/ n \in 1..L
    BY <1>1
  <2>2. QED
    BY <1>6, <2>1
<1>8. after = [n \in 0..L |-> IF n = 0 THEN ost ELSE Step(after[n - 1], n)]
  BY <1>7
<1> HIDE DEF after, Step
<1>9. after[0] = ost /\ \A n \in 1..L : after[n] = Step(after[n - 1], n)
  BY <1>1, <1>8
<1>10. \A n \in 0..L : after[n] \in Streams
  <2> DEFINE G == {n \in 0..L : after[n] \in Streams}
  <2>1. 0 \in G
    BY <1>1, <1>9
  <2>2. ASSUME NEW n \in 1..L, n - 1 \in G PROVE n \in G
    <3>1. n \in 0..L
      BY <1>1
    <3>2. QED
      BY <1>3, <1>9, <2>2, <3>1
  <2> HIDE DEF G, L
  <2>3. 0..L \subseteq G
    BY <1>1, <2>1, <2>2, UpTo
  <2>4. QED
    BY <2>3 DEF G
<1>11. after \in [0..L -> Streams]
  BY <1>8, <1>10
<1>12. QED
  BY <1>2, <1>9, <1>11 DEF Step

(* As long as no part is empty, what is written is what is announced.      *)
LEMMA MultipartAnnounced ==
    ASSUME NEW parts \in Seq(Parts)
    PROVE  Sent([kind |-> "multipart", parts |-> parts]) = MultipartLength(parts)
             <=> \A i \in DOMAIN parts : parts[i].size > 0
<1> DEFINE L == Len(parts)
           saved == [i \in DOMAIN parts |-> [parts[i] EXCEPT !.pos = parts[i].size]]
           Empties(n) == {i \in 1..n : parts[i].size = 0}
<1>1. L \in Nat /\ DOMAIN parts = 1..L /\ \A n \in 1..L : parts[n] \in Parts
  OBVIOUS
<1>2. \A n \in 1..L : /\ parts[n].size \in Nat /\ saved[n].size = parts[n].size /\ saved[n] \in SavedParts
                      /\ CalcSize(saved[n]) = CalcSize(parts[n]) /\ CalcSize(parts[n]) \in Nat
  <2> SUFFICES ASSUME NEW n \in 1..L
               PROVE  /\ parts[n].size \in Nat /\ saved[n].size = parts[n].size /\ saved[n] \in SavedParts
                      /\ CalcSize(saved[n]) = CalcSize(parts[n]) /\ CalcSize(parts[n]) \in Nat
    OBVIOUS
  <2>1. saved[n] = [parts[n] EXCEPT !.pos = parts[n].size]
    BY <1>1
  <2> HIDE DEF saved
  <2>2. QED
    BY <1>1, <2>1 DEF Parts, SavedParts, CalcSize
<1>3. saved \in Seq(SavedParts) /\ Len(saved) = L /\ (saved = <<>> <=> parts = <<>>) /\ (parts = <<>> <=> L = 0)
  <2>1. saved = [i \in 1..L |-> saved[i]]
    BY <1>1
  <2> HIDE DEF saved
  <2>2. saved \in Seq(SavedParts) /\ Len(saved) = L
    BY <1>1, <1>2, <2>1
  <2>3. QED
    BY <1>1, <2>2, EmptySeq
<1> HIDE DEF saved
<1>4. Empty \in Streams /\ Empty.bytes = 0 /\ Empty.failed = FALSE
  BY DEF Empty, Streams
<1>5. PICK result \in [0..L -> Nat] :
         /\ result[0] = 0
         /\ \A n \in 1..L : result[n] = result[n - 1] + (Boundary + 4 + CalcSize(parts[n]) + 2)
         /\ MultipartLength(parts) = IF parts = <<>> THEN 0 ELSE result[L] + Boundary + 6
  BY MultipartLengthIs
<1>6. PICK after \in [0..L -> Streams] :
         /\ after[0] = Empty
         /\ \A n \in 1..L : after[n] = Put(SavePart(Put(after[n - 1], Boundary + 4), saved[n]), 2)
         /\ SaveMultipart(Empty, saved) = IF parts = <<>> THEN Empty ELSE Put(after[L], Boundary + 6)
  BY <1>3, <1>4, SaveMultipartIs
<1>7. Sent([kind |-> "multipart", parts |-> parts]) = SaveMultipart(Empty, saved).bytes
  BY DEF Sent, Save, Saved, saved
<1> DEFINE Right(n) == /\ after[n].failed <=> Empties(n) # {}
                       /\ IF after[n].failed THEN after[n].bytes < result[n] ELSE after[n].bytes = result[n]
           G == {n \in 0..L : Right(n)}
<1>8. 0 \in G
  BY <1>1, <1>4, <1>5, <1>6
<1>9. ASSUME NEW n \in 1..L, n - 1 \in G PROVE n \in G
  <2> DEFINE o == after[n - 1]
             q == after[n]
             room == Boundary + 4 + CalcSize(parts[n]) + 2
  <2>1. n - 1 \in 0..L /\ n \in 0..L /\ Right(n - 1)
    BY <1>1, <1>9
  <2>2. o \in Streams /\ saved[n] \in SavedParts /\ saved[n].size = parts[n].size /\ parts[n].size \in Nat
    BY <1>2, <1>6, <2>1
  <2>3. /\ q \in Streams
        /\ q.failed <=> o.failed \/ parts[n].size = 0
        /\ o.failed => q.bytes = o.bytes
        /\ ~o.failed => IF parts[n].size > 0 THEN q.bytes = o.bytes + room ELSE q.bytes < o.bytes + room
    <3> DEFINE part == saved[n]
               out == Put(SavePart(Put(o, Boundary + 4), part), 2)
    <3>1. q = out
      BY <1>6
    <3>2. part \in [headers : Nat, size : Nat, pos : Nat] /\ part.size = parts[n].size
          /\ CalcSize(part) = CalcSize(parts[n])
      BY <1>2, <2>2 DEF SavedParts
    <3> HIDE DEF o, part, q
    <3>3. /\ out \in Streams
          /\ out.failed <=> o.failed \/ part.size = 0
          /\ o.failed => out.bytes = o.bytes
          /\ ~o.failed => IF part.size > 0 THEN out.bytes = o.bytes + (Boundary + 4 + CalcSize(part) + 2)
                                         ELSE out.bytes < o.bytes + (Boundary + 4 + CalcSize(part) + 2)
      BY <2>2, <3>2, SavePartIs
    <3> HIDE DEF out
    <3>4. QED
      BY <3>1, <3>2, <3>3
  <2>4. Empties(n) # {} <=> Empties(n - 1) # {} \/ parts[n].size = 0
    <3>1. Empties(n) = Empties(n - 1) \cup {i \in {n} : parts[i].size = 0}
      BY <1>1
    <3>2. QED
      BY <3>1
  <2>5. result[n] = result[n - 1] + room /\ result[n - 1] \in Nat /\ room \in Nat /\ room > 0
    <3>1. result[n] = result[n - 1] + room /\ result[n - 1] \in Nat
      BY <1>5, <2>1
    <3>2. CalcSize(parts[n]) \in Nat /\ Boundary = 40
      BY <1>2 DEF Boundary
    <3>3. QED
      BY <3>1, <3>2
  <2>6. o.bytes \in Nat /\ q.bytes \in Nat /\ o.failed \in BOOLEAN /\ q.failed \in BOOLEAN
    BY <2>2, <2>3 DEF Streams
  <2> HIDE DEF room, Empties
  <2>7. Right(n)
    BY <2>1, <2>2, <2>3, <2>4, <2>5, <2>6
  <2>8. QED
    BY <2>1, <2>7
<1>10. Right(L)
  <2> HIDE DEF G
  <2>1. 0..L \subseteq G
    BY <1>1, <1>8, <1>9, UpTo
  <2>2. QED
    BY <1>1, <2>1 DEF G
<1> DEFINE sent == SaveMultipart(Empty, saved).bytes
<1>11. CASE parts = <<>>
  BY <1>1, <1>3, <1>4, <1>5, <1>6, <1>7, <1>11
<1>12. CASE parts # <<>>
  <2>1. after[L] \in Streams /\ result[L] \in Nat /\ Boundary = 40
    BY <1>1, <1>5, <1>6 DEF Boundary
  <2>2. sent = IF after[L].failed THEN after[L].bytes ELSE after[L].bytes + 46
    <3>1. sent = Put(after[L], 46).bytes
      BY <1>6, <1>12, <2>1
    <3>2. QED
      BY <2>1, <3>1, PutIs
  <2>3. MultipartLength(parts) = result[L] + 46
    BY <1>5, <1>12, <2>1
  <2>4. after[L].bytes \in Nat /\ after[L].failed \in BOOLEAN
    BY <2>1 DEF Streams
  <2>5. sent = MultipartLength(parts) <=> ~after[L].failed
    BY <1>10, <2>1, <2>2, <2>3, <2>4
  <2>6. ~after[L].failed <=> \A i \in 1..L : parts[i].size > 0
    BY <1>2, <1>10
  <2>7. QED
    BY <1>1, <1>7, <2>5, <2>6
<1>13. QED
  BY <1>11, <1>12

LEMMA ContentAnnounced ==
    ASSUME NEW c \in HttpContents
    PROVE  Sent(c) = GetLength(c)
             <=> CASE c.kind = "text" -> TRUE
                   [] c.kind = "stream" -> c.size = 0
                   [] c.kind = "multipart" -> \A i \in DOMAIN c.parts : c.parts[i].size > 0
<1>1. Empty \in Streams /\ Empty.bytes = 0 /\ Empty.failed = FALSE
  BY DEF Empty, Streams
<1>2. CASE c \in [kind : {"text"}, size : Nat]
  <2>1. c.kind = "text" /\ c.size \in Nat
    BY <1>2
  <2>2. Sent(c) = Put(Empty, c.size).bytes /\ GetLength(c) = c.size
    BY <2>1 DEF Sent, Save, Saved, GetLength
  <2>3. Sent(c) = c.size
    BY <1>1, <2>1, <2>2, PutIs
  <2>4. QED
    BY <2>1, <2>2, <2>3
<1>3. CASE c \in [kind : {"stream"}, size : Nat, pos : {0}]
  <2> DEFINE read == [c EXCEPT !.pos = c.size]
  <2>1. c.kind = "stream" /\ c.size \in Nat /\ read.kind = "stream" /\ read.size = c.size /\ read.pos = c.size
    BY <1>3
  <2>2. Saved(c) = read /\ GetLength(c) = c.size
    BY <2>1 DEF Saved, GetLength
  <2> HIDE DEF read
  <2>3. Sent(c) = PutBuffer(Empty, read).bytes
    BY <2>1, <2>2 DEF Sent, Save
  <2>4. PutBuffer(Empty, read).bytes = 0
    <3>1. ~(Empty.failed \/ read.size > read.pos)
      BY <1>1, <2>1
    <3>2. QED
      BY <1>1, <3>1 DEF PutBuffer, Streams
  <2>5. QED
    BY <2>1, <2>2, <2>3, <2>4
<1>4. CASE c \in [kind : {"multipart"}, parts : Seq(Parts)]
  <2>1. c.kind = "multipart" /\ c.parts \in Seq(Parts) /\ c = [kind |-> "multipart", parts |-> c.parts]
    BY <1>4
  <2>2. GetLength(c) = MultipartLength(c.parts)
    BY <2>1 DEF GetLength
  <2>3. Sent(c) = MultipartLength(c.parts) <=> \A i \in DOMAIN c.parts : c.parts[i].size > 0
    BY <2>1, MultipartAnnounced
  <2>4. QED
    BY <2>1, <2>2, <2>3
<1>5. QED
  BY <1>2, <1>3, <1>4 DEF HttpContents

(* LengthAnnounced: for contents of any size and any number of parts, read  *)
(* once before for the log (HttpContent.cpp:127-151).                      *)
THEOREM LengthsAreAnnounced == Spec => []LengthAnnounced
<1>1. Init => LengthAnnounced
  BY DEF Init, Nothing, LengthAnnounced
<1>2. LengthAnnounced /\ [Next]_input => LengthAnnounced'
  <2> SUFFICES ASSUME LengthAnnounced, [Next]_input PROVE LengthAnnounced'
    OBVIOUS
  <2>1. CASE Next
    <3>1. SUFFICES ASSUME SendContent PROVE LengthAnnounced'
      BY <2>1, OneKindEach DEF LengthAnnounced
    <3>2. PICK c \in Contents : input' = [kind |-> "content", content |-> c]
      BY <3>1 DEF SendContent
    <3>3. c \in HttpContents /\ input'.content = c
      BY <3>2, ContentsAssumption
    <3>4. QED
      BY <3>3, ContentAnnounced DEF LengthAnnounced
  <2>2. CASE UNCHANGED input
    BY <2>2 DEF LengthAnnounced
  <2>3. QED
    BY <2>1, <2>2
<1>3. QED
  BY <1>1, <1>2, PTL DEF Spec

-------------------------------------------------------------------------------
(* Products and quotients.                                                 *)

LEMMA ProductIs ==
    \A a, b, k \in Nat : a * k \in Nat /\ (a <= b => a * k <= b * k)
<1> SUFFICES ASSUME NEW a \in Nat, NEW b \in Nat, NEW k \in Nat
             PROVE  a * k \in Nat /\ (a <= b => a * k <= b * k)
  OBVIOUS
<1>1. a * k \in Nat
  OBVIOUS
<1>2. ASSUME a <= b PROVE a * k <= b * k
  <2>1. b * k = a * k + (b - a) * k
    OBVIOUS
  <2>2. b - a \in Nat
    BY <1>2
  <2>3. (b - a) * k \in Nat
    BY <2>2
  <2>4. QED
    BY <1>1, <2>1, <2>3
<1>3. QED
  BY <1>1, <1>2

-------------------------------------------------------------------------------
(* The pages, one below the other.                                         *)

Sides == [from : Nat, length : Nat]

LEMMA DeflateIs ==
    ASSUME NEW side \in Sides, NEW d \in Int
    PROVE  /\ Deflate(side, d).length \in Nat
           /\ d >= 0 => Deflate(side, d) \in Sides
<1>1. side.from \in Nat /\ side.length \in Nat
  BY DEF Sides
<1>2. CASE 2 * d > side.length
  <2>1. Deflate(side, d) = [from |-> side.from + side.length \div 2, length |-> 0]
    BY <1>2 DEF Deflate
  <2>2. side.from + side.length \div 2 \in Nat
    BY <1>1
  <2>3. QED
    BY <2>1, <2>2 DEF Sides
<1>3. CASE ~(2 * d > side.length)
  <2>1. Deflate(side, d) = [from |-> side.from + d, length |-> side.length - 2 * d]
    BY <1>3 DEF Deflate
  <2>2. side.length - 2 * d \in Nat /\ (d >= 0 => side.from + d \in Nat)
    BY <1>1, <1>3
  <2>3. QED
    BY <2>1, <2>2 DEF Sides
<1>4. QED
  BY <1>2, <1>3

LEMMA FirstPageRectIs ==
    ASSUME NEW view \in Sizes, NEW sheet \in SidesOfPaper
    PROVE  FirstPageRect(view, sheet).x.length \in Nat /\ FirstPageRect(view, sheet).y \in Sides
<1> DEFINE x == Deflate([from |-> 0, length |-> view.w], PageMarginPx)
           y == Deflate([from |-> 0, length |-> view.h], PageMarginPx)
           newHeight == (sheet.h * x.length) \div sheet.w
           newWidth == (sheet.w * y.length) \div sheet.h
           dx == (x.length - newWidth) \div 2
           dy == (y.length - newHeight) \div 2
<1>1. view.w \in Nat /\ view.h \in Nat /\ sheet.w \in Nat \ {0} /\ sheet.h \in Nat \ {0}
  BY DEF Sizes, SidesOfPaper
<1>2. [from |-> 0, length |-> view.w] \in Sides /\ [from |-> 0, length |-> view.h] \in Sides
  BY <1>1 DEF Sides
<1>3. x \in Sides /\ y \in Sides
  BY <1>2, DeflateIs DEF PageMarginPx
<1> HIDE DEF x, y
<1>4. x.length \in Nat /\ y.length \in Nat
  BY <1>3 DEF Sides
<1>5. newHeight \in Int /\ newWidth \in Int
  BY <1>1, <1>4
<1> HIDE DEF newHeight, newWidth
<1>6. dx \in Int /\ dy \in Int /\ (~(newHeight > y.length) => dy >= 0)
  BY <1>4, <1>5
<1> HIDE DEF dx, dy
<1>7. FirstPageRect(view, sheet) =
        IF newHeight > y.length THEN [x |-> Deflate(x, dx), y |-> y] ELSE [x |-> x, y |-> Deflate(y, dy)]
  BY DEF FirstPageRect, x, y, newHeight, newWidth, dx, dy
<1>8. QED
  BY <1>3, <1>4, <1>6, <1>7, DeflateIs

LEMMA PageRectsIs ==
    ASSUME NEW view \in Sizes, NEW sheet \in SidesOfPaper, NEW count \in Nat
    PROVE  /\ PageRects(view, sheet, count) \in [1..count -> Sides]
           /\ \A i, j \in 1..count :
                 i <= j => PageRects(view, sheet, count)[i].from <= PageRects(view, sheet, count)[j].from
<1> DEFINE first == FirstPageRect(view, sheet).y
           step == first.length - 1 + InterPageDistPx
           rects == PageRects(view, sheet, count)
<1>1. first \in Sides
  BY FirstPageRectIs
<1> HIDE DEF first
<1>2. first.from \in Nat /\ first.length \in Nat /\ step \in Nat
  BY <1>1 DEF Sides, InterPageDistPx
<1>3. rects = [i \in 1..count |-> [first EXCEPT !.from = first.from + (i - 1) * step]]
  BY DEF PageRects, first
<1> HIDE DEF step, rects
<1>4. \A i \in 1..count : (i - 1) * step \in Nat
  <2>1. \A i \in 1..count : i - 1 \in Nat
    OBVIOUS
  <2>2. QED
    BY <1>2, <2>1, ProductIs
<1>5. \A i \in 1..count : rects[i] \in Sides /\ rects[i].from = first.from + (i - 1) * step
  <2> SUFFICES ASSUME NEW i \in 1..count PROVE rects[i] \in Sides /\ rects[i].from = first.from + (i - 1) * step
    OBVIOUS
  <2> DEFINE n == (i - 1) * step
  <2>1. n \in Nat /\ rects[i] = [first EXCEPT !.from = first.from + n]
    BY <1>3, <1>4
  <2> HIDE DEF n
  <2>2. rects[i] \in Sides /\ rects[i].from = first.from + n
    BY <1>1, <1>2, <2>1 DEF Sides
  <2>3. QED
    BY <2>2 DEF n
<1>6. \A i, j \in 1..count : i <= j => rects[i].from <= rects[j].from
  <2> SUFFICES ASSUME NEW i \in 1..count, NEW j \in 1..count, i <= j PROVE rects[i].from <= rects[j].from
    OBVIOUS
  <2>1. i - 1 \in Nat /\ j - 1 \in Nat /\ i - 1 <= j - 1
    OBVIOUS
  <2>2. (i - 1) * step <= (j - 1) * step
    BY <1>2, <2>1, ProductIs
  <2>3. QED
    BY <1>2, <1>4, <1>5, <2>2
<1>7. QED
  BY <1>3, <1>5, <1>6 DEF rects

Ordered(rects) == \A i, j \in DOMAIN rects : i <= j => rects[i].from <= rects[j].from

(* The pages drawn are the first that does not end above the view and       *)
(* those behind it that begin in the view.                                 *)
LEMMA VisibleIs ==
    ASSUME NEW count \in Nat, NEW rects \in [1..count -> Sides], Ordered(rects), NEW view \in Sides
    PROVE  LET F == VisibleFirst(rects, view)
               V == VisiblePageNums(rects, view)
           IN /\ F \subseteq 1..count /\ V \subseteq F
              /\ F # {} => /\ Min(F) \in V /\ \A i \in F : Min(F) <= i
                          /\ V = {i \in F : i = Min(F) \/ rects[i].from + 2 <= Bottom(view)}
<1> DEFINE F == VisibleFirst(rects, view)
           V == VisiblePageNums(rects, view)
           m == Min(F)
<1>1. /\ DOMAIN rects = 1..count /\ \A i \in 1..count : rects[i].from \in Nat
      /\ \A i, j \in 1..count : i <= j => rects[i].from <= rects[j].from
      /\ Bottom(view) \in Int
  BY DEF Ordered, Sides, Bottom
<1>2. F \subseteq 1..count
  BY <1>1 DEF VisibleFirst
<1>3. V = {i \in F : \A j \in F : j <= i => rects[j].from + 2 <= Bottom(view) \/ j = m}
  BY DEF VisiblePageNums
<1> HIDE DEF F, V
<1>4. ASSUME F # {}
      PROVE  /\ m \in V /\ \A i \in F : m <= i
             /\ V = {i \in F : i = m \/ rects[i].from + 2 <= Bottom(view)}
  <2>1. m \in F /\ \A i \in F : m <= i
    <3>1. F \subseteq Nat
      BY <1>2
    <3>2. QED
      BY <1>4, <3>1, MinIsLeast
  <2> HIDE DEF m
  <2>2. ASSUME NEW i \in F
        PROVE  (\A j \in F : j <= i => rects[j].from + 2 <= Bottom(view) \/ j = m)
                 <=> i = m \/ rects[i].from + 2 <= Bottom(view)
    <3>1. i \in 1..count /\ m \in 1..count /\ m <= i
      BY <1>2, <2>1
    <3>2. ASSUME i = m, NEW j \in F, j <= i PROVE j = m
      BY <1>2, <2>1, <3>1, <3>2
    <3>3. ASSUME rects[i].from + 2 <= Bottom(view), NEW j \in F, j <= i PROVE rects[j].from + 2 <= Bottom(view)
      <4>1. j \in 1..count /\ rects[j].from <= rects[i].from
        BY <1>1, <1>2, <3>1, <3>3
      <4>2. rects[j].from \in Nat /\ rects[i].from \in Nat
        BY <1>1, <3>1, <4>1
      <4>3. QED
        BY <1>1, <3>3, <4>1, <4>2
    <3>4. i <= i
      BY <3>1
    <3>5. QED
      BY <3>2, <3>3, <3>4
  <2>3. V = {i \in F : i = m \/ rects[i].from + 2 <= Bottom(view)}
    BY <1>3, <2>2
  <2>4. QED
    BY <2>1, <2>3
<1>5. V \subseteq F
  BY <1>3
<1>6. QED
  BY <1>2, <1>4, <1>5 DEF F, V

LEMMA PaintedIs ==
    ASSUME NEW count \in Nat, NEW rects \in [1..count -> Sides], Ordered(rects), NEW view \in Sides
    PROVE  LET inView == {i \in DOMAIN rects : Intersects(Bounds(rects[i]), view)}
               bottom == Bottom(view)
               barely == {i \in inView : /\ rects[i].from - 1 <= bottom /\ bottom < rects[i].from + 2
                                         /\ \E j \in inView : j < i}
           IN Painted(rects, view) = inView \ barely
<1> DEFINE inView == {i \in DOMAIN rects : Intersects(Bounds(rects[i]), view)}
           bottom == Bottom(view)
           barely == {i \in inView : /\ rects[i].from - 1 <= bottom /\ bottom < rects[i].from + 2
                                     /\ \E j \in inView : j < i}
           F == VisibleFirst(rects, view)
           V == VisiblePageNums(rects, view)
           m == Min(F)
<1>1. /\ DOMAIN rects = 1..count
      /\ \A i \in 1..count : rects[i].from \in Nat /\ rects[i].length \in Nat
      /\ \A i, j \in 1..count : i <= j => rects[i].from <= rects[j].from
      /\ view.from \in Nat /\ view.length \in Nat /\ bottom \in Int
  BY DEF Ordered, Sides, Bottom
<1>2. \A i \in 1..count : Intersects(Bounds(rects[i]), view) <=> rects[i].from - 1 <= bottom /\ i \in F
  <2> SUFFICES ASSUME NEW i \in 1..count
               PROVE  Intersects(Bounds(rects[i]), view) <=> rects[i].from - 1 <= bottom /\ i \in F
    OBVIOUS
  <2> DEFINE r == rects[i]
  <2>1. Intersects(Bounds(r), view) <=> r.from - 1 <= bottom /\ view.from <= (r.from - 1) + (r.length + 2 + 4) - 1
    BY DEF Intersects, Bounds, Bottom, ShadowOffset
  <2>2. i \in F <=> (r.from + r.length - 1) + 4 + 1 >= view.from
    BY <1>1 DEF VisibleFirst, Bottom, ShadowOffset
  <2>3. r.from \in Nat /\ r.length \in Nat
    BY <1>1
  <2>4. view.from <= (r.from - 1) + (r.length + 2 + 4) - 1 <=> (r.from + r.length - 1) + 4 + 1 >= view.from
    <3>1. \A a, b, v \in Nat : v <= (a - 1) + (b + 2 + 4) - 1 <=> (a + b - 1) + 4 + 1 >= v
      OBVIOUS
    <3> HIDE DEF r
    <3>2. QED
      BY <1>1, <2>3, <3>1
  <2>5. QED
    BY <2>1, <2>2, <2>4
<1>3. /\ F \subseteq 1..count /\ V \subseteq F
      /\ F # {} => /\ m \in V /\ \A i \in F : m <= i
                  /\ V = {i \in F : i = m \/ rects[i].from + 2 <= bottom}
  BY VisibleIs
<1>4. inView = {i \in F : rects[i].from - 1 <= bottom}
  BY <1>1, <1>2, <1>3
<1>5. Painted(rects, view) = {i \in V : rects[i].from - 1 <= bottom}
  BY <1>1, <1>2, <1>3 DEF Painted
<1> HIDE DEF F, V, m, inView, bottom
<1>6. CASE F = {}
  <2>1. inView = {} /\ Painted(rects, view) = {}
    BY <1>3, <1>4, <1>5, <1>6
  <2>2. QED
    BY <2>1 DEF inView, bottom
<1>7. CASE F # {}
  <2>1. ASSUME NEW i \in F, rects[i].from - 1 <= bottom
        PROVE  (i = m \/ rects[i].from + 2 <= bottom) <=> ~(bottom < rects[i].from + 2 /\ \E j \in inView : j < i)
    <3>1. i \in 1..count /\ rects[i].from \in Nat /\ bottom \in Int
      BY <1>1, <1>3, <2>1
    <3>2. m \in F /\ m \in 1..count /\ m <= i /\ rects[m].from \in Nat
      BY <1>1, <1>3, <1>7, <2>1
    <3>3. rects[i].from + 2 <= bottom <=> ~(bottom < rects[i].from + 2)
      BY <3>1
    <3>4. ASSUME i = m, NEW j \in inView, j < i PROVE FALSE
      BY <1>3, <1>4, <1>7, <3>1, <3>4
    <3>5. ASSUME i # m PROVE m \in inView /\ m < i
      <4>1. rects[m].from <= rects[i].from
        BY <1>1, <3>1, <3>2
      <4>2. rects[m].from - 1 <= bottom
        BY <2>1, <3>1, <3>2, <4>1
      <4>3. QED
        BY <1>4, <3>1, <3>2, <3>5, <4>2
    <3>6. QED
      BY <3>3, <3>4, <3>5
  <2>2. Painted(rects, view) = {i \in F : rects[i].from - 1 <= bottom /\ (i = m \/ rects[i].from + 2 <= bottom)}
    BY <1>3, <1>5, <1>7
  <2>3. barely = {i \in F : rects[i].from - 1 <= bottom /\ bottom < rects[i].from + 2 /\ \E j \in inView : j < i}
    BY <1>4
  <2> HIDE DEF barely
  <2>4. QED
    BY <1>4, <2>1, <2>2, <2>3 DEF barely, inView, bottom
<1>8. QED
  BY <1>6, <1>7

(* VisibleDrawn: for any size of the window, paper, number of pages and     *)
(* position (CtrlPrintPreviewCanvas.cpp:157-184, 231-256).                 *)
THEOREM VisiblePagesAreDrawn == Spec => []VisibleDrawn
<1>1. Init => VisibleDrawn
  BY DEF Init, Nothing, VisibleDrawn
<1>2. VisibleDrawn /\ [Next]_input => VisibleDrawn'
  <2> SUFFICES ASSUME VisibleDrawn, [Next]_input PROVE VisibleDrawn'
    OBVIOUS
  <2>1. CASE Next
    <3>1. SUFFICES ASSUME ShowPages PROVE VisibleDrawn'
      BY <2>1, OneKindEach DEF VisibleDrawn
    <3>2. PICK size \in PageViews, sheet \in Papers, count \in 1..PageCount, from \in Positions :
             input' = [kind |-> "pages", view |-> [from |-> from, length |-> size.h],
                       rects |-> PageRects(size, sheet, count)]
      BY <3>1 DEF ShowPages
    <3>3. size \in Sizes /\ sheet \in SidesOfPaper /\ count \in Nat /\ from \in Nat
      BY PapersAssumption, ViewsAssumption, PagesAssumption
    <3> DEFINE rects == PageRects(size, sheet, count)
               view == [from |-> from, length |-> size.h]
    <3>4. rects \in [1..count -> Sides] /\ Ordered(rects)
      <4>1. /\ rects \in [1..count -> Sides]
            /\ \A i, j \in 1..count : i <= j => rects[i].from <= rects[j].from
        BY <3>3, PageRectsIs
      <4>2. QED
        BY <4>1 DEF Ordered
    <3>5. view \in Sides
      BY <3>3 DEF Sizes, Sides
    <3>6. input'.rects = rects /\ input'.view = view
      BY <3>2
    <3> HIDE DEF rects, view
    <3>7. QED
      BY <3>3, <3>4, <3>5, <3>6, PaintedIs DEF VisibleDrawn
  <2>2. CASE UNCHANGED input
    BY <2>2 DEF VisibleDrawn
  <2>3. QED
    BY <2>1, <2>2
<1>3. QED
  BY <1>1, <1>2, PTL DEF Spec

-------------------------------------------------------------------------------
(* Proportions.                                                            *)

LEMMA ProductLess ==
    \A a, b \in Int, k \in Nat \ {0} : (a * k < b * k <=> a < b) /\ (a * k <= b * k <=> a <= b)
<1> SUFFICES ASSUME NEW a \in Int, NEW b \in Int, NEW k \in Nat \ {0}
             PROVE  (a * k < b * k <=> a < b) /\ (a * k <= b * k <=> a <= b)
  OBVIOUS
<1>1. a * k \in Int /\ b * k \in Int
  OBVIOUS
<1>2. ASSUME NEW x \in Int, NEW y \in Int, x < y PROVE x * k < y * k
  <2>1. y * k = x * k + (y - x) * k
    OBVIOUS
  <2>2. (y - x) * k > 0
    BY <1>2
  <2>3. x * k \in Int /\ (y - x) * k \in Int
    OBVIOUS
  <2>4. QED
    BY <2>1, <2>2, <2>3
<1>3. CASE a < b
  <2>1. a * k < b * k
    BY <1>2, <1>3
  <2>2. QED
    BY <1>1, <1>3, <2>1
<1>4. CASE b < a
  <2>1. b * k < a * k
    BY <1>2, <1>4
  <2>2. QED
    BY <1>1, <1>4, <2>1
<1>5. CASE a = b
  BY <1>1, <1>5
<1>6. QED
  BY <1>3, <1>4, <1>5

LEMMA ProductSame ==
    \A a, b \in Int, k \in Nat \ {0} : a * k = b * k <=> a = b
<1> SUFFICES ASSUME NEW a \in Int, NEW b \in Int, NEW k \in Nat \ {0}, a * k = b * k PROVE a = b
  OBVIOUS
<1>1. a * k \in Int /\ ~(a * k < b * k) /\ ~(b * k < a * k)
  OBVIOUS
<1>2. ~(a < b) /\ ~(b < a)
  BY <1>1, ProductLess
<1>3. QED
  BY <1>2

(* A rectangle with the proportions of the first of two papers has those    *)
(* of the second exactly if the two papers have the same.                  *)
LEMMA SameProportions ==
    ASSUME NEW rw \in Int, NEW rh \in Nat \ {0}, NEW sw \in Int, NEW sh \in Nat \ {0}, NEW pw \in Int, NEW ph \in Int,
           rw * sh = rh * sw
    PROVE  rw * ph = rh * pw <=> sw * ph = sh * pw
<1>1. rw * ph = rh * pw <=> (rw * ph) * sh = (rh * pw) * sh
  <2>1. rw * ph \in Int /\ rh * pw \in Int
    OBVIOUS
  <2>2. QED
    BY <2>1, ProductSame
<1>2. (rw * ph) * sh = (sw * ph) * rh
  <2>1. (rw * ph) * sh = (rw * sh) * ph
    OBVIOUS
  <2>2. (sw * ph) * rh = (rh * sw) * ph
    OBVIOUS
  <2>3. QED
    BY <2>1, <2>2
<1>3. (rh * pw) * sh = (sh * pw) * rh
  OBVIOUS
<1>4. (sw * ph) * rh = (sh * pw) * rh <=> sw * ph = sh * pw
  <2>1. sw * ph \in Int /\ sh * pw \in Int
    OBVIOUS
  <2>2. QED
    BY <2>1, ProductSame
<1>5. QED
  BY <1>1, <1>2, <1>3, <1>4

LEMMA Proportional ==
    ASSUME NEW a \in Int, NEW b \in Int, NEW c \in Int, NEW d \in Int, NEW m \in Int, NEW n \in Int,
           a * b = c * d
    PROVE  (a * m) * (n * b) = (d * m) * (n * c)
<1>1. (a * m) * (n * b) = (a * b) * (m * n)
  OBVIOUS
<1>2. (d * m) * (n * c) = (c * d) * (m * n)
  OBVIOUS
<1>3. QED
  BY <1>1, <1>2

LEMMA QuotientIs ==
    \A a \in Nat, b \in Nat \ {0} : a \div b \in Nat /\ (a \div b) * b <= a /\ a < (a \div b + 1) * b
<1> SUFFICES ASSUME NEW a \in Nat, NEW b \in Nat \ {0}
             PROVE  a \div b \in Nat /\ (a \div b) * b <= a /\ a < (a \div b + 1) * b
  OBVIOUS
<1>1. a \div b \in Int /\ a = b * (a \div b) + (a % b) /\ a % b \in 0..(b - 1)
  OBVIOUS
<1> DEFINE q == a \div b
           r == a % b
<1>2. q \in Int /\ r \in 0..(b - 1) /\ a = b * q + r
  BY <1>1
<1> HIDE DEF q, r
<1>3. b * q = q * b /\ (q + 1) * b = q * b + b /\ q * b \in Int
  BY <1>2
<1>4. q * b <= a /\ a < (q + 1) * b
  BY <1>2, <1>3
<1>5. q \in Nat
  <2>1. 0 * b < (q + 1) * b
    <3>1. 0 * b = 0 /\ (q + 1) * b \in Int
      BY <1>2
    <3>2. QED
      BY <1>4, <3>1
  <2>2. 0 < q + 1
    BY <1>2, <2>1, ProductLess
  <2>3. QED
    BY <1>2, <2>2
<1>6. QED
  BY <1>4, <1>5 DEF q

(* Equal proportions have the same integer part.                           *)
LEMMA SameQuotient ==
    ASSUME NEW rw \in Nat, NEW rh \in Nat \ {0}, NEW sw \in Nat, NEW sh \in Nat \ {0}, rw * sh = rh * sw
    PROVE  rw \div rh = sw \div sh
<1> DEFINE p == rw \div rh
           q == sw \div sh
<1>1. p \in Nat /\ p * rh <= rw /\ rw < (p + 1) * rh
  BY QuotientIs
<1>2. q \in Nat /\ q * sh <= sw /\ sw < (q + 1) * sh
  BY QuotientIs
<1> HIDE DEF p, q
<1>3. p < q + 1
  <2>1. (p * rh) * sh <= rw * sh
    BY <1>1, ProductIs
  <2>2. (p * rh) * sh = (p * sh) * rh /\ rw * sh = sw * rh
    BY <1>1
  <2>3. p * sh <= sw
    <3>1. (p * sh) * rh <= sw * rh /\ p * sh \in Int
      BY <1>1, <2>1, <2>2
    <3>2. QED
      BY <3>1, ProductLess
  <2>4. p * sh < (q + 1) * sh
    <3>1. p * sh \in Int /\ (q + 1) * sh \in Int
      BY <1>1, <1>2
    <3>2. QED
      BY <1>2, <2>3, <3>1
  <2>5. q + 1 \in Int
    BY <1>2
  <2>6. QED
    BY <1>1, <2>4, <2>5, ProductLess
<1>4. q < p + 1
  <2>1. (q * sh) * rh <= sw * rh
    BY <1>2, ProductIs
  <2>2. (q * sh) * rh = (q * rh) * sh /\ rw * sh = sw * rh
    BY <1>2
  <2>3. q * rh <= rw
    <3>1. (q * rh) * sh <= rw * sh /\ q * rh \in Int
      BY <1>2, <2>1, <2>2
    <3>2. QED
      BY <3>1, ProductLess
  <2>4. q * rh < (p + 1) * rh
    <3>1. q * rh \in Int /\ (p + 1) * rh \in Int
      BY <1>1, <1>2
    <3>2. QED
      BY <1>1, <2>3, <3>1
  <2>5. p + 1 \in Int
    BY <1>1
  <2>6. QED
    BY <1>2, <2>4, <2>5, ProductLess
<1>5. p = q
  BY <1>1, <1>2, <1>3, <1>4
<1>6. QED
  BY <1>5 DEF p, q

(* How a picture is aligned follows from how large it is.                  *)
Fractions == [n : Int, d : Int]

LEMMA OffsetSame ==
    ASSUME NEW a \in Fractions, NEW b \in Fractions, Same(a, b), NEW align \in {"near", "center", "far"}
    PROVE  Same(Offset(a, align), Offset(b, align))
<1>1. /\ a.n \in Int /\ a.d \in Int /\ b.n \in Int /\ b.d \in Int /\ a.n * b.d = b.n * a.d
      /\ \A n, d : Fraction(n, d).n = n /\ Fraction(n, d).d = d
  BY DEF Fractions, Same, Fraction
<1> DEFINE an == a.n
           ad == a.d
           bn == b.n
           bd == b.d
<1>2. an \in Int /\ ad \in Int /\ bn \in Int /\ bd \in Int /\ an * bd = bn * ad
  BY <1>1
<1>3. CASE align = "near"
  BY <1>1, <1>3 DEF Offset, Same
<1>4. CASE align = "center"
  <2>1. (ad - an) * (2 * bd) = (bd - bn) * (2 * ad)
    <3> HIDE DEF an, ad, bn, bd
    <3>1. (ad - an) * (2 * bd) = 2 * (ad * bd) - 2 * (an * bd)
      BY <1>2
    <3>2. (bd - bn) * (2 * ad) = 2 * (ad * bd) - 2 * (bn * ad)
      BY <1>2
    <3>3. QED
      BY <1>2, <3>1, <3>2
  <2>2. Offset(a, align) = Fraction(ad - an, 2 * ad) /\ Offset(b, align) = Fraction(bd - bn, 2 * bd)
    BY <1>4 DEF Offset
  <2> HIDE DEF an, ad, bn, bd
  <2>3. QED
    BY <1>1, <2>1, <2>2 DEF Same
<1>5. CASE align = "far"
  <2>1. (ad - an) * bd = (bd - bn) * ad
    <3> HIDE DEF an, ad, bn, bd
    <3>1. (ad - an) * bd = (ad * bd) - (an * bd)
      BY <1>2
    <3>2. (bd - bn) * ad = (ad * bd) - (bn * ad)
      BY <1>2
    <3>3. QED
      BY <1>2, <3>1, <3>2
  <2>2. Offset(a, align) = Fraction(ad - an, ad) /\ Offset(b, align) = Fraction(bd - bn, bd)
    BY <1>5 DEF Offset
  <2> HIDE DEF an, ad, bn, bd
  <2>3. QED
    BY <1>1, <2>1, <2>2 DEF Same
<1>6. QED
  BY <1>3, <1>4, <1>5

LEMMA AlignedSame ==
    ASSUME NEW w1 \in Fractions, NEW h1 \in Fractions, NEW w2 \in Fractions, NEW h2 \in Fractions,
           NEW settings, settings.horAlign \in {"near", "center", "far"}, settings.vertAlign \in {"near", "center", "far"}
    PROVE  SamePlace(Aligned(w1, h1, settings), Aligned(w2, h2, settings)) <=> Same(w1, w2) /\ Same(h1, h2)
<1> DEFINE a == Aligned(w1, h1, settings)
           b == Aligned(w2, h2, settings)
<1>1. /\ a.w = w1 /\ a.h = h1 /\ a.x = Offset(w1, settings.horAlign) /\ a.y = Offset(h1, settings.vertAlign)
      /\ b.w = w2 /\ b.h = h2 /\ b.x = Offset(w2, settings.horAlign) /\ b.y = Offset(h2, settings.vertAlign)
  BY DEF Aligned
<1> HIDE DEF a, b
<1>2. Same(w1, w2) /\ Same(h1, h2) => Same(a.x, b.x) /\ Same(a.y, b.y)
  BY <1>1, OffsetSame
<1>3. SamePlace(a, b) <=> Same(w1, w2) /\ Same(h1, h2)
  BY <1>1, <1>2 DEF SamePlace
<1>4. QED
  BY <1>3 DEF a, b

(* A picture as large as a page allows is as wide as the page, or as high.  *)
LEMMA StretchedIs ==
    ASSUME NEW image \in SidesOfPaper, NEW page \in SidesOfPaper, NEW asked \in Fractions
    PROVE  LET size == Stretched(image, page, asked)
               narrow == IsLess(Fraction(image.w, image.h), asked)
           IN /\ size.w \in Fractions /\ size.h \in Fractions
              /\ size.w = IF narrow THEN Fraction(page.h * image.w, image.h * page.w) ELSE One
              /\ size.h = IF narrow THEN One ELSE Fraction(page.w * image.h, image.w * page.h)
<1>1. /\ image.w \in Int /\ image.h \in Int /\ page.w \in Int /\ page.h \in Int
      /\ \A n, d \in Int : Fraction(n, d) \in Fractions
  BY DEF SidesOfPaper, Fraction, Fractions
<1>2. /\ One \in Fractions
      /\ Fraction(page.h * image.w, image.h * page.w) \in Fractions
      /\ Fraction(page.w * image.h, image.w * page.h) \in Fractions
  BY <1>1 DEF One
<1>3. CASE IsLess(Fraction(image.w, image.h), asked)
  BY <1>2, <1>3 DEF Stretched
<1>4. CASE ~IsLess(Fraction(image.w, image.h), asked)
  BY <1>2, <1>4 DEF Stretched
<1>5. QED
  BY <1>3, <1>4

(* On pages of the same proportions a picture that touches the same sides   *)
(* has the same size, and else it has not, or fits exactly.                *)
LEMMA StretchedSame ==
    ASSUME NEW image \in SidesOfPaper, NEW page \in SidesOfPaper, NEW sheet \in SidesOfPaper,
           page.w * sheet.h = page.h * sheet.w,
           NEW a \in Fractions, NEW b \in Fractions
    PROVE  LET one == Stretched(image, page, a)
               two == Stretched(image, sheet, b)
               proportion == Fraction(image.w, image.h)
               same == Same(one.w, two.w) /\ Same(one.h, two.h)
           IN /\ (IsLess(proportion, a) <=> IsLess(proportion, b)) => same
              /\ ~IsLess(proportion, a) /\ IsLess(proportion, Fraction(sheet.w, sheet.h)) /\ IsLess(proportion, b) => ~same
<1> DEFINE one == Stretched(image, page, a)
           two == Stretched(image, sheet, b)
           proportion == Fraction(image.w, image.h)
           iw == image.w
           ih == image.h
           pw == page.w
           ph == page.h
           sw == sheet.w
           sh == sheet.h
<1>1. /\ iw \in Int /\ ih \in Int /\ pw \in Int /\ ph \in Int /\ sw \in Int /\ sh \in Int
      /\ pw * sh = ph * sw
  BY DEF SidesOfPaper
<1>2. \A n, d : Fraction(n, d).n = n /\ Fraction(n, d).d = d
  BY DEF Fraction
<1>3. One = Fraction(1, 1)
  BY DEF One
<1>4. /\ one.w = IF IsLess(proportion, a) THEN Fraction(ph * iw, ih * pw) ELSE One
      /\ one.h = IF IsLess(proportion, a) THEN One ELSE Fraction(pw * ih, iw * ph)
      /\ two.w = IF IsLess(proportion, b) THEN Fraction(sh * iw, ih * sw) ELSE One
      /\ two.h = IF IsLess(proportion, b) THEN One ELSE Fraction(sw * ih, iw * sh)
  BY StretchedIs
<1> HIDE DEF one, two, iw, ih, pw, ph, sw, sh
<1>5. Same(One, One) /\ \A n, d \in Int : Same(One, Fraction(n, d)) <=> d = n
  BY <1>2, <1>3 DEF Same
<1>6. Same(Fraction(ph * iw, ih * pw), Fraction(sh * iw, ih * sw))
  <2>1. (ph * iw) * (ih * sw) = (sh * iw) * (ih * pw)
    <3>1. ph * sw = pw * sh
      BY <1>1
    <3>2. QED
      BY <1>1, <3>1, Proportional
  <2>2. QED
    BY <1>2, <2>1 DEF Same
<1>7. Same(Fraction(pw * ih, iw * ph), Fraction(sw * ih, iw * sh))
  <2>1. (pw * ih) * (iw * sh) = (sw * ih) * (iw * ph)
    BY <1>1, Proportional
  <2>2. QED
    BY <1>2, <2>1 DEF Same
<1>8. ASSUME IsLess(proportion, a) <=> IsLess(proportion, b) PROVE Same(one.w, two.w) /\ Same(one.h, two.h)
  <2>1. CASE IsLess(proportion, a)
    BY <1>4, <1>5, <1>6, <1>8, <2>1
  <2>2. CASE ~IsLess(proportion, a)
    BY <1>4, <1>5, <1>7, <1>8, <2>2
  <2>3. QED
    BY <2>1, <2>2
<1>9. ASSUME ~IsLess(proportion, a), IsLess(proportion, b), IsLess(proportion, Fraction(sheet.w, sheet.h))
      PROVE  ~Same(one.w, two.w)
  <2>1. iw * sh < sw * ih
    BY <1>2, <1>9 DEF IsLess, iw, ih, sw, sh
  <2>2. sh * iw \in Int /\ ih * sw \in Int /\ iw * sh = sh * iw /\ sw * ih = ih * sw
    BY <1>1
  <2>3. one.w = One /\ two.w = Fraction(sh * iw, ih * sw)
    BY <1>4, <1>9
  <2>4. ih * sw # sh * iw
    BY <2>1, <2>2
  <2>5. QED
    BY <1>5, <2>2, <2>3, <2>4
<1>10. QED
  BY <1>8, <1>9 DEF one, two

(* On pages of other proportions it never has the same size, as long as it  *)
(* is made as high as the page only if it is narrower.                     *)
LEMMA StretchedApart ==
    ASSUME NEW image \in SidesOfPaper, NEW page \in SidesOfPaper, NEW sheet \in SidesOfPaper,
           page.w * sheet.h # page.h * sheet.w,
           NEW a \in Fractions, NEW b \in Fractions,
           IsLess(Fraction(image.w, image.h), a) => IsLess(Fraction(image.w, image.h), Fraction(page.w, page.h)),
           IsLess(Fraction(image.w, image.h), b) => IsLess(Fraction(image.w, image.h), Fraction(sheet.w, sheet.h))
    PROVE  LET one == Stretched(image, page, a)
               two == Stretched(image, sheet, b)
           IN ~(Same(one.w, two.w) /\ Same(one.h, two.h))
<1> DEFINE one == Stretched(image, page, a)
           two == Stretched(image, sheet, b)
           proportion == Fraction(image.w, image.h)
           iw == image.w
           ih == image.h
           pw == page.w
           ph == page.h
           sw == sheet.w
           sh == sheet.h
<1>1. /\ iw \in Nat \ {0} /\ ih \in Nat \ {0} /\ pw \in Int /\ ph \in Int /\ sw \in Int /\ sh \in Int
      /\ pw * sh # ph * sw
  BY DEF SidesOfPaper
<1>2. \A n, d : Fraction(n, d).n = n /\ Fraction(n, d).d = d
  BY DEF Fraction
<1>3. /\ IsLess(proportion, a) => iw * ph < pw * ih
      /\ IsLess(proportion, b) => iw * sh < sw * ih
  BY <1>2 DEF IsLess
<1>4. /\ one.w = IF IsLess(proportion, a) THEN Fraction(ph * iw, ih * pw) ELSE Fraction(1, 1)
      /\ one.h = IF IsLess(proportion, a) THEN Fraction(1, 1) ELSE Fraction(pw * ih, iw * ph)
      /\ two.w = IF IsLess(proportion, b) THEN Fraction(sh * iw, ih * sw) ELSE Fraction(1, 1)
      /\ two.h = IF IsLess(proportion, b) THEN Fraction(1, 1) ELSE Fraction(sw * ih, iw * sh)
  BY StretchedIs DEF One
<1> HIDE DEF one, two, proportion, iw, ih, pw, ph, sw, sh
<1>5. iw * ih \in Nat \ {0} /\ ph * sw \in Int /\ pw * sh \in Int
  <2>1. 0 * ih < iw * ih
    BY <1>1, ProductLess
  <2>2. 0 * ih = 0 /\ iw * ih \in Int
    BY <1>1
  <2>3. QED
    BY <1>1, <2>1, <2>2
<1>6. (ph * sw) * (iw * ih) # (pw * sh) * (iw * ih)
  BY <1>1, <1>5, ProductSame
<1>7. CASE IsLess(proportion, a) /\ IsLess(proportion, b)
  <2>1. (ph * iw) * (ih * sw) = (ph * sw) * (iw * ih) /\ (sh * iw) * (ih * pw) = (pw * sh) * (iw * ih)
    BY <1>1
  <2>2. ~Same(one.w, two.w)
    BY <1>2, <1>4, <1>6, <1>7, <2>1 DEF Same
  <2>3. QED
    BY <2>2 DEF one, two
<1>8. CASE ~IsLess(proportion, a) /\ ~IsLess(proportion, b)
  <2>1. (pw * ih) * (iw * sh) = (pw * sh) * (iw * ih) /\ (sw * ih) * (iw * ph) = (ph * sw) * (iw * ih)
    BY <1>1
  <2>2. ~Same(one.h, two.h)
    BY <1>2, <1>4, <1>6, <1>8, <2>1 DEF Same
  <2>3. QED
    BY <2>2 DEF one, two
<1>9. CASE IsLess(proportion, a) /\ ~IsLess(proportion, b)
  <2>1. (ph * iw) * 1 = iw * ph /\ 1 * (ih * pw) = pw * ih /\ iw * ph \in Int /\ pw * ih \in Int
    BY <1>1
  <2>2. (ph * iw) * 1 # 1 * (ih * pw)
    BY <1>3, <1>9, <2>1
  <2>3. ~Same(one.w, two.w)
    BY <1>2, <1>4, <1>9, <2>2 DEF Same
  <2>4. QED
    BY <2>3 DEF one, two
<1>10. CASE ~IsLess(proportion, a) /\ IsLess(proportion, b)
  <2>1. (sh * iw) * 1 = iw * sh /\ 1 * (ih * sw) = sw * ih /\ iw * sh \in Int /\ sw * ih \in Int
    BY <1>1
  <2>2. 1 * (ih * sw) # (sh * iw) * 1
    BY <1>3, <1>10, <2>1
  <2>3. ~Same(one.w, two.w)
    BY <1>2, <1>4, <1>10, <2>2 DEF Same
  <2>4. QED
    BY <2>3 DEF one, two
<1>11. QED
  BY <1>7, <1>8, <1>9, <1>10

(* What is narrower than the integer part of a proportion is narrower.      *)
LEMMA IntegerPartLess ==
    ASSUME NEW image \in SidesOfPaper, NEW page \in SidesOfPaper,
           IsLess(Fraction(image.w, image.h), Fraction(page.w \div page.h, 1))
    PROVE  IsLess(Fraction(image.w, image.h), Fraction(page.w, page.h))
<1> DEFINE iw == image.w
           ih == image.h
           sw == page.w
           sh == page.h
           q == page.w \div page.h
<1>1. iw \in Nat \ {0} /\ ih \in Nat \ {0} /\ sw \in Nat \ {0} /\ sh \in Nat \ {0}
  BY DEF SidesOfPaper
<1>2. q \in Nat /\ q * sh <= sw
  BY <1>1, QuotientIs
<1> HIDE DEF q
<1>3. iw * 1 < q * ih
  BY DEF IsLess, Fraction, q
<1> HIDE DEF iw, ih, sw, sh
<1>4. iw < q * ih /\ q * ih \in Int
  BY <1>1, <1>2, <1>3
<1>5. iw * sh < (q * ih) * sh
  BY <1>1, <1>4, ProductLess
<1>6. (q * ih) * sh = (q * sh) * ih /\ q * sh \in Nat
  BY <1>1, <1>2
<1>7. (q * sh) * ih <= sw * ih
  BY <1>1, <1>2, <1>6, ProductIs
<1>8. iw * sh < sw * ih
  <2>1. iw * sh \in Int /\ (q * sh) * ih \in Int /\ sw * ih \in Int
    BY <1>1, <1>6
  <2>2. QED
    BY <1>5, <1>6, <1>7, <2>1
<1>9. QED
  BY <1>8 DEF IsLess, Fraction, iw, ih, sw, sh

LEMMA StretchAgrees ==
    ASSUME NEW image \in SidesOfPaper, NEW page \in SidesOfPaper, NEW sheet \in SidesOfPaper,
           page.w * sheet.h = page.h * sheet.w
    PROVE  LET one == Stretched(image, page, Fraction(page.w \div page.h, 1))
               two == Stretched(image, sheet, Fraction(sheet.w, sheet.h))
               proportion == Fraction(image.w, image.h)
           IN ~(Same(one.w, two.w) /\ Same(one.h, two.h))
                <=> /\ ~IsLess(proportion, Fraction(sheet.w \div sheet.h, 1))
                    /\ IsLess(proportion, Fraction(sheet.w, sheet.h))
<1> DEFINE iw == image.w
           ih == image.h
           sw == sheet.w
           sh == sheet.h
           q == sheet.w \div sheet.h
           proportion == Fraction(image.w, image.h)
<1>1. /\ iw \in Nat \ {0} /\ ih \in Nat \ {0} /\ sw \in Nat \ {0} /\ sh \in Nat \ {0}
      /\ page.w \in Nat /\ page.h \in Nat \ {0}
  BY DEF SidesOfPaper
<1>2. page.w \div page.h = q
  <2> DEFINE pw == page.w
             ph == page.h
  <2>1. pw \in Nat /\ ph \in Nat \ {0} /\ sw \in Nat /\ sh \in Nat \ {0} /\ pw * sh = ph * sw
    BY <1>1
  <2>2. pw \div ph = sw \div sh
    <3> HIDE DEF pw, ph, sw, sh
    <3>1. QED
      BY <2>1, SameQuotient
  <2>3. QED
    BY ONLY <2>2
<1>3. q \in Nat /\ q * sh <= sw
  BY <1>1, QuotientIs
<1> HIDE DEF q
<1>4. Fraction(q, 1) \in Fractions /\ Fraction(sheet.w, sheet.h) \in Fractions
  BY <1>1, <1>3 DEF Fraction, Fractions
<1>5. ASSUME IsLess(proportion, Fraction(q, 1)) PROVE IsLess(proportion, Fraction(sheet.w, sheet.h))
  BY <1>5, IntegerPartLess DEF q
<1> DEFINE one == Stretched(image, page, Fraction(q, 1))
           two == Stretched(image, sheet, Fraction(sheet.w, sheet.h))
           same == Same(one.w, two.w) /\ Same(one.h, two.h)
<1>6. /\ (IsLess(proportion, Fraction(q, 1)) <=> IsLess(proportion, Fraction(sheet.w, sheet.h))) => same
      /\ ~IsLess(proportion, Fraction(q, 1)) /\ IsLess(proportion, Fraction(sheet.w, sheet.h)) => ~same
  BY <1>4, StretchedSame
<1> HIDE DEF proportion
<1>7. ~same <=> ~IsLess(proportion, Fraction(q, 1)) /\ IsLess(proportion, Fraction(sheet.w, sheet.h))
  BY <1>5, <1>6
<1>8. QED
  BY ONLY <1>2, <1>7 DEF one, two, q, proportion

(* A PDF lies in print where it lay in the preview exactly if the pages     *)
(* have the same proportions.                                              *)
LEMMA PdfAgrees ==
    ASSUME NEW image \in SidesOfPaper, NEW page \in SidesOfPaper, NEW sheet \in SidesOfPaper
    PROVE  SamePlace(PdfOn(image, page), PdfOn(image, sheet)) <=> page.w * sheet.h = page.h * sheet.w
<1> DEFINE iw == image.w
           ih == image.h
           pw == page.w
           ph == page.h
           sw == sheet.w
           sh == sheet.h
           proportion == Fraction(image.w, image.h)
           one == Stretched(image, page, Fraction(page.w, page.h))
           two == Stretched(image, sheet, Fraction(sheet.w, sheet.h))
           same == Same(one.w, two.w) /\ Same(one.h, two.h)
<1>1. /\ iw \in Nat \ {0} /\ ih \in Nat \ {0} /\ sw \in Nat \ {0} /\ sh \in Nat \ {0}
      /\ pw \in Nat \ {0} /\ ph \in Nat \ {0}
  BY DEF SidesOfPaper
<1>2. Fraction(pw, ph) \in Fractions /\ Fraction(sw, sh) \in Fractions
  BY <1>1 DEF Fraction, Fractions
<1>3. ASSUME pw * sh = ph * sw PROVE iw * ph < pw * ih <=> iw * sh < sw * ih
  <2> HIDE DEF iw, ih, pw, ph, sw, sh
  <2>1. iw * ph < pw * ih <=> (iw * ph) * sh < (pw * ih) * sh
    <3>1. iw * ph \in Int /\ pw * ih \in Int
      BY <1>1
    <3>2. QED
      BY <1>1, <3>1, ProductLess
  <2>2. (iw * ph) * sh = (iw * sh) * ph
    BY <1>1
  <2>3. (pw * ih) * sh = (sw * ih) * ph
    <3>1. (pw * ih) * sh = (pw * sh) * ih
      BY <1>1
    <3>2. (sw * ih) * ph = (ph * sw) * ih
      BY <1>1
    <3>3. QED
      BY <1>1, <1>3, <3>1, <3>2
  <2>4. (iw * sh) * ph < (sw * ih) * ph <=> iw * sh < sw * ih
    <3>1. iw * sh \in Int /\ sw * ih \in Int
      BY <1>1
    <3>2. QED
      BY <1>1, <3>1, ProductLess
  <2>5. QED
    BY <2>1, <2>2, <2>3, <2>4
<1>4. pw * sh = ph * sw => (IsLess(proportion, Fraction(pw, ph)) <=> IsLess(proportion, Fraction(sw, sh)))
  BY <1>3 DEF IsLess, Fraction
<1>5. same <=> pw * sh = ph * sw
  <2>1. CASE pw * sh = ph * sw
    BY <1>2, <1>4, <2>1, StretchedSame
  <2>2. CASE pw * sh # ph * sw
    BY <1>2, <2>2, StretchedApart
  <2>3. QED
    BY <2>1, <2>2
<1>6. one.w \in Fractions /\ one.h \in Fractions /\ two.w \in Fractions /\ two.h \in Fractions
  BY <1>2, StretchedIs
<1> HIDE DEF one, two
<1> DEFINE middle == [horAlign |-> "center", vertAlign |-> "center"]
<1>7. middle.horAlign = "center" /\ middle.vertAlign = "center"
  OBVIOUS
<1>8. PdfOn(image, page) = Aligned(one.w, one.h, middle) /\ PdfOn(image, sheet) = Aligned(two.w, two.h, middle)
  BY DEF PdfOn, one, two
<1> HIDE DEF middle
<1>9. SamePlace(PdfOn(image, page), PdfOn(image, sheet)) <=> same
  BY <1>6, <1>7, <1>8, AlignedSame
<1>10. QED
  BY <1>5, <1>9

LEMMA SheetIs ==
    ASSUME NEW paper \in SidesOfPaper, NEW settings PROVE Sheet(paper, settings) \in SidesOfPaper
BY DEF SidesOfPaper, Sheet, Turned

(* A paper of a millimetre at least is left some by the renderer's units.   *)
LEMMA ConvertedIs ==
    ASSUME NEW paper \in SidesOfPaper, paper.w >= 100, paper.h >= 100
    PROVE  ConvertPrintProfile(paper) \in SidesOfPaper
<1>1. paper.w \in Nat /\ paper.h \in Nat
  BY DEF SidesOfPaper
<1>2. \A n \in Nat : n >= 100 => n \div 100 \in Nat \ {0}
  OBVIOUS
<1>3. QED
  BY <1>1, <1>2 DEF ConvertPrintProfile, SidesOfPaper

(* Images of a size of their own lie in print where they lay in the         *)
(* preview: 300 dots of the printer, or 96 of the screen, are 25.4 mm.     *)
LEMMA OwnSizeAgrees ==
    ASSUME NEW p \in Int, NEW s \in Int
    PROVE  /\ Fraction(127 * p, 1500 * s) \in Fractions /\ Fraction(127 * p, 480 * s) \in Fractions
           /\ Fraction(25 * (127 * p), 8 * (1500 * s)) \in Fractions
           /\ Same(Fraction(127 * p, 1500 * s), Fraction(127 * p, 1500 * s))
           /\ Same(Fraction(127 * p, 480 * s), Fraction(25 * (127 * p), 8 * (1500 * s)))
<1>1. \A n, d : Fraction(n, d).n = n /\ Fraction(n, d).d = d
  BY DEF Fraction
<1>2. \A n, d \in Int : Fraction(n, d) \in Fractions
  BY DEF Fraction, Fractions
<1>3. (127 * p) * (8 * (1500 * s)) = (25 * (127 * p)) * (480 * s)
  <2>1. (127 * p) * (8 * (1500 * s)) = 1524000 * (p * s)
    OBVIOUS
  <2>2. (25 * (127 * p)) * (480 * s) = 1524000 * (p * s)
    OBVIOUS
  <2>3. QED
    BY <2>1, <2>2
<1>4. QED
  BY <1>1, <1>2, <1>3 DEF Same

(* So do stretched ones exactly if the pages have the same proportions and  *)
(* the integer division does not mislead the preview.                      *)
LEMMA ImagesAgree ==
    ASSUME NEW image \in SidesOfPaper, NEW paper \in SidesOfPaper, NEW settings \in PrintSettings,
           NEW page \in SidesOfPaper
    PROVE  LET sheet == Sheet(paper, settings)
               proportion == Fraction(image.w, image.h)
           IN SamePlace(ImageInPreview(image, paper, settings, page), ImageInPrint(image, paper, settings))
                <=> (settings.mode = "stretch" =>
                       /\ page.w * sheet.h = page.h * sheet.w
                       /\ ~(/\ ~IsLess(proportion, Fraction(sheet.w \div sheet.h, 1))
                            /\ IsLess(proportion, Fraction(sheet.w, sheet.h))))
<1> DEFINE sheet == Sheet(paper, settings)
           preview == ImageInPreview(image, paper, settings, page)
           print == ImageInPrint(image, paper, settings)
<1>1. sheet \in SidesOfPaper
  BY SheetIs
<1>2. /\ image.w \in Int /\ image.h \in Int /\ sheet.w \in Int /\ sheet.h \in Int
      /\ sheet.w \in Nat /\ sheet.h \in Nat \ {0} /\ page.w \in Nat /\ page.h \in Nat \ {0}
  BY <1>1 DEF SidesOfPaper
<1>3. /\ settings.horAlign \in {"near", "center", "far"} /\ settings.vertAlign \in {"near", "center", "far"}
      /\ settings.mode \in {"original", "display", "stretch"}
  BY DEF PrintSettings
<1>4. CASE settings.mode = "original"
  <2> DEFINE w == Fraction(127 * image.w, 1500 * sheet.w)
             h == Fraction(127 * image.h, 1500 * sheet.h)
  <2>1. preview = Aligned(w, h, settings) /\ print = Aligned(w, h, settings)
    BY <1>4 DEF ImageInPreview, ImageInPrint
  <2>2. w \in Fractions /\ h \in Fractions /\ Same(w, w) /\ Same(h, h)
    BY <1>2, OwnSizeAgrees
  <2> HIDE DEF preview, print, w, h
  <2>3. SamePlace(preview, print)
    BY <1>3, <2>1, <2>2, AlignedSame
  <2>4. QED
    BY <1>4, <2>3 DEF preview, print
<1>5. CASE settings.mode = "display"
  <2> DEFINE w1 == Fraction(127 * image.w, 480 * sheet.w)
             h1 == Fraction(127 * image.h, 480 * sheet.h)
             w2 == Fraction(25 * (127 * image.w), 8 * (1500 * sheet.w))
             h2 == Fraction(25 * (127 * image.h), 8 * (1500 * sheet.h))
  <2>1. preview = Aligned(w1, h1, settings) /\ print = Aligned(w2, h2, settings)
    BY <1>5 DEF ImageInPreview, ImageInPrint
  <2>2. w1 \in Fractions /\ h1 \in Fractions /\ w2 \in Fractions /\ h2 \in Fractions /\ Same(w1, w2) /\ Same(h1, h2)
    BY <1>2, OwnSizeAgrees
  <2> HIDE DEF preview, print, w1, h1, w2, h2
  <2>3. SamePlace(preview, print)
    BY <1>3, <2>1, <2>2, AlignedSame
  <2>4. QED
    BY <1>5, <2>3 DEF preview, print
<1>6. CASE settings.mode = "stretch"
  <2> DEFINE asked == Fraction(page.w \div page.h, 1)
             ratio == Fraction(sheet.w, sheet.h)
             one == Stretched(image, page, asked)
             two == Stretched(image, sheet, ratio)
  <2>1. preview = Aligned(one.w, one.h, settings) /\ print = Aligned(two.w, two.h, settings)
    BY <1>6 DEF ImageInPreview, ImageInPrint
  <2>2. asked \in Fractions /\ ratio \in Fractions
    <3>1. page.w \div page.h \in Int
      BY <1>2
    <3>2. QED
      BY <1>2, <3>1 DEF Fraction, Fractions
  <2>3. one.w \in Fractions /\ one.h \in Fractions /\ two.w \in Fractions /\ two.h \in Fractions
    <3> HIDE DEF asked, ratio, sheet
    <3>1. QED
      BY <1>1, <2>2, StretchedIs
  <2>4. Same(one.w, two.w) /\ Same(one.h, two.h)
          <=> /\ page.w * sheet.h = page.h * sheet.w
              /\ ~(/\ ~IsLess(Fraction(image.w, image.h), Fraction(sheet.w \div sheet.h, 1))
                   /\ IsLess(Fraction(image.w, image.h), Fraction(sheet.w, sheet.h)))
    <3> HIDE DEF sheet
    <3>1. CASE page.w * sheet.h = page.h * sheet.w
      BY <1>1, <3>1, StretchAgrees
    <3>2. CASE page.w * sheet.h # page.h * sheet.w
      <4>1. ~(Same(one.w, two.w) /\ Same(one.h, two.h))
        BY <1>1, <2>2, <3>2, IntegerPartLess, StretchedApart
      <4>2. QED
        BY <3>2, <4>1
    <3>3. QED
      BY <3>1, <3>2
  <2>5. SamePlace(preview, print) <=> Same(one.w, two.w) /\ Same(one.h, two.h)
    <3> HIDE DEF preview, print, one, two
    <3>1. QED
      BY <1>3, <2>1, <2>3, AlignedSame
  <2>6. QED
    BY ONLY <1>6, <2>4, <2>5
<1>7. QED
  BY <1>3, <1>4, <1>5, <1>6

(* PreviewIsPrint: for any paper of a millimetre at least, in hundredths,   *)
(* any picture, settings and size of the window (ConvertPrintProfile.cpp:8, *)
(* ImageBundleRenderer.cpp:40-214, PdfDocument.cpp:226-262).               *)
THEOREM PreviewsArePrints == Spec => []PreviewIsPrint
<1>1. Init => PreviewIsPrint
  BY DEF Init, Nothing, PreviewIsPrint
<1>2. PreviewIsPrint /\ [Next]_input => PreviewIsPrint'
  <2> SUFFICES ASSUME PreviewIsPrint, [Next]_input PROVE PreviewIsPrint'
    OBVIOUS
  <2>1. CASE Next
    <3>1. SUFFICES ASSUME PreviewPicture PROVE PreviewIsPrint'
      BY <2>1, OneKindEach DEF PreviewIsPrint
    <3>2. PICK content \in {"images", "pdf"}, chosen \in PrintSettings, paper \in Papers, picture \in Pictures,
               size \in PictureViews :
             input' = [kind |-> "picture", content |-> content, settings |-> SettingsFor(content, chosen),
                       paper |-> paper, renderer |-> ConvertPrintProfile(paper), picture |-> picture,
                       rect |-> [w |-> FirstPageRect(size, Sheet(paper, SettingsFor(content, chosen))).x.length,
                                 h |-> FirstPageRect(size, Sheet(paper, SettingsFor(content, chosen))).y.length]]
      BY <3>1 DEF PreviewPicture
    <3> DEFINE settings == SettingsFor(content, chosen)
               renderer == ConvertPrintProfile(paper)
               sheet == Sheet(paper, settings)
               page == Sheet(renderer, settings)
               w == FirstPageRect(size, sheet).x.length
               h == FirstPageRect(size, sheet).y.length
               rect == [w |-> w, h |-> h]
    <3>3. size \in Sizes /\ paper \in SidesOfPaper /\ picture \in SidesOfPaper /\ renderer \in SidesOfPaper
      BY PapersAssumption, ViewsAssumption, ConvertedIs
    <3>4. settings \in PrintSettings /\ (content = "pdf" => settings.orientation = "portrait")
      BY DEF SettingsFor, PrintSettings
    <3>5. /\ input'.content = content /\ input'.settings = settings /\ input'.paper = paper
          /\ input'.renderer = renderer /\ input'.picture = picture /\ input'.rect = rect
      BY <3>2
    <3> HIDE DEF settings, renderer
    <3>6. sheet \in SidesOfPaper /\ page \in SidesOfPaper /\ (content = "pdf" => page = renderer)
      <4>1. content = "pdf" => page = renderer
        BY <3>4 DEF Sheet
      <4>2. QED
        BY <3>3, <4>1, SheetIs
    <3> HIDE DEF sheet, page
    <3>7. w \in Nat /\ h \in Nat
      <4>1. FirstPageRect(size, sheet).y \in Sides
        BY <3>3, <3>6, FirstPageRectIs
      <4>2. QED
        BY <3>3, <3>6, <4>1, FirstPageRectIs DEF Sides
    <3>8. rect.w = w /\ rect.h = h
      OBVIOUS
    <3> HIDE DEF w, h, rect
    <3> DEFINE agree == IF content = "images"
                        THEN SamePlace(ImageInPreview(picture, renderer, settings, rect),
                                       ImageInPrint(picture, renderer, settings))
                        ELSE SamePlace(PdfInPreview(picture, rect), PdfInPrint(picture, renderer))
               between == /\ ~IsLess(Fraction(picture.w, picture.h), Fraction(page.w \div page.h, 1))
                          /\ IsLess(Fraction(picture.w, picture.h), Fraction(page.w, page.h))
               isFitted == content = "pdf" \/ settings.mode = "stretch"
               isMisled == content = "images" /\ between
               kept == sheet.w * page.h = sheet.h * page.w
    <3>9. ASSUME rect.w * sheet.h = rect.h * sheet.w, rect.h > 0
          PROVE  agree <=> (isFitted => kept /\ ~isMisled)
      <4>1. rect \in SidesOfPaper
        <5>1. w # 0
          <6>1. sheet.w \in Nat \ {0} /\ sheet.h \in Nat \ {0} /\ h \in Nat \ {0} /\ w * sheet.h = h * sheet.w
            BY <3>6, <3>7, <3>8, <3>9 DEF SidesOfPaper
          <6>2. 0 * sheet.w < h * sheet.w
            BY <6>1, ProductLess
          <6>3. 0 * sheet.w = 0 /\ 0 * sheet.h = 0
            BY <6>1
          <6>4. QED
            BY <6>1, <6>2, <6>3
        <5>2. h # 0
          BY <3>8, <3>9
        <5>3. QED
          BY <3>7, <5>1, <5>2 DEF rect, SidesOfPaper
      <4>2. rect.w * page.h = rect.h * page.w <=> kept
        <5> DEFINE rw == rect.w
                   rh == rect.h
                   sw == sheet.w
                   sh == sheet.h
                   pw == page.w
                   ph == page.h
        <5>1. /\ rw \in Int /\ rh \in Nat \ {0} /\ sw \in Int /\ sh \in Nat \ {0} /\ pw \in Int /\ ph \in Int
          BY <3>6, <4>1 DEF SidesOfPaper
        <5>2. rw * sh = rh * sw
          BY <3>9
        <5>3. (rw * ph = rh * pw <=> sw * ph = sh * pw) => (rect.w * page.h = rect.h * page.w <=> kept)
          OBVIOUS
        <5> HIDE DEF kept, rw, rh, sw, sh, pw, ph
        <5>4. rw * ph = rh * pw <=> sw * ph = sh * pw
          BY ONLY <5>1, <5>2, SameProportions
        <5>5. QED
          BY <5>3, <5>4
      <4>3. CASE content = "images"
        <5>1. SamePlace(ImageInPreview(picture, renderer, settings, rect), ImageInPrint(picture, renderer, settings))
                <=> (settings.mode = "stretch" => rect.w * page.h = rect.h * page.w /\ ~between)
          BY <3>3, <3>4, <4>1, ImagesAgree DEF page
        <5> HIDE DEF between, kept
        <5>2. QED
          BY <4>2, <4>3, <5>1
      <4>4. CASE content = "pdf"
        <5>1. SamePlace(PdfOn(picture, rect), PdfOn(picture, renderer)) <=> rect.w * page.h = rect.h * page.w
          BY <3>3, <3>6, <4>1, <4>4, PdfAgrees
        <5>2. PdfInPreview(picture, rect) = PdfOn(picture, rect) /\ PdfInPrint(picture, renderer) = PdfOn(picture, renderer)
          BY DEF PdfInPreview, PdfInPrint
        <5> HIDE DEF between, kept
        <5>3. QED
          BY <4>2, <4>4, <5>1, <5>2
      <4>5. QED
        BY <4>3, <4>4
    <3> HIDE DEF agree, isFitted, isMisled
    <3>10. rect.w * sheet.h = rect.h * sheet.w /\ rect.h > 0 =>
             (agree <=> (isFitted => sheet.w * page.h = sheet.h * page.w /\ ~isMisled))
      BY <3>9
    <3>11. QED
      BY <3>5, <3>10 DEF PreviewIsPrint, agree, isFitted, isMisled, sheet, page
  <2>2. CASE UNCHANGED input
    BY <2>2 DEF PreviewIsPrint
  <2>3. QED
    BY <2>1, <2>2
<1>3. QED
  BY <1>1, <1>2, PTL DEF Spec
-------------------------------------------------------------------------------
(* The bitmaps of the preview.                                             *)

Renderings == [profile : Profiles, settings : CanvasSettings, rect : Sizes]

(* A canvas whose pages may still have to be laid out.                     *)
Drafts ==
    [renderer : Profiles, profile : Profiles, settings : CanvasSettings, size : Sizes, from : Nat,
     rects : [Pages -> Sides] \cup {<<>>}, rect : Sizes, bitmap : [Pages -> Renderings \cup {None}],
     before : Nat, sameId : BOOLEAN]

(* The pages are where the profile, the settings and the window put them,  *)
(* and the view does not lie behind what can be scrolled to.               *)
LaidOut(c) ==
    /\ c \in Drafts
    /\ c.rects = PageRects(c.size, Sheet(c.profile.paper, c.settings), PageCount)
    /\ c.from <= ScrollRate * LastLine(c)

InView(c) == VisiblePageNums(c.rects, View(c))
WasInView(c) == VisiblePageNums(c.rects, [View(c) EXCEPT !.from = c.before])

KeptTrue(c) ==
    \A i \in Pages : c.bitmap[i] # None =>
        /\ c.bitmap[i] = Rendering(c) \/ c.sameId
        /\ c.size.h >= 30 => i \in InView(c) \cup WasInView(c)

CanvasInv == input.kind = "canvas" => LaidOut(input.canvas) /\ KeptTrue(input.canvas)

LEMMA LargerIs == \A a, b \in Int : Max({a, b}) = IF a <= b THEN b ELSE a
<1> SUFFICES ASSUME NEW a \in Int, NEW b \in Int PROVE Max({a, b}) = IF a <= b THEN b ELSE a
  OBVIOUS
<1>1. CASE a <= b
  BY <1>1 DEF Max
<1>2. CASE ~(a <= b)
  BY <1>2 DEF Max
<1>3. QED
  BY <1>1, <1>2

LEMMA SmallerIs == \A a, b \in Int : Min({a, b}) = IF a <= b THEN a ELSE b
<1> SUFFICES ASSUME NEW a \in Int, NEW b \in Int PROVE Min({a, b}) = IF a <= b THEN a ELSE b
  OBVIOUS
<1>1. CASE a <= b
  BY <1>1 DEF Min
<1>2. CASE ~(a <= b)
  BY <1>2 DEF Min
<1>3. QED
  BY <1>1, <1>2

LEMMA PagesAre ==
    ASSUME NEW c, c.size \in Sizes, c.profile \in Profiles,
           c.rects = PageRects(c.size, Sheet(c.profile.paper, c.settings), PageCount)
    PROVE  /\ c.rects \in [Pages -> Sides] /\ Ordered(c.rects)
           /\ Page(c).x.length \in Nat /\ Page(c).y.length \in Nat
<1> DEFINE sheet == Sheet(c.profile.paper, c.settings)
<1>1. sheet \in SidesOfPaper
  BY PapersAssumption, ProfilesAssumption, SheetIs
<1> HIDE DEF sheet
<1>2. c.rects = PageRects(c.size, sheet, PageCount) /\ Page(c) = FirstPageRect(c.size, sheet)
  BY DEF sheet, Page
<1>3. /\ PageRects(c.size, sheet, PageCount) \in [1..PageCount -> Sides]
      /\ \A i, j \in 1..PageCount :
            i <= j => PageRects(c.size, sheet, PageCount)[i].from <= PageRects(c.size, sheet, PageCount)[j].from
  BY <1>1, PagesAssumption, PageRectsIs
<1>4. Ordered(c.rects)
  BY <1>2, <1>3 DEF Ordered
<1>5. FirstPageRect(c.size, sheet).x.length \in Nat /\ FirstPageRect(c.size, sheet).y \in Sides
  BY <1>1, FirstPageRectIs
<1>6. QED
  BY <1>2, <1>3, <1>4, <1>5 DEF Pages, Sides

(* However far down, a window of 30 rows shows the end of the last page.    *)
LEMMA LastLineIs ==
    ASSUME NEW c, c.rects \in [Pages -> Sides], c.size \in Sizes
    PROVE  /\ LastLine(c) \in Nat
           /\ c.size.h >= 30 => ScrollRate * LastLine(c) <= Bottom(c.rects[PageCount]) + ShadowOffset + 1
<1> DEFINE b == Bottom(c.rects[PageCount])
           h == c.size.h
           m == (b + 29) \div 10
           k == h \div 10
           lines == m - Max({1, k})
<1>1. b \in Int /\ b >= -1 /\ h \in Nat
  BY PagesAssumption DEF Sides, Sizes, Bottom, Pages
<1>2. LastLine(c) = IF b + 20 <= h THEN 0 ELSE Max({0, lines})
  <2>1. LastLine(c) = IF b + 20 <= h THEN 0 ELSE Max({0, (b + 20 + 10 - 1) \div 10 - Max({1, k})})
    BY DEF LastLine, PageMarginPx, ScrollRate
  <2> HIDE DEF b
  <2>2. b + 20 + 10 - 1 = b + 29
    BY <1>1
  <2>3. QED
    BY <2>1, <2>2
<1> HIDE DEF b, h
<1>3. m \in Int /\ k \in Int /\ 10 * m <= b + 29 /\ (h >= 30 => k >= 3)
  BY <1>1
<1> HIDE DEF m, k
<1>4. Max({1, k}) = IF 1 <= k THEN k ELSE 1
  BY <1>3, LargerIs
<1>5. lines \in Int /\ (h >= 30 => 10 * lines <= b + 5)
  BY <1>1, <1>3, <1>4
<1> HIDE DEF lines
<1>6. LastLine(c) = IF b + 20 <= h \/ lines < 0 THEN 0 ELSE lines
  BY <1>1, <1>2, <1>5, LargerIs
<1>7. LastLine(c) \in Nat /\ (h >= 30 => 10 * LastLine(c) <= b + 4 + 1)
  BY <1>1, <1>5, <1>6
<1>8. QED
  BY <1>7 DEF b, h, ScrollRate, ShadowOffset

LEMMA SomethingInView ==
    ASSUME NEW c, LaidOut(c), c.size.h >= 30
    PROVE  InView(c) # {}
<1>1. /\ c.size \in Sizes /\ c.profile \in Profiles /\ c.from \in Nat
      /\ c.rects = PageRects(c.size, Sheet(c.profile.paper, c.settings), PageCount)
      /\ c.from <= ScrollRate * LastLine(c)
  BY DEF LaidOut, Drafts
<1>2. c.rects \in [Pages -> Sides] /\ Ordered(c.rects)
  BY <1>1, PagesAre
<1>3. View(c) \in Sides /\ View(c).from = c.from
  BY <1>1 DEF View, Sides, Sizes
<1>4. PageCount \in VisibleFirst(c.rects, View(c))
  <2> DEFINE b == Bottom(c.rects[PageCount]) + ShadowOffset
  <2>1. PageCount \in DOMAIN c.rects
    BY <1>2, PagesAssumption DEF Pages
  <2>2. LastLine(c) \in Nat /\ ScrollRate * LastLine(c) <= b + 1
    BY <1>1, <1>2, LastLineIs
  <2>3. b \in Int
    BY <1>2, <2>1 DEF Bottom, ShadowOffset, Sides
  <2> HIDE DEF b
  <2>4. b + 1 >= c.from
    BY <1>1, <2>2, <2>3 DEF ScrollRate
  <2>5. QED
    BY <1>3, <2>1, <2>4 DEF VisibleFirst, b
<1>5. VisiblePageNums(c.rects, View(c)) # {}
  BY <1>2, <1>3, <1>4, PagesAssumption, VisibleIs DEF Pages
<1>6. QED
  BY <1>5 DEF InView
(* Every layout begins without bitmaps, and moves the view if it must.      *)
LEMMA RecalcIs ==
    ASSUME NEW c \in Drafts
    PROVE  LaidOut(RecalcPageRects(c)) /\ KeptTrue(RecalcPageRects(c))
<1> DEFINE laid == CalcPageRects(c)
           d == RecalcPageRects(c)
           rects == PageRects(c.size, Sheet(c.profile.paper, c.settings), PageCount)
           rect == [w |-> Page(c).x.length, h |-> Page(c).y.length]
           from == Min({c.from, ScrollRate * LastLine(laid)})
<1>1. /\ c.renderer \in Profiles /\ c.profile \in Profiles /\ c.settings \in CanvasSettings /\ c.size \in Sizes
      /\ c.from \in Nat /\ c.before \in Nat
  BY DEF Drafts
<1>2. laid = [c EXCEPT !.rects = rects, !.rect = rect, !.bitmap = NoBitmaps, !.sameId = FALSE]
  BY DEF CalcPageRects
<1> HIDE DEF laid, rects, rect
<1>3. laid.rects = rects /\ laid.from = c.from /\ laid.size = c.size /\ laid.profile = c.profile /\ laid.settings = c.settings
  BY <1>2 DEF Drafts
<1>4. rects \in [Pages -> Sides] /\ rect \in Sizes
  <2>1. laid.rects \in [Pages -> Sides] /\ Page(laid).x.length \in Nat /\ Page(laid).y.length \in Nat
    BY <1>1, <1>3, PagesAre DEF rects
  <2>2. Page(laid) = Page(c)
    BY <1>3 DEF Page
  <2>3. QED
    BY <1>3, <2>1, <2>2 DEF rect, Sizes
<1>5. LastLine(laid) \in Nat
  BY <1>1, <1>3, <1>4, LastLineIs
<1>6. from \in Nat /\ from <= ScrollRate * LastLine(laid)
  <2> DEFINE m == ScrollRate * LastLine(laid)
  <2>1. m \in Nat
    BY <1>5 DEF ScrollRate
  <2> HIDE DEF m
  <2>2. from = IF c.from <= m THEN c.from ELSE m
    BY <1>1, <2>1, SmallerIs DEF m
  <2> HIDE DEF from
  <2>3. from \in Nat /\ from <= m
    BY <1>1, <2>1, <2>2
  <2>4. QED
    BY <2>3 DEF m
<1>7. d = [laid EXCEPT !.from = from]
  BY <1>3 DEF RecalcPageRects, laid
<1> HIDE DEF d, from
<1>8. NoBitmaps \in [Pages -> Renderings \cup {None}] /\ \A i \in Pages : NoBitmaps[i] = None
  BY DEF NoBitmaps
<1>9. /\ d \in Drafts /\ d.rects = rects /\ d.size = c.size /\ d.profile = c.profile /\ d.settings = c.settings
      /\ d.from = from /\ d.bitmap = NoBitmaps
  BY <1>1, <1>2, <1>4, <1>6, <1>7, <1>8 DEF Drafts
<1>10. LastLine(d) = LastLine(laid)
  BY <1>3, <1>9 DEF LastLine
<1>11. LaidOut(d)
  BY <1>6, <1>9, <1>10 DEF LaidOut, rects
<1>12. KeptTrue(d)
  BY <1>8, <1>9 DEF KeptTrue
<1>13. QED
  BY <1>11, <1>12 DEF d

LEMMA OpenedIs ==
    ASSUME NEW profile \in Profiles, NEW settings \in CanvasSettings, NEW size \in CanvasViews
    PROVE  LaidOut(New(profile, settings, size)) /\ KeptTrue(New(profile, settings, size))
<1> DEFINE c == [renderer |-> profile, profile |-> profile, settings |-> settings, size |-> size,
                 from |-> 0, rects |-> <<>>, rect |-> size, bitmap |-> NoBitmaps,
                 before |-> 0, sameId |-> FALSE]
<1>1. NoBitmaps \in [Pages -> Renderings \cup {None}]
  BY DEF NoBitmaps
<1>2. c \in Drafts
  BY <1>1, ViewsAssumption DEF Drafts
<1>3. New(profile, settings, size) = RecalcPageRects(c)
  BY DEF New
<1> HIDE DEF c
<1>4. QED
  BY <1>2, <1>3, RecalcIs

(* What of a canvas decides where its pages are and which are in view.      *)
LEMMA SameLayout ==
    ASSUME NEW c, NEW d, d.rects = c.rects, d.size = c.size
    PROVE  /\ LastLine(d) = LastLine(c)
           /\ d.from = c.from => InView(d) = InView(c)
           /\ d.before = c.before /\ d.from = c.from => WasInView(d) = WasInView(c)
           /\ d.before = c.from => WasInView(d) = InView(c)
<1>1. LastLine(d) = LastLine(c)
  BY DEF LastLine
<1>2. d.from = c.from => InView(d) = InView(c)
  BY DEF InView, View
<1>3. WasInView(d) = VisiblePageNums(c.rects, [from |-> d.before, length |-> c.size.h])
  BY DEF WasInView, View
<1>4. WasInView(c) = VisiblePageNums(c.rects, [from |-> c.before, length |-> c.size.h])
  BY DEF WasInView, View
<1>5. InView(c) = VisiblePageNums(c.rects, [from |-> c.from, length |-> c.size.h])
  BY DEF InView, View
<1>6. QED
  BY <1>1, <1>2, <1>3, <1>4, <1>5

(* Only pages in view are painted, from bitmaps made now if there is none.  *)
LEMMA PaintedTrue ==
    ASSUME NEW c, LaidOut(c), KeptTrue(c), NEW update
    PROVE  LaidOut(OnPaint(c, update)) /\ KeptTrue(OnPaint(c, update))
<1> DEFINE drawn == {i \in VisiblePageNums(c.rects, View(c)) : Intersects(Bounds(c.rects[i]), update)}
           bitmap == [i \in Pages |-> IF i \in drawn /\ c.bitmap[i] = None THEN Rendering(c) ELSE c.bitmap[i]]
           d == OnPaint(c, update)
<1>1. c \in Drafts
  BY DEF LaidOut
<1>2. d = [c EXCEPT !.bitmap = bitmap]
  BY DEF OnPaint, DrawPageContent
<1>3. drawn \subseteq InView(c)
  BY DEF InView
<1> HIDE DEF drawn, d
<1>4. bitmap \in [Pages -> Renderings \cup {None}]
  <2>1. Rendering(c) \in Renderings
    BY <1>1 DEF Rendering, Renderings, Drafts
  <2>2. c.bitmap \in [Pages -> Renderings \cup {None}]
    BY <1>1 DEF Drafts
  <2>3. QED
    BY <2>1, <2>2
<1>5. /\ d \in Drafts /\ d.bitmap = bitmap /\ d.rects = c.rects /\ d.size = c.size /\ d.profile = c.profile
      /\ d.settings = c.settings /\ d.from = c.from /\ d.before = c.before /\ d.sameId = c.sameId
      /\ d.renderer = c.renderer /\ d.rect = c.rect
  <2> HIDE DEF bitmap
  <2>1. QED
    BY <1>1, <1>2, <1>4 DEF Drafts
<1>6. LaidOut(d)
  BY <1>5, SameLayout DEF LaidOut
<1>7. KeptTrue(d)
  <2>1. Rendering(d) = Rendering(c)
    BY <1>5 DEF Rendering
  <2>2. InView(d) = InView(c) /\ WasInView(d) = WasInView(c)
    BY <1>5, SameLayout
  <2>3. ASSUME NEW i \in Pages, d.bitmap[i] # None
        PROVE  /\ d.bitmap[i] = Rendering(c) \/ c.sameId
               /\ c.size.h >= 30 => i \in InView(c) \cup WasInView(c)
    <3>1. d.bitmap[i] = IF i \in drawn /\ c.bitmap[i] = None THEN Rendering(c) ELSE c.bitmap[i]
      BY <1>5
    <3>2. CASE i \in drawn /\ c.bitmap[i] = None
      BY <1>3, <3>1, <3>2
    <3>3. CASE ~(i \in drawn /\ c.bitmap[i] = None)
      BY <2>3, <3>1, <3>3 DEF KeptTrue
    <3>4. QED
      BY <3>2, <3>3
  <2>4. QED
    BY <1>5, <2>1, <2>2, <2>3 DEF KeptTrue
<1>8. QED
  BY <1>6, <1>7 DEF d

(* A scroll keeps the bitmaps of the pages in view before it.               *)
LEMMA ScrolledTrue ==
    ASSUME NEW c, LaidOut(c), KeptTrue(c), NEW line \in 0..LastLine(c)
    PROVE  LaidOut(OnScroll(c, line)) /\ KeptTrue(OnScroll(c, line))
<1> DEFINE d == OnScroll(c, line)
           kept == IF InView(c) = {} THEN c.bitmap
                   ELSE [i \in Pages |-> IF i \in InView(c) THEN c.bitmap[i] ELSE None]
<1>1. c \in Drafts
  BY DEF LaidOut
<1>2. d = [c EXCEPT !.bitmap = kept, !.from = ScrollRate * line, !.before = c.from]
  <2>1. CASE InView(c) = {}
    <3>1. ClearInvisiblePagesCache(c) = c
      BY <2>1 DEF ClearInvisiblePagesCache, InView
    <3>2. d = [c EXCEPT !.from = ScrollRate * line, !.before = c.from]
      BY <3>1 DEF OnScroll
    <3>3. kept = c.bitmap
      BY <2>1
    <3> HIDE DEF d, kept
    <3>4. QED
      BY <1>1, <3>2, <3>3 DEF Drafts
  <2>2. CASE InView(c) # {}
    <3>1. ClearInvisiblePagesCache(c) =
            [c EXCEPT !.bitmap = [i \in Pages |-> IF i \in InView(c) THEN c.bitmap[i] ELSE None]]
      BY <2>2 DEF ClearInvisiblePagesCache, InView
    <3>2. ClearInvisiblePagesCache(c) = [c EXCEPT !.bitmap = kept]
      BY <2>2, <3>1
    <3> HIDE DEF kept
    <3>3. QED
      BY <3>2 DEF OnScroll
  <2>3. QED
    BY <2>1, <2>2
<1> HIDE DEF d
<1>3. kept \in [Pages -> Renderings \cup {None}]
  <2>1. c.bitmap \in [Pages -> Renderings \cup {None}]
    BY <1>1 DEF Drafts
  <2>2. QED
    BY <2>1
<1>4. \A i \in Pages : kept[i] # None => kept[i] = c.bitmap[i] /\ (InView(c) # {} => i \in InView(c))
  OBVIOUS
<1> HIDE DEF kept
<1>5. ScrollRate * line \in Nat /\ ScrollRate * line <= ScrollRate * LastLine(c) /\ c.from \in Nat
  <2>1. c.size \in Sizes /\ c.rects \in [Pages -> Sides] /\ c.from \in Nat
    BY <1>1, PagesAre DEF LaidOut, Drafts
  <2>2. LastLine(c) \in Nat
    BY <2>1, LastLineIs
  <2>3. line \in Nat /\ line <= LastLine(c)
    BY <2>2
  <2>4. QED
    BY <2>1, <2>2, <2>3 DEF ScrollRate
<1>6. /\ d \in Drafts /\ d.bitmap = kept /\ d.rects = c.rects /\ d.size = c.size /\ d.profile = c.profile
      /\ d.settings = c.settings /\ d.from = ScrollRate * line /\ d.before = c.from /\ d.sameId = c.sameId
      /\ d.renderer = c.renderer /\ d.rect = c.rect
  BY <1>1, <1>2, <1>3, <1>5 DEF Drafts
<1>7. LaidOut(d)
  <2>1. LastLine(d) = LastLine(c)
    BY <1>6, SameLayout
  <2>2. QED
    BY <1>5, <1>6, <2>1 DEF LaidOut
<1>8. KeptTrue(d)
  <2>1. Rendering(d) = Rendering(c)
    BY <1>6 DEF Rendering
  <2>2. WasInView(d) = InView(c)
    BY <1>6, SameLayout
  <2>3. ASSUME NEW i \in Pages, d.bitmap[i] # None
        PROVE  /\ d.bitmap[i] = Rendering(c) \/ c.sameId
               /\ c.size.h >= 30 => i \in InView(c)
    <3>1. c.bitmap[i] # None /\ d.bitmap[i] = c.bitmap[i] /\ (InView(c) # {} => i \in InView(c))
      BY <1>4, <1>6, <2>3
    <3>2. c.size.h >= 30 => InView(c) # {}
      BY SomethingInView
    <3>3. QED
      BY <3>1, <3>2 DEF KeptTrue
  <2>4. QED
    BY <1>6, <2>1, <2>2, <2>3 DEF KeptTrue
<1>9. QED
  BY <1>7, <1>8 DEF d

LEMMA ResizedTrue ==
    ASSUME NEW c, LaidOut(c), NEW size \in CanvasViews
    PROVE  LaidOut(OnSize(c, size)) /\ KeptTrue(OnSize(c, size))
<1>1. [c EXCEPT !.size = size] \in Drafts
  BY ViewsAssumption DEF LaidOut, Drafts
<1>2. QED
  BY <1>1, RecalcIs DEF OnSize

(* A profile of the same id leaves the pages, and is remembered.            *)
LEMMA ProfileSetTrue ==
    ASSUME NEW c, LaidOut(c), KeptTrue(c), NEW profile \in Profiles
    PROVE  LaidOut(SetPrintProfile(c, profile)) /\ KeptTrue(SetPrintProfile(c, profile))
<1> DEFINE d == SetPrintProfile(c, profile)
<1>1. c \in Drafts
  BY DEF LaidOut
<1>2. CASE c.profile.id # profile.id
  <2> DEFINE next == [c EXCEPT !.renderer = profile, !.profile = profile]
  <2>1. next \in Drafts
    BY <1>1 DEF Drafts
  <2>2. d = RecalcPageRects(next)
    BY <1>2 DEF SetPrintProfile
  <2> HIDE DEF d, next
  <2>3. LaidOut(d) /\ KeptTrue(d)
    BY <2>1, <2>2, RecalcIs
  <2>4. QED
    BY <2>3 DEF d
<1>3. CASE c.profile.id = profile.id
  <2>1. d = [c EXCEPT !.renderer = profile, !.sameId = c.sameId \/ profile # c.renderer]
    BY <1>1, <1>3 DEF SetPrintProfile, Drafts
  <2> DEFINE same == c.sameId \/ profile # c.renderer
  <2>2. same \in BOOLEAN
    BY <1>1 DEF Drafts
  <2> HIDE DEF d, same
  <2>3. /\ d \in Drafts /\ d.bitmap = c.bitmap /\ d.rects = c.rects /\ d.size = c.size /\ d.profile = c.profile
        /\ d.settings = c.settings /\ d.from = c.from /\ d.before = c.before /\ d.sameId = same
        /\ d.renderer = profile /\ d.rect = c.rect
    BY <1>1, <2>1, <2>2 DEF Drafts, same
  <2>4. LaidOut(d)
    BY <2>3, SameLayout DEF LaidOut
  <2>5. InView(d) = InView(c) /\ WasInView(d) = WasInView(c)
    BY <2>3, SameLayout
  <2>6. ~same => ~c.sameId /\ Rendering(d) = Rendering(c)
    BY <2>3 DEF same, Rendering
  <2>7. KeptTrue(d)
    BY <2>3, <2>5, <2>6 DEF KeptTrue
  <2>8. QED
    BY <2>4, <2>7 DEF d
<1>4. QED
  BY <1>2, <1>3

LEMMA SettingsSetTrue ==
    ASSUME NEW c, LaidOut(c), KeptTrue(c), NEW settings \in CanvasSettings
    PROVE  LaidOut(SetPrintSettings(c, settings)) /\ KeptTrue(SetPrintSettings(c, settings))
<1>1. [c EXCEPT !.settings = settings] \in Drafts
  BY DEF LaidOut, Drafts
<1>2. QED
  BY <1>1, RecalcIs DEF SetPrintSettings

(* CacheTrue: for any number of pages, profiles, settings and sizes of the  *)
(* window, however the preview is painted, scrolled and changed.           *)
THEOREM CacheIsTrue == Spec => []CacheTrue
<1>1. Init => CanvasInv
  BY DEF Init, Nothing, CanvasInv
<1>2. CanvasInv /\ [Next]_input => CanvasInv'
  <2> SUFFICES ASSUME CanvasInv, [Next]_input PROVE CanvasInv'
    OBVIOUS
  <2>1. SUFFICES ASSUME Next PROVE CanvasInv'
    BY DEF CanvasInv
  <2>2. ASSUME NEW c, Became(c), LaidOut(c), KeptTrue(c) PROVE CanvasInv'
    <3>1. input'.canvas = c
      BY <2>2 DEF Became
    <3>2. QED
      BY <2>2, <3>1 DEF CanvasInv, LaidOut, KeptTrue, InView, WasInView
  <2>3. CASE OpenPreview
    BY <2>2, <2>3, OpenedIs DEF OpenPreview
  <2>4. ASSUME input.kind = "canvas", Preview(input.canvas) PROVE CanvasInv'
    <3> DEFINE c == input.canvas
    <3>1. LaidOut(c) /\ KeptTrue(c)
      BY <2>4 DEF CanvasInv
    <3>2. Preview(c)
      BY <2>4
    <3> HIDE DEF c
    <3>3. CASE PaintCanvas(c)
      <4>1. PICK update : Became(OnPaint(c, update))
        BY <3>3 DEF PaintCanvas
      <4>2. QED
        BY <2>2, <3>1, <4>1, PaintedTrue
    <3>4. CASE ScrollCanvas(c)
      BY <2>2, <3>1, <3>4, ScrolledTrue DEF ScrollCanvas
    <3>5. CASE ResizeCanvas(c)
      BY <2>2, <3>1, <3>5, ResizedTrue DEF ResizeCanvas
    <3>6. CASE ChooseProfile(c)
      BY <2>2, <3>1, <3>6, ProfileSetTrue DEF ChooseProfile
    <3>7. CASE ChooseSettings(c)
      BY <2>2, <3>1, <3>7, SettingsSetTrue DEF ChooseSettings
    <3>8. QED
      BY <3>2, <3>3, <3>4, <3>5, <3>6, <3>7 DEF Preview
  <2>5. ASSUME ~OpenPreview, ~(input.kind = "canvas" /\ Preview(input.canvas)) PROVE input'.kind # "canvas"
    BY <2>1, <2>5 DEF Next, Pick, Forget, Nothing, SendContent, ReadAnswer, ShowPages, PreviewPicture, LookForUpdate
  <2>6. QED
    BY <2>3, <2>4, <2>5 DEF CanvasInv
<1>3. CanvasInv => CacheTrue
  BY DEF CanvasInv, CacheTrue, KeptTrue, InView, WasInView
<1>4. QED
  BY <1>1, <1>2, <1>3, PTL DEF Spec
===============================================================================
