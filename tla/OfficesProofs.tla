----------------------------- MODULE OfficesProofs -----------------------------
(* Proofs about Offices, for any offices, profiles and number of requests. *)
EXTENDS Offices, FiniteSetTheorems, WellFoundedInduction, TLAPS

USE NoneAssumption

-------------------------------------------------------------------------------
(* Least elements.                                                         *)

(* Min of a set of naturals is in it: the order of the naturals is well    *)
(* founded.                                                                *)
LEMMA MinIsLeast ==
    ASSUME NEW S, S \subseteq Nat, S # {}
    PROVE  Min(S) \in S /\ \A y \in S : Min(S) <= y
<1> DEFINE R == {pair \in Nat \X Nat : pair[1] < pair[2]}
<1>1. IsWellFoundedOn(R, Nat)
  BY NatLessThanWellFounded DEF OpToRel
<1>2. \A x, y \in Nat : y < x => <<y, x>> \in R
  OBVIOUS
<1> HIDE DEF R
<1>3. PICK x \in S : \A y \in S : ~(<<y, x>> \in R)
  BY <1>1, WFMin
<1>4. \A y \in S : x \in Nat /\ y \in Nat /\ ~(y < x)
  BY <1>2, <1>3
<1>5. \A y \in S : x <= y
  BY <1>4
<1>6. QED
  BY <1>5 DEF Min

(* The selected profile is one the office offers.                          *)
LEMMA EffectiveIs == \A o \in Offices : \A p : Effective(o, p) \in Profiles
<1> SUFFICES ASSUME NEW o \in Offices, NEW p PROVE Effective(o, p) \in Profiles
  OBVIOUS
<1>1. Offered[o] \in Seq(Profiles) /\ Offered[o] # <<>>
  BY OfferedAssumption
<1> DEFINE s == Offered[o]
<1>2. Head(s) \in Profiles /\ \A i \in DOMAIN s : s[i] \in Profiles
  BY <1>1
<1>3. QED
  BY <1>2 DEF Effective

LEMMA NewOfficeIs ==
    \A o \in Offices : NewOffice(o) \in Configs /\ NewOffice(o).office = o
<1> SUFFICES ASSUME NEW o \in Offices PROVE NewOffice(o) \in Configs /\ NewOffice(o).office = o
  OBVIOUS
<1>1. Offered[o] \in Seq(Profiles) /\ Offered[o] # <<>>
  BY OfferedAssumption
<1> DEFINE p == Head(Offered[o])
<1>2. p \in Profiles
  BY <1>1
<1>3. NewOffice(o) = [office |-> o, profile |-> p]
  BY DEF NewOffice
<1> HIDE DEF p
<1>4. QED
  BY <1>2, <1>3 DEF Configs

-------------------------------------------------------------------------------
(* There are names enough for the objects an answer makes: what is left of *)
(* the map and two references use the others.                              *)

(* A set that is not larger than another has an injection into it.         *)
LEMMA SmallerInjects ==
    ASSUME NEW A, NEW B, IsFiniteSet(A), IsFiniteSet(B), Cardinality(A) <= Cardinality(B)
    PROVE  \E f \in [A -> B] : IsInjective(f)
<1> DEFINE m == Cardinality(A)
           n == Cardinality(B)
<1>1. m \in Nat /\ n \in Nat /\ m <= n
  BY FS_CardinalityType
<1>2. PICK q \in Bijection(1..n, B) : TRUE
  BY FS_CardinalityType DEF ExistsBijection
<1>3. IsFiniteSet(1..m) /\ Cardinality(1..m) = m
  <2>1. 1 \in Int /\ m \in Int
    BY <1>1
  <2>2. IsFiniteSet(1..m) /\ Cardinality(1..m) = IF 1 > m THEN 0 ELSE m - 1 + 1
    BY <2>1, FS_Interval
  <2> HIDE DEF m
  <2>3. QED
    BY <1>1, <2>2
<1>4. PICK p \in Bijection(A, 1..m) : TRUE
  BY <1>3, FS_SameCardinalityBij DEF ExistsBijection
<1>5. /\ p \in [A -> 1..m] /\ \A a, b \in A : p[a] = p[b] => a = b
      /\ q \in [1..n -> B] /\ \A a, b \in 1..n : q[a] = q[b] => a = b
  BY <1>2, <1>4 DEF Bijection, Injection, IsInjective
<1> DEFINE f == [a \in A |-> q[p[a]]]
<1> HIDE DEF m, n
<1>6. \A a \in A : p[a] \in 1..n
  BY <1>1, <1>5
<1>7. f \in [A -> B] /\ IsInjective(f)
  BY <1>5, <1>6 DEF IsInjective
<1>8. QED
  BY <1>7

LEMMA NamesSuffice ==
    ASSUME NEW map \in [Offices -> Objects \cup {0}], NEW F \in SUBSET Offices, NEW a, NEW b
    PROVE  \E f \in [F -> Objects \ ({map[o] : o \in Offices \ F} \cup {a, b})] : IsInjective(f)
<1> DEFINE G == Offices \ F
           R == {map[o] : o \in G}
           U == R \cup {a, b}
           V == Objects \ U
<1>1. IsFiniteSet(Offices) /\ IsFiniteSet(Objects) /\ Cardinality(Objects) >= Cardinality(Offices) + 2
  BY ObjectsAssumption
<1>2. IsFiniteSet(G) /\ IsFiniteSet(F) /\ Cardinality(F) + Cardinality(G) = Cardinality(Offices)
  <2>1. IsFiniteSet(G) /\ IsFiniteSet(F) /\ Cardinality(G) = Cardinality(Offices) - Cardinality(Offices \cap F)
    BY <1>1, FS_Difference, FS_Subset
  <2>2. Offices \cap F = F
    OBVIOUS
  <2> HIDE DEF G
  <2>3. Cardinality(G) \in Nat /\ Cardinality(F) \in Nat /\ Cardinality(Offices) \in Nat
    BY <1>1, <2>1, FS_CardinalityType
  <2>4. Cardinality(G) = Cardinality(Offices) - Cardinality(F)
    BY <2>1, <2>2
  <2>5. Cardinality(F) + Cardinality(G) = Cardinality(Offices)
    BY <2>3, <2>4
  <2>6. QED
    BY <2>1, <2>5
<1>3. IsFiniteSet(R) /\ Cardinality(R) <= Cardinality(G)
  <2> DEFINE g == [o \in G |-> map[o]]
  <2>1. g \in Surjection(G, R)
    BY DEF Surjection
  <2> HIDE DEF g, G, R
  <2>2. QED
    BY <1>2, <2>1, FS_Surjection
<1>4. IsFiniteSet(U) /\ Cardinality(U) <= Cardinality(R) + 2
  <2> DEFINE W == R \cup {a}
  <2>1. IsFiniteSet(W) /\ Cardinality(W) = IF a \in R THEN Cardinality(R) ELSE Cardinality(R) + 1
    BY <1>3, FS_AddElement
  <2>2. IsFiniteSet(W \cup {b}) /\ Cardinality(W \cup {b}) = IF b \in W THEN Cardinality(W) ELSE Cardinality(W) + 1
    BY <2>1, FS_AddElement
  <2>3. U = W \cup {b}
    OBVIOUS
  <2>4. Cardinality(R) \in Nat
    BY <1>3, FS_CardinalityType
  <2> HIDE DEF W, U, R
  <2>5. QED
    BY <2>1, <2>2, <2>3, <2>4
<1>5. IsFiniteSet(V) /\ Cardinality(V) >= Cardinality(Objects) - Cardinality(U)
  <2>1. IsFiniteSet(V) /\ Cardinality(V) = Cardinality(Objects) - Cardinality(Objects \cap U)
    BY <1>1, FS_Difference
  <2>2. IsFiniteSet(Objects \cap U) /\ Cardinality(Objects \cap U) <= Cardinality(U)
    BY <1>4, FS_Intersection
  <2> HIDE DEF V, U
  <2>3. Cardinality(U) \in Nat /\ Cardinality(Objects) \in Nat /\ Cardinality(Objects \cap U) \in Nat
    BY <1>1, <1>4, <2>2, FS_CardinalityType
  <2>4. QED
    BY <2>1, <2>2, <2>3
<1> HIDE DEF G, R, U, V
<1>6. Cardinality(F) <= Cardinality(V)
  <2>1. /\ Cardinality(F) \in Nat /\ Cardinality(G) \in Nat /\ Cardinality(R) \in Nat /\ Cardinality(U) \in Nat
        /\ Cardinality(V) \in Nat /\ Cardinality(Objects) \in Nat /\ Cardinality(Offices) \in Nat
    BY <1>1, <1>2, <1>3, <1>4, <1>5, FS_CardinalityType
  <2>2. QED
    BY <1>1, <1>2, <1>3, <1>4, <1>5, <2>1
<1>7. \E f \in [F -> V] : IsInjective(f)
  BY <1>2, <1>5, <1>6, SmallerInjects
<1>8. QED
  BY <1>7 DEF V, U, R, G

-------------------------------------------------------------------------------
(* At the start, and again after a restart.                                *)

LEMMA NoSearchIs ==
    NoSearch \in Searches /\ NoSearch.op = "none" /\ NoSearch.step = "free" /\ NoObject \in Configs
<1>1. EmptyConfig \in Configs
  BY DEF EmptyConfig, Configs
<1>2. NoSearch = [op |-> "none", step |-> "free", exclude |-> {}, found |-> {}, want |-> EmptyConfig]
  BY DEF NoSearch
<1>3. NoSearch \in Searches /\ NoSearch.op = "none" /\ NoSearch.step = "free"
  BY <1>1, <1>2 DEF Searches
<1>4. QED
  BY <1>3 DEF NoObject, Configs

LEMMA StartedIs == Started /\ config \in Configs => IInv
<1> SUFFICES ASSUME Started, config \in Configs PROVE IInv
  OBVIOUS
<1>1. \A s \in Slots : search[s] = NoSearch
  BY DEF Started
<1>2. \A o \in Offices : printOffices[o] = 0
  BY DEF Started
<1>3. TypeOK
  <2>1. search \in [Slots -> Searches] /\ object \in [Objects -> Configs]
    BY NoSearchIs DEF Started
  <2>2. printOffices \in [Offices -> Objects \cup {0}]
    BY DEF Started
  <2>3. QED
    BY <1>2, <2>1, <2>2 DEF Started, TypeOK
<1>4. ReferInv /\ FoundInv /\ CardInv /\ LateInv /\ PreviewInv
  BY <1>1, NoSearchIs DEF Started, ReferInv, FoundInv, CardInv, LateInv, PreviewInv
<1>5. OneSearchInv
  BY <1>1, NoSearchIs DEF OneSearchInv
<1>6. DiesOnlyIfInitLate /\ ConfigTrue
  BY DEF Started, DiesOnlyIfInitLate, ConfigTrue
<1>7. QED
  BY <1>3, <1>4, <1>5, <1>6 DEF IInv

LEMMA OfficesInit == Init => IInv
<1>1. QED
  BY StartedIs DEF Init

LEMMA RestartStep == TypeOK /\ Restart => IInv'
<1> SUFFICES ASSUME TypeOK, Restart PROVE IInv'
  OBVIOUS
<1>1. Started'
  BY DEF Restart, Started
<1>2. config' \in Configs
  <2>1. config \in Configs /\ EmptyConfig \in Configs
    BY DEF TypeOK, EmptyConfig, Configs
  <2>2. Saving \subseteq Offices
    BY DEF Saving, TypeOK, Configs
  <2>3. [office : Saving, profile : {None}] \subseteq Configs
    BY <2>2 DEF Configs
  <2>4. QED
    BY <2>1, <2>3 DEF Restart
<1>3. (Started /\ config \in Configs => IInv)'
  BY StartedIs, PTL
<1>4. QED
  BY <1>1, <1>2, <1>3

-------------------------------------------------------------------------------
(* Requests that are posted.                                               *)

LEMMA PostKeeps ==
    ASSUME IInv, NEW op \in {"init", "view", "card"}, NEW exclude \in SUBSET Offices,
           NEW want \in Configs, AsyncSearchPrintOffices(op, exclude, want),
           op # "init" => Known \subseteq exclude,
           app = "running", init' \in {"no", "posted", "done"},
           UNCHANGED <<config, object, references, gui, app, initLate, doubled, restored>>
    PROVE  IInv'
<1> USE DEF references, gui
<1>0. /\ TypeOK /\ FoundInv /\ OneSearchInv /\ search \in [Slots -> Searches]
  BY DEF IInv, TypeOK
<1> DEFINE i == Min(FreeSlots)
           r == [op |-> op, step |-> "post", exclude |-> exclude, found |-> {}, want |-> want]
<1>1. i \in Slots
  <2>1. FreeSlots \subseteq Nat /\ FreeSlots # {}
    BY SlotsAssumption DEF FreeSlots, AsyncSearchPrintOffices
  <2>2. i \in FreeSlots
    BY <2>1, MinIsLeast
  <2>3. QED
    BY <2>2 DEF FreeSlots
<1>2. search' = [search EXCEPT ![i] = r]
  BY DEF AsyncSearchPrintOffices
<1>3. r \in Searches /\ r.op = op /\ r.step = "post" /\ r.exclude = exclude
  BY DEF Searches
<1> HIDE DEF i, r
<1>4. /\ search' \in [Slots -> Searches] /\ search'[i] = r
      /\ \A s \in Slots : s # i => search'[s] = search[s]
  BY <1>0, <1>1, <1>2, <1>3
<1>5. Known' = Known
  BY DEF Known
<1>6. overlapped' = (overlapped \/ \E s \in Slots : search[s].step = "post")
  BY DEF AsyncSearchPrintOffices
<1>7. TypeOK'
  BY <1>0, <1>4, <1>6 DEF TypeOK
<1>8. FoundInv'
  BY <1>0, <1>3, <1>4, <1>5 DEF FoundInv
<1>9. OneSearchInv'
  BY <1>0, <1>3, <1>4, <1>5, <1>6 DEF OneSearchInv
<1>10. ReferInv' /\ CardInv' /\ LateInv' /\ PreviewInv' /\ DiesOnlyIfInitLate' /\ ConfigTrue'
  BY DEF IInv, ReferInv, CardInv, LateInv, PreviewInv, DiesOnlyIfInitLate, ConfigTrue, OfficeOf, SelectedProfile
<1>11. QED
  BY <1>7, <1>8, <1>9, <1>10 DEF IInv

LEMMA LoadOfficesAtInitStep == IInv /\ LoadOfficesAtInit => IInv'
<1> SUFFICES ASSUME IInv, LoadOfficesAtInit PROVE IInv'
  OBVIOUS
<1>1. PICK want \in Configs : AsyncSearchPrintOffices("init", {}, want)
  BY DEF LoadOfficesAtInit, IInv, TypeOK, EmptyConfig, Configs
<1>2. init' \in {"no", "posted", "done"} /\ app = "running"
  BY DEF LoadOfficesAtInit
<1>3. UNCHANGED <<config, object, references, gui, app, initLate, doubled, restored>>
  BY DEF LoadOfficesAtInit
<1>4. PICK op \in {"init", "view", "card"} : op = "init"
  OBVIOUS
<1>5. QED
  BY <1>1, <1>2, <1>3, <1>4, PostKeeps

LEMMA LoadOfficesStep == IInv /\ LoadOffices => IInv'
<1> SUFFICES ASSUME IInv, LoadOffices PROVE IInv'
  OBVIOUS
<1>1. EmptyConfig \in Configs /\ Known \in SUBSET Offices
  BY DEF EmptyConfig, Configs, Known
<1>2. PICK op \in {"init", "view", "card"} : op = "view"
  OBVIOUS
<1>3. AsyncSearchPrintOffices(op, Known, EmptyConfig)
  BY <1>2 DEF LoadOffices
<1>4. init' \in {"no", "posted", "done"} /\ app = "running"
  BY DEF LoadOffices, IInv, TypeOK
<1>5. UNCHANGED <<config, object, references, gui, app, initLate, doubled, restored>>
  BY DEF LoadOffices
<1>6. QED
  BY <1>1, <1>3, <1>4, <1>5, PostKeeps

LEMMA DlgJobCardStep == ASSUME IInv, NEW o \in Offices, DlgJobCard(o) PROVE IInv'
<1>1. EmptyConfig \in Configs /\ Offices \ {o} \in SUBSET Offices /\ Known \subseteq Offices \ {o}
  BY DEF EmptyConfig, Configs, Known, DlgJobCard
<1>2. PICK op \in {"init", "view", "card"} : op = "card"
  OBVIOUS
<1>3. AsyncSearchPrintOffices(op, Offices \ {o}, EmptyConfig)
  BY <1>2 DEF DlgJobCard
<1>4. init' \in {"no", "posted", "done"} /\ app = "running"
  BY DEF DlgJobCard, IInv, TypeOK
<1>5. UNCHANGED <<config, object, references, gui, app, initLate, doubled, restored>>
  BY DEF DlgJobCard
<1>6. QED
  BY <1>1, <1>3, <1>4, <1>5, PostKeeps

-------------------------------------------------------------------------------
(* The answer.                                                             *)

(* What is referred to is kept.                                            *)
LEMMA KeptIs ==
    ASSUME NEW objects \in [Objects -> Configs], NEW map \in [Offices -> Objects \cup {0}],
           NEW sel \in Objects \cup {0}, NEW prev \in Objects \cup {0}
    PROVE  /\ Kept(objects, Live(map, sel, prev)) \in [Objects -> Configs]
           /\ \A x \in {sel, prev} \ {0} : Kept(objects, Live(map, sel, prev))[x] = objects[x]
           /\ \A o \in Offices : map[o] # 0 => Kept(objects, Live(map, sel, prev))[map[o]] = objects[map[o]]
<1> DEFINE live == Live(map, sel, prev)
<1>1. {sel, prev} \subseteq live /\ \A o \in Offices : map[o] \in live
  BY DEF Live
<1> HIDE DEF live
<1>2. Kept(objects, live) \in [Objects -> Configs]
  BY NoSearchIs DEF Kept
<1>3. \A x \in Objects : x \in live => Kept(objects, live)[x] = objects[x]
  BY DEF Kept
<1>4. QED
  BY <1>1, <1>2, <1>3 DEF live

(* The offices of F have new objects; the others, and what the selection   *)
(* and the preview refer to, are as they were.                             *)
Renewed(F) ==
    /\ printOffices' \in [Offices -> Objects \cup {0}] /\ object' \in [Objects -> Configs]
    /\ \A o \in F : printOffices'[o] # 0 /\ object'[printOffices'[o]] = NewOffice(o)
    /\ \A o \in Offices \ F :
          /\ printOffices'[o] = printOffices[o]
          /\ printOffices[o] # 0 => object'[printOffices[o]] = object[printOffices[o]]
    /\ \A x \in {selectedOffice, preview} \ {0} : object'[x] = object[x]

LEMMA AnswerRenews ==
    ASSUME TypeOK, NEW s \in Slots, SearchAnswer(s),
           ~(search' = [search EXCEPT ![s] = NoSearch] /\ UNCHANGED <<object, printOffices, doubled>>)
    PROVE  \E F \in SUBSET (Offices \ search[s].exclude) :
              /\ Renewed(F)
              /\ doubled' = (doubled \/ \E x \in {selectedOffice, preview} \ {0} : OfficeOf(x) \in F)
              /\ search' = IF search[s].op = "card" THEN [search EXCEPT ![s] = NoSearch]
                           ELSE [search EXCEPT ![s].step = "found", ![s].found = F, ![s].exclude = {}]
<1>0. /\ printOffices \in [Offices -> Objects \cup {0}] /\ object \in [Objects -> Configs]
      /\ selectedOffice \in Objects \cup {0} /\ preview \in Objects \cup {0} /\ 0 \notin Objects
  BY ObjectsAssumption DEF TypeOK
<1> DEFINE used(F) == {printOffices[o] : o \in Offices \ F} \cup {selectedOffice, preview}
           names(F) == CHOOSE f \in [F -> Objects \ used(F)] : IsInjective(f)
           map(F) == [o \in Offices |-> IF o \in F THEN names(F)[o] ELSE printOffices[o]]
           objects(F) == [x \in Objects |-> IF \E o \in F : names(F)[o] = x
                                            THEN NewOffice(CHOOSE o \in F : names(F)[o] = x) ELSE object[x]]
<1>1. PICK F \in SUBSET (Offices \ search[s].exclude) :
         /\ printOffices' = map(F)
         /\ object' = Kept(objects(F), Live(map(F), selectedOffice, preview))
         /\ doubled' = (doubled \/ \E x \in {selectedOffice, preview} \ {0} : OfficeOf(x) \in F)
         /\ search' = IF search[s].op = "card" THEN [search EXCEPT ![s] = NoSearch]
                      ELSE [search EXCEPT ![s].step = "found", ![s].found = F, ![s].exclude = {}]
  BY DEF SearchAnswer
<1> DEFINE u == used(F)
           n == names(F)
           m == map(F)
           b == objects(F)
<1>2. n \in [F -> Objects \ u] /\ IsInjective(n)
  <2>1. \E f \in [F -> Objects \ u] : IsInjective(f)
    BY <1>0, NamesSuffice
  <2> DEFINE I == {f \in [F -> Objects \ u] : IsInjective(f)}
  <2>2. QED
    BY <2>1
<1>3. /\ {selectedOffice, preview} \subseteq u
      /\ \A o \in Offices \ F : printOffices[o] \in u
  OBVIOUS
<1>4. m = [o \in Offices |-> IF o \in F THEN n[o] ELSE printOffices[o]]
  OBVIOUS
<1>5. b = [x \in Objects |-> IF \E o \in F : n[o] = x
                             THEN NewOffice(CHOOSE o \in F : n[o] = x) ELSE object[x]]
  OBVIOUS
<1>6. printOffices' = m /\ object' = Kept(b, Live(m, selectedOffice, preview))
  BY <1>1
<1> HIDE DEF u, n, m, b
<1>7. \A o \in F : n[o] \in Objects /\ n[o] \notin u /\ (CHOOSE p \in F : n[p] = n[o]) = o
  <2> SUFFICES ASSUME NEW o \in F
               PROVE  n[o] \in Objects /\ n[o] \notin u /\ (CHOOSE p \in F : n[p] = n[o]) = o
    OBVIOUS
  <2>1. \A p \in F : n[p] = n[o] => p = o
    BY <1>2 DEF IsInjective
  <2>2. QED
    BY <1>2, <2>1
<1>8. m \in [Offices -> Objects \cup {0}]
  BY <1>0, <1>4, <1>7
<1>9. \A o \in F : b[n[o]] = NewOffice(o)
  BY <1>5, <1>7
<1>10. \A x \in Objects : x \in u => b[x] = object[x]
  BY <1>5, <1>7
<1>11. b \in [Objects -> Configs]
  <2>1. \A x \in Objects : b[x] \in Configs
    <3> SUFFICES ASSUME NEW x \in Objects PROVE b[x] \in Configs
      OBVIOUS
    <3>1. CASE \E o \in F : n[o] = x
      BY <1>9, <3>1, NewOfficeIs
    <3>2. CASE ~\E o \in F : n[o] = x
      BY <1>0, <1>5, <3>2
    <3>3. QED
      BY <3>1, <3>2
  <2>2. QED
    BY <1>5, <2>1
<1>12. Renewed(F)
  <2>1. /\ object' \in [Objects -> Configs]
        /\ \A x \in {selectedOffice, preview} \ {0} : object'[x] = b[x]
        /\ \A o \in Offices : m[o] # 0 => object'[m[o]] = b[m[o]]
    <3> DEFINE k == Kept(b, Live(m, selectedOffice, preview))
    <3>1. /\ k \in [Objects -> Configs]
          /\ \A x \in {selectedOffice, preview} \ {0} : k[x] = b[x]
          /\ \A o \in Offices : m[o] # 0 => k[m[o]] = b[m[o]]
      <4>1. selectedOffice \in Objects \cup {0} /\ preview \in Objects \cup {0}
        BY <1>0
      <4>2. QED
        BY <1>8, <1>11, <4>1, KeptIs
    <3>2. object' = k
      BY <1>6
    <3> HIDE DEF k
    <3>3. QED
      BY <3>1, <3>2
  <2>2. \A x \in {selectedOffice, preview} \ {0} : object'[x] = object[x]
    BY <1>0, <1>3, <1>10, <2>1
  <2>3. \A o \in F : m[o] = n[o] /\ m[o] # 0 /\ object'[m[o]] = NewOffice(o)
    BY <1>0, <1>4, <1>7, <1>9, <2>1
  <2>4. \A o \in Offices \ F : m[o] = printOffices[o] /\ (m[o] # 0 => object'[m[o]] = object[m[o]])
    BY <1>0, <1>3, <1>4, <1>10, <2>1
  <2>5. QED
    BY <1>6, <1>8, <2>1, <2>2, <2>3, <2>4 DEF Renewed
<1>13. QED
  BY <1>1, <1>12

LEMMA SearchAnswerStep == ASSUME IInv, NEW s \in Slots, SearchAnswer(s) PROVE IInv'
<1> USE DEF gui
<1>0. /\ TypeOK /\ ReferInv /\ FoundInv /\ CardInv /\ LateInv /\ PreviewInv /\ OneSearchInv
      /\ DiesOnlyIfInitLate /\ ConfigTrue /\ search \in [Slots -> Searches]
  BY DEF IInv, TypeOK
<1>1. /\ app = "running" /\ search[s].step = "post"
      /\ UNCHANGED <<config, selectedOffice, preview, gui, init, app, initLate, overlapped, restored>>
  BY DEF SearchAnswer
<1>2. CASE search' = [search EXCEPT ![s] = NoSearch] /\ UNCHANGED <<object, printOffices, doubled>>
  <2>1. /\ search' \in [Slots -> Searches] /\ search'[s] = NoSearch
        /\ \A i \in Slots : i # s => search'[i] = search[i]
    BY <1>0, <1>2, NoSearchIs
  <2>2. Known' = Known
    BY <1>2 DEF Known
  <2>3. TypeOK' /\ ReferInv'
    BY <1>0, <1>1, <1>2, <2>1 DEF TypeOK, ReferInv, OfficeOf
  <2>4. FoundInv' /\ OneSearchInv'
    BY <1>0, <1>1, <2>1, <2>2, NoSearchIs DEF FoundInv, OneSearchInv
  <2>5. CardInv' /\ LateInv' /\ PreviewInv' /\ DiesOnlyIfInitLate' /\ ConfigTrue'
    BY <1>0, <1>1, <1>2 DEF CardInv, LateInv, PreviewInv, DiesOnlyIfInitLate, ConfigTrue, OfficeOf, SelectedProfile
  <2>6. QED
    BY <2>3, <2>4, <2>5 DEF IInv
<1>3. CASE ~(search' = [search EXCEPT ![s] = NoSearch] /\ UNCHANGED <<object, printOffices, doubled>>)
  <2>1. PICK F \in SUBSET (Offices \ search[s].exclude) :
           /\ Renewed(F)
           /\ doubled' = (doubled \/ \E x \in {selectedOffice, preview} \ {0} : OfficeOf(x) \in F)
           /\ search' = IF search[s].op = "card" THEN [search EXCEPT ![s] = NoSearch]
                        ELSE [search EXCEPT ![s].step = "found", ![s].found = F, ![s].exclude = {}]
    BY <1>0, <1>3, AnswerRenews
  <2> DEFINE r == IF search[s].op = "card" THEN NoSearch
                  ELSE [search[s] EXCEPT !.step = "found", !.found = F, !.exclude = {}]
  <2>2. search' = [search EXCEPT ![s] = r]
    BY <1>0, <2>1
  <2>3. r \in Searches /\ r.step # "post" /\ (r.step = "found" => r.found = F)
    <3>1. CASE search[s].op = "card"
      BY <3>1, NoSearchIs
    <3>2. CASE search[s].op # "card"
      <4>1. search[s] \in Searches /\ F \in SUBSET Offices
        BY <1>0
      <4>2. r = [search[s] EXCEPT !.step = "found", !.found = F, !.exclude = {}]
        BY <3>2
      <4> HIDE DEF r
      <4>3. QED
        BY <4>1, <4>2 DEF Searches
    <3>3. QED
      BY <3>1, <3>2
  <2> HIDE DEF r
  <2>4. /\ search' \in [Slots -> Searches] /\ search'[s] = r
        /\ \A i \in Slots : i # s => search'[i] = search[i]
    BY <1>0, <2>2, <2>3
  <2>5. Known \subseteq Known' /\ F \subseteq Known'
    BY <1>0, <2>1 DEF Known, Renewed, TypeOK
  <2>6. /\ \A o \in Offices : printOffices'[o] # 0 => object'[printOffices'[o]].office = o
        /\ \A x \in {selectedOffice, preview} \ {0} : OfficeOf(x)' = OfficeOf(x)
                                                  /\ SelectedProfile(x)' = SelectedProfile(x)
    BY <1>0, <2>1, NewOfficeIs DEF Renewed, TypeOK, OfficeOf, SelectedProfile
  <2>7. TypeOK'
    <3>1. placed' \subseteq {o \in Offices : printOffices'[o] # 0}
      BY <1>0, <1>1, <2>5 DEF TypeOK, Known
    <3>2. \A x \in {selectedOffice', preview'} \ {0} : object'[x] # NoObject
      BY <1>0, <1>1, <2>1 DEF TypeOK, Renewed
    <3>3. doubled' \in BOOLEAN
      BY <1>0, <2>1 DEF TypeOK
    <3>4. QED
      BY <1>0, <1>1, <2>1, <2>4, <2>6, <3>1, <3>2, <3>3 DEF TypeOK, Renewed
  <2>8. ReferInv'
    <3> SUFFICES ASSUME NEW x \in {selectedOffice, preview} \ {0}
                 PROVE  OfficeOf(x)' \in Offices /\ (~doubled' => printOffices'[OfficeOf(x)'] = x)
      BY <1>1 DEF ReferInv
    <3>1. OfficeOf(x) \in Offices /\ (~doubled => printOffices[OfficeOf(x)] = x) /\ OfficeOf(x)' = OfficeOf(x)
      BY <1>0, <2>6 DEF ReferInv
    <3>2. ~doubled' => ~doubled /\ OfficeOf(x) \notin F
      BY <2>1
    <3>3. QED
      BY <2>1, <3>1, <3>2 DEF Renewed
  <2>9. FoundInv' /\ OneSearchInv'
    <3>1. FoundInv'
      BY <1>0, <2>3, <2>4, <2>5 DEF FoundInv
    <3>2. ~overlapped => \A i \in Slots : search'[i].step # "post"
      BY <1>0, <1>1, <2>3, <2>4 DEF OneSearchInv
    <3>3. QED
      BY <1>1, <3>1, <3>2 DEF OneSearchInv
  <2>10. LateInv' /\ PreviewInv'
    BY <1>0, <1>1, <2>1, <2>6 DEF LateInv, PreviewInv, Renewed
  <2>11. CardInv' /\ DiesOnlyIfInitLate' /\ ConfigTrue'
    BY <1>0, <1>1, <2>6 DEF CardInv, DiesOnlyIfInitLate, ConfigTrue
  <2>12. QED
    BY <2>7, <2>8, <2>9, <2>10, <2>11 DEF IInv
<1>4. QED
  BY <1>2, <1>3

-------------------------------------------------------------------------------
(* The steps of the GUI: the map stays, what is referred to was referred   *)
(* to, and an object keeps its office.                                     *)

Referred ==
    /\ object' \in [Objects -> Configs]
    /\ {selectedOffice', preview'} \subseteq Objects \cup {0}
    /\ \A x \in {selectedOffice', preview'} \ {0} :
          /\ x \in {selectedOffice, preview} \/ \E o \in Offices : printOffices[o] = x
          /\ object'[x].office = object[x].office
    /\ \A o \in Offices : printOffices[o] # 0 => object'[printOffices[o]].office = o

LEMMA GuiKeeps ==
    ASSUME IInv, UNCHANGED <<printOffices, doubled, overlapped>>, Referred,
           search' = search \/ \E s \in Slots : search' = [search EXCEPT ![s] = NoSearch],
           config' \in Configs, shown' \in Profiles \cup {None}, page' \in {"where", "what"},
           card' \in Offices \cup {None}, placed' \subseteq Known, init' \in {"no", "posted", "done"},
           app' \in {"running", "nullOffice", "notSelected"}, initLate' \in BOOLEAN, restored' \in BOOLEAN,
           CardInv', LateInv', PreviewInv', DiesOnlyIfInitLate', ConfigTrue'
    PROVE  IInv'
<1>0. TypeOK /\ ReferInv /\ FoundInv /\ OneSearchInv /\ search \in [Slots -> Searches]
  BY DEF IInv, TypeOK
<1>1. Known' = Known
  BY DEF Known
<1>2. /\ search' \in [Slots -> Searches]
      /\ \A s \in Slots : search'[s] = search[s] \/ search'[s] = NoSearch
  BY <1>0, NoSearchIs
<1>3. \A x \in {selectedOffice', preview'} \ {0} :
         OfficeOf(x)' \in Offices /\ (~doubled' => printOffices'[OfficeOf(x)'] = x)
  <2> SUFFICES ASSUME NEW x \in {selectedOffice', preview'} \ {0}
               PROVE  OfficeOf(x)' \in Offices /\ (~doubled' => printOffices'[OfficeOf(x)'] = x)
    OBVIOUS
  <2>1. OfficeOf(x)' = object[x].office
    BY DEF Referred, OfficeOf
  <2>2. CASE x \in {selectedOffice, preview}
    BY <1>0, <2>1, <2>2 DEF ReferInv, OfficeOf
  <2>3. CASE \E o \in Offices : printOffices[o] = x
    BY <1>0, <2>1, <2>3 DEF TypeOK
  <2>4. QED
    BY <2>2, <2>3 DEF Referred
<1>4. ReferInv'
  BY <1>3 DEF ReferInv
<1>5. TypeOK'
  <2>1. \A x \in {selectedOffice', preview'} \ {0} : object'[x] # NoObject
    BY <1>3 DEF OfficeOf, NoObject
  <2>2. placed' \subseteq {o \in Offices : printOffices'[o] # 0}
    BY DEF Known
  <2>3. QED
    BY <1>0, <1>2, <2>1, <2>2 DEF TypeOK, Referred
<1>6. FoundInv'
  BY <1>0, <1>1, <1>2, NoSearchIs DEF FoundInv
<1>7. OneSearchInv'
  BY <1>0, <1>1, <1>2, NoSearchIs DEF OneSearchInv
<1>8. QED
  BY <1>4, <1>5, <1>6, <1>7 DEF IInv

(* Selecting an office, from its card or for a search.                     *)
LEMMA SelectKeeps ==
    ASSUME TypeOK, NEW o \in Offices, NEW profile \in Profiles \cup {None},
           SelectOfficeAndProfile(o, profile), UNCHANGED <<printOffices, preview>>
    PROVE  /\ Referred /\ config' \in Configs /\ restored' \in BOOLEAN
           /\ selectedOffice' = printOffices[o] /\ ConfigTrue'
           /\ profile = None /\ preview # 0 => object'[preview] = object[preview]
<1>0. /\ printOffices \in [Offices -> Objects \cup {0}] /\ object \in [Objects -> Configs] /\ config \in Configs
      /\ selectedOffice \in Objects \cup {0} /\ preview \in Objects \cup {0} /\ 0 \notin Objects
      /\ \A p \in Offices : printOffices[p] # 0 => object[printOffices[p]].office = p
  BY ObjectsAssumption DEF TypeOK
<1> DEFINE x == printOffices[o]
           b == IF x # 0 /\ profile # None THEN [object EXCEPT ![x].profile = profile] ELSE object
           k == Kept(b, Live(printOffices, x, preview))
<1>1. /\ config' = ConfigOf(o) /\ selectedOffice' = x /\ object' = k
      /\ restored' = (x # 0 /\ profile # None)
  BY DEF SelectOfficeAndProfile
<1>2. x \in Objects \cup {0}
  BY <1>0
<1>3. /\ b \in [Objects -> Configs] /\ \A y \in Objects : b[y].office = object[y].office
      /\ x = 0 \/ profile = None => b = object
  <2>1. CASE x # 0 /\ profile # None
    <3>1. object[x] \in Configs /\ profile \in Profiles
      BY <1>0, <1>2, <2>1
    <3> DEFINE c == [object[x] EXCEPT !.profile = profile]
    <3>2. c \in Configs /\ c.office = object[x].office
      BY <3>1 DEF Configs
    <3>3. b = [object EXCEPT ![x] = c]
      BY <2>1
    <3> HIDE DEF b, c, x
    <3>4. QED
      BY <1>0, <1>2, <2>1, <3>2, <3>3
  <2>2. CASE ~(x # 0 /\ profile # None)
    BY <1>0, <2>2
  <2>3. QED
    BY <2>1, <2>2
<1> HIDE DEF b
<1>4. /\ k \in [Objects -> Configs]
      /\ \A y \in {x, preview} \ {0} : k[y] = b[y]
      /\ \A p \in Offices : printOffices[p] # 0 => k[printOffices[p]] = b[printOffices[p]]
  <2>1. preview \in Objects \cup {0}
    BY <1>0
  <2>2. printOffices \in [Offices -> Objects \cup {0}]
    BY <1>0
  <2> HIDE DEF x
  <2>3. QED
    BY <1>2, <1>3, <2>1, <2>2, KeptIs
<1> HIDE DEF k
<1>5. \A p \in Offices : printOffices[p] # 0 => object'[printOffices[p]].office = p
  BY <1>0, <1>1, <1>3, <1>4
<1>6. \A y \in {selectedOffice', preview'} \ {0} : object'[y].office = object[y].office
  BY <1>0, <1>1, <1>2, <1>3, <1>4
<1>7. Referred
  BY <1>0, <1>1, <1>2, <1>4, <1>5, <1>6 DEF Referred
<1>8. config' \in Configs /\ (x # 0 => config'.office = o /\ config'.profile = SelectedProfile(x))
  <2>1. CASE x = 0
    BY <1>1, <2>1 DEF ConfigOf, EmptyConfig, Configs
  <2>2. CASE x # 0
    <3>1. config' = [office |-> o, profile |-> SelectedProfile(x)]
      BY <1>1, <2>2 DEF ConfigOf
    <3>2. SelectedProfile(x) \in Profiles
      BY <1>0, <2>2, EffectiveIs DEF SelectedProfile, OfficeOf
    <3>3. QED
      BY <3>1, <3>2 DEF Configs
  <2>3. QED
    BY <2>1, <2>2
<1>9. ConfigTrue'
  <2> SUFFICES ASSUME x # 0
               PROVE  /\ config'.office = OfficeOf(x)'
                      /\ restored' \/ config'.profile = SelectedProfile(x)'
    BY <1>1 DEF ConfigTrue
  <2>1. OfficeOf(x)' = o
    BY <1>5 DEF OfficeOf
  <2>2. profile = None => object'[x] = object[x]
    BY <1>1, <1>3, <1>4
  <2>3. profile = None => SelectedProfile(x)' = SelectedProfile(x)
    BY <2>2 DEF SelectedProfile, OfficeOf
  <2>4. QED
    BY <1>1, <1>8, <2>1, <2>3
<1>10. profile = None /\ preview # 0 => object'[preview] = object[preview]
  BY <1>1, <1>3, <1>4
<1>11. restored' \in BOOLEAN
  BY <1>1
<1>12. QED
  BY <1>1, <1>7, <1>8, <1>9, <1>10, <1>11

LEMMA RetrieveStep == ASSUME IInv, NEW s \in Slots, Retrieve(s) PROVE IInv'
<1>0. /\ TypeOK /\ ReferInv /\ FoundInv /\ CardInv /\ LateInv /\ PreviewInv
      /\ DiesOnlyIfInitLate /\ ConfigTrue /\ search \in [Slots -> Searches] /\ search[s] \in Searches
  BY DEF IInv, TypeOK
<1>1. /\ app = "running" /\ search[s].step = "found"
      /\ placed' = placed \cup search[s].found
      /\ search' = [search EXCEPT ![s] = NoSearch]
      /\ init' = IF search[s].op = "init" THEN "done" ELSE init
      /\ UNCHANGED <<printOffices, preview, shown, page, card, app, doubled, overlapped>>
  BY DEF Retrieve
<1>2. /\ placed \subseteq placed' /\ placed' \subseteq Known
      /\ init' \in {"no", "posted", "done"}
  BY <1>0, <1>1 DEF FoundInv, Known, TypeOK
<1>3. CardInv' /\ DiesOnlyIfInitLate'
  BY <1>0, <1>1, <1>2 DEF CardInv, DiesOnlyIfInitLate
<1>4. CASE search[s].want.office = None
  <2>1. UNCHANGED <<config, selectedOffice, object, restored, initLate>>
    BY <1>4 DEF Retrieve
  <2>2. Referred
    BY <1>0, <1>1, <2>1 DEF Referred, TypeOK
  <2>3. LateInv' /\ PreviewInv' /\ ConfigTrue'
    BY <1>0, <1>1, <2>1 DEF LateInv, PreviewInv, ConfigTrue, OfficeOf, SelectedProfile
  <2>4. QED
    BY <1>0, <1>1, <1>2, <1>3, <2>1, <2>2, <2>3, GuiKeeps DEF TypeOK
<1>5. CASE search[s].want.office # None
  <2> DEFINE o == search[s].want.office
             p == search[s].want.profile
  <2>1. o \in Offices /\ p \in Profiles \cup {None}
    BY <1>0, <1>5 DEF Searches, Configs
  <2>2. SelectOfficeAndProfile(o, p) /\ initLate' = (initLate \/ selectedOffice # 0)
    BY <1>5 DEF Retrieve
  <2> HIDE DEF o, p
  <2>3. Referred /\ config' \in Configs /\ restored' \in BOOLEAN /\ ConfigTrue'
    BY <1>0, <1>1, <2>1, <2>2, SelectKeeps
  <2>4. LateInv' /\ PreviewInv'
    BY <1>0, <1>1, <2>2 DEF LateInv, PreviewInv
  <2>5. initLate' \in BOOLEAN /\ DiesOnlyIfInitLate'
    BY <1>0, <1>1, <2>2 DEF TypeOK, DiesOnlyIfInitLate
  <2>6. QED
    BY <1>0, <1>1, <1>2, <1>3, <2>3, <2>4, <2>5, GuiKeeps DEF TypeOK
<1>6. QED
  BY <1>4, <1>5

LEMMA CardOkStep == IInv /\ CardOk => IInv'
<1> SUFFICES ASSUME IInv, CardOk PROVE IInv'
  OBVIOUS
<1>0. TypeOK /\ ReferInv /\ CardInv /\ LateInv /\ PreviewInv /\ DiesOnlyIfInitLate /\ ConfigTrue
  BY DEF IInv
<1>1. /\ app = "running" /\ card # None /\ SelectOfficeAndProfile(card, None) /\ card' = None
      /\ UNCHANGED <<printOffices, preview, shown, page, placed, search, init, app, initLate, doubled, overlapped>>
  BY DEF CardOk
<1>2. card \in Offices /\ page = "where" /\ printOffices[card] # 0 /\ placed \subseteq Known
  BY <1>0, <1>1 DEF CardInv, TypeOK, Known
<1>3. PICK p \in Profiles \cup {None} : p = None
  OBVIOUS
<1>4. /\ Referred /\ config' \in Configs /\ restored' \in BOOLEAN /\ ConfigTrue'
      /\ selectedOffice' = printOffices[card]
      /\ preview # 0 => object'[preview] = object[preview]
  BY <1>0, <1>1, <1>2, <1>3, SelectKeeps
<1>5. LateInv' /\ PreviewInv' /\ CardInv' /\ DiesOnlyIfInitLate'
  BY <1>0, <1>1, <1>2, <1>4 DEF LateInv, PreviewInv, CardInv, DiesOnlyIfInitLate
<1>6. QED
  BY <1>0, <1>1, <1>2, <1>4, <1>5, GuiKeeps DEF TypeOK

(* The steps that change neither the objects nor the references.           *)
LEMMA QuietStep ==
    ASSUME IInv,
           \/ \E o \in Offices : OnOfficeClicked(o)
           \/ CardCancel \/ SelectWhere \/ OnPrintClick
    PROVE  IInv'
<1>0. TypeOK /\ ReferInv /\ CardInv /\ LateInv /\ PreviewInv /\ DiesOnlyIfInitLate /\ ConfigTrue
  BY DEF IInv
<1>1. UNCHANGED <<config, object, printOffices, selectedOffice, preview, shown, placed, search, init,
                  initLate, doubled, overlapped, restored>>
  BY DEF references, history, OnOfficeClicked, CardCancel, SelectWhere, OnPrintClick
<1>2. Referred
  BY <1>0, <1>1 DEF Referred, TypeOK
<1>3. placed' \subseteq Known
  BY <1>0, <1>1 DEF TypeOK, Known
<1>4. /\ page' \in {"where", "what"} /\ card' \in Offices \cup {None}
      /\ app' \in {"running", "nullOffice", "notSelected"} /\ CardInv' /\ app = "running"
  BY <1>0, <1>1 DEF TypeOK, CardInv, OnOfficeClicked, CardCancel, SelectWhere, OnPrintClick, User
<1>5. /\ page' = "what" => page = "what"
      /\ app' # "running" => page = "what" /\ selectedOffice = 0
  BY DEF OnOfficeClicked, CardCancel, SelectWhere, OnPrintClick, User
<1>6. LateInv' /\ PreviewInv' /\ DiesOnlyIfInitLate'
  BY <1>0, <1>1, <1>5 DEF LateInv, PreviewInv, DiesOnlyIfInitLate, OfficeOf
<1>7. ConfigTrue'
  BY <1>0, <1>1, <1>4 DEF ConfigTrue, OfficeOf, SelectedProfile
<1>8. QED
  BY <1>0, <1>1, <1>2, <1>3, <1>4, <1>6, <1>7, GuiKeeps DEF TypeOK

(* An object the preview shows, or stops showing.                          *)
LEMMA ReferKeeps ==
    ASSUME TypeOK, NEW x \in {0, selectedOffice}, preview' = x,
           object' = Kept(object, Live(printOffices, selectedOffice, x)),
           UNCHANGED <<printOffices, selectedOffice>>
    PROVE  Referred /\ \A y \in {x, selectedOffice} \ {0} : object'[y] = object[y]
<1>1. /\ printOffices \in [Offices -> Objects \cup {0}] /\ object \in [Objects -> Configs]
      /\ \A p \in Offices : printOffices[p] # 0 => object[printOffices[p]].office = p
  BY DEF TypeOK
<1>2. selectedOffice \in Objects \cup {0} /\ x \in Objects \cup {0}
  BY DEF TypeOK
<1> DEFINE k == Kept(object, Live(printOffices, selectedOffice, x))
<1>3. /\ k \in [Objects -> Configs]
      /\ \A y \in {selectedOffice, x} \ {0} : k[y] = object[y]
      /\ \A p \in Offices : printOffices[p] # 0 => k[printOffices[p]] = object[printOffices[p]]
  BY <1>1, <1>2, KeptIs
<1>4. object' = k
  OBVIOUS
<1> HIDE DEF k
<1>5. QED
  BY <1>1, <1>2, <1>3, <1>4 DEF Referred

LEMMA ShowIs ==
    ASSUME TypeOK, selectedOffice # 0, Show(selectedOffice), UNCHANGED <<printOffices, selectedOffice>>
    PROVE  /\ Referred /\ preview' = selectedOffice /\ object'[selectedOffice] = object[selectedOffice]
           /\ shown' \in Profiles \cup {None} /\ shown' = object'[preview'].profile
<1>1. /\ preview' = selectedOffice /\ shown' = object[selectedOffice].profile
      /\ object' = Kept(object, Live(printOffices, selectedOffice, selectedOffice))
  BY DEF Show, CtrlPrintProfiles
<1>2. Referred /\ object'[selectedOffice] = object[selectedOffice]
  BY <1>1, ReferKeeps
<1>3. object[selectedOffice] \in Configs
  BY DEF TypeOK
<1>4. QED
  BY <1>1, <1>2, <1>3 DEF Configs

LEMMA ShowKeeps ==
    ASSUME IInv, app = "running", card = None, selectedOffice # 0, Show(selectedOffice),
           page' \in {"where", "what"},
           UNCHANGED <<config, printOffices, selectedOffice, card, placed, search, init, app, history>>
    PROVE  IInv'
<1> USE DEF history
<1>0. TypeOK /\ CardInv /\ LateInv /\ DiesOnlyIfInitLate /\ ConfigTrue
  BY DEF IInv
<1>1. /\ Referred /\ preview' = selectedOffice /\ object'[selectedOffice] = object[selectedOffice]
      /\ shown' \in Profiles \cup {None} /\ shown' = object'[preview'].profile
  BY <1>0, ShowIs
<1>2. LateInv' /\ PreviewInv'
  BY <1>1 DEF LateInv, PreviewInv
<1>3. CardInv' /\ DiesOnlyIfInitLate' /\ ConfigTrue'
  BY <1>0, <1>1 DEF CardInv, DiesOnlyIfInitLate, ConfigTrue, OfficeOf, SelectedProfile
<1>4. placed' \subseteq Known
  BY <1>0 DEF TypeOK, Known
<1>5. QED
  BY <1>0, <1>1, <1>2, <1>3, <1>4, GuiKeeps DEF TypeOK

(* Steps that leave the objects and what refers to them alone.             *)
LEMMA PageKeeps ==
    ASSUME IInv, card = None, app = "running",
           page' \in {"where", "what"}, app' \in {"running", "nullOffice", "notSelected"},
           ~initLate /\ page' = "what" => /\ selectedOffice # 0
                                          /\ preview # 0 => OfficeOf(selectedOffice) = OfficeOf(preview),
           app' # "running" => initLate,
           UNCHANGED <<config, object, references, shown, card, placed, search, init, history>>
    PROVE  IInv'
<1> USE DEF history, references
<1>0. TypeOK /\ CardInv /\ LateInv /\ DiesOnlyIfInitLate /\ ConfigTrue
  BY DEF IInv
<1>1. Referred
  BY <1>0 DEF Referred, TypeOK
<1>2. LateInv' /\ PreviewInv'
  BY <1>0 DEF LateInv, PreviewInv, OfficeOf
<1>3. CardInv' /\ DiesOnlyIfInitLate' /\ ConfigTrue'
  BY <1>0 DEF CardInv, DiesOnlyIfInitLate, ConfigTrue, OfficeOf, SelectedProfile
<1>4. placed' \subseteq Known
  BY <1>0 DEF TypeOK, Known
<1>5. QED
  BY <1>0, <1>1, <1>2, <1>3, <1>4, GuiKeeps DEF TypeOK

LEMMA SelectWhatStep == IInv /\ SelectWhat => IInv'
<1> SUFFICES ASSUME IInv, SelectWhat PROVE IInv'
  OBVIOUS
<1>1. /\ app = "running" /\ card = None /\ selectedOffice # 0 /\ page' = "what"
      /\ UNCHANGED <<config, printOffices, selectedOffice, card, placed, search, init, app, history>>
  BY DEF SelectWhat, User
<1>2. page' \in {"where", "what"} /\ app' \in {"running", "nullOffice", "notSelected"} /\ app' = "running"
  BY <1>1
<1>3. CASE preview # 0 /\ OfficeOf(selectedOffice) # OfficeOf(preview)
  <2>1. Show(selectedOffice)
    BY <1>3 DEF SelectWhat
  <2>2. QED
    BY <1>1, <1>2, <2>1, ShowKeeps
<1>4. CASE ~(preview # 0 /\ OfficeOf(selectedOffice) # OfficeOf(preview))
  <2>1. UNCHANGED <<config, object, references, shown, card, placed, search, init, history>>
    BY <1>1, <1>4 DEF SelectWhat, references
  <2>2. QED
    BY <1>1, <1>2, <1>4, <2>1, PageKeeps
<1>5. QED
  BY <1>3, <1>4

LEMMA OnBrowseResultStep == IInv /\ OnBrowseResult => IInv'
<1> SUFFICES ASSUME IInv, OnBrowseResult PROVE IInv'
  OBVIOUS
<1>1. /\ app = "running" /\ card = None /\ page = "what" /\ preview = 0
      /\ UNCHANGED <<config, printOffices, selectedOffice, page, card, placed, search, init, history>>
  BY DEF OnBrowseResult, User
<1>2. CASE selectedOffice # 0
  <2>1. Show(selectedOffice) /\ UNCHANGED app
    BY <1>2 DEF OnBrowseResult, PanelPrintPreview
  <2>2. page' \in {"where", "what"}
    BY <1>1
  <2>3. QED
    BY <1>1, <1>2, <2>1, <2>2, ShowKeeps
<1>3. CASE selectedOffice = 0
  <2>1. app' = "nullOffice" /\ UNCHANGED <<object, preview, shown>>
    BY <1>3 DEF OnBrowseResult, PanelPrintPreview
  <2>2. initLate
    BY <1>1, <1>3 DEF IInv, LateInv
  <2>3. page' \in {"where", "what"} /\ app' \in {"running", "nullOffice", "notSelected"}
    BY <1>1, <2>1
  <2>4. UNCHANGED <<config, object, references, shown, card, placed, search, init, history>>
    BY <1>1, <2>1 DEF references
  <2>5. QED
    BY <1>1, <2>1, <2>2, <2>3, <2>4, PageKeeps
<1>4. QED
  BY <1>2, <1>3

LEMMA OnPreviewCloseClickStep == IInv /\ OnPreviewCloseClick => IInv'
<1> SUFFICES ASSUME IInv, OnPreviewCloseClick PROVE IInv'
  OBVIOUS
<1> USE DEF history
<1>0. TypeOK /\ CardInv /\ LateInv /\ DiesOnlyIfInitLate /\ ConfigTrue
  BY DEF IInv
<1>1. /\ app = "running" /\ card = None /\ page = "what" /\ preview' = 0 /\ shown' = None
      /\ object' = Kept(object, Live(printOffices, selectedOffice, 0))
      /\ UNCHANGED <<config, printOffices, selectedOffice, page, card, placed, search, init, app, history>>
  BY DEF OnPreviewCloseClick, User
<1>2. Referred /\ \A y \in {selectedOffice} \ {0} : object'[y] = object[y]
  <2>1. PICK x \in {0, selectedOffice} : x = 0
    OBVIOUS
  <2>2. Referred /\ \A y \in {x, selectedOffice} \ {0} : object'[y] = object[y]
    BY <1>0, <1>1, <2>1, ReferKeeps
  <2>3. QED
    BY <2>2
<1>3. LateInv' /\ PreviewInv'
  BY <1>0, <1>1 DEF LateInv, PreviewInv
<1>4. CardInv' /\ DiesOnlyIfInitLate' /\ ConfigTrue'
  BY <1>0, <1>1, <1>2 DEF CardInv, DiesOnlyIfInitLate, ConfigTrue, OfficeOf, SelectedProfile
<1>5. placed' \subseteq Known
  BY <1>0, <1>1 DEF TypeOK, Known
<1>6. QED
  BY <1>0, <1>1, <1>2, <1>3, <1>4, <1>5, GuiKeeps DEF TypeOK

LEMMA OnPrintProfileSelectStep ==
    ASSUME IInv, NEW profile \in Profiles, OnPrintProfileSelect(profile) PROVE IInv'
<1>0. TypeOK /\ ReferInv /\ CardInv /\ LateInv /\ PreviewInv /\ DiesOnlyIfInitLate /\ ConfigTrue
  BY DEF IInv
<1>1. /\ app = "running" /\ card = None /\ page = "what" /\ preview # 0
      /\ shown' = profile /\ restored' = FALSE
      /\ object' = [object EXCEPT ![preview].profile = profile]
      /\ config' = UpdatedConfig(object')
      /\ UNCHANGED <<printOffices, selectedOffice, preview, page, card, placed, search, init, app,
                     initLate, doubled, overlapped>>
  BY DEF OnPrintProfileSelect, User, OnCmbSelectionChanged, references
<1>2. /\ preview \in Objects /\ object \in [Objects -> Configs] /\ config \in Configs
      /\ selectedOffice \in Objects \cup {0} /\ 0 \notin Objects
  BY <1>0, <1>1, ObjectsAssumption DEF TypeOK
<1> DEFINE c == [object[preview] EXCEPT !.profile = profile]
<1>3. c \in Configs /\ c.office = object[preview].office /\ c.profile = profile
  BY <1>2 DEF Configs
<1>4. object' = [object EXCEPT ![preview] = c]
  BY <1>1
<1> HIDE DEF c
<1>5. /\ object' \in [Objects -> Configs] /\ object'[preview].profile = profile
      /\ \A y \in Objects : object'[y].office = object[y].office
  BY <1>2, <1>3, <1>4
<1>6. Referred
  BY <1>0, <1>1, <1>2, <1>5 DEF Referred, TypeOK
<1>7. LateInv' /\ PreviewInv'
  BY <1>0, <1>1, <1>2, <1>5 DEF LateInv, PreviewInv, OfficeOf
<1> DEFINE p == IF selectedOffice = 0 THEN None
                ELSE Effective(object'[selectedOffice].office, object'[selectedOffice].profile)
<1>8. p \in Profiles \cup {None}
  <2>1. CASE selectedOffice # 0
    <3>1. object'[selectedOffice].office \in Offices
      BY <1>0, <1>2, <1>5, <2>1 DEF ReferInv, OfficeOf
    <3>2. QED
      BY <2>1, <3>1, EffectiveIs
  <2>2. QED
    BY <2>1
<1>9. config' = [config EXCEPT !.profile = p]
  BY <1>1 DEF UpdatedConfig
<1>10. selectedOffice # 0 => p = SelectedProfile(selectedOffice)'
  BY <1>1 DEF SelectedProfile, OfficeOf
<1> HIDE DEF p
<1>11. config' \in Configs /\ config'.office = config.office /\ config'.profile = p
  BY <1>2, <1>8, <1>9 DEF Configs
<1>12. ConfigTrue'
  BY <1>0, <1>1, <1>2, <1>5, <1>10, <1>11 DEF ConfigTrue, OfficeOf
<1>13. CardInv' /\ DiesOnlyIfInitLate'
  BY <1>0, <1>1 DEF CardInv, DiesOnlyIfInitLate
<1>14. placed' \subseteq Known
  BY <1>0, <1>1 DEF TypeOK, Known
<1>15. QED
  BY <1>0, <1>1, <1>6, <1>7, <1>11, <1>12, <1>13, <1>14, GuiKeeps DEF TypeOK

-------------------------------------------------------------------------------
LEMMA OfficesStep == IInv /\ [Next]_vars => IInv'
<1> SUFFICES ASSUME IInv, [Next]_vars PROVE IInv'
  OBVIOUS
<1>1. CASE LoadOfficesAtInit
  BY <1>1, LoadOfficesAtInitStep
<1>2. CASE LoadOffices
  BY <1>2, LoadOfficesStep
<1>3. CASE \E o \in Offices : DlgJobCard(o)
  BY <1>3, DlgJobCardStep
<1>4. CASE \E s \in Slots : SearchAnswer(s)
  BY <1>4, SearchAnswerStep
<1>5. CASE \E s \in Slots : Retrieve(s)
  BY <1>5, RetrieveStep
<1>6. CASE CardOk
  BY <1>6, CardOkStep
<1>7. CASE (\E o \in Offices : OnOfficeClicked(o)) \/ CardCancel \/ SelectWhere \/ OnPrintClick
  BY <1>7, QuietStep
<1>8. CASE SelectWhat
  BY <1>8, SelectWhatStep
<1>9. CASE OnBrowseResult
  BY <1>9, OnBrowseResultStep
<1>10. CASE OnPreviewCloseClick
  BY <1>10, OnPreviewCloseClickStep
<1>11. CASE \E profile \in Profiles : OnPrintProfileSelect(profile)
  BY <1>11, OnPrintProfileSelectStep
<1>12. CASE Restart
  BY <1>12, RestartStep DEF IInv
<1>13. CASE UNCHANGED vars
  <2>1. /\ (TypeOK' <=> TypeOK) /\ (FoundInv' <=> FoundInv) /\ (CardInv' <=> CardInv)
        /\ (OneSearchInv' <=> OneSearchInv) /\ (DiesOnlyIfInitLate' <=> DiesOnlyIfInitLate)
    BY <1>13 DEF vars, references, gui, history, TypeOK, FoundInv, Known, CardInv, OneSearchInv, DiesOnlyIfInitLate
  <2>2. /\ (ReferInv' <=> ReferInv) /\ (LateInv' <=> LateInv) /\ (PreviewInv' <=> PreviewInv)
        /\ (ConfigTrue' <=> ConfigTrue)
    BY <1>13 DEF vars, references, gui, history, ReferInv, LateInv, PreviewInv, ConfigTrue, OfficeOf, SelectedProfile
  <2>3. QED
    BY <2>1, <2>2 DEF IInv
<1>14. QED
  BY <1>1, <1>2, <1>3, <1>4, <1>5, <1>6, <1>7, <1>8, <1>9, <1>10, <1>11, <1>12, <1>13 DEF Next

LEMMA OfficesInv == Spec => []IInv
<1>1. QED
  BY OfficesInit, OfficesStep, PTL DEF Spec

(* What the preview shows is what is printed with, however many offices,   *)
(* profiles and searches there are: the preview refers to the very object  *)
(* that is selected, as both are what the map has for their office.        *)
THEOREM ShownIsPrinted == Spec => []PrintsWhatIsShown
<1>1. IInv => PrintsWhatIsShown
  <2> SUFFICES ASSUME IInv, page = "what", preview # 0, app = "running", ~initLate, ~doubled
               PROVE  /\ selectedOffice # 0 /\ OfficeOf(selectedOffice) = OfficeOf(preview)
                      /\ SelectedProfile(selectedOffice) = Effective(OfficeOf(preview), shown)
    BY DEF PrintsWhatIsShown
  <2>1. /\ selectedOffice # 0 /\ OfficeOf(selectedOffice) = OfficeOf(preview)
        /\ shown = object[preview].profile
    BY DEF IInv, LateInv, PreviewInv
  <2>2. selectedOffice = preview
    BY <2>1 DEF IInv, ReferInv
  <2>3. QED
    BY <2>1, <2>2 DEF SelectedProfile
<1>2. QED
  BY <1>1, OfficesInv, PTL

(* The panel is made, and a job printed, without a selected office only    *)
(* after the first search deselected it.                                   *)
THEOREM DeathNeedsLateSearch == Spec => []DiesOnlyIfInitLate
<1>1. IInv => DiesOnlyIfInitLate
  BY DEF IInv
<1>2. QED
  BY <1>1, OfficesInv, PTL

(* The configuration file names the office that is printed with.           *)
THEOREM ConfigIsTrue == Spec => []ConfigTrue
<1>1. IInv => ConfigTrue
  BY DEF IInv
<1>2. QED
  BY <1>1, OfficesInv, PTL

(* An answer alone replaces no object but those of the first search.       *)
THEOREM ObjectsStay == Spec => ReplacedOnlyIfOverlapped
<1> DEFINE Stays ==
      \A s \in Slots : SearchAnswer(s) /\ search[s].op # "init" /\ ~overlapped =>
          \A o \in Offices : printOffices[o] # 0 =>
            object'[printOffices'[o]] = object[printOffices[o]]
<1>1. ASSUME IInv PROVE Stays
  <2> SUFFICES ASSUME NEW s \in Slots, SearchAnswer(s), search[s].op # "init", ~overlapped,
                      NEW o \in Offices, printOffices[o] # 0
               PROVE  object'[printOffices'[o]] = object[printOffices[o]]
    OBVIOUS
  <2>1. o \in search[s].exclude
    BY <1>1 DEF IInv, OneSearchInv, SearchAnswer, Known
  <2>2. CASE UNCHANGED <<object, printOffices, doubled>>
    BY <2>2
  <2>3. CASE ~UNCHANGED <<object, printOffices, doubled>>
    <3>1. TypeOK
      BY <1>1 DEF IInv
    <3>2. PICK F \in SUBSET (Offices \ search[s].exclude) : Renewed(F)
      BY <2>3, <3>1, AnswerRenews
    <3>3. QED
      BY <2>1, <3>2 DEF Renewed
  <2>4. QED
    BY <2>2, <2>3
<1>2. IInv => [Stays]_vars
  BY <1>1
<1> HIDE DEF Stays
<1>3. Spec => [][Stays]_vars
  BY <1>2, OfficesInv, PTL
<1>4. QED
  BY <1>3 DEF ReplacedOnlyIfOverlapped, Stays
===============================================================================
