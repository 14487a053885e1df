----------------------------- MODULE SessionProofs -----------------------------
(* Proofs about Session, for any users and any number of requests at once. *)
EXTENDS Session, SequencesExt, SequenceTheorems, WellFoundedInduction, TLAPS

USE SlotsAssumption, ModesAssumption, ValuesAssumption

-------------------------------------------------------------------------------
(* What the operators on sequences keep.                                   *)

(* Taking the last element off. *)
LEMMA FrontKeeps ==
    ASSUME NEW S, NEW s \in Seq(S), s # <<>>
    PROVE  /\ Front(s) \in Seq(S) /\ Len(s) \in Nat \ {0} /\ Len(Front(s)) = Len(s) - 1
           /\ \A i \in 1..(Len(s) - 1) : Front(s)[i] = s[i]
           /\ Last(s) \in S /\ Last(s) = s[Len(s)]
<1>1. Len(s) \in Nat \ {0} /\ \A i \in 1..Len(s) : s[i] \in S
  BY EmptySeq, ElementOfSeq
<1> DEFINE t == Front(s)
<1>2. t = SubSeq(s, 1, Len(s) - 1)
  BY DEF Front
<1>3. 1 \in Int /\ Len(s) - 1 \in Int /\ \A i \in 1..(Len(s) - 1) : i \in 1..Len(s) /\ s[i] \in S
  BY <1>1
<1>4. t \in Seq(S) /\ Len(t) = Len(s) - 1 /\ \A i \in 1..(Len(s) - 1) : t[i] = s[i]
  <2>1. /\ SubSeq(s, 1, Len(s) - 1) \in Seq(S)
        /\ Len(SubSeq(s, 1, Len(s) - 1)) = IF 1 <= Len(s) - 1 THEN (Len(s) - 1) - 1 + 1 ELSE 0
        /\ \A i \in 1..((Len(s) - 1) - 1 + 1) : SubSeq(s, 1, Len(s) - 1)[i] = s[1 + i - 1]
    BY <1>1, <1>3, SubSeqProperties
  <2>2. /\ t \in Seq(S) /\ Len(t) = IF 1 <= Len(s) - 1 THEN (Len(s) - 1) - 1 + 1 ELSE 0
        /\ \A i \in 1..((Len(s) - 1) - 1 + 1) : t[i] = s[1 + i - 1]
    BY <1>2, <2>1
  <2> HIDE DEF t
  <2>3. Len(t) = Len(s) - 1
    <3> DEFINE n == Len(s)
               l == Len(t)
    <3>1. n \in Nat \ {0} /\ l = IF 1 <= n - 1 THEN (n - 1) - 1 + 1 ELSE 0
      BY <1>1, <2>2
    <3> HIDE DEF n, l
    <3>2. l = n - 1
      BY <3>1
    <3>3. QED
      BY <3>2 DEF n, l
  <2>4. \A i \in 1..(Len(s) - 1) : i \in 1..((Len(s) - 1) - 1 + 1) /\ 1 + i - 1 = i
    BY <1>1
  <2>5. \A i \in 1..(Len(s) - 1) : t[i] = s[i]
    BY <2>2, <2>4
  <2>6. QED
    BY <2>2, <2>3, <2>5
<1>5. Last(s) = s[Len(s)] /\ Last(s) \in S
  BY <1>1 DEF Last
<1>6. QED
  BY <1>1, <1>4, <1>5

(* Min of a set of naturals is in it: the order of the naturals is well    *)
(* founded.                                                                *)
LEMMA MinIsLeast ==
    ASSUME NEW S, S \subseteq Nat, S # {}
    PROVE  Min(S) \in S /\ \A y \in S : Min(S) <= y
<1> DEFINE R == {pair \in Nat \X Nat : pair[1] < pair[2]}
<1>1. IsWellFoundedOn(R, Nat)
  BY NatLessThanWellFounded DEF OpToRel
<1>2. \A x, y \in Nat : y < x => <<y, x>> \in R
  OBVIOUS
<1> HIDE DEF R
<1>3. PICK x \in S : \A y \in S : ~(<<y, x>> \in R)
  BY <1>1, WFMin
<1>4. \A y \in S : x \in Nat /\ y \in Nat /\ ~(y < x)
  BY <1>2, <1>3
<1>5. \A y \in S : x <= y
  BY <1>4
<1>6. QED
  BY <1>5 DEF Min

(* Requests as the code makes them.                                        *)
LEMMA NoRequestIs ==
    /\ NoRequest \in Requests /\ NoRequest.op = "none" /\ NoRequest.op \notin SessionOps
    /\ NoRequest.owner = Nobody /\ NoRequest.owner # Main /\ NoRequest.owner \notin 1..2
    /\ NoRequest.step = "free"
<1>1. NoRequest = [op |-> "none", step |-> "free", who |-> None, token |-> None,
                   owner |-> -1, first |-> FALSE]
  BY DEF NoRequest, Nobody
<1>2. -1 \in Nobody..2 /\ -1 \notin 1..2 /\ None \in Identity
  BY DEF Nobody, Identity
<1>3. QED
  BY <1>1, <1>2 DEF Requests, SessionOps, Nobody, Main

LEMMA RequestTypes ==
    ASSUME NEW op \in SessionOps \cup OtherModes, NEW who \in Users \cup {None},
           NEW owner \in Nobody..2, NEW first \in BOOLEAN
    PROVE  /\ Request(op, who, owner, first) \in Requests
           /\ Request(op, who, owner, first).op = op
           /\ Request(op, who, owner, first).step = "post"
           /\ Request(op, who, owner, first).who = who
           /\ Request(op, who, owner, first).owner = owner
<1> DEFINE r == Request(op, who, owner, first)
<1>1. NoRequest \in Requests
  BY NoRequestIs
<1>2. r = [NoRequest EXCEPT !.op = op, !.step = "post", !.who = who, !.owner = owner, !.first = first]
  BY DEF Request
<1> HIDE DEF r
<1>3. r \in Requests /\ r.op = op /\ r.step = "post" /\ r.who = who /\ r.owner = owner
  BY <1>1, <1>2 DEF Requests
<1>4. QED
  BY <1>3 DEF r

LEMMA SessionInit == Init => IInv
<1> SUFFICES ASSUME Init PROVE IInv
  OBVIOUS
<1>1. <<>> \in Seq(LoginDialogs) /\ Len(<<>>) = 0
  BY EmptySeq
<1>2. \A i \in Slots : req[i] = NoRequest
  BY DEF Init
<1>3. ~EndedUnread
  BY <1>1 DEF Init, EndedUnread
<1>5. TypeOK
  <2>1. req \in [Slots -> Requests] /\ \A i \in Slots : req[i].owner \notin 1..2
    BY <1>2, NoRequestIs DEF Init
  <2>2. None \in Identity
    BY DEF Identity
  <2>3. dialogs \in Seq(LoginDialogs) /\ Len(dialogs) <= 2
    BY <1>1 DEF Init
  <2>4. ctx \in Identity /\ userInfo \in Identity /\ header \in Identity /\ creds \in Users \cup {None, Torn}
    BY <2>2 DEF Init
  <2>5. /\ loginUi \in BOOLEAN /\ offices \in {"no", "posted", "failed"}
        /\ app \in {"new", "running", "fatal", "nullContext"}
        /\ trouble \in {"none", "halfDone", "overlapped"} /\ told \in BOOLEAN
    BY DEF Init
  <2>6. QED
    BY <2>1, <2>3, <2>4, <2>5 DEF TypeOK
<1>6. DialogInv /\ RequestInv
  BY <1>1, <1>2, NoRequestIs DEF Init, DialogInv, RequestInv, LoginOps
<1>7. AloneInv /\ StepInv /\ HeaderInv
  BY <1>2, <1>3, NoRequestIs DEF Init, AloneInv, StepInv, Progress, HeaderInv, LoginOps, Outstanding
<1>8. ToldInv /\ DiesOnlyIfOverlapped
  BY DEF Init, ToldInv, DiesOnlyIfOverlapped
<1>9. QED
  BY <1>5, <1>6, <1>7, <1>8 DEF IInv

-------------------------------------------------------------------------------
(* The answers.  What they have in common: one request goes on or ends,    *)
(* and of the GUI nothing changes.                                         *)

Answered(i, r) ==
    /\ req' = [req EXCEPT ![i] = r]
    /\ \/ r = NoRequest /\ req[i].owner = Nobody
       \/ r.op = req[i].op /\ r.owner = req[i].owner /\ (r.step \in Done \/ r.who = req[i].who)

LEMMA FulfilStep ==
    ASSUME TypeOK, NEW i \in Slots, NEW result \in Done, Fulfil(i, result), req[i].op # "none"
    PROVE  \E r \in Requests : Answered(i, r) /\ (r.op # "none" => r.step = result)
<1> DEFINE r == IF req[i].owner = Nobody THEN NoRequest
                ELSE [req[i] EXCEPT !.step = result, !.who = None, !.token = None]
<1>1. req' = [req EXCEPT ![i] = r]
  BY DEF Fulfil
<1>2. req[i] \in Requests
  BY DEF TypeOK
<1>3. r \in Requests
  BY <1>2, NoRequestIs DEF Requests, Identity
<1>4. req[i].owner # Nobody => r.op = req[i].op /\ r.owner = req[i].owner /\ r.step = result
  BY <1>2 DEF Requests
<1> HIDE DEF r
<1>5. req[i].owner = Nobody => r = NoRequest
  BY DEF r
<1>6. QED
  BY <1>1, <1>3, <1>4, <1>5, NoRequestIs DEF Answered

LEMMA GoesToStep ==
    ASSUME TypeOK, NEW i \in Slots, NEW step \in {"hasCtx", "info", "anon"}, NEW token \in Identity,
           GoesTo(i, step, token)
    PROVE  \E r \in Requests : Answered(i, r) /\ r.op = req[i].op /\ r.step = step /\ r.token = token
<1> DEFINE r == [req[i] EXCEPT !.step = step, !.token = token]
<1>1. req[i] \in Requests
  BY DEF TypeOK
<1>2. req' = [req EXCEPT ![i] = r]
  BY <1>1 DEF GoesTo, TypeOK
<1>3. /\ r \in Requests /\ r.op = req[i].op /\ r.owner = req[i].owner /\ r.who = req[i].who
      /\ r.step = step /\ r.token = token
  BY <1>1 DEF Requests
<1> HIDE DEF r
<1>4. QED
  BY <1>2, <1>3 DEF Answered

(* Progress, in the next state. *)
ProgressAfter(r) ==
    /\ r.op \in LoginOps =>
          /\ r.step \in {"hasCtx", "info"} => ctx' = r.who
          /\ r.step = "info" => r.token = ctx'
          /\ r.step = "ok" => userInfo' = ctx' /\ ctx' \in Users
    /\ r.op \in {"anon", "logout"} /\ r.step = "ok" => ctx' = Anon
    /\ r.op = "logout" /\ r.step \in {"anon", "ok"} => creds' \notin Users

LEMMA Progresses == \A i \in Slots : Progress(req[i])' <=> ProgressAfter(req'[i])
<1>1. QED
  BY DEF Progress, ProgressAfter

(* What such a step has to respect. *)
LEMMA AnswerKeeps ==
    ASSUME IInv, NEW i \in Slots, NEW r \in Requests, Answered(i, r),
           req[i].op # "none", req[i].step \notin Done,
           app = "running", UNCHANGED <<gui, told>>,
           app' = "running" \/ (app' = "nullContext" /\ ~Alone),
           ctx' \in Identity, userInfo' \in Identity, creds' \in Users \cup {None, Torn},
           trouble' = trouble \/ (trouble = "none" /\ trouble' = "halfDone"),
           creds' \in Users => creds' = creds \/ req[i].op = "login",
           ~Outstanding(i) => UNCHANGED <<ctx, userInfo>>,
           Alone /\ Outstanding(i) => ProgressAfter(r),
           trouble' = "none" /\ Outstanding(i) /\ r.step \in {"post", "failed"} => header \in {None, ctx'}
    PROVE  IInv'
<1> USE DEF gui
<1>0. /\ TypeOK /\ DialogInv /\ RequestInv /\ AloneInv /\ StepInv /\ HeaderInv /\ ToldInv
      /\ req \in [Slots -> Requests]
  BY DEF IInv, TypeOK
<1>1. /\ req' \in [Slots -> Requests] /\ req'[i] = r /\ \A j \in Slots : j # i => req'[j] = req[j]
      /\ \/ r = NoRequest /\ req[i].owner = Nobody
         \/ r.op = req[i].op /\ r.owner = req[i].owner /\ (r.step \in Done \/ r.who = req[i].who)
  BY <1>0 DEF Answered
<1>2. TypeOK'
  <2>1. \A j \in Slots : req'[j].owner \in 1..2 => req'[j].owner <= Len(dialogs)
    BY <1>0, <1>1, NoRequestIs DEF TypeOK
  <2>2. QED
    BY <1>0, <1>1, <2>1 DEF TypeOK
<1>3. DialogInv'
  <2>1. \A j \in Slots : req'[j].op = "quiet" => req[j].op = "quiet"
    BY <1>1, NoRequestIs
  <2>2. QED
    BY <1>0, <2>1 DEF DialogInv
<1>4. RequestInv'
  <2>1. /\ r.op = "none" => r = NoRequest
        /\ r.owner = Main <=> r.op \in SessionOps \ {"login"}
        /\ r.op \in LoginOps /\ r.step \notin Done => r.who \in Users
    BY <1>0, <1>1, NoRequestIs DEF RequestInv, LoginOps
  <2>2. QED
    BY <1>0, <1>1, <2>1 DEF RequestInv
<1>5. (Alone' <=> Alone) /\ (EndedUnread' <=> EndedUnread)
  BY DEF Alone, EndedUnread
<1>6. \A j \in Slots : req'[j].op \in SessionOps => req[j].op \in SessionOps /\ req'[j].owner = req[j].owner
  BY <1>1, NoRequestIs
<1>7. AloneInv'
  <2>1. Outstanding(i) \/ UNCHANGED <<ctx, userInfo>>
    OBVIOUS
  <2>2. QED
    BY <1>0, <1>5, <1>6, <2>1 DEF AloneInv, Outstanding
<1>8. StepInv'
  <2>1. ASSUME Alone, NEW j \in Slots PROVE ProgressAfter(req'[j])
    <3>1. CASE req'[j].op \notin SessionOps
      BY <3>1 DEF ProgressAfter, LoginOps, SessionOps
    <3>2. CASE req'[j].op \in SessionOps /\ j = i
      BY <1>1, <1>6, <2>1, <3>2 DEF Outstanding
    <3>3. CASE req'[j].op \in SessionOps /\ j # i
      <4>1. ~Outstanding(i)
        BY <1>0, <1>6, <2>1, <3>3 DEF AloneInv, Outstanding
      <4>2. Progress(req[j]) /\ req'[j] = req[j] /\ UNCHANGED <<ctx, userInfo>>
        BY <1>0, <1>1, <2>1, <3>3, <4>1 DEF StepInv
      <4>3. creds' \in Users => creds \in Users
        BY <4>1 DEF Outstanding, SessionOps
      <4>4. QED
        BY <4>2, <4>3 DEF Progress, ProgressAfter
    <3>4. QED
      BY <3>1, <3>2, <3>3
  <2>2. QED
    BY <1>5, <2>1, Progresses DEF StepInv
<1>9. HeaderInv'
  <2>1. ASSUME trouble' = "none", ~EndedUnread,
               \A j \in Slots : req'[j].op \in SessionOps => req'[j].step \in {"post", "failed"}
        PROVE  header \in {None, ctx'}
    <3>1. Alone /\ trouble = "none"
      BY <2>1 DEF Alone
    <3>2. CASE r.op \in SessionOps
      BY <1>1, <1>6, <2>1, <3>2 DEF Outstanding
    <3>3. CASE r.op \notin SessionOps
      <4>1. ~Outstanding(i)
        BY <1>0, <1>1, <3>1, <3>3, NoRequestIs DEF AloneInv, Outstanding
      <4>2. \A j \in Slots : Outstanding(j) => req[j].step \in {"post", "failed"}
        BY <1>1, <2>1, <4>1 DEF Outstanding
      <4>3. QED
        BY <1>0, <2>1, <3>1, <4>1, <4>2 DEF HeaderInv
    <3>4. QED
      BY <3>2, <3>3
  <2>2. QED
    BY <1>5, <2>1 DEF HeaderInv, Outstanding
<1>10. ToldInv'
  <2>1. \A j \in Slots : req'[j].op = "login" => req[j].op = "login"
    BY <1>1, NoRequestIs
  <2>2. QED
    BY <1>0, <1>5, <2>1 DEF ToldInv
<1>11. DiesOnlyIfOverlapped'
  BY DEF DiesOnlyIfOverlapped, Alone
<1>12. QED
  BY <1>2, <1>3, <1>4, <1>7, <1>8, <1>9, <1>10, <1>11 DEF IInv

(* Until the first answer the header is true. *)
LEMMA PostedHeader ==
    ASSUME IInv, NEW i \in Slots, Outstanding(i), req[i].step = "post", trouble = "none"
    PROVE  header \in {None, ctx}
<1>1. AloneInv /\ HeaderInv /\ Alone
  BY DEF IInv, Alone
<1>2. ~EndedUnread /\ \A j \in Slots : Outstanding(j) => j = i
  BY <1>1 DEF AloneInv
<1>3. QED
  BY <1>1, <1>2 DEF HeaderInv

LEMMA LoginAnswerKeeps == ASSUME IInv, NEW i \in Slots, LoginAnswer(i) PROVE IInv'
<1> USE DEF gui, history
<1>0. TypeOK /\ RequestInv /\ HeaderInv /\ AloneInv /\ StepInv
  BY DEF IInv
<1>1. /\ req[i].op \in LoginOps /\ req[i].step = "post" /\ app = "running" /\ app' = app
      /\ UNCHANGED <<userInfo, creds, gui, told, trouble>>
  BY DEF LoginAnswer, Answers, LoginOps
<1>2. req[i].who \in Users /\ Outstanding(i) /\ req[i].op # "none" /\ req[i].step \notin Done
  BY <1>0, <1>1 DEF RequestInv, LoginOps, Outstanding, SessionOps, Done
<1>3. ctx \in Identity /\ userInfo \in Identity /\ creds \in Users \cup {None, Torn}
  BY <1>0 DEF TypeOK
<1>4. None \in Identity /\ \A u \in Users : u \in Identity
  BY DEF Identity
<1>5. CASE ctx' = req[i].who /\ GoesTo(i, "hasCtx", None)
  <2>1. PICK r \in Requests : Answered(i, r) /\ r.op = req[i].op /\ r.step = "hasCtx"
    BY <1>0, <1>4, <1>5, GoesToStep
  <2>2. r.who = req[i].who
    BY <1>1, <2>1, NoRequestIs DEF Answered, Done, LoginOps
  <2>3. ProgressAfter(r)
    BY <1>1, <1>5, <2>1, <2>2 DEF ProgressAfter, LoginOps
  <2>4. QED
    BY <1>1, <1>2, <1>3, <1>4, <1>5, <2>1, <2>3, AnswerKeeps
<1>6. CASE Fulfil(i, "failed") /\ UNCHANGED ctx
  <2>1. PICK r \in Requests : Answered(i, r) /\ (r.op # "none" => r.step = "failed")
    BY <1>0, <1>2, <1>6, FulfilStep DEF Done
  <2>2. r.op \in LoginOps \/ r.op = "none"
    BY <1>1, <2>1, NoRequestIs DEF Answered
  <2>3. ProgressAfter(r)
    BY <2>1, <2>2 DEF ProgressAfter, LoginOps
  <2>4. trouble = "none" => header \in {None, ctx}
    BY <1>1, <1>2, PostedHeader
  <2>5. QED
    BY <1>1, <1>2, <1>3, <1>6, <2>1, <2>3, <2>4, AnswerKeeps
<1>7. QED
  BY <1>5, <1>6 DEF LoginAnswer

LEMMA GetsUserInfoKeeps ==
    ASSUME IInv, NEW i \in Slots, NEW ui \in Identity, GetsUserInfo(i, ui), req[i].op \in LoginOps,
           req[i].step \in {"hasCtx", "info"}, Alone => ui = ctx /\ ctx \in Users,
           app = "running", app' = app, UNCHANGED <<ctx, gui, told, trouble>>
    PROVE  IInv'
<1>0. TypeOK /\ RequestInv
  BY DEF IInv
<1>1. req[i].who \in Users /\ Outstanding(i) /\ req[i].op # "none" /\ req[i].step \notin Done
  BY <1>0 DEF RequestInv, LoginOps, Outstanding, SessionOps, Done
<1>2. /\ Fulfil(i, "ok") /\ userInfo' = ui
      /\ creds' = creds \/ (req[i].op = "login" /\ creds' = req[i].who)
  BY DEF GetsUserInfo, AsyncLogin, AsyncLoginWithStoredCreds, SetCredentials
<1>3. PICK r \in Requests : Answered(i, r) /\ (r.op # "none" => r.step = "ok")
  BY <1>0, <1>1, <1>2, FulfilStep DEF Done
<1>4. r.op \in LoginOps \/ r.op = "none"
  BY <1>3, NoRequestIs DEF Answered
<1>5. Alone => ProgressAfter(r)
  BY <1>2, <1>3, <1>4 DEF ProgressAfter, LoginOps
<1>6. ctx \in Identity /\ creds' \in Users \cup {None, Torn}
  BY <1>0, <1>1, <1>2 DEF TypeOK
<1>7. r.op # "none" => r.step \notin {"post", "failed"}
  BY <1>3
<1>8. r.step \notin {"post", "failed"}
  <2>1. r.op = "none" => r = NoRequest
    BY <1>1, <1>3 DEF Answered
  <2>2. QED
    BY <1>7, <2>1, NoRequestIs
<1>9. QED
  BY <1>1, <1>2, <1>3, <1>5, <1>6, <1>8, AnswerKeeps DEF gui

LEMMA AskUserInfoKeeps == ASSUME IInv, NEW i \in Slots, AskUserInfo(i) PROVE IInv'
<1> USE DEF gui, history
<1>0. TypeOK /\ RequestInv /\ StepInv
  BY DEF IInv
<1>1. /\ req[i].op \in LoginOps /\ req[i].step = "hasCtx" /\ app = "running" /\ app' = app
      /\ UNCHANGED <<ctx, gui, told, trouble>>
  BY DEF AskUserInfo, Answers, LoginOps
<1>2. req[i].who \in Users /\ Outstanding(i) /\ req[i].op # "none" /\ req[i].step \notin Done
  BY <1>0, <1>1 DEF RequestInv, LoginOps, Outstanding, SessionOps, Done
<1>3. /\ ctx \in Identity /\ userInfo \in Identity /\ creds \in Users \cup {None, Torn}
      /\ None \in Identity
  BY <1>0 DEF TypeOK, Identity
<1>4. Alone => ctx = req[i].who
  BY <1>0, <1>1 DEF StepInv, Progress
<1>5. CASE ctx # None /\ GoesTo(i, "info", ctx) /\ UNCHANGED <<userInfo, creds>>
  <2>1. PICK r \in Requests : Answered(i, r) /\ r.op = req[i].op /\ r.step = "info" /\ r.token = ctx
    BY <1>0, <1>3, <1>5, GoesToStep
  <2>2. r.who = req[i].who
    BY <1>1, <2>1, NoRequestIs DEF Answered, Done, LoginOps
  <2>3. Alone => ProgressAfter(r)
    BY <1>1, <1>4, <2>1, <2>2 DEF ProgressAfter, LoginOps
  <2>4. QED
    BY <1>1, <1>2, <1>3, <1>5, <2>1, <2>3, AnswerKeeps
<1>6. CASE ctx = None /\ GetsUserInfo(i, None)
  BY <1>1, <1>2, <1>3, <1>4, <1>6, GetsUserInfoKeeps
<1>7. QED
  BY <1>5, <1>6 DEF AskUserInfo

LEMMA UserInfoAnswerKeeps == ASSUME IInv, NEW i \in Slots, UserInfoAnswer(i) PROVE IInv'
<1> USE DEF gui, history
<1>0. TypeOK /\ RequestInv /\ StepInv
  BY DEF IInv
<1>1. /\ req[i].op \in LoginOps /\ req[i].step = "info" /\ app = "running"
      /\ UNCHANGED <<ctx, gui, told>>
  BY DEF UserInfoAnswer, Answers, LoginOps
<1>2. req[i].who \in Users /\ Outstanding(i) /\ req[i].op # "none" /\ req[i].step \notin Done
  BY <1>0, <1>1 DEF RequestInv, LoginOps, Outstanding, SessionOps, Done
<1>3. /\ ctx \in Identity /\ userInfo \in Identity /\ creds \in Users \cup {None, Torn}
      /\ trouble \in {"none", "halfDone", "overlapped"} /\ req[i] \in Requests
  BY <1>0 DEF TypeOK
<1>4. Alone => ctx = req[i].who /\ req[i].token = ctx
  BY <1>0, <1>1 DEF StepInv, Progress
<1>5. CASE ctx = None /\ app' = "nullContext" /\ UNCHANGED <<userInfo, creds, req, trouble>>
  <2>1. ~Alone
    BY <1>2, <1>4, <1>5
  <2>2. req' = [req EXCEPT ![i] = req[i]]
    BY <1>0, <1>5 DEF TypeOK
  <2>3. Answered(i, req[i])
    BY <2>2 DEF Answered
  <2>4. trouble' # "none"
    BY <1>5, <2>1 DEF Alone
  <2>5. QED
    BY <1>1, <1>2, <1>3, <1>5, <2>1, <2>3, <2>4, AnswerKeeps
<1>6. CASE ctx # None /\ GetsUserInfo(i, req[i].token) /\ UNCHANGED <<app, trouble>>
  <2>1. req[i].token \in Identity
    BY <1>3 DEF Requests
  <2>2. QED
    BY <1>1, <1>2, <1>4, <1>6, <2>1, GetsUserInfoKeeps
<1>7. CASE Fulfil(i, "failed") /\ HalfDone /\ UNCHANGED <<userInfo, creds, app>>
  <2>1. PICK r \in Requests : Answered(i, r) /\ (r.op # "none" => r.step = "failed")
    BY <1>0, <1>2, <1>7, FulfilStep DEF Done
  <2>2. r.op \in LoginOps \/ r.op = "none"
    BY <1>1, <2>1, NoRequestIs DEF Answered
  <2>3. ProgressAfter(r)
    BY <2>1, <2>2 DEF ProgressAfter, LoginOps
  <2>4. trouble' # "none" /\ (trouble' = trouble \/ (trouble = "none" /\ trouble' = "halfDone"))
    BY <1>3, <1>7 DEF HalfDone
  <2>5. QED
    BY <1>1, <1>2, <1>3, <1>7, <2>1, <2>3, <2>4, AnswerKeeps
<1>8. QED
  BY <1>5, <1>6, <1>7 DEF UserInfoAnswer

LEMMA AnonymousAnswerKeeps == ASSUME IInv, NEW i \in Slots, AnonymousAnswer(i) PROVE IInv'
<1> USE DEF gui, history
<1>0. TypeOK /\ StepInv
  BY DEF IInv
<1>1. /\ \/ req[i].op = "anon" /\ req[i].step = "post"
         \/ req[i].op = "logout" /\ req[i].step = "anon"
      /\ app = "running" /\ app' = app /\ UNCHANGED <<creds, gui, told>>
  BY DEF AnonymousAnswer, Answers
<1>2. Outstanding(i) /\ req[i].op # "none" /\ req[i].step \notin Done
  BY <1>1 DEF Outstanding, SessionOps, Done
<1>3. /\ ctx \in Identity /\ userInfo \in Identity /\ creds \in Users \cup {None, Torn}
      /\ trouble \in {"none", "halfDone", "overlapped"} /\ Anon \in Identity
  BY <1>0 DEF TypeOK, Identity
<1>4. ASSUME NEW result \in Done, Fulfil(i, result), result = "ok" => ctx' = Anon,
             result = "failed" => trouble' # "none" \/ (req[i].op = "anon" /\ ctx' = ctx /\ trouble' = trouble),
             ctx' \in {ctx, Anon}, userInfo' \in {userInfo, Anon},
             trouble' = trouble \/ (trouble = "none" /\ trouble' = "halfDone")
      PROVE  IInv'
  <2>1. PICK r \in Requests : Answered(i, r) /\ (r.op # "none" => r.step = result)
    BY <1>0, <1>2, <1>4, FulfilStep
  <2>2. (r.op = "none" /\ r.step = "free") \/ (r.op = req[i].op /\ r.step = result)
    BY <1>2, <2>1, NoRequestIs DEF Answered
  <2>3. r.op = "logout" /\ Alone => creds' \notin Users
    BY <1>0, <1>1, <2>2 DEF StepInv, Progress
  <2>4. Alone => ProgressAfter(r)
    BY <1>1, <1>4, <2>2, <2>3 DEF ProgressAfter, LoginOps
  <2>5. trouble' = "none" /\ r.step \in {"post", "failed"} => header \in {None, ctx'}
    <3>1. ASSUME trouble' = "none", r.step \in {"post", "failed"} PROVE header \in {None, ctx'}
      <4>1. result = "failed"
        BY <1>4, <2>2, <3>1 DEF Done
      <4>2. req[i].op = "anon" /\ ctx' = ctx /\ trouble = "none"
        BY <1>4, <3>1, <4>1
      <4>3. QED
        BY <1>1, <1>2, <4>2, PostedHeader
    <3>2. QED
      BY <3>1
  <2>6. ctx' \in Identity /\ userInfo' \in Identity
    BY <1>3, <1>4
  <2>7. QED
    BY <1>1, <1>2, <1>3, <1>4, <2>1, <2>4, <2>5, <2>6, AnswerKeeps
<1>5. CASE AsyncLoginAnonymously(i)
  BY <1>4, <1>5 DEF AsyncLoginAnonymously, Done
<1>6. CASE LoginAnonCallback(i)
  <2>1. HalfDone => trouble' # "none" /\ (trouble' = trouble \/ (trouble = "none" /\ trouble' = "halfDone"))
    BY <1>3 DEF HalfDone
  <2>2. QED
    BY <1>4, <1>6, <2>1 DEF LoginAnonCallback, Done
<1>7. QED
  BY <1>5, <1>6 DEF AnonymousAnswer

LEMMA LogoutAnswerKeeps == ASSUME IInv, NEW i \in Slots, LogoutAnswer(i) PROVE IInv'
<1> USE DEF gui, history
<1>0. TypeOK
  BY DEF IInv
<1>1. /\ req[i].op = "logout" /\ req[i].step = "post"
      /\ app = "running" /\ app' = app /\ UNCHANGED <<gui, told, trouble>>
  BY DEF LogoutAnswer, Answers
<1>2. Outstanding(i) /\ req[i].op # "none" /\ req[i].step \notin Done
  BY <1>1 DEF Outstanding, SessionOps, Done
<1>3. /\ ctx \in Identity /\ userInfo \in Identity /\ creds \in Users \cup {None, Torn}
      /\ None \in Identity /\ None \notin Users
  BY <1>0 DEF TypeOK, Identity
<1>4. CASE ctx' = None /\ LogoutCallback /\ GoesTo(i, "anon", None)
  <2>1. PICK r \in Requests : Answered(i, r) /\ r.op = req[i].op /\ r.step = "anon"
    BY <1>0, <1>3, <1>4, GoesToStep
  <2>2. userInfo' = None /\ creds' = None
    BY <1>4 DEF LogoutCallback, ClearCredentials
  <2>3. ProgressAfter(r)
    BY <1>1, <1>3, <2>1, <2>2 DEF ProgressAfter, LoginOps
  <2>4. QED
    BY <1>1, <1>2, <1>3, <1>4, <2>1, <2>2, <2>3, AnswerKeeps
<1>5. CASE Fulfil(i, "failed") /\ UNCHANGED <<ctx, userInfo, creds>>
  <2>1. PICK r \in Requests : Answered(i, r) /\ (r.op # "none" => r.step = "failed")
    BY <1>0, <1>2, <1>5, FulfilStep DEF Done
  <2>2. r.op \in {"logout", "none"}
    BY <1>1, <2>1, NoRequestIs DEF Answered
  <2>3. ProgressAfter(r)
    BY <2>1, <2>2 DEF ProgressAfter, LoginOps
  <2>4. trouble = "none" => header \in {None, ctx}
    BY <1>1, <1>2, PostedHeader
  <2>5. QED
    BY <1>1, <1>2, <1>3, <1>5, <2>1, <2>3, <2>4, AnswerKeeps
<1>6. QED
  BY <1>4, <1>5 DEF LogoutAnswer

LEMMA AccountAnswerKeeps == ASSUME IInv, NEW i \in Slots, AccountAnswer(i) PROVE IInv'
<1> USE DEF gui, history
<1>0. TypeOK
  BY DEF IInv
<1>1. /\ req[i].op \in {"SignUp", "ForgotPassword"} /\ req[i].step = "post" /\ app = "running" /\ app' = app
      /\ UNCHANGED <<ctx, userInfo, creds, gui, told, trouble>>
  BY DEF AccountAnswer, Answers
<1>2. ~Outstanding(i) /\ req[i].op # "none" /\ req[i].step \notin Done
  BY <1>1 DEF Outstanding, SessionOps, Done
<1>3. ctx \in Identity /\ userInfo \in Identity /\ creds \in Users \cup {None, Torn}
  BY <1>0 DEF TypeOK
<1>4. PICK result \in Done : Fulfil(i, result)
  BY DEF AccountAnswer, AccountDone
<1>5. PICK r \in Requests : Answered(i, r)
  BY <1>0, <1>2, <1>4, FulfilStep
<1>6. QED
  BY <1>1, <1>2, <1>3, <1>5, AnswerKeeps

-------------------------------------------------------------------------------
(* What the GUI posts.                                                     *)

LEMMA PostStep ==
    ASSUME NEW r \in [Slots -> Requests], NEW request \in Requests, PostInto(r, request)
    PROVE  /\ \E m \in Slots : /\ r[m] = NoRequest /\ req'[m] = request
                              /\ \A i \in Slots : i # m => req'[i] = r[i]
           /\ req' \in [Slots -> Requests]
           /\ trouble' \in {trouble, "overlapped"} /\ (told' => told /\ request.op # "login")
           /\ trouble' = "overlapped" => ~told' \/ trouble = "overlapped"
           /\ request.op \in SessionOps /\ trouble' # "overlapped" =>
                 ~EndedUnread /\ \A i \in Slots : ~Outstanding(i)
<1> DEFINE m == Min(FreeSlots(r))
<1>1. FreeSlots(r) \subseteq Slots /\ FreeSlots(r) # {} /\ \A i \in FreeSlots(r) : r[i] = NoRequest
  BY DEF PostInto, FreeSlots
<1>2. m \in Slots /\ r[m] = NoRequest
  <2>1. m \in FreeSlots(r)
    BY <1>1, MinIsLeast
  <2>2. QED
    BY <1>1, <2>1
<1>3. req' = [r EXCEPT ![m] = request]
  BY DEF PostInto
<1> HIDE DEF m
<1>4. /\ req' \in [Slots -> Requests] /\ req'[m] = request /\ \A i \in Slots : i # m => req'[i] = r[i]
  BY <1>2, <1>3
<1>5. CASE request.op \in SessionOps /\ (EndedUnread \/ \E i \in Slots : Outstanding(i))
  <2>1. trouble' = "overlapped" /\ told' = FALSE
    BY <1>5 DEF PostInto
  <2>2. QED
    BY <1>2, <1>4, <2>1
<1>6. CASE ~(request.op \in SessionOps /\ (EndedUnread \/ \E i \in Slots : Outstanding(i)))
  <2>1. trouble' = trouble /\ told' = (told /\ request.op # "login")
    BY <1>6 DEF PostInto
  <2>2. QED
    BY <1>2, <1>4, <1>6, <2>1
<1>7. QED
  BY <1>5, <1>6

(* A request that stays, or whose dialog has gone. *)
Kept(r, old) ==
    \/ r = NoRequest \/ r = old
    \/ /\ r.op = old.op /\ r.step = old.step /\ r.who = old.who /\ r.token = old.token
       /\ r.owner = Nobody /\ r.op # "none" /\ old.owner # Main

(* What a step that posts a request has to respect. *)
LEMMA PostKeeps ==
    ASSUME IInv, NEW r \in [Slots -> Requests], NEW request \in Requests, PostInto(r, request),
           \A j \in Slots : Kept(r[j], req[j]) /\ (r[j].owner \in 1..2 => r[j].owner <= Len(dialogs')),
           request.op # "none", request.owner \in 1..2 => request.owner <= Len(dialogs'),
           request.owner = Main <=> request.op \in SessionOps \ {"login"},
           request.op \in LoginOps /\ request.step \notin Done => request.who \in Users,
           request.op \in SessionOps => request.owner # Nobody /\ ProgressAfter(request),
           request.op \notin SessionOps => r = req /\ UNCHANGED <<userInfo, dialogs>>,
           request.op = "quiet" => app = "new",
           dialogs' \in Seq(LoginDialogs), Len(dialogs') <= Len(dialogs),
           \A d \in 1..Len(dialogs') : dialogs'[d].ended = dialogs[d].ended,
           UNCHANGED <<ctx, loginUi, header, offices>>, userInfo' \in Identity,
           creds' \in Users \cup {None, Torn}, creds' \in Users => creds' = creds,
           app' = "running"
    PROVE  IInv'
<1>0. /\ TypeOK /\ DialogInv /\ RequestInv /\ AloneInv /\ StepInv /\ HeaderInv /\ ToldInv
      /\ req \in [Slots -> Requests] /\ Len(dialogs) \in Nat /\ Len(dialogs') \in Nat /\ Len(dialogs) <= 2
  BY DEF IInv, TypeOK
<1>1. PICK m \in Slots : /\ r[m] = NoRequest /\ req'[m] = request
                        /\ \A i \in Slots : i # m => req'[i] = r[i]
  BY PostStep
<1>2. /\ req' \in [Slots -> Requests]
      /\ trouble' \in {trouble, "overlapped"} /\ (told' => told /\ request.op # "login")
      /\ trouble' = "overlapped" => ~told' \/ trouble = "overlapped"
      /\ request.op \in SessionOps /\ trouble' # "overlapped" =>
            ~EndedUnread /\ \A i \in Slots : ~Outstanding(i)
  BY PostStep
<1>3. told' \in BOOLEAN
  BY <1>0 DEF PostInto, TypeOK
<1>4. TypeOK'
  <2>1. \A i \in Slots : req'[i].owner \in 1..2 => req'[i].owner <= Len(dialogs')
    BY <1>1
  <2>2. QED
    BY <1>0, <1>2, <1>3, <2>1 DEF TypeOK
<1>5. DialogInv'
  <2>1. \A i \in Slots : req'[i].op = "quiet" => (IF i = m THEN request.op = "quiet" ELSE req[i].op = "quiet")
    BY <1>1, NoRequestIs DEF Kept
  <2>2. request.op = "quiet" => dialogs = <<>> /\ ~loginUi /\ \A i \in Slots : req[i].op # "quiet"
    BY <1>0, NoRequestIs DEF DialogInv
  <2>3. ASSUME Len(dialogs') = 2 PROVE ~dialogs'[2].ended
    <3>1. Len(dialogs) = 2 /\ 2 \in 1..Len(dialogs')
      <4> DEFINE n == Len(dialogs)
                 l == Len(dialogs')
      <4>1. n \in Nat /\ n <= 2 /\ l = 2 /\ l <= n
        BY <1>0, <2>3
      <4> HIDE DEF n, l
      <4>2. n = 2 /\ 2 \in 1..l
        BY <4>1
      <4>3. QED
        BY <4>2 DEF n, l
    <3>2. dialogs'[2].ended = dialogs[2].ended /\ ~dialogs[2].ended
      BY <1>0, <3>1 DEF DialogInv
    <3>3. QED
      BY <3>2
  <2>4. (\A i \in Slots : req'[i].op = "quiet" => ~loginUi /\ \A j \in Slots \ {i} : req'[j].op # "quiet")
    BY <1>0, <2>1, <2>2 DEF DialogInv
  <2>5. (loginUi \/ \E i \in Slots : req'[i].op = "quiet") => Len(dialogs') <= 1
    <3>1. dialogs = <<>> => Len(dialogs) = 0
      OBVIOUS
    <3>2. QED
      BY <1>0, <2>1, <2>2, <3>1 DEF DialogInv
  <2>6. QED
    BY <2>3, <2>4, <2>5 DEF DialogInv
<1>6. RequestInv'
  <2>1. ASSUME NEW i \in Slots, i # m
        PROVE  /\ req'[i].op = "none" => req'[i] = NoRequest
               /\ req'[i].owner = Main <=> req'[i].op \in SessionOps \ {"login"}
               /\ req'[i].op \in LoginOps /\ req'[i].step \notin Done => req'[i].who \in Users
    <3>1. req'[i] = r[i] /\ Kept(r[i], req[i])
      BY <1>1, <2>1
    <3>2. QED
      BY <1>0, <3>1, NoRequestIs DEF Kept, RequestInv, LoginOps, Nobody, Main
  <2>2. QED
    BY <1>1, <2>1 DEF RequestInv
<1>7. ASSUME Alone', request.op \in SessionOps
      PROVE  /\ Alone /\ ~EndedUnread' /\ \A i \in Slots : Outstanding(i)' => i = m
             /\ UNCHANGED trouble /\ ~EndedUnread /\ \A i \in Slots : ~Outstanding(i)
  <2>1. ~EndedUnread /\ (\A i \in Slots : ~Outstanding(i)) /\ trouble' = trouble
    BY <1>2, <1>7 DEF Alone
  <2>2. \A d \in 1..Len(dialogs') : ~dialogs'[d].ended
    BY <1>0, <2>1 DEF EndedUnread
  <2>3. \A i \in Slots : i # m => req'[i].op \notin SessionOps
    BY <1>1, <2>1, NoRequestIs DEF Kept, Outstanding
  <2>4. QED
    BY <1>7, <2>1, <2>2, <2>3 DEF Alone, EndedUnread, Outstanding
<1>8. ASSUME request.op \notin SessionOps
      PROVE  /\ (EndedUnread' <=> EndedUnread) /\ ~Outstanding(m)' /\ UNCHANGED userInfo
             /\ \A i \in Slots : i # m => req'[i] = req[i]
             /\ ~Outstanding(m) /\ (Alone' => Alone)
  <2>1. r = req /\ UNCHANGED <<userInfo, dialogs>>
    BY <1>8
  <2>2. trouble' # "overlapped" => trouble # "overlapped"
    BY <1>2
  <2>3. QED
    BY <1>1, <1>8, <2>1, <2>2, NoRequestIs DEF EndedUnread, Outstanding, Alone
<1>9. AloneInv'
  <2>1. CASE request.op \in SessionOps
    <3>1. Alone' => \A i \in Slots : Outstanding(i)' => req'[i].owner # Nobody
      BY <1>1, <1>7, <2>1
    <3>2. QED
      BY <1>7, <2>1, <3>1 DEF AloneInv
  <2>2. CASE request.op \notin SessionOps
    <3>1. \A i \in Slots : Outstanding(i)' => Outstanding(i) /\ req'[i] = req[i]
      BY <1>8, <2>2 DEF Outstanding
    <3>2. QED
      BY <1>0, <1>8, <2>2, <3>1 DEF AloneInv
  <2>3. QED
    BY <2>1, <2>2
<1>10. StepInv'
  <2>1. ASSUME Alone', NEW i \in Slots PROVE ProgressAfter(req'[i])
    <3>1. CASE req'[i].op \notin SessionOps
      BY <3>1 DEF ProgressAfter, LoginOps, SessionOps
    <3>2. CASE req'[i].op \in SessionOps /\ i = m
      BY <1>1, <3>2
    <3>3. CASE req'[i].op \in SessionOps /\ i # m
      <4>1. request.op \notin SessionOps
        BY <1>7, <2>1, <3>3 DEF Outstanding
      <4>2. Progress(req[i]) /\ req'[i] = req[i] /\ UNCHANGED <<ctx, userInfo>>
        BY <1>0, <1>8, <2>1, <3>3, <4>1 DEF StepInv
      <4>3. QED
        BY <4>2 DEF Progress, ProgressAfter
    <3>4. QED
      BY <3>1, <3>2, <3>3
  <2>2. QED
    BY <2>1, Progresses DEF StepInv
<1>11. HeaderInv'
  <2>1. ASSUME trouble' = "none", ~EndedUnread',
               \A i \in Slots : Outstanding(i)' => req'[i].step \in {"post", "failed"}
        PROVE  header \in {None, ctx}
    <3>1. CASE request.op \in SessionOps
      BY <1>0, <1>7, <2>1, <3>1 DEF HeaderInv, Alone
    <3>2. CASE request.op \notin SessionOps
      <4>1. \A i \in Slots : Outstanding(i) => Outstanding(i)' /\ req'[i] = req[i]
        BY <1>8, <3>2 DEF Outstanding
      <4>2. trouble = "none"
        BY <1>2, <2>1
      <4>3. QED
        BY <1>0, <1>8, <2>1, <3>2, <4>1, <4>2 DEF HeaderInv
    <3>3. QED
      BY <3>1, <3>2
  <2>2. QED
    BY <2>1 DEF HeaderInv
<1>12. ToldInv'
  <2>1. ASSUME told' PROVE Alone' /\ \A i \in Slots : req'[i].op # "login"
    <3>1. told /\ request.op # "login" /\ trouble' # "overlapped"
      BY <1>0, <1>2, <2>1 DEF ToldInv, Alone
    <3>2. \A i \in Slots : req[i].op # "login"
      BY <1>0, <3>1 DEF ToldInv
    <3>3. QED
      BY <1>1, <3>1, <3>2, NoRequestIs DEF Kept, Alone
  <2>2. told' => creds' \notin Users
    BY <1>0, <1>2 DEF ToldInv
  <2>3. QED
    BY <2>1, <2>2 DEF ToldInv
<1>13. DiesOnlyIfOverlapped'
  BY DEF DiesOnlyIfOverlapped
<1>14. QED
  BY <1>4, <1>5, <1>6, <1>9, <1>10, <1>11, <1>12, <1>13 DEF IInv

-------------------------------------------------------------------------------
(* What the GUI reads.                                                     *)

(* What a step that reads a result, or ends a dialog, has to respect. *)
LEMMA ReadKeeps ==
    ASSUME IInv, app = "running", req' \in [Slots -> Requests],
           \A j \in Slots : Kept(req'[j], req[j]) /\ (req'[j].owner \in 1..2 => req'[j].owner <= Len(dialogs')),
           Alone => \A j \in Slots : Outstanding(j) => req'[j] \in {req[j], NoRequest},
           UNCHANGED <<ctx, userInfo, creds, trouble>>, header' \in Identity,
           offices' \in {"no", "posted", "failed"},
           dialogs' \in Seq(LoginDialogs), Len(dialogs') <= 2,
           (\E j \in Slots : req'[j].op = "quiet") => Len(dialogs') <= 1,
           Len(dialogs') = 2 => ~dialogs'[2].ended,
           loginUi' \in BOOLEAN,
           loginUi' => Len(dialogs') <= 1 /\ \A j \in Slots : req'[j].op # "quiet",
           app' = "running" \/ (app' = "fatal" /\ ~Alone),
           Alone /\ EndedUnread' => userInfo = ctx /\ ctx \in Users /\ \A j \in Slots : ~Outstanding(j)',
           trouble = "none" =>
              \/ header' \in {None, ctx} \/ EndedUnread'
              \/ /\ header' = header /\ (EndedUnread' <=> EndedUnread)
                 /\ \A j \in Slots : Outstanding(j) => req'[j] = req[j],
           told' \in BOOLEAN,
           told' => told \/ (Alone /\ creds \notin Users /\ \A j \in Slots : req'[j].op # "login")
    PROVE  IInv'
<1>0. /\ TypeOK /\ DialogInv /\ RequestInv /\ AloneInv /\ StepInv /\ HeaderInv /\ ToldInv
      /\ req \in [Slots -> Requests] /\ Len(dialogs) \in Nat /\ Len(dialogs') \in Nat /\ Len(dialogs) <= 2
  BY DEF IInv, TypeOK
<1>1. TypeOK'
  BY <1>0 DEF TypeOK
<1>2. \A j \in Slots : req'[j].op \in {req[j].op, "none"}
  BY NoRequestIs DEF Kept
<1>3. DialogInv'
  <2>1. \A i \in Slots : req'[i].op = "quiet" => req[i].op = "quiet"
    BY <1>2
  <2>2. \A i \in Slots : req'[i].op = "quiet" => ~loginUi' /\ \A j \in Slots \ {i} : req'[j].op # "quiet"
    BY <1>0, <2>1 DEF DialogInv
  <2>3. QED
    BY <2>2 DEF DialogInv
<1>4. RequestInv'
  BY <1>0, NoRequestIs DEF Kept, RequestInv, LoginOps, Nobody, Main
<1>5. \A j \in Slots : Outstanding(j)' => Outstanding(j)
  BY <1>2 DEF Outstanding, SessionOps
<1>6. Alone => \A j \in Slots : Outstanding(j)' => req'[j] = req[j]
  BY <1>5, NoRequestIs DEF Outstanding
<1>7. Alone' <=> Alone
  BY DEF Alone
<1>8. AloneInv'
  BY <1>0, <1>5, <1>6, <1>7 DEF AloneInv
<1>9. StepInv'
  <2>1. ASSUME Alone, NEW i \in Slots PROVE ProgressAfter(req'[i])
    <3>1. CASE req'[i].op \notin SessionOps
      BY <3>1 DEF ProgressAfter, LoginOps, SessionOps
    <3>2. CASE req'[i].op \in SessionOps
      <4>1. req'[i] = req[i] /\ Progress(req[i])
        BY <1>0, <1>6, <2>1, <3>2 DEF StepInv, Outstanding
      <4>2. QED
        BY <4>1 DEF Progress, ProgressAfter
    <3>3. QED
      BY <3>1, <3>2
  <2>2. QED
    BY <1>7, <2>1, Progresses DEF StepInv
<1>10. HeaderInv'
  <2>1. ASSUME trouble = "none", ~EndedUnread',
               \A j \in Slots : Outstanding(j)' => req'[j].step \in {"post", "failed"}
        PROVE  header' \in {None, ctx}
    <3>1. CASE header' \in {None, ctx}
      BY <3>1
    <3>2. CASE /\ header' = header /\ (EndedUnread' <=> EndedUnread)
               /\ \A j \in Slots : Outstanding(j) => req'[j] = req[j]
      <4>1. \A j \in Slots : Outstanding(j) => Outstanding(j)'
        BY <3>2 DEF Outstanding
      <4>2. QED
        BY <1>0, <2>1, <3>2, <4>1 DEF HeaderInv
    <3>3. QED
      BY <2>1, <3>1, <3>2
  <2>2. QED
    BY <2>1 DEF HeaderInv
<1>11. ToldInv'
  BY <1>0, <1>2, <1>7 DEF ToldInv
<1>12. DiesOnlyIfOverlapped'
  BY DEF DiesOnlyIfOverlapped, Alone
<1>13. QED
  BY <1>1, <1>3, <1>4, <1>8, <1>9, <1>10, <1>11, <1>12 DEF IInv

(* Dialogs and what is left of their requests. *)
LEMMA ClosedStep ==
    ASSUME TypeOK, RequestInv, NEW d \in 1..2
    PROVE  /\ Closed(d) \in [Slots -> Requests]
           /\ \A j \in Slots : Kept(Closed(d)[j], req[j]) /\ Closed(d)[j].owner # d
           /\ \A j \in Slots : req[j].owner # d => Closed(d)[j] = req[j]
           /\ \A j \in Slots : req[j].owner = d /\ req[j].step \in Done => Closed(d)[j] = NoRequest
<1>1. req \in [Slots -> Requests]
  BY DEF TypeOK
<1>2. ASSUME NEW j \in Slots, req[j].owner = d, req[j].step \notin Done
      PROVE  LET r == [req[j] EXCEPT !.owner = Nobody]
             IN  r \in Requests /\ Kept(r, req[j]) /\ r.owner # d
  <2> DEFINE r == [req[j] EXCEPT !.owner = Nobody]
  <2>1. req[j] \in Requests /\ Nobody \in Nobody..2 /\ Nobody # d /\ req[j].owner # Main
    BY <1>1, <1>2 DEF Nobody, Main
  <2>2. /\ r \in Requests /\ r.op = req[j].op /\ r.step = req[j].step /\ r.who = req[j].who
        /\ r.token = req[j].token /\ r.owner = Nobody
    BY <2>1 DEF Requests
  <2>3. req[j].op # "none"
    BY <1>2, NoRequestIs DEF RequestInv
  <2> HIDE DEF r
  <2>4. QED
    BY <2>1, <2>2, <2>3 DEF Kept, r
<1>3. ASSUME NEW j \in Slots
      PROVE  /\ Closed(d)[j] \in Requests /\ Kept(Closed(d)[j], req[j]) /\ Closed(d)[j].owner # d
             /\ req[j].owner # d => Closed(d)[j] = req[j]
             /\ req[j].owner = d /\ req[j].step \in Done => Closed(d)[j] = NoRequest
  <2>1. Closed(d)[j] = IF req[j].owner # d THEN req[j]
                       ELSE IF req[j].step \in Done THEN NoRequest
                       ELSE [req[j] EXCEPT !.owner = Nobody]
    BY DEF Closed
  <2>2. NoRequest.owner # d
    BY NoRequestIs
  <2>3. CASE req[j].owner # d \/ req[j].step \in Done
    BY <1>1, <2>1, <2>2, <2>3, NoRequestIs DEF Kept
  <2>4. CASE req[j].owner = d /\ req[j].step \notin Done
    BY <1>2, <2>1, <2>4
  <2>5. QED
    BY <2>3, <2>4
<1>4. Closed(d) \in [Slots -> Requests]
  BY <1>3 DEF Closed
<1>5. QED
  BY <1>3, <1>4

LEMMA DialogStep ==
    ASSUME TypeOK
    PROVE  /\ Len(dialogs) \in 0..2 /\ DOMAIN dialogs = 1..Len(dialogs)
           /\ \A d \in 1..Len(dialogs) : dialogs[d] \in LoginDialogs
           /\ dialogs # <<>> <=> Len(dialogs) \in 1..2
           /\ dialogs # <<>> => /\ SubSeq(dialogs, 1, Len(dialogs) - 1) \in Seq(LoginDialogs)
                               /\ Len(SubSeq(dialogs, 1, Len(dialogs) - 1)) = Len(dialogs) - 1
                               /\ \A d \in 1..(Len(dialogs) - 1) :
                                     SubSeq(dialogs, 1, Len(dialogs) - 1)[d] = dialogs[d]
<1> DEFINE s == dialogs
<1>1. s \in Seq(LoginDialogs) /\ Len(s) <= 2
  BY DEF TypeOK
<1> HIDE DEF s
<1>2. Len(s) \in 0..2 /\ DOMAIN s = 1..Len(s) /\ (\A d \in 1..Len(s) : s[d] \in LoginDialogs)
      /\ (s # <<>> <=> Len(s) \in 1..2)
  <2>1. Len(s) \in Nat /\ DOMAIN s = 1..Len(s) /\ \A d \in 1..Len(s) : s[d] \in LoginDialogs
    BY <1>1
  <2>2. s # <<>> <=> Len(s) # 0
    BY <1>1, EmptySeq
  <2>3. Len(s) \in 0..2
    BY <1>1, <2>1
  <2>4. QED
    BY <2>1, <2>2, <2>3
<1>3. s # <<>> => /\ SubSeq(s, 1, Len(s) - 1) \in Seq(LoginDialogs)
                 /\ Len(SubSeq(s, 1, Len(s) - 1)) = Len(s) - 1
                 /\ \A d \in 1..(Len(s) - 1) : SubSeq(s, 1, Len(s) - 1)[d] = s[d]
  BY <1>1, FrontKeeps DEF Front
<1>4. QED
  BY <1>2, <1>3 DEF s

-------------------------------------------------------------------------------
(* The steps of the main window and of the dialogs.                        *)

LEMMA OnActivateKeeps == ASSUME IInv, OnActivate PROVE IInv'
<1> USE DEF gui, core
<1>0. TypeOK /\ DialogInv /\ req \in [Slots -> Requests] /\ userInfo \in Identity
      /\ creds \in Users \cup {None, Torn} /\ dialogs \in Seq(LoginDialogs)
  BY DEF IInv, TypeOK
<1> DEFINE user == GetCredentials
           quiet == Request("quiet", user, Main, TRUE)
           request == IF user = None THEN [quiet EXCEPT !.step = "failed"] ELSE quiet
<1>1. PostInto(req, request) /\ app = "new" /\ app' = "running" /\ UNCHANGED <<core, gui>>
  BY DEF OnActivate
<1>2. user \in Users \cup {None}
  BY DEF GetCredentials
<1> HIDE DEF user
<1>3. /\ quiet \in Requests /\ quiet.op = "quiet" /\ quiet.step = "post" /\ quiet.who = user
      /\ quiet.owner = Main
  <2>1. "quiet" \in SessionOps \cup OtherModes /\ Main \in Nobody..2 /\ TRUE \in BOOLEAN
    BY DEF SessionOps, Main, Nobody
  <2>2. PICK first \in BOOLEAN : first = TRUE
    OBVIOUS
  <2>3. quiet = Request("quiet", user, Main, first)
    BY <2>2
  <2> HIDE DEF quiet
  <2>4. QED
    BY <1>2, <2>1, <2>3, RequestTypes
<1> HIDE DEF quiet
<1>4. /\ request \in Requests /\ request.op = "quiet" /\ request.owner = Main
      /\ request.step \in {"post", "failed"} /\ (request.step = "post" => request.who \in Users)
  BY <1>2, <1>3 DEF Requests, Done
<1> HIDE DEF request
<1>5. \A j \in Slots : Kept(req[j], req[j]) /\ (req[j].owner \in 1..2 => req[j].owner <= Len(dialogs))
  BY <1>0 DEF Kept, TypeOK
<1>6. ProgressAfter(request)
  BY <1>4 DEF ProgressAfter, LoginOps
<1>7. /\ request.op # "none" /\ request.op \in SessionOps \ {"login"} /\ request.owner \notin 1..2
      /\ request.owner # Nobody /\ (request.op \in LoginOps /\ request.step \notin Done => request.who \in Users)
  BY <1>4 DEF SessionOps, Main, Nobody, Done
<1>8. Len(dialogs) <= Len(dialogs)
  BY <1>0
<1>9. QED
  BY <1>0, <1>1, <1>4, <1>5, <1>6, <1>7, <1>8, PostKeeps

LEMMA NewDialogIs == \A first \in BOOLEAN : NewDialog(first) \in LoginDialogs /\ ~NewDialog(first).ended
<1>1. QED
  BY DEF NewDialog, LoginDialogs, Modes

(* A dialog is opened. *)
LEMMA NewDialogStep ==
    ASSUME TypeOK, NEW first \in BOOLEAN, dialogs' = Append(dialogs, NewDialog(first))
    PROVE  /\ dialogs' \in Seq(LoginDialogs) /\ Len(dialogs') = Len(dialogs) + 1
           /\ \A d \in 1..Len(dialogs) : dialogs'[d] = dialogs[d]
           /\ ~dialogs'[Len(dialogs) + 1].ended
           /\ EndedUnread' <=> EndedUnread
<1> DEFINE s == dialogs
           u == dialogs'
           e == NewDialog(first)
<1>1. s \in Seq(LoginDialogs) /\ e \in LoginDialogs /\ ~e.ended /\ u = Append(s, e)
  BY NewDialogIs DEF TypeOK
<1> HIDE DEF s, u, e
<1>2. /\ u \in Seq(LoginDialogs) /\ Len(u) = Len(s) + 1 /\ Len(s) \in Nat
      /\ (\A d \in 1..Len(s) : u[d] = s[d]) /\ u[Len(s) + 1] = e
  BY <1>1, AppendProperties
<1>3. (\E d \in 1..Len(u) : u[d].ended) <=> (\E d \in 1..Len(s) : s[d].ended)
  <2>1. \A d \in 1..Len(s) : d \in 1..Len(u)
    BY <1>2
  <2>2. \A d \in 1..Len(u) : d \in 1..Len(s) \/ d = Len(s) + 1
    BY <1>2
  <2>3. QED
    BY <1>1, <1>2, <2>1, <2>2
<1>4. QED
  BY <1>1, <1>2, <1>3 DEF s, u, e, EndedUnread

(* The button posts a logout, or opens a dialog. *)
LEMMA OnLoginKeeps == ASSUME IInv, OnLogin PROVE IInv'
<1> USE DEF history
<1>0. /\ TypeOK /\ DialogInv /\ req \in [Slots -> Requests] /\ userInfo \in Identity /\ header \in Identity
      /\ creds \in Users \cup {None, Torn} /\ dialogs \in Seq(LoginDialogs) /\ None \in Identity
      /\ offices \in {"no", "posted", "failed"} /\ told \in BOOLEAN /\ loginUi \in BOOLEAN
  BY DEF IInv, TypeOK, Identity
<1>1. /\ app = "running" /\ dialogs = <<>> /\ UNCHANGED <<ctx, loginUi, header, offices, app>>
  BY DEF OnLogin
<1>2. \A j \in Slots : Kept(req[j], req[j]) /\ (req[j].owner \in 1..2 => req[j].owner <= Len(dialogs))
  BY <1>0 DEF Kept, TypeOK
<1> DEFINE logout == Request("logout", None, Main, FALSE)
           again == [logout EXCEPT !.step = "anon"]
<1>3. logout \in Requests /\ logout.op = "logout" /\ logout.step = "post" /\ logout.owner = Main
  <2>1. /\ "logout" \in SessionOps \cup OtherModes /\ Main \in Nobody..2 /\ FALSE \in BOOLEAN
        /\ None \in Users \cup {None}
    BY DEF SessionOps, Main, Nobody
  <2>2. PICK first \in BOOLEAN : first = FALSE
    OBVIOUS
  <2>3. logout = Request("logout", None, Main, first)
    BY <2>2
  <2> HIDE DEF logout
  <2>4. QED
    BY <2>1, <2>3, RequestTypes
<1> HIDE DEF logout
<1>4. again \in Requests /\ again.op = "logout" /\ again.step = "anon" /\ again.owner = Main
  BY <1>3 DEF Requests
<1> HIDE DEF again
<1>5. Len(dialogs) <= Len(dialogs) /\ "logout" \in SessionOps /\ "logout" \notin LoginOps
      /\ Main # Nobody /\ Main \notin 1..2
  BY <1>0 DEF SessionOps, LoginOps, Main, Nobody
<1>6. CASE LogoutCallback /\ PostInto(req, again) /\ UNCHANGED dialogs
  <2>1. userInfo' = None /\ creds' = None /\ None \notin Users
    BY <1>6 DEF LogoutCallback, ClearCredentials
  <2>2. ProgressAfter(again)
    BY <1>4, <2>1 DEF ProgressAfter, LoginOps
  <2>3. QED
    BY <1>0, <1>1, <1>2, <1>4, <1>5, <1>6, <2>1, <2>2, PostKeeps
<1>7. CASE PostInto(req, logout) /\ UNCHANGED <<userInfo, creds, dialogs>>
  <2>1. ProgressAfter(logout)
    BY <1>3 DEF ProgressAfter, LoginOps
  <2>2. QED
    BY <1>0, <1>1, <1>2, <1>3, <1>5, <1>7, <2>1, PostKeeps
<1>8. CASE dialogs' = <<NewDialog(FALSE)>> /\ UNCHANGED <<userInfo, creds, req, history>>
  <2>0. dialogs' = Append(dialogs, NewDialog(FALSE)) /\ Len(dialogs) = 0
    BY <1>1, <1>8
  <2>1. dialogs' \in Seq(LoginDialogs) /\ Len(dialogs') = 1 /\ (EndedUnread' <=> EndedUnread)
    <3>1. dialogs' \in Seq(LoginDialogs) /\ Len(dialogs') = Len(dialogs) + 1 /\ (EndedUnread' <=> EndedUnread)
      BY <1>0, <2>0, NewDialogStep
    <3>2. Len(dialogs') = 1
      BY <2>0, <3>1
    <3>3. QED
      BY <3>1, <3>2
  <2>2. ~EndedUnread
    BY <2>0 DEF EndedUnread
  <2>3. \A j \in Slots : Kept(req'[j], req[j]) /\ (req'[j].owner \in 1..2 => req'[j].owner <= Len(dialogs'))
    BY <1>2, <1>8, <2>0
  <2>4. loginUi => \A j \in Slots : req[j].op # "quiet"
    BY <1>0 DEF DialogInv
  <2>5. QED
    BY <1>0, <1>1, <1>8, <2>1, <2>2, <2>3, <2>4, ReadKeeps
<1>9. QED
  BY <1>6, <1>7, <1>8 DEF OnLogin, again, logout

LEMMA OnLoginUiKeeps == ASSUME IInv, OnLoginUi PROVE IInv'
<1> USE DEF history, core
<1>0. /\ TypeOK /\ DialogInv /\ req \in [Slots -> Requests] /\ header \in Identity
      /\ offices \in {"no", "posted", "failed"} /\ told \in BOOLEAN /\ dialogs \in Seq(LoginDialogs)
  BY DEF IInv, TypeOK
<1>1. /\ app = "running" /\ loginUi /\ loginUi' = FALSE /\ dialogs' = Append(dialogs, NewDialog(TRUE))
      /\ UNCHANGED <<ctx, userInfo, creds, req, header, offices, app, trouble, told>>
  BY DEF OnLoginUi
<1>2. Len(dialogs) \in 0..1 /\ \A j \in Slots : req[j].op # "quiet"
  BY <1>0, <1>1, DialogStep DEF DialogInv
<1>3. /\ dialogs' \in Seq(LoginDialogs) /\ Len(dialogs') = Len(dialogs) + 1
      /\ \A d \in 1..Len(dialogs) : dialogs'[d] = dialogs[d]
      /\ ~dialogs'[Len(dialogs) + 1].ended
      /\ EndedUnread' <=> EndedUnread
  BY <1>0, <1>1, NewDialogStep
<1>5. Len(dialogs') <= 2 /\ (Len(dialogs') = 2 => ~dialogs'[2].ended)
  BY <1>2, <1>3
<1>6. \A j \in Slots : Kept(req'[j], req[j]) /\ (req'[j].owner \in 1..2 => req'[j].owner <= Len(dialogs'))
  BY <1>0, <1>1, <1>2, <1>3 DEF Kept, TypeOK
<1>7. Alone /\ EndedUnread => userInfo = ctx /\ ctx \in Users /\ \A j \in Slots : ~Outstanding(j)
  BY DEF IInv, AloneInv
<1>8. \A j \in Slots : Outstanding(j)' <=> Outstanding(j)
  BY <1>1 DEF Outstanding
<1>9. QED
  BY <1>0, <1>1, <1>2, <1>3, <1>5, <1>6, <1>7, <1>8, ReadKeeps

(* What a result says, if its request was alone. *)
LEMMA ReadAlone ==
    ASSUME IInv, NEW i \in Slots, Outstanding(i), req[i].step \in Done, Alone
    PROVE  /\ ~EndedUnread /\ \A j \in Slots : Outstanding(j) => j = i
           /\ req[i].op \in LoginOps /\ req[i].step = "ok" => userInfo = ctx /\ ctx \in Users
           /\ req[i].op \in {"anon", "logout"} /\ req[i].step = "ok" => ctx = Anon
           /\ req[i].op = "logout" /\ req[i].step = "ok" => creds \notin Users
           /\ req[i].step = "failed" /\ trouble = "none" => header \in {None, ctx}
<1>1. AloneInv /\ StepInv /\ HeaderInv
  BY DEF IInv
<1>2. ~EndedUnread /\ \A j \in Slots : Outstanding(j) => j = i
  BY <1>1 DEF AloneInv
<1>3. Progress(req[i])
  BY <1>1 DEF StepInv
<1>4. req[i].step = "failed" /\ trouble = "none" => header \in {None, ctx}
  BY <1>1, <1>2 DEF HeaderInv
<1>5. QED
  BY <1>2, <1>3, <1>4 DEF Progress

(* A request is taken off. *)
LEMMA TakenOff ==
    ASSUME TypeOK, NEW i \in Slots, req' = [req EXCEPT ![i] = NoRequest]
    PROVE  /\ req' \in [Slots -> Requests] /\ req'[i] = NoRequest
           /\ \A j \in Slots : j # i => req'[j] = req[j]
           /\ \A j \in Slots : Kept(req'[j], req[j]) /\ req'[j] \in {req[j], NoRequest}
           /\ \A j \in Slots : req'[j].owner \in 1..2 => req'[j].owner <= Len(dialogs)
           /\ \A j \in Slots : req'[j].op \in {req[j].op, "none"}
<1>1. req \in [Slots -> Requests] /\ \A j \in Slots : req[j].owner \in 1..2 => req[j].owner <= Len(dialogs)
  BY DEF TypeOK
<1>2. /\ req' \in [Slots -> Requests] /\ req'[i] = NoRequest
      /\ \A j \in Slots : j # i => req'[j] = req[j]
  BY <1>1, NoRequestIs
<1>3. QED
  BY <1>1, <1>2, NoRequestIs DEF Kept

(* The header after a login. *)
LEMMA AfterLoginStep ==
    ASSUME TypeOK, AfterLogin(TRUE) \/ AfterLogin(FALSE), app = "running"
    PROVE  /\ header' \in Identity /\ offices' \in {"no", "posted", "failed"}
           /\ userInfo \in Users => header' = userInfo /\ app' = "running"
           /\ userInfo \notin Users => app' = "fatal"
<1>1. header \in Identity /\ offices \in {"no", "posted", "failed"} /\ \A u \in Users : u \in Identity
  BY DEF TypeOK, Identity
<1>2. CASE userInfo \in Users
  BY <1>1, <1>2 DEF AfterLogin
<1>3. CASE userInfo \notin Users
  BY <1>1, <1>3 DEF AfterLogin
<1>4. QED
  BY <1>2, <1>3

LEMMA RetrieveKeeps == ASSUME IInv, NEW i \in Slots, Retrieve(i) PROVE IInv'
<1> USE DEF core
<1>0. /\ TypeOK /\ DialogInv /\ RequestInv /\ AloneInv /\ header \in Identity /\ loginUi \in BOOLEAN
      /\ offices \in {"no", "posted", "failed"} /\ told \in BOOLEAN /\ dialogs \in Seq(LoginDialogs)
      /\ Len(dialogs) <= 2 /\ Anon \in Identity
  BY DEF IInv, TypeOK, Identity
<1>1. /\ app = "running" /\ req[i].owner = Main /\ req[i].step \in Done
      /\ req' = [req EXCEPT ![i] = NoRequest] /\ UNCHANGED <<ctx, userInfo, creds, dialogs, trouble>>
  BY DEF Retrieve
<1>2. /\ req' \in [Slots -> Requests] /\ req'[i] = NoRequest
      /\ \A j \in Slots : j # i => req'[j] = req[j]
      /\ \A j \in Slots : Kept(req'[j], req[j]) /\ req'[j] \in {req[j], NoRequest}
      /\ \A j \in Slots : req'[j].owner \in 1..2 => req'[j].owner <= Len(dialogs)
      /\ \A j \in Slots : req'[j].op \in {req[j].op, "none"}
  BY <1>0, <1>1, TakenOff
<1>3. req[i].op \in SessionOps \ {"login"} /\ Outstanding(i)
  BY <1>0, <1>1 DEF RequestInv, Outstanding
<1>4. /\ (\E j \in Slots : req'[j].op = "quiet") => Len(dialogs) <= 1
      /\ Len(dialogs) = 2 => ~dialogs[2].ended
      /\ loginUi => Len(dialogs) <= 1 /\ \A j \in Slots : req'[j].op # "quiet"
      /\ req[i].op = "quiet" => Len(dialogs) <= 1 /\ \A j \in Slots : req'[j].op # "quiet"
  BY <1>0, <1>2, NoRequestIs DEF DialogInv
<1>5. EndedUnread' <=> EndedUnread
  BY <1>1 DEF EndedUnread
<1>6. Alone => ~EndedUnread' /\ \A j \in Slots : req'[j].op \notin SessionOps
  <2>1. Alone => ~EndedUnread /\ \A j \in Slots : Outstanding(j) => j = i
    BY <1>1, <1>3, ReadAlone
  <2>2. QED
    BY <1>2, <1>5, <2>1, NoRequestIs DEF Outstanding
(* What is left to show for every result. *)
<1>7. ASSUME header' \in Identity, offices' \in {"no", "posted", "failed"}, loginUi' \in BOOLEAN,
             loginUi' => loginUi \/ req[i].op = "quiet",
             app' = "running" \/ (app' = "fatal" /\ ~Alone),
             trouble = "none" => header' \in {None, ctx},
             told' \in BOOLEAN, told' => told \/ (Alone /\ creds \notin Users)
      PROVE  IInv'
  <2>1. told' => told \/ (Alone /\ creds \notin Users /\ \A j \in Slots : req'[j].op # "login")
    BY <1>6, <1>7 DEF SessionOps
  <2>2. QED
    BY <1>0, <1>1, <1>2, <1>4, <1>6, <1>7, <2>1, ReadKeeps
<1>8. trouble = "none" => Alone
  BY DEF Alone
<1>9. CASE req[i].op = "quiet" /\ req[i].step = "ok"
  <2>1. AfterLogin(TRUE) /\ UNCHANGED <<loginUi, told>>
    BY <1>9 DEF Retrieve
  <2>2. Alone => userInfo = ctx /\ ctx \in Users
    BY <1>1, <1>3, <1>9, ReadAlone DEF LoginOps
  <2>3. /\ header' \in Identity /\ offices' \in {"no", "posted", "failed"}
        /\ userInfo \in Users => header' = userInfo /\ app' = "running"
        /\ userInfo \notin Users => app' = "fatal"
    BY <1>0, <1>1, <2>1, AfterLoginStep
  <2>4. QED
    BY <1>0, <1>7, <1>8, <2>1, <2>2, <2>3
<1>10. CASE req[i].op = "quiet" /\ req[i].step = "failed"
  <2>1. loginUi' = TRUE /\ UNCHANGED <<header, offices, app, told>>
    BY <1>10 DEF Retrieve
  <2>2. trouble = "none" => header \in {None, ctx}
    BY <1>1, <1>3, <1>8, <1>10, ReadAlone
  <2>3. QED
    BY <1>0, <1>1, <1>7, <1>10, <2>1, <2>2
<1>11. CASE req[i].op # "quiet" /\ req[i].step = "ok"
  <2>1. /\ header' = Anon /\ offices' = IF req[i].first THEN "posted" ELSE offices
        /\ told' = (told \/ (req[i].op = "logout" /\ trouble # "overlapped"))
        /\ UNCHANGED <<loginUi, app>>
    BY <1>11 DEF Retrieve
  <2>2. req[i].op \in {"anon", "logout"}
    BY <1>3, <1>11 DEF SessionOps
  <2>3. Alone => ctx = Anon /\ (req[i].op = "logout" => creds \notin Users)
    BY <1>1, <1>3, <1>11, <2>2, ReadAlone
  <2>4. told' \in BOOLEAN /\ (told' => told \/ (Alone /\ creds \notin Users))
    BY <1>0, <2>1, <2>3 DEF Alone
  <2>5. QED
    BY <1>0, <1>1, <1>7, <1>8, <2>1, <2>3, <2>4
<1>12. CASE req[i].op # "quiet" /\ req[i].step = "failed"
  <2>1. /\ offices' = IF req[i].first THEN "failed" ELSE offices
        /\ UNCHANGED <<loginUi, header, app, told>>
    BY <1>12 DEF Retrieve
  <2>2. trouble = "none" => header \in {None, ctx}
    BY <1>1, <1>3, <1>8, <1>12, ReadAlone
  <2>3. QED
    BY <1>0, <1>1, <1>7, <2>1, <2>2
<1>13. QED
  BY <1>1, <1>9, <1>10, <1>11, <1>12 DEF Done

-------------------------------------------------------------------------------
(* DlgLogin. *)

LEMMA DialogSet ==
    ASSUME TypeOK, NEW d \in 1..Len(dialogs), NEW e \in LoginDialogs, dialogs' = [dialogs EXCEPT ![d] = e]
    PROVE  /\ dialogs' \in Seq(LoginDialogs) /\ Len(dialogs') = Len(dialogs)
           /\ \A c \in 1..Len(dialogs) : dialogs'[c] = IF c = d THEN e ELSE dialogs[c]
<1> DEFINE s == dialogs
           u == dialogs'
<1>1. s \in Seq(LoginDialogs) /\ d \in 1..Len(s) /\ u = [s EXCEPT ![d] = e]
  BY DEF TypeOK
<1> HIDE DEF s, u
<1>2. /\ u \in Seq(LoginDialogs) /\ Len(u) = Len(s)
      /\ \A c \in 1..Len(s) : u[c] = IF c = d THEN e ELSE s[c]
  BY <1>1, ExceptSeq
<1>3. QED
  BY <1>2 DEF s, u

LEMMA OnHyperlinkClickKeeps == ASSUME IInv, NEW mode \in Modes, OnHyperlinkClick(mode) PROVE IInv'
<1> USE DEF core, history
<1>0. /\ TypeOK /\ DialogInv /\ AloneInv /\ header \in Identity /\ loginUi \in BOOLEAN /\ told \in BOOLEAN
      /\ offices \in {"no", "posted", "failed"} /\ req \in [Slots -> Requests]
  BY DEF IInv, TypeOK
<1>1. /\ app = "running" /\ dialogs # <<>>
      /\ dialogs' = [dialogs EXCEPT ![Len(dialogs)].mode = mode]
      /\ UNCHANGED <<ctx, userInfo, creds, req, loginUi, header, offices, app, trouble, told>>
  BY DEF OnHyperlinkClick, OnTop
<1>2. Len(dialogs) \in 1..2 /\ dialogs[Len(dialogs)] \in LoginDialogs
  BY <1>0, <1>1, DialogStep
<1>3. PICK e \in LoginDialogs : /\ e.ended = dialogs[Len(dialogs)].ended
                               /\ dialogs' = [dialogs EXCEPT ![Len(dialogs)] = e]
  <2> DEFINE e == [dialogs[Len(dialogs)] EXCEPT !.mode = mode]
  <2>1. e \in LoginDialogs /\ e.ended = dialogs[Len(dialogs)].ended
    BY <1>2 DEF LoginDialogs
  <2>2. dialogs' = [dialogs EXCEPT ![Len(dialogs)] = e]
    BY <1>1
  <2>3. QED
    BY <2>1, <2>2
<1>4. /\ dialogs' \in Seq(LoginDialogs) /\ Len(dialogs') = Len(dialogs)
      /\ \A c \in 1..Len(dialogs) : dialogs'[c].ended = dialogs[c].ended
  <2>1. Len(dialogs) \in 1..Len(dialogs)
    BY <1>2
  <2>2. /\ dialogs' \in Seq(LoginDialogs) /\ Len(dialogs') = Len(dialogs)
        /\ \A c \in 1..Len(dialogs) : dialogs'[c] = IF c = Len(dialogs) THEN e ELSE dialogs[c]
    BY <1>0, <1>3, <2>1, DialogSet
  <2>3. QED
    BY <1>3, <2>2
<1>5. EndedUnread' <=> EndedUnread
  BY <1>4 DEF EndedUnread
<1>6. /\ (\E j \in Slots : req[j].op = "quiet") => Len(dialogs) <= 1
      /\ Len(dialogs') = 2 => ~dialogs'[2].ended
      /\ loginUi => Len(dialogs) <= 1 /\ \A j \in Slots : req[j].op # "quiet"
  BY <1>0, <1>2, <1>4 DEF DialogInv
<1>7. \A j \in Slots : Kept(req[j], req[j]) /\ (req[j].owner \in 1..2 => req[j].owner <= Len(dialogs))
  BY <1>0 DEF Kept, TypeOK
<1>8. Alone /\ EndedUnread => userInfo = ctx /\ ctx \in Users /\ \A j \in Slots : req[j].op \notin SessionOps
  BY <1>0 DEF AloneInv, Outstanding
<1>9. QED
  BY <1>0, <1>1, <1>2, <1>4, <1>5, <1>6, <1>7, <1>8, ReadKeeps DEF Outstanding

LEMMA OnApplyKeeps == ASSUME IInv, NEW user \in Users, OnApply(user) PROVE IInv'
<1> USE DEF core, gui
<1>0. /\ TypeOK /\ userInfo \in Identity /\ creds \in Users \cup {None, Torn}
      /\ dialogs \in Seq(LoginDialogs) /\ req \in [Slots -> Requests]
  BY DEF IInv, TypeOK
<1> DEFINE n == Len(dialogs)
           request == IF Top.mode = "SignIn" THEN Request("login", user, n, FALSE)
                      ELSE Request(Top.mode, None, n, FALSE)
<1>1. /\ app = "running" /\ app' = app /\ dialogs # <<>> /\ PostInto(req, request)
      /\ UNCHANGED <<ctx, userInfo, creds, dialogs, loginUi, header, offices>>
  BY DEF OnApply, OnTop
<1>2. n \in 1..2 /\ Top.mode \in Modes
  BY <1>0, <1>1, DialogStep DEF Top, LoginDialogs
<1>3. n \in Nobody..2 /\ n # Main /\ n # Nobody /\ n <= Len(dialogs)
  BY <1>2 DEF Nobody, Main
<1>4. PICK no \in BOOLEAN : no = FALSE
  OBVIOUS
<1> HIDE DEF n
<1>5. /\ request \in Requests /\ request.owner = n /\ request.step = "post"
      /\ \/ request.op = "login" /\ request.who = user
         \/ request.op \in OtherModes
  <2>1. CASE Top.mode = "SignIn"
    <3>1. request = Request("login", user, n, no)
      BY <1>4, <2>1
    <3>2. "login" \in SessionOps \cup OtherModes /\ user \in Users \cup {None}
      BY DEF SessionOps
    <3> HIDE DEF request
    <3>3. request \in Requests /\ request.op = "login" /\ request.step = "post" /\ request.who = user
          /\ request.owner = n
      BY <1>3, <3>1, <3>2, RequestTypes
    <3>4. QED
      BY <3>3
  <2>2. CASE Top.mode # "SignIn"
    <3>1. request = Request(Top.mode, None, n, no)
      BY <1>4, <2>2
    <3>2. Top.mode \in OtherModes /\ Top.mode \in SessionOps \cup OtherModes /\ None \in Users \cup {None}
      BY <1>2, <2>2 DEF Modes
    <3> HIDE DEF request
    <3>3. request \in Requests /\ request.op = Top.mode /\ request.step = "post" /\ request.owner = n
      BY <1>3, <3>1, <3>2, RequestTypes
    <3>4. QED
      BY <3>2, <3>3
  <2>3. QED
    BY <2>1, <2>2
<1> HIDE DEF request
<1>6. /\ request.op \in SessionOps => request.op = "login" /\ request.op \in LoginOps
      /\ request.op \notin SessionOps \ {"login"} /\ request.op # "none" /\ request.op # "quiet"
      /\ request.op \in LoginOps => request.who \in Users
  BY <1>5 DEF SessionOps, LoginOps
<1>7. request.op \in SessionOps => ProgressAfter(request)
  BY <1>5, <1>6 DEF ProgressAfter
<1>8. \A j \in Slots : Kept(req[j], req[j]) /\ (req[j].owner \in 1..2 => req[j].owner <= Len(dialogs))
  BY <1>0 DEF Kept, TypeOK
<1>9. Len(dialogs) <= Len(dialogs)
  BY <1>0
<1>10. QED
  BY <1>0, <1>1, <1>3, <1>5, <1>6, <1>7, <1>8, <1>9, PostKeeps

LEMMA OnSkipKeeps == ASSUME IInv, OnSkip PROVE IInv'
<1> USE DEF core
<1>0. /\ TypeOK /\ RequestInv /\ userInfo \in Identity /\ creds \in Users \cup {None, Torn}
      /\ dialogs \in Seq(LoginDialogs) /\ req \in [Slots -> Requests]
  BY DEF IInv, TypeOK
<1> DEFINE n == Len(dialogs)
           request == Request("anon", None, Main, Top.first)
<1>1. /\ app = "running" /\ app' = app /\ dialogs # <<>> /\ PostInto(Closed(n), request)
      /\ dialogs' = SubSeq(dialogs, 1, n - 1)
      /\ UNCHANGED <<ctx, userInfo, creds, loginUi, header, offices>>
  BY DEF OnSkip, OnTop
<1>2. n \in 1..2 /\ Top.first \in BOOLEAN
  BY <1>0, <1>1, DialogStep DEF Top, LoginDialogs
<1>3. /\ dialogs' \in Seq(LoginDialogs) /\ Len(dialogs') = n - 1
      /\ \A d \in 1..(n - 1) : dialogs'[d] = dialogs[d]
  BY <1>0, <1>1, DialogStep
<1>4. Len(dialogs') <= Len(dialogs) /\ \A d \in 1..Len(dialogs') : dialogs'[d].ended = dialogs[d].ended
  BY <1>2, <1>3
<1> HIDE DEF n
<1>5. /\ request \in Requests /\ request.op = "anon" /\ request.step = "post" /\ request.owner = Main
  <2>1. "anon" \in SessionOps \cup OtherModes /\ Main \in Nobody..2
    BY DEF SessionOps, Main, Nobody
  <2>2. QED
    BY <1>2, <2>1, RequestTypes
<1> HIDE DEF request
<1>6. /\ request.op \in SessionOps \ {"login"} /\ request.op \notin LoginOps /\ request.op # "none"
      /\ request.op # "quiet" /\ request.owner # Nobody /\ request.owner \notin 1..2
      /\ ProgressAfter(request)
  BY <1>5 DEF SessionOps, LoginOps, Main, Nobody, ProgressAfter
<1>7. /\ Closed(n) \in [Slots -> Requests]
      /\ \A j \in Slots : Kept(Closed(n)[j], req[j]) /\ Closed(n)[j].owner # n
  BY <1>0, <1>2, ClosedStep
<1>8. \A j \in Slots : Closed(n)[j].owner \in 1..2 => Closed(n)[j].owner <= Len(dialogs')
  <2>1. ASSUME NEW j \in Slots, Closed(n)[j].owner \in 1..2 PROVE Closed(n)[j].owner <= n
    <3>1. Closed(n)[j].owner = req[j].owner
      BY <1>7, <2>1, NoRequestIs DEF Kept, Nobody
    <3>2. QED
      BY <1>0, <2>1, <3>1 DEF TypeOK, n
  <2>2. QED
    BY <1>2, <1>3, <1>7, <2>1
<1>9. QED
  BY <1>0, <1>1, <1>3, <1>4, <1>5, <1>6, <1>7, <1>8, PostKeeps

LEMMA RetrieveInDialogKeeps == ASSUME IInv, NEW i \in Slots, RetrieveInDialog(i) PROVE IInv'
<1> USE DEF core, history
<1>0. /\ TypeOK /\ DialogInv /\ RequestInv /\ AloneInv /\ header \in Identity /\ loginUi \in BOOLEAN
      /\ offices \in {"no", "posted", "failed"} /\ told \in BOOLEAN /\ dialogs \in Seq(LoginDialogs)
      /\ Len(dialogs) <= 2 /\ req \in [Slots -> Requests]
  BY DEF IInv, TypeOK
<1>1. PICK d \in 1..2 : d = req[i].owner /\ d <= Len(dialogs)
  <2>1. req[i].owner \in 1..Len(dialogs)
    BY DEF RetrieveInDialog
  <2>2. QED
    BY <1>0, <2>1, DialogStep
<1>2. /\ app = "running" /\ req[i].step \in Done
      /\ UNCHANGED <<ctx, userInfo, creds, loginUi, trouble, told>>
  BY DEF RetrieveInDialog, OnTop
<1>3. /\ Len(dialogs) \in 1..2 /\ \A c \in 1..Len(dialogs) : dialogs[c] \in LoginDialogs
      /\ dialogs # <<>> /\ d \in 1..Len(dialogs)
  BY <1>0, <1>1, DialogStep
<1>4. \A j \in Slots : req[j].owner \in 1..2 => req[j].owner <= Len(dialogs)
  BY <1>0 DEF TypeOK
<1>5. trouble = "none" => Alone
  BY DEF Alone
<1>6. req[i].op \in SessionOps => req[i].op = "login" /\ Outstanding(i) /\ req[i].op \in LoginOps
  BY <1>0, <1>1 DEF RequestInv, Main, Outstanding, LoginOps
<1>7. CASE /\ req[i].op = "login" /\ req[i].step = "ok" /\ d = Len(dialogs) /\ req' = Closed(d)
           /\ dialogs' = SubSeq(dialogs, 1, d - 1) /\ AfterLogin(dialogs[d].first)
  <2>1. /\ ~EndedUnread \/ ~Alone
        /\ Alone => userInfo = ctx /\ ctx \in Users /\ \A j \in Slots : Outstanding(j) => j = i
    BY <1>2, <1>6, <1>7, ReadAlone DEF SessionOps
  <2>2. /\ req' \in [Slots -> Requests] /\ \A j \in Slots : Kept(req'[j], req[j]) /\ req'[j].owner # d
        /\ req'[i] = NoRequest
    <3>1. req' = Closed(d)
      BY <1>7
    <3>2. Closed(d) \in [Slots -> Requests] /\ \A j \in Slots : Kept(Closed(d)[j], req[j]) /\ Closed(d)[j].owner # d
      BY <1>0, ClosedStep, Zenon
    <3>3. Closed(d)[i] = NoRequest
      BY <1>0, <1>1, <1>2, ClosedStep, Zenon
    <3>4. QED
      BY <3>1, <3>2, <3>3, Zenon
  <2>3. /\ dialogs' \in Seq(LoginDialogs) /\ Len(dialogs') = d - 1
        /\ \A c \in 1..(d - 1) : dialogs'[c] = dialogs[c]
    BY <1>0, <1>3, <1>7, DialogStep
  <2>4. Len(dialogs') \in 0..1 /\ Len(dialogs') # 2 /\ Len(dialogs') <= 2 /\ Len(dialogs') <= 1
    BY <1>1, <2>3
  <2>5. EndedUnread' => EndedUnread
    BY <1>3, <1>7, <2>3 DEF EndedUnread
  <2>6. /\ header' \in Identity /\ offices' \in {"no", "posted", "failed"}
        /\ userInfo \in Users => header' = userInfo /\ app' = "running"
        /\ userInfo \notin Users => app' = "fatal"
    <3>1. dialogs[d].first \in BOOLEAN
      BY <1>3 DEF LoginDialogs
    <3>2. AfterLogin(TRUE) \/ AfterLogin(FALSE)
      BY <1>7, <3>1
    <3>3. QED
      BY <1>0, <1>2, <3>2, AfterLoginStep
  <2>7. \A j \in Slots : req'[j].owner \in 1..2 => req'[j].owner <= Len(dialogs')
    <3>1. ASSUME NEW j \in Slots, req'[j].owner \in 1..2 PROVE req'[j].owner <= d
      <4>1. req'[j].owner = req[j].owner
        BY <2>2, <3>1, NoRequestIs DEF Kept, Nobody
      <4>2. QED
        BY <1>4, <1>7, <3>1, <4>1
    <3>2. QED
      BY <1>1, <2>2, <2>3, <3>1
  <2>8. Alone => \A j \in Slots : Outstanding(j) => req'[j] \in {req[j], NoRequest}
    BY <2>1, <2>2
  <2>9. loginUi => \A j \in Slots : req'[j].op # "quiet"
    BY <1>0, <2>2, NoRequestIs DEF DialogInv, Kept
  <2>10. QED
    BY <1>0, <1>2, <1>5, <2>1, <2>2, <2>3, <2>4, <2>5, <2>6, <2>7, <2>8, <2>9, ReadKeeps
<1>8. ASSUME req' = [req EXCEPT ![i] = NoRequest], UNCHANGED <<header, offices, app>>
      PROVE  /\ req' \in [Slots -> Requests] /\ req'[i] = NoRequest
             /\ \A j \in Slots : j # i => req'[j] = req[j]
             /\ \A j \in Slots : Kept(req'[j], req[j]) /\ req'[j] \in {req[j], NoRequest}
             /\ \A j \in Slots : req'[j].owner \in 1..2 => req'[j].owner <= Len(dialogs)
             /\ (\E j \in Slots : req'[j].op = "quiet") => Len(dialogs) <= 1
             /\ loginUi => Len(dialogs) <= 1 /\ \A j \in Slots : req'[j].op # "quiet"
  <2>1. /\ req' \in [Slots -> Requests] /\ req'[i] = NoRequest
        /\ \A j \in Slots : j # i => req'[j] = req[j]
        /\ \A j \in Slots : Kept(req'[j], req[j]) /\ req'[j] \in {req[j], NoRequest}
        /\ \A j \in Slots : req'[j].owner \in 1..2 => req'[j].owner <= Len(dialogs)
        /\ \A j \in Slots : req'[j].op \in {req[j].op, "none"}
    BY <1>0, <1>8, TakenOff
  <2>2. \A j \in Slots : req'[j].op = "quiet" => req[j].op = "quiet"
    BY <2>1
  <2>3. QED
    BY <1>0, <2>1, <2>2 DEF DialogInv
<1>9. CASE /\ req[i].op = "login" /\ req[i].step = "ok" /\ d # Len(dialogs)
           /\ req' = [req EXCEPT ![i] = NoRequest]
           /\ dialogs' = [dialogs EXCEPT ![d].ended = TRUE] /\ UNCHANGED <<header, offices, app>>
  <2>1. Alone => userInfo = ctx /\ ctx \in Users /\ \A j \in Slots : Outstanding(j) => j = i
    BY <1>2, <1>6, <1>9, ReadAlone DEF SessionOps
  <2>2. PICK e \in LoginDialogs : e.ended /\ dialogs' = [dialogs EXCEPT ![d] = e]
    <3> DEFINE e == [dialogs[d] EXCEPT !.ended = TRUE]
    <3>1. e \in LoginDialogs /\ e.ended
      BY <1>3 DEF LoginDialogs
    <3>2. dialogs' = [dialogs EXCEPT ![d] = e]
      BY <1>9
    <3>3. QED
      BY <3>1, <3>2
  <2>3. /\ dialogs' \in Seq(LoginDialogs) /\ Len(dialogs') = Len(dialogs)
        /\ \A c \in 1..Len(dialogs) : dialogs'[c] = IF c = d THEN e ELSE dialogs[c]
    BY <1>0, <1>3, <2>2, DialogSet
  <2>4. d = 1 /\ Len(dialogs) = 2
    <3> DEFINE n == Len(dialogs)
    <3>1. n \in 1..2 /\ d \in 1..n /\ d # n
      BY <1>3, <1>9
    <3> HIDE DEF n
    <3>2. d = 1 /\ n = 2
      BY <3>1
    <3>3. QED
      BY <3>2 DEF n
  <2>5. EndedUnread' /\ ~dialogs'[2].ended
    <3>1. ~dialogs[2].ended
      BY <1>0, <2>4 DEF DialogInv
    <3>2. 1 \in 1..Len(dialogs) /\ 2 \in 1..Len(dialogs) /\ 1 \in 1..Len(dialogs')
      BY <2>3, <2>4
    <3>3. dialogs'[1].ended /\ dialogs'[2] = dialogs[2]
      BY <2>2, <2>3, <2>4, <3>2
    <3>4. QED
      BY <3>1, <3>2, <3>3 DEF EndedUnread
  <2>6. Alone => \A j \in Slots : req'[j].op \notin SessionOps
    BY <1>8, <1>9, <2>1, NoRequestIs DEF Outstanding
  <2>7. QED
    BY <1>0, <1>2, <1>8, <1>9, <2>1, <2>3, <2>5, <2>6, ReadKeeps DEF Outstanding
<1>10. CASE /\ ~(req[i].op = "login" /\ req[i].step = "ok")
            /\ req' = [req EXCEPT ![i] = NoRequest] /\ UNCHANGED <<dialogs, header, offices, app>>
  <2>1. EndedUnread' <=> EndedUnread
    BY <1>10 DEF EndedUnread
  <2>2. trouble = "none" => \/ header \in {None, ctx}
                           \/ \A j \in Slots : Outstanding(j) => req'[j] = req[j]
    <3>1. CASE req[i].op \in SessionOps
      BY <1>2, <1>5, <1>6, <1>10, <3>1, ReadAlone DEF Done
    <3>2. CASE req[i].op \notin SessionOps
      BY <1>8, <1>10, <3>2 DEF Outstanding
    <3>3. QED
      BY <3>1, <3>2
  <2>3. Alone /\ EndedUnread => userInfo = ctx /\ ctx \in Users /\ \A j \in Slots : req'[j].op \notin SessionOps
    BY <1>0, <1>8, <1>10, NoRequestIs DEF AloneInv, Outstanding
  <2>4. Len(dialogs) = 2 => ~dialogs[2].ended
    BY <1>0 DEF DialogInv
  <2>5. QED
    BY <1>0, <1>2, <1>8, <1>10, <2>1, <2>2, <2>3, <2>4, ReadKeeps DEF Outstanding
<1>11. QED
  BY <1>1, <1>7, <1>9, <1>10 DEF RetrieveInDialog

LEMMA OuterReturnsKeeps == ASSUME IInv, OuterReturns PROVE IInv'
<1> USE DEF core, history
<1>0. /\ TypeOK /\ DialogInv /\ RequestInv /\ AloneInv /\ header \in Identity /\ loginUi \in BOOLEAN
      /\ offices \in {"no", "posted", "failed"} /\ told \in BOOLEAN /\ req \in [Slots -> Requests]
  BY DEF IInv, TypeOK
<1>1. /\ app = "running" /\ dialogs # <<>> /\ dialogs[Len(dialogs)].ended /\ req' = Closed(1)
      /\ dialogs' = <<>> /\ AfterLogin(dialogs[1].first)
      /\ UNCHANGED <<ctx, userInfo, creds, loginUi, trouble, told>>
  BY DEF OuterReturns, Returning
<1>2. Len(dialogs) = 1 /\ dialogs[1] \in LoginDialogs
  <2>1. Len(dialogs) \in 1..2 /\ \A c \in 1..Len(dialogs) : dialogs[c] \in LoginDialogs
    BY <1>0, <1>1, DialogStep
  <2>2. Len(dialogs) # 2
    BY <1>0, <1>1 DEF DialogInv
  <2>3. QED
    BY <2>1, <2>2
<1>3. EndedUnread
  BY <1>1, <1>2 DEF EndedUnread
<1>4. Alone => userInfo = ctx /\ ctx \in Users /\ \A j \in Slots : ~Outstanding(j)
  BY <1>0, <1>3 DEF AloneInv
<1>5. dialogs' \in Seq(LoginDialogs) /\ Len(dialogs') = 0
  BY <1>1, EmptySeq
<1>6. ~EndedUnread' /\ Len(dialogs') <= 2 /\ Len(dialogs') <= 1 /\ Len(dialogs') # 2
  BY <1>5 DEF EndedUnread
<1>7. /\ req' \in [Slots -> Requests] /\ \A j \in Slots : Kept(req'[j], req[j]) /\ req'[j].owner # 1
  <2>1. PICK d \in 1..2 : d = 1
    OBVIOUS
  <2>2. req' = Closed(d)
    BY <1>1, <2>1
  <2>3. QED
    BY <1>0, <2>1, <2>2, ClosedStep
<1>8. \A j \in Slots : req'[j].owner \notin 1..2
  <2>1. ASSUME NEW j \in Slots, req'[j].owner \in 1..2 PROVE FALSE
    <3>1. req'[j].owner = req[j].owner
      BY <1>7, <2>1, NoRequestIs DEF Kept, Nobody
    <3>2. req[j].owner <= 1
      BY <1>0, <1>2, <2>1, <3>1 DEF TypeOK
    <3>3. QED
      BY <1>7, <2>1, <3>1, <3>2
  <2>2. QED
    BY <2>1
<1>9. /\ header' \in Identity /\ offices' \in {"no", "posted", "failed"}
      /\ userInfo \in Users => header' = userInfo /\ app' = "running"
      /\ userInfo \notin Users => app' = "fatal"
  <2>1. dialogs[1].first \in BOOLEAN
    BY <1>2 DEF LoginDialogs
  <2>2. AfterLogin(TRUE) \/ AfterLogin(FALSE)
    BY <1>1, <2>1
  <2>3. QED
    BY <1>0, <1>1, <2>2, AfterLoginStep
<1>10. trouble = "none" => Alone
  BY DEF Alone
<1>11. loginUi => \A j \in Slots : req'[j].op # "quiet"
  BY <1>0, <1>7, NoRequestIs DEF DialogInv, Kept
<1>12. QED
  BY <1>0, <1>1, <1>4, <1>5, <1>6, <1>7, <1>8, <1>9, <1>10, <1>11, ReadKeeps

(* A new process remembers the file, and what the user was told. *)
LEMMA RestartKeeps == ASSUME IInv, Restart PROVE IInv'
<1>0. TypeOK /\ ToldInv
  BY DEF IInv
<1>1. /\ ctx' = None /\ userInfo' = None /\ header' = None /\ req' = [i \in Slots |-> NoRequest]
      /\ dialogs' = <<>> /\ loginUi' = FALSE /\ offices' = "no" /\ app' = "new" /\ trouble' = "none"
      /\ told' = told /\ creds' \in {creds, Torn}
  BY DEF Restart
<1>2. <<>> \in Seq(LoginDialogs) /\ Len(<<>>) = 0 /\ Torn \notin Users
  BY EmptySeq
<1>3. req' \in [Slots -> Requests] /\ \A i \in Slots : req'[i] = NoRequest /\ req'[i].owner \notin 1..2
  BY <1>1, NoRequestIs
<1>4. TypeOK'
  <2>1. None \in Identity /\ told' \in BOOLEAN /\ creds' \in Users \cup {None, Torn}
    BY <1>0, <1>1 DEF Identity, TypeOK
  <2>2. dialogs' \in Seq(LoginDialogs) /\ Len(dialogs') <= 2
    BY <1>1, <1>2
  <2>3. QED
    BY <1>1, <1>3, <2>1, <2>2 DEF TypeOK
<1>5. ~EndedUnread'
  BY <1>1, <1>2 DEF EndedUnread
<1>6. DialogInv' /\ RequestInv'
  BY <1>1, <1>2, <1>3, NoRequestIs DEF DialogInv, RequestInv, LoginOps
<1>7. AloneInv' /\ StepInv' /\ HeaderInv'
  BY <1>1, <1>3, <1>5, NoRequestIs DEF AloneInv, StepInv, Progress, HeaderInv, LoginOps, Outstanding
<1>8. ToldInv' /\ DiesOnlyIfOverlapped'
  BY <1>0, <1>1, <1>2, <1>3, NoRequestIs DEF ToldInv, DiesOnlyIfOverlapped, Alone
<1>9. QED
  BY <1>4, <1>6, <1>7, <1>8 DEF IInv

LEMMA StutterKeeps == ASSUME IInv, UNCHANGED vars PROVE IInv'
<1> USE DEF vars, volatile, history
<1>1. TypeOK' /\ DialogInv' /\ RequestInv'
  BY DEF IInv, TypeOK, DialogInv, RequestInv
<1>2. (Alone' <=> Alone) /\ (EndedUnread' <=> EndedUnread) /\ \A i \in Slots : Outstanding(i)' <=> Outstanding(i)
  BY DEF Alone, EndedUnread, Outstanding
<1>3. AloneInv' /\ HeaderInv' /\ ToldInv'
  BY <1>2 DEF IInv, AloneInv, HeaderInv, ToldInv
<1>4. StepInv'
  BY <1>2 DEF IInv, StepInv, Progress
<1>5. DiesOnlyIfOverlapped'
  BY DEF IInv, DiesOnlyIfOverlapped
<1>6. QED
  BY <1>1, <1>3, <1>4, <1>5 DEF IInv

-------------------------------------------------------------------------------
LEMMA SessionCorrect == Spec => []IInv
<1>1. ASSUME IInv, [Next]_vars PROVE IInv'
  <2>1. ASSUME NEW i \in Slots, Answer(i) \/ Retrieve(i) \/ RetrieveInDialog(i) PROVE IInv'
    BY <1>1, <2>1, LoginAnswerKeeps, AskUserInfoKeeps, UserInfoAnswerKeeps, AnonymousAnswerKeeps,
       LogoutAnswerKeeps, AccountAnswerKeeps, RetrieveKeeps, RetrieveInDialogKeeps DEF Answer
  <2>2. CASE UserStep
    BY <1>1, <2>2, OnActivateKeeps, OnLoginKeeps, OnSkipKeeps, RestartKeeps, OnHyperlinkClickKeeps,
       OnApplyKeeps DEF UserStep
  <2>3. CASE OnLoginUi \/ OuterReturns \/ UNCHANGED vars
    BY <1>1, <2>3, OnLoginUiKeeps, OuterReturnsKeeps, StutterKeeps
  <2>4. QED
    BY <1>1, <2>1, <2>2, <2>3 DEF Next
<1>2. QED
  BY SessionInit, <1>1, PTL DEF Spec

(* When no request of the session is under way and none failed half way or *)
(* ran beside another, the header of the main window names the user whose  *)
(* token CloudPrintClient sends: OnLoginResult, Retrieve and the end of a  *)
(* dialog leave the window and m_loginCtx with the same user.              *)
THEOREM HeaderIsTrue == Spec => []HeaderTrue
<1>1. IInv => HeaderTrue
  <2> SUFFICES ASSUME IInv, Settled, header # None, trouble = "none" PROVE header = ctx
    BY DEF HeaderTrue
  <2>1. \A i \in Slots : ~Outstanding(i)
    BY NoRequestIs DEF Settled, Outstanding
  <2>2. QED
    BY <2>1 DEF IInv, HeaderInv, Settled
<1>2. QED
  BY SessionCorrect, <1>1, PTL

(* "Wrong user info after login" and the use of a context that a logout    *)
(* has reset need two requests of the session at a time.                   *)
THEOREM OneRequestIsSafe == Spec => []DiesOnlyIfOverlapped
<1>1. IInv => DiesOnlyIfOverlapped
  BY DEF IInv
<1>2. QED
  BY SessionCorrect, <1>1, PTL

(* Who was told that he is logged out is not logged in by the next start,  *)
(* whatever failed or crashed meanwhile.                                   *)
THEOREM LogoutIsKept == Spec => []LogoutForgets
<1>1. IInv => LogoutForgets
  BY DEF IInv, ToldInv, LogoutForgets, GetCredentials
<1>2. QED
  BY SessionCorrect, <1>1, PTL
===============================================================================
