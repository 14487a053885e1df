----------------------------- MODULE DesktopProofs -----------------------------
(* Proofs about Desktop, for any jobs, checks for updates and depth of      *)
(* dialogs.                                                                 *)
EXTENDS Desktop, SequenceTheorems, TLAPS

USE MaxModalAssumption

-------------------------------------------------------------------------------
(* What the operators on sequences keep.                                   *)

(* Taking the last element off. *)
LEMMA FrontKeeps ==
    ASSUME NEW S, NEW s \in Seq(S), s # <<>>
    PROVE  /\ Front(s) \in Seq(S) /\ Len(s) \in Nat \ {0} /\ Len(Front(s)) = Len(s) - 1
           /\ \A i \in 1..(Len(s) - 1) : Front(s)[i] = s[i]
           /\ Last(s) \in S /\ Last(s) = s[Len(s)]
<1>1. Len(s) \in Nat \ {0} /\ \A i \in 1..Len(s) : s[i] \in S
  BY EmptySeq, ElementOfSeq
<1> DEFINE t == Front(s)
<1>2. t = SubSeq(s, 1, Len(s) - 1)
  BY DEF Front
<1>3. 1 \in Int /\ Len(s) - 1 \in Int /\ \A i \in 1..(Len(s) - 1) : i \in 1..Len(s) /\ s[i] \in S
  BY <1>1
<1>4. t \in Seq(S) /\ Len(t) = Len(s) - 1 /\ \A i \in 1..(Len(s) - 1) : t[i] = s[i]
  <2>1. /\ SubSeq(s, 1, Len(s) - 1) \in Seq(S)
        /\ Len(SubSeq(s, 1, Len(s) - 1)) = IF 1 <= Len(s) - 1 THEN (Len(s) - 1) - 1 + 1 ELSE 0
        /\ \A i \in 1..((Len(s) - 1) - 1 + 1) : SubSeq(s, 1, Len(s) - 1)[i] = s[1 + i - 1]
    BY <1>1, <1>3, SubSeqProperties
  <2>2. /\ t \in Seq(S) /\ Len(t) = IF 1 <= Len(s) - 1 THEN (Len(s) - 1) - 1 + 1 ELSE 0
        /\ \A i \in 1..((Len(s) - 1) - 1 + 1) : t[i] = s[1 + i - 1]
    BY <1>2, <2>1
  <2> HIDE DEF t
  <2>3. Len(t) = Len(s) - 1
    <3> DEFINE n == Len(s)
               l == Len(t)
    <3>1. n \in Nat \ {0} /\ l = IF 1 <= n - 1 THEN (n - 1) - 1 + 1 ELSE 0
      BY <1>1, <2>2
    <3> HIDE DEF n, l
    <3>2. l = n - 1
      BY <3>1
    <3>3. QED
      BY <3>2 DEF n, l
  <2>4. \A i \in 1..(Len(s) - 1) : i \in 1..((Len(s) - 1) - 1 + 1) /\ 1 + i - 1 = i
    BY <1>1
  <2>5. \A i \in 1..(Len(s) - 1) : t[i] = s[i]
    BY <2>2, <2>4
  <2>6. QED
    BY <2>2, <2>3, <2>5
<1>5. Last(s) = s[Len(s)] /\ Last(s) \in S
  BY <1>1 DEF Last
<1>6. QED
  BY <1>1, <1>4, <1>5

LEMMA DesktopInit == Init => IInv
<1> SUFFICES ASSUME Init PROVE IInv
  OBVIOUS
<1>1. <<>> \in Seq(Dialogs) /\ DOMAIN <<>> = {}
  BY EmptySeq
<1>2. NoUpdate \in UpdateStates
  BY DEF NoUpdate, UpdateStates, Stages
<1>3. TypeOK
  BY <1>1, <1>2 DEF Init, TypeOK
<1>4. ClosingInv /\ DialogInv /\ LockedInv /\ OneCheckInv
  BY <1>1 DEF Init, ClosingInv, DialogInv, LockedInv, OneCheckInv, Locked
<1>5. ClosesWithoutJobs /\ ProcessingTrue /\ StuckOnlyIfLaunched
  BY DEF Init, ClosesWithoutJobs, ProcessingTrue, StuckOnlyIfLaunched
<1>6. QED
  BY <1>3, <1>4, <1>5 DEF IInv

-------------------------------------------------------------------------------
(* The updates.                                                            *)

LEMMA DialogTypes ==
    \A kind \in {"exit", "update", "noUpdate"}, check \in Checks \cup {0}, locked \in BOOLEAN :
        Dialog(kind, check, locked) \in Dialogs
<1>1. QED
  BY DEF Dialog, Dialogs

(* An update that is under way is not NoUpdate. *)
LEMMA UpdateTypes ==
    /\ NoUpdate \in UpdateStates
    /\ \A u \in UpdateStates : u.stage # "none" => u # NoUpdate
    /\ \A u \in UpdateStates, stage \in Stages :
         [u EXCEPT !.stage = stage] \in UpdateStates /\ [u EXCEPT !.stage = stage].stage = stage
<1>1. QED
  BY DEF NoUpdate, UpdateStates, Stages

LEMMA StageStep ==
    ASSUME update \in [Checks -> UpdateStates], NEW k \in Checks, NEW stage \in Stages, Stage(k, stage)
    PROVE  /\ update' \in [Checks -> UpdateStates] /\ update'[k].stage = stage
           /\ \A i \in Checks : i # k => update'[i] = update[i]
<1>1. update' = [update EXCEPT ![k] = [update[k] EXCEPT !.stage = stage]]
  BY DEF Stage
<1>2. update[k] \in UpdateStates
  OBVIOUS
<1>3. QED
  BY <1>1, <1>2, UpdateTypes

LEMMA OverStep ==
    ASSUME update \in [Checks -> UpdateStates], NEW k \in Checks, Over(k)
    PROVE  /\ update' \in [Checks -> UpdateStates] /\ update'[k] = NoUpdate
           /\ \A i \in Checks : i # k => update'[i] = update[i]
<1>1. QED
  BY UpdateTypes DEF Over

(* Opening and closing a dialog.                                           *)
LEMMA OpenStep ==
    ASSUME modal \in Seq(Dialogs), NEW dialog \in Dialogs, modal' = Append(modal, dialog)
    PROVE  /\ modal' \in Seq(Dialogs) /\ Len(modal) \in Nat
           /\ DOMAIN modal = 1..Len(modal) /\ DOMAIN modal' = 1..(Len(modal) + 1)
           /\ \A d \in 1..Len(modal) : modal'[d] = modal[d]
           /\ modal'[Len(modal) + 1] = dialog
<1> DEFINE m == modal
           n == modal'
<1>1. m \in Seq(Dialogs) /\ n = Append(m, dialog)
  OBVIOUS
<1> HIDE DEF m, n
<1>2. /\ n \in Seq(Dialogs) /\ Len(n) = Len(m) + 1 /\ n[Len(m) + 1] = dialog
      /\ \A d \in 1..Len(m) : n[d] = m[d]
  BY <1>1, AppendProperties
<1>3. Len(m) \in Nat /\ DOMAIN m = 1..Len(m) /\ DOMAIN n = 1..(Len(m) + 1)
  BY <1>1, <1>2
<1>4. QED
  BY <1>2, <1>3 DEF m, n

LEMMA AnsweredStep ==
    ASSUME modal \in Seq(Dialogs), NEW kind, Answered(kind)
    PROVE  /\ modal' \in Seq(Dialogs) /\ Len(modal) \in Nat \ {0} /\ Running
           /\ DOMAIN modal = 1..Len(modal) /\ DOMAIN modal' = 1..(Len(modal) - 1)
           /\ \A d \in DOMAIN modal' : d \in DOMAIN modal /\ d # Len(modal) /\ modal'[d] = modal[d]
           /\ Last(modal) = modal[Len(modal)] /\ modal[Len(modal)].kind = kind
<1> DEFINE m == modal
           n == modal'
<1>1. m \in Seq(Dialogs) /\ m # <<>> /\ n = Front(m) /\ Running /\ Last(m).kind = kind
  BY DEF Answered
<1> HIDE DEF m, n
<1>2. /\ n \in Seq(Dialogs) /\ Len(m) \in Nat \ {0} /\ Len(n) = Len(m) - 1
      /\ \A d \in 1..(Len(m) - 1) : n[d] = m[d]
      /\ Last(m) = m[Len(m)]
  BY <1>1, FrontKeeps
<1>3. DOMAIN m = 1..Len(m) /\ DOMAIN n = 1..(Len(m) - 1)
  BY <1>1, <1>2
<1>4. \A d \in DOMAIN n : d \in DOMAIN m /\ d # Len(m) /\ n[d] = m[d]
  BY <1>2, <1>3
<1>5. QED
  BY <1>1, <1>2, <1>3, <1>4 DEF m, n

(* What is answered: the innermost dialog, about an update that waits for  *)
(* the answer.                                                             *)
LEMMA AnsweredUpdate ==
    ASSUME TypeOK, DialogInv, Answered("update") \/ Answered("noUpdate")
    PROVE  /\ Last(modal).check \in Checks /\ update[Last(modal).check].stage = "asking"
           /\ Len(modal) \in DOMAIN modal /\ Asks(Len(modal)) /\ Last(modal) = modal[Len(modal)]
<1>1. modal \in Seq(Dialogs)
  BY DEF TypeOK
<1>2. PICK kind \in {"update", "noUpdate"} : Answered(kind)
  OBVIOUS
<1>3. Len(modal) \in DOMAIN modal /\ Last(modal) = modal[Len(modal)] /\ Last(modal).kind = kind
  BY <1>1, <1>2, AnsweredStep
<1>4. QED
  BY <1>3 DEF DialogInv, Asks

LEMMA DesktopTypeNext == IInv /\ [Next]_vars => TypeOK'
<1> SUFFICES ASSUME IInv, [Next]_vars PROVE TypeOK'
  OBVIOUS
<1> USE DEF window, updates, history, Running
<1>0. TypeOK /\ DialogInv /\ update \in [Checks -> UpdateStates] /\ modal \in Seq(Dialogs)
  BY DEF IInv, TypeOK
<1>1. ASSUME update' \in [Checks -> UpdateStates], modal' \in Seq(Dialogs), UNCHANGED job,
             {closeOnLastJobDestroyed', shown', jobsPage', processing'} \subseteq BOOLEAN,
             {printedLate', twoChecks', launched'} \subseteq BOOLEAN,
             app' \in {"running", "closed", "stuck"}
      PROVE  TypeOK'
  BY <1>0, <1>1 DEF TypeOK
<1>2. ASSUME NEW j \in Jobs,
             OnJobCreate(j) \/ RemoveJobToPendingList(j) \/ OnJobDestroy(j) \/ CloseOnJobDestroy(j)
      PROVE  TypeOK'
  BY <1>0, <1>2 DEF OnJobCreate, RemoveJobToPendingList, OnJobDestroy, CloseOnJobDestroy, TypeOK
<1>3. ASSUME NEW locked \in BOOLEAN, CheckPendingJobsAndCloseApp(locked)
      PROVE  modal' \in Seq(Dialogs) /\ jobsPage' \in BOOLEAN /\ app' \in {"running", "closed", "stuck"}
  <2>1. Dialog("exit", 0, locked) \in Dialogs
    BY DialogTypes
  <2>2. Open(Dialog("exit", 0, locked)) => modal' \in Seq(Dialogs)
    BY <1>0, <2>1, OpenStep DEF Open
  <2>3. QED
    BY <1>0, <1>3, <2>2 DEF CheckPendingJobsAndCloseApp, TypeOK
<1>4. CASE Quit
  BY <1>0, <1>1, <1>3, <1>4 DEF Quit, TypeOK
<1>5. ASSUME Answered("exit") \/ Answered("update") \/ Answered("noUpdate") PROVE modal' \in Seq(Dialogs)
  BY <1>0, <1>5, AnsweredStep
<1>6. ASSUME NEW wait \in BOOLEAN, ExitAnswer(wait) PROVE TypeOK'
  BY <1>0, <1>1, <1>5, <1>6 DEF ExitAnswer, TypeOK
<1>7. CASE Hide \/ Show \/ SelectPage \/ IdleUnderLock
  BY <1>0, <1>1, <1>7 DEF Hide, Show, SelectPage, IdleUnderLock, TypeOK
<1>8. ASSUME NEW k \in Checks, NEW manually \in BOOLEAN, CheckForUpdates(k, manually) PROVE TypeOK'
  <2>1. [stage |-> "checking", manually |-> manually] \in UpdateStates
    BY DEF UpdateStates, Stages
  <2>2. QED
    BY <1>0, <1>1, <1>8, <2>1 DEF CheckForUpdates, Relock, TypeOK
<1>9. ASSUME NEW k \in Checks, NEW stage \in Stages, Stage(k, stage) PROVE update' \in [Checks -> UpdateStates]
  BY <1>0, <1>9, StageStep
<1>10. ASSUME NEW k \in Checks, Over(k) PROVE update' \in [Checks -> UpdateStates]
  BY <1>0, <1>10, OverStep
<1>11. ASSUME NEW k \in Checks, UpdateAnswers(k) PROVE TypeOK'
  <2>1. \E stage \in Stages : Stage(k, stage)
    BY <1>11 DEF UpdateAnswers, AsyncCheckForUpdates, AsyncDownloadUpdate, Stages
  <2>2. QED
    BY <1>0, <1>1, <1>9, <1>11, <2>1 DEF UpdateAnswers, TypeOK
<1>12. ASSUME NEW k \in Checks, RetrieveCheck(k) \/ RetrieveFailure(k) PROVE TypeOK'
  <2>1. Over(k) \/ \E stage \in Stages : Stage(k, stage)
    BY <1>12 DEF RetrieveCheck, RetrieveFailure, Stages
  <2>2. QED
    BY <1>0, <1>1, <1>9, <1>10, <1>12, <2>1 DEF RetrieveCheck, RetrieveFailure, TypeOK
<1>13. ASSUME NEW k \in Checks, HandleReceiveUpdatesInfo(k) PROVE TypeOK'
  <2>1. \E kind \in {"update", "noUpdate"} : modal' = Append(modal, Dialog(kind, k, FALSE))
    BY <1>13 DEF HandleReceiveUpdatesInfo, Open
  <2>2. modal' \in Seq(Dialogs)
    <3>1. PICK kind \in {"update", "noUpdate"} : modal' = Append(modal, Dialog(kind, k, FALSE))
      BY <2>1
    <3>2. Dialog(kind, k, FALSE) \in Dialogs
      BY DialogTypes
    <3>3. QED
      BY <1>0, <3>1, <3>2, OpenStep
  <2>3. "asking" \in Stages
    BY DEF Stages
  <2>4. QED
    BY <1>0, <1>1, <1>9, <1>13, <2>2, <2>3 DEF HandleReceiveUpdatesInfo, TypeOK
<1>14. ASSUME NEW k \in Checks, RetrieveDownload(k) PROVE TypeOK'
  <2>1. modal' \in Seq(Dialogs) /\ jobsPage' \in BOOLEAN /\ app' \in {"running", "closed", "stuck"}
    BY <1>0, <1>3, <1>14 DEF RetrieveDownload, TypeOK
  <2>2. QED
    BY <1>0, <1>1, <1>10, <1>14, <2>1 DEF RetrieveDownload, TypeOK
<1>15. CASE UpdateAccepted \/ UpdateDeclined
  <2>1. Last(modal).check \in Checks
    BY <1>0, <1>15, AnsweredUpdate DEF UpdateAccepted, UpdateDeclined
  <2>2. "downloading" \in Stages
    BY DEF Stages
  <2>3. QED
    BY <1>0, <1>1, <1>5, <1>9, <1>10, <1>15, <2>1, <2>2 DEF UpdateAccepted, UpdateDeclined, Relock, TypeOK
<1>16. CASE UNCHANGED vars
  BY <1>0, <1>16 DEF vars, TypeOK
<1>17. QED
  BY <1>2, <1>4, <1>6, <1>7, <1>8, <1>11, <1>12, <1>13, <1>14, <1>15, <1>16 DEF Next

-------------------------------------------------------------------------------
(* The dialogs: none asks about an update that does not wait for it.       *)

LEMMA DialogNext == IInv /\ [Next]_vars => DialogInv' /\ LockedInv'
<1> SUFFICES ASSUME IInv, [Next]_vars PROVE DialogInv' /\ LockedInv'
  OBVIOUS
<1> USE DEF window, updates, history, Running
<1>0. TypeOK /\ DialogInv /\ LockedInv /\ update \in [Checks -> UpdateStates] /\ modal \in Seq(Dialogs)
  BY DEF IInv, TypeOK
<1> DEFINE Old(d) == d \in DOMAIN modal /\ modal'[d] = modal[d]
<1>1. ASSUME \A d \in DOMAIN modal' :
                modal'[d].kind # "exit" => Old(d) /\ update'[modal[d].check].stage = "asking"
      PROVE  DialogInv'
  BY <1>0, <1>1 DEF DialogInv, Asks
<1>2. ASSUME \A d \in DOMAIN modal' : Old(d) \/ launched' \/ ~modal'[d].locked,
             launched => launched'
      PROVE  LockedInv'
  BY <1>0, <1>2 DEF LockedInv, Locked
(* Steps that open no dialog about an update, and touch no update that waits. *)
<1>3. ASSUME NEW locked \in BOOLEAN, Open(Dialog("exit", 0, locked))
      PROVE  \A d \in DOMAIN modal' : Old(d) \/ modal'[d] = Dialog("exit", 0, locked)
  <2>1. /\ DOMAIN modal = 1..Len(modal) /\ DOMAIN modal' = 1..(Len(modal) + 1) /\ Len(modal) \in Nat
        /\ \A d \in 1..Len(modal) : modal'[d] = modal[d]
        /\ modal'[Len(modal) + 1] = Dialog("exit", 0, locked)
    BY <1>0, <1>3, DialogTypes, OpenStep DEF Open
  <2>2. QED
    BY <2>1
<1>4. ASSUME NEW locked \in BOOLEAN, CheckPendingJobsAndCloseApp(locked)
      PROVE  \A d \in DOMAIN modal' :
                Old(d) \/ (PendingJobs # {} /\ modal'[d].kind = "exit" /\ modal'[d].locked = locked)
  <2>1. CASE UNCHANGED modal
    BY <2>1
  <2>2. CASE PendingJobs # {} /\ Open(Dialog("exit", 0, locked))
    BY <1>3, <2>2 DEF Dialog
  <2>3. QED
    BY <1>4, <2>1, <2>2 DEF CheckPendingJobsAndCloseApp
<1>5. ASSUME NEW k \in Checks, update[k].stage # "asking", update' \in [Checks -> UpdateStates],
             \A i \in Checks : i # k => update'[i] = update[i]
      PROVE  \A d \in DOMAIN modal : Asks(d) => update'[modal[d].check].stage = "asking"
  BY <1>0, <1>5 DEF DialogInv
<1>6. ASSUME UNCHANGED update
      PROVE  \A d \in DOMAIN modal : Asks(d) => update'[modal[d].check].stage = "asking"
  BY <1>0, <1>6 DEF DialogInv
<1>7. ASSUME UNCHANGED modal, UNCHANGED launched,
             \A d \in DOMAIN modal : Asks(d) => update'[modal[d].check].stage = "asking"
      PROVE  DialogInv' /\ LockedInv'
  BY <1>1, <1>2, <1>7 DEF Asks
<1>8. ASSUME NEW j \in Jobs,
             OnJobCreate(j) \/ RemoveJobToPendingList(j) \/ OnJobDestroy(j) \/ CloseOnJobDestroy(j)
      PROVE  DialogInv' /\ LockedInv'
  BY <1>6, <1>7, <1>8 DEF OnJobCreate, RemoveJobToPendingList, OnJobDestroy, CloseOnJobDestroy
<1>9. CASE Quit
  <2>1. \A d \in DOMAIN modal' : Old(d) \/ (modal'[d].kind = "exit" /\ modal'[d].locked = FALSE)
    BY <1>4, <1>9 DEF Quit
  <2>2. UNCHANGED update /\ UNCHANGED launched
    BY <1>9 DEF Quit
  <2>3. QED
    BY <1>1, <1>2, <1>6, <2>1, <2>2 DEF Asks
<1>10. ASSUME NEW kind, Answered(kind)
       PROVE  \A d \in DOMAIN modal' : Old(d)
  BY <1>0, <1>10, AnsweredStep
<1>11. ASSUME NEW wait \in BOOLEAN, ExitAnswer(wait) PROVE DialogInv' /\ LockedInv'
  BY <1>1, <1>2, <1>6, <1>10, <1>11 DEF ExitAnswer, Asks
<1>12. CASE Hide \/ Show \/ SelectPage \/ IdleUnderLock \/ UNCHANGED vars
  BY <1>6, <1>7, <1>12 DEF Hide, Show, SelectPage, IdleUnderLock, vars
<1>13. ASSUME NEW k \in Checks, NEW manually \in BOOLEAN, CheckForUpdates(k, manually)
       PROVE  DialogInv' /\ LockedInv'
  <2>1. /\ update[k].stage # "asking" /\ update' \in [Checks -> UpdateStates]
        /\ \A i \in Checks : i # k => update'[i] = update[i]
    BY <1>0, <1>13 DEF CheckForUpdates, NoUpdate, UpdateStates, Stages
  <2>2. UNCHANGED <<modal, launched>>
    BY <1>13 DEF CheckForUpdates
  <2>3. QED
    BY <1>5, <1>7, <2>1, <2>2
<1>14. ASSUME NEW k \in Checks, UpdateAnswers(k) \/ RetrieveCheck(k) \/ RetrieveFailure(k)
       PROVE  DialogInv' /\ LockedInv'
  <2>1. update[k].stage # "asking" /\ (Over(k) \/ \E stage \in Stages : Stage(k, stage))
    BY <1>14 DEF UpdateAnswers, AsyncCheckForUpdates, AsyncDownloadUpdate, RetrieveCheck, RetrieveFailure, Stages
  <2>2. update' \in [Checks -> UpdateStates] /\ \A i \in Checks : i # k => update'[i] = update[i]
    BY <1>0, <2>1, StageStep, OverStep
  <2>3. UNCHANGED <<modal, launched>>
    BY <1>14 DEF UpdateAnswers, RetrieveCheck, RetrieveFailure
  <2>4. QED
    BY <1>5, <1>7, <2>1, <2>2, <2>3
<1>15. ASSUME NEW k \in Checks, HandleReceiveUpdatesInfo(k) PROVE DialogInv' /\ LockedInv'
  <2>1. PICK kind \in {"update", "noUpdate"} : modal' = Append(modal, Dialog(kind, k, FALSE))
    BY <1>15 DEF HandleReceiveUpdatesInfo, Open
  <2>2. Dialog(kind, k, FALSE) \in Dialogs
    BY DialogTypes
  <2>3. /\ DOMAIN modal = 1..Len(modal) /\ DOMAIN modal' = 1..(Len(modal) + 1) /\ Len(modal) \in Nat
        /\ \A d \in 1..Len(modal) : modal'[d] = modal[d]
        /\ modal'[Len(modal) + 1] = Dialog(kind, k, FALSE)
    BY <1>0, <2>1, <2>2, OpenStep
  <2>4. "asking" \in Stages /\ Stage(k, "asking") /\ update[k].stage # "asking"
    BY <1>15 DEF Stages, HandleReceiveUpdatesInfo
  <2>5. /\ update' \in [Checks -> UpdateStates] /\ update'[k].stage = "asking"
        /\ \A i \in Checks : i # k => update'[i] = update[i]
    BY <1>0, <2>4, StageStep
  <2>6. \A d \in DOMAIN modal' : Old(d) \/ (d = Len(modal) + 1 /\ modal'[d].check = k /\ ~modal'[d].locked)
    BY <2>3 DEF Dialog
  <2>7. LockedInv'
    BY <1>2, <1>15, <2>6 DEF HandleReceiveUpdatesInfo
  <2>8. \A d \in DOMAIN modal : Asks(d) =>
           modal[d].check \in Checks \ {k} /\ update'[modal[d].check].stage = "asking"
    BY <1>0, <2>4, <2>5 DEF DialogInv
  <2>9. \A d \in DOMAIN modal' : modal'[d].kind # "exit" =>
           modal'[d].check \in Checks /\ update'[modal'[d].check].stage = "asking"
    BY <2>5, <2>6, <2>8 DEF Asks
  <2>10. \A d, e \in DOMAIN modal' :
           modal'[d].kind # "exit" /\ modal'[e].kind # "exit" /\ modal'[d].check = modal'[e].check => d = e
    BY <1>0, <2>6, <2>8 DEF Asks, DialogInv
  <2>11. DialogInv'
    BY <2>9, <2>10 DEF DialogInv, Asks
  <2>12. QED
    BY <2>7, <2>11
<1>16. ASSUME NEW k \in Checks, RetrieveDownload(k) PROVE DialogInv' /\ LockedInv'
  <2>1. \A d \in DOMAIN modal' : Old(d) \/ (launched' /\ modal'[d].kind = "exit")
    BY <1>4, <1>16 DEF RetrieveDownload
  <2>2. launched => launched'
    BY <1>16 DEF RetrieveDownload
  <2>3. update[k].stage # "asking" /\ Over(k)
    BY <1>16 DEF RetrieveDownload
  <2>4. update' \in [Checks -> UpdateStates] /\ \A i \in Checks : i # k => update'[i] = update[i]
    BY <1>0, <2>3, OverStep
  <2>5. QED
    BY <1>1, <1>2, <1>5, <2>1, <2>2, <2>3, <2>4 DEF Asks
<1>17. CASE UpdateAccepted \/ UpdateDeclined
  <2>1. PICK kind \in {"update", "noUpdate"} : Answered(kind)
    BY <1>17 DEF UpdateAccepted, UpdateDeclined
  <2>2. /\ Last(modal).check \in Checks /\ Len(modal) \in DOMAIN modal /\ Asks(Len(modal))
        /\ Last(modal) = modal[Len(modal)]
    BY <1>0, <2>1, AnsweredUpdate
  <2>3. PICK k \in Checks : k = modal[Len(modal)].check
    BY <2>2
  <2>4. \A d \in DOMAIN modal' : Old(d) /\ d # Len(modal)
    BY <1>0, <2>1, AnsweredStep
  <2>5. "downloading" \in Stages /\ (Over(k) \/ Stage(k, "downloading"))
    BY <1>17, <2>2, <2>3 DEF UpdateAccepted, UpdateDeclined, Stages
  <2>6. update' \in [Checks -> UpdateStates] /\ \A i \in Checks : i # k => update'[i] = update[i]
    BY <1>0, <2>5, StageStep, OverStep
  <2>7. \A d \in DOMAIN modal' : modal'[d].kind # "exit" =>
           modal[d].check \in Checks \ {k} /\ update'[modal[d].check].stage = "asking"
    BY <1>0, <2>2, <2>3, <2>4, <2>6 DEF DialogInv, Asks
  <2>8. UNCHANGED launched
    BY <1>17 DEF UpdateAccepted, UpdateDeclined
  <2>9. QED
    BY <1>1, <1>2, <2>4, <2>7, <2>8
<1>18. QED
  BY <1>8, <1>9, <1>11, <1>12, <1>13, <1>14, <1>15, <1>16, <1>17 DEF Next

-------------------------------------------------------------------------------
(* The menu: the flag goes with what is under way.                         *)

LEMMA UpdateNext == IInv /\ [Next]_vars => OneCheckInv' /\ ProcessingTrue'
<1> SUFFICES ASSUME IInv, [Next]_vars PROVE OneCheckInv' /\ ProcessingTrue'
  OBVIOUS
<1> USE DEF window, updates, history
<1>0. /\ TypeOK /\ DialogInv /\ OneCheckInv /\ ProcessingTrue
      /\ update \in [Checks -> UpdateStates] /\ modal \in Seq(Dialogs)
      /\ processing \in BOOLEAN
  BY DEF IInv, TypeOK
(* Nothing begins or ends. *)
<1>1. ASSUME \A i \in Checks : update'[i] = NoUpdate <=> update[i] = NoUpdate,
             processing' = processing, twoChecks' = twoChecks, Running
      PROVE  OneCheckInv' /\ ProcessingTrue'
  BY <1>0, <1>1 DEF OneCheckInv, ProcessingTrue
(* What is under way ends. *)
<1>2. ASSUME NEW k \in Checks, update[k] # NoUpdate, Over(k), processing' = FALSE, twoChecks' = twoChecks
      PROVE  OneCheckInv' /\ ProcessingTrue'
  <2>1. update'[k] = NoUpdate /\ \A i \in Checks : i # k => update'[i] = update[i]
    BY <1>0, <1>2, OverStep
  <2>2. QED
    BY <1>0, <1>2, <2>1 DEF OneCheckInv, ProcessingTrue
(* It goes on. *)
<1>3. ASSUME NEW k \in Checks, NEW stage \in Stages \ {"none"}, update[k] # NoUpdate, Stage(k, stage)
      PROVE  \A i \in Checks : update'[i] = NoUpdate <=> update[i] = NoUpdate
  <2>1. update' \in [Checks -> UpdateStates] /\ update'[k].stage = stage
        /\ \A i \in Checks : i # k => update'[i] = update[i]
    BY <1>0, <1>3, StageStep
  <2>2. update'[k] # NoUpdate
    BY <2>1, <1>3 DEF NoUpdate
  <2>3. QED
    BY <1>3, <2>1, <2>2
<1>4. \A k \in Checks : update[k].stage # "none" => update[k] # NoUpdate
  BY DEF NoUpdate
<1>5. ASSUME NEW j \in Jobs,
             OnJobCreate(j) \/ RemoveJobToPendingList(j) \/ OnJobDestroy(j) \/ CloseOnJobDestroy(j)
      PROVE  OneCheckInv' /\ ProcessingTrue'
  BY <1>1, <1>5 DEF OnJobCreate, RemoveJobToPendingList, OnJobDestroy, CloseOnJobDestroy, InFront
<1>6. CASE Quit \/ Hide \/ Show \/ SelectPage \/ IdleUnderLock
  BY <1>1, <1>6 DEF Quit, Hide, Show, SelectPage, IdleUnderLock, InFront
<1>7. ASSUME NEW wait \in BOOLEAN, ExitAnswer(wait) PROVE OneCheckInv' /\ ProcessingTrue'
  BY <1>1, <1>7 DEF ExitAnswer, Answered
<1>8. CASE UNCHANGED vars
  BY <1>0, <1>8 DEF vars, OneCheckInv, ProcessingTrue, Running
<1>9. ASSUME NEW k \in Checks, NEW manually \in BOOLEAN, CheckForUpdates(k, manually)
      PROVE  OneCheckInv' /\ ProcessingTrue'
  <2>1. /\ update'[k] # NoUpdate /\ processing' = TRUE
        /\ \A i \in Checks : i # k => update'[i] = update[i]
        /\ ~twoChecks' => ~twoChecks /\ \A i \in Checks : update[i] = NoUpdate
    BY <1>0, <1>9 DEF CheckForUpdates, NoUpdate
  <2>2. QED
    BY <2>1 DEF OneCheckInv, ProcessingTrue
<1>10. ASSUME NEW k \in Checks, UpdateAnswers(k) PROVE OneCheckInv' /\ ProcessingTrue'
  <2>1. \E stage \in Stages \ {"none"} : Stage(k, stage)
    BY <1>10 DEF UpdateAnswers, AsyncCheckForUpdates, AsyncDownloadUpdate, Stages
  <2>2. update[k].stage # "none" /\ UNCHANGED <<processing, twoChecks>> /\ Running
    BY <1>10 DEF UpdateAnswers, AsyncCheckForUpdates, AsyncDownloadUpdate
  <2>3. QED
    BY <1>1, <1>3, <1>4, <2>1, <2>2
<1>11. ASSUME NEW k \in Checks, RetrieveCheck(k) \/ RetrieveFailure(k) PROVE OneCheckInv' /\ ProcessingTrue'
  <2>1. update[k].stage # "none" /\ twoChecks' = twoChecks /\ Running
    BY <1>11 DEF RetrieveCheck, RetrieveFailure
  <2>2. \/ Over(k) /\ processing' = FALSE
        \/ processing' = processing /\ \E stage \in Stages \ {"none"} : Stage(k, stage)
    BY <1>11 DEF RetrieveCheck, RetrieveFailure, Stages
  <2>3. QED
    BY <1>1, <1>2, <1>3, <1>4, <2>1, <2>2
<1>12. ASSUME NEW k \in Checks, HandleReceiveUpdatesInfo(k) PROVE OneCheckInv' /\ ProcessingTrue'
  <2>1. "asking" \in Stages \ {"none"} /\ Stage(k, "asking") /\ update[k].stage # "none"
        /\ processing' = processing /\ twoChecks' = twoChecks /\ Running
    BY <1>12 DEF HandleReceiveUpdatesInfo, Stages
  <2>2. QED
    BY <1>1, <1>3, <1>4, <2>1
<1>13. ASSUME NEW k \in Checks, RetrieveDownload(k) PROVE OneCheckInv' /\ ProcessingTrue'
  BY <1>2, <1>4, <1>13 DEF RetrieveDownload
<1>14. CASE UpdateAccepted \/ UpdateDeclined
  <2>1. PICK kind \in {"update", "noUpdate"} : Answered(kind)
    BY <1>14 DEF UpdateAccepted, UpdateDeclined
  <2>2. PICK k \in Checks : k = Last(modal).check /\ update[k].stage = "asking"
    BY <1>0, <2>1, AnsweredUpdate
  <2>3. "downloading" \in Stages \ {"none"} /\ Running
    BY <2>1 DEF Stages, Answered
  <2>4. CASE UpdateAccepted
    BY <1>1, <1>3, <1>4, <2>2, <2>3, <2>4 DEF UpdateAccepted
  <2>5. CASE UpdateDeclined
    BY <1>2, <1>4, <2>2, <2>5 DEF UpdateDeclined
  <2>6. QED
    BY <1>14, <2>4, <2>5
<1>15. QED
  BY <1>5, <1>6, <1>7, <1>8, <1>9, <1>10, <1>11, <1>12, <1>13, <1>14 DEF Next

-------------------------------------------------------------------------------
(* The end of the program.                                                 *)

LEMMA JobsNext == IInv /\ [Next]_vars => ClosingInv' /\ ClosesWithoutJobs'
<1> SUFFICES ASSUME IInv, [Next]_vars PROVE ClosingInv' /\ ClosesWithoutJobs'
  OBVIOUS
<1> USE DEF window, updates, history
<1>0. /\ ClosingInv /\ ClosesWithoutJobs
      /\ job \in [Jobs -> {"no", "pending", "removed", "closing", "destroyed"}]
      /\ closeOnLastJobDestroyed \in BOOLEAN /\ printedLate \in BOOLEAN
  BY DEF IInv, TypeOK
(* No job moves, and the window closes only when none is pending. *)
<1>1. ASSUME UNCHANGED <<job, printedLate>>, closeOnLastJobDestroyed => closeOnLastJobDestroyed',
             app' = "closed" => app = "closed" \/ PendingJobs = {}
      PROVE  ClosingInv' /\ ClosesWithoutJobs'
  <2>1. PendingJobs' = PendingJobs
    BY <1>1 DEF PendingJobs
  <2>2. QED
    BY <1>0, <1>1, <2>1 DEF ClosingInv, ClosesWithoutJobs
<1>2. ASSUME NEW j \in Jobs, OnJobCreate(j) PROVE ClosingInv' /\ ClosesWithoutJobs'
  <2>1. \A i \in Jobs : job'[i] = "closing" => job[i] = "closing"
    BY <1>0, <1>2 DEF OnJobCreate
  <2>2. app' # "closed" /\ UNCHANGED closeOnLastJobDestroyed
        /\ printedLate' = (printedLate \/ closeOnLastJobDestroyed)
    BY <1>2 DEF OnJobCreate, InFront, Running
  <2>3. QED
    BY <1>0, <2>1, <2>2 DEF ClosingInv, ClosesWithoutJobs
<1>3. ASSUME NEW j \in Jobs, RemoveJobToPendingList(j) PROVE ClosingInv' /\ ClosesWithoutJobs'
  <2>1. (\A i \in Jobs : job'[i] = "closing" => job[i] = "closing") /\ PendingJobs' \subseteq PendingJobs
    BY <1>0, <1>3 DEF RemoveJobToPendingList, PendingJobs
  <2>2. app' # "closed" /\ UNCHANGED <<closeOnLastJobDestroyed, printedLate>>
    BY <1>3 DEF RemoveJobToPendingList, Running
  <2>3. QED
    BY <1>0, <2>1, <2>2 DEF ClosingInv, ClosesWithoutJobs
<1>4. ASSUME NEW j \in Jobs, OnJobDestroy(j) PROVE ClosingInv' /\ ClosesWithoutJobs'
  <2>1. PendingJobs' = PendingJobs
    BY <1>0, <1>4 DEF OnJobDestroy, PendingJobs
  <2>2. \A i \in Jobs : job'[i] = "closing" =>
           job[i] = "closing" \/ (closeOnLastJobDestroyed /\ PendingJobs = {})
    BY <1>0, <1>4 DEF OnJobDestroy
  <2>3. app' # "closed" /\ UNCHANGED <<closeOnLastJobDestroyed, printedLate>>
    BY <1>4 DEF OnJobDestroy, Running
  <2>4. QED
    BY <1>0, <2>1, <2>2, <2>3 DEF ClosingInv, ClosesWithoutJobs
<1>5. ASSUME NEW j \in Jobs, CloseOnJobDestroy(j) PROVE ClosingInv' /\ ClosesWithoutJobs'
  <2>1. PendingJobs' = PendingJobs /\ \A i \in Jobs : job'[i] = "closing" => job[i] = "closing"
    BY <1>0, <1>5 DEF CloseOnJobDestroy, PendingJobs
  <2>2. job[j] = "closing" /\ UNCHANGED <<closeOnLastJobDestroyed, printedLate>>
    BY <1>5 DEF CloseOnJobDestroy
  <2>3. QED
    BY <1>0, <2>1, <2>2 DEF ClosingInv, ClosesWithoutJobs
<1>6. CASE Quit
  BY <1>1, <1>6 DEF Quit, CheckPendingJobsAndCloseApp
<1>7. ASSUME NEW wait \in BOOLEAN, ExitAnswer(wait) PROVE ClosingInv' /\ ClosesWithoutJobs'
  BY <1>0, <1>1, <1>7 DEF ExitAnswer
<1>8. CASE Hide \/ Show \/ SelectPage \/ IdleUnderLock \/ UNCHANGED vars
  BY <1>1, <1>8 DEF Hide, Show, SelectPage, IdleUnderLock, vars
<1>9. ASSUME NEW k \in Checks, NEW manually \in BOOLEAN, CheckForUpdates(k, manually)
      PROVE  ClosingInv' /\ ClosesWithoutJobs'
  BY <1>1, <1>9 DEF CheckForUpdates, Relock
<1>10. ASSUME NEW k \in Checks,
              \/ UpdateAnswers(k) \/ RetrieveCheck(k) \/ RetrieveFailure(k)
              \/ HandleReceiveUpdatesInfo(k) \/ RetrieveDownload(k)
       PROVE  ClosingInv' /\ ClosesWithoutJobs'
  BY <1>1, <1>10 DEF UpdateAnswers, RetrieveCheck, RetrieveFailure, HandleReceiveUpdatesInfo,
                     RetrieveDownload, CheckPendingJobsAndCloseApp
<1>11. CASE UpdateAccepted \/ UpdateDeclined
  BY <1>1, <1>11 DEF UpdateAccepted, UpdateDeclined, Relock
<1>12. QED
  BY <1>2, <1>3, <1>4, <1>5, <1>6, <1>7, <1>8, <1>9, <1>10, <1>11 DEF Next

LEMMA StuckNext == IInv /\ [Next]_vars => StuckOnlyIfLaunched'
<1> SUFFICES ASSUME IInv, [Next]_vars PROVE StuckOnlyIfLaunched'
  OBVIOUS
<1> USE DEF window, updates, history
<1>0. LockedInv /\ StuckOnlyIfLaunched
  BY DEF IInv
<1>1. ASSUME launched => launched', app' = "stuck" => app = "stuck" \/ Locked \/ launched'
      PROVE  StuckOnlyIfLaunched'
  BY <1>0, <1>1 DEF LockedInv, StuckOnlyIfLaunched
<1>2. Relock => (app' = "stuck" => Locked)
  BY DEF Relock
<1>3. ASSUME NEW j \in Jobs,
             OnJobCreate(j) \/ RemoveJobToPendingList(j) \/ OnJobDestroy(j) \/ CloseOnJobDestroy(j)
      PROVE  StuckOnlyIfLaunched'
  BY <1>1, <1>3 DEF OnJobCreate, RemoveJobToPendingList, OnJobDestroy, CloseOnJobDestroy
<1>4. CASE Quit
  BY <1>1, <1>4 DEF Quit, CheckPendingJobsAndCloseApp
<1>5. ASSUME NEW wait \in BOOLEAN, ExitAnswer(wait) PROVE StuckOnlyIfLaunched'
  BY <1>1, <1>5 DEF ExitAnswer
<1>6. CASE Hide \/ Show \/ SelectPage \/ IdleUnderLock \/ UNCHANGED vars
  BY <1>1, <1>6 DEF Hide, Show, SelectPage, IdleUnderLock, vars
<1>7. ASSUME NEW k \in Checks, NEW manually \in BOOLEAN, CheckForUpdates(k, manually)
      PROVE  StuckOnlyIfLaunched'
  BY <1>1, <1>2, <1>7 DEF CheckForUpdates
<1>8. ASSUME NEW k \in Checks,
             UpdateAnswers(k) \/ RetrieveCheck(k) \/ RetrieveFailure(k) \/ HandleReceiveUpdatesInfo(k)
      PROVE  StuckOnlyIfLaunched'
  BY <1>1, <1>8 DEF UpdateAnswers, RetrieveCheck, RetrieveFailure, HandleReceiveUpdatesInfo
<1>9. ASSUME NEW k \in Checks, RetrieveDownload(k) PROVE StuckOnlyIfLaunched'
  <2>1. CASE CheckPendingJobsAndCloseApp(TRUE) /\ launched' = (launched \/ PendingJobs # {})
    <3>1. app' = "stuck" => PendingJobs # {}
      BY <2>1 DEF CheckPendingJobsAndCloseApp
    <3>2. QED
      BY <1>1, <2>1, <3>1
  <2>2. CASE UNCHANGED <<app, launched>>
    BY <1>1, <2>2
  <2>3. QED
    BY <1>9, <2>1, <2>2 DEF RetrieveDownload
<1>10. CASE UpdateAccepted \/ UpdateDeclined
  BY <1>1, <1>2, <1>10 DEF UpdateAccepted, UpdateDeclined
<1>11. QED
  BY <1>3, <1>4, <1>5, <1>6, <1>7, <1>8, <1>9, <1>10 DEF Next

-------------------------------------------------------------------------------
LEMMA DesktopCorrect == Spec => []IInv
<1>1. IInv /\ [Next]_vars => IInv'
  BY DesktopTypeNext, DialogNext, UpdateNext, JobsNext, StuckNext DEF IInv
<1>2. QED
  BY DesktopInit, <1>1, PTL DEF Spec

(* A program that closed with a job pending was told to print after it was *)
(* told to close: MainWindow's count of the pending jobs, taken on the     *)
(* thread that destroys a job, misses no other one.                        *)
THEOREM JobsOutliveTheWindow == Spec => []ClosesWithoutJobs
<1>1. QED
  BY DesktopCorrect, PTL DEF IInv

(* m_processingCheckUpdate disables the menu exactly while a check, the    *)
(* question about it or a download is under way, unless a second check ran *)
(* beside the first.                                                       *)
THEOREM MenuIsTrue == Spec => []ProcessingTrue
<1>1. QED
  BY DesktopCorrect, PTL DEF IInv

(* The GUI thread locks the mutex of the results a second time only after  *)
(* an installer was launched with jobs pending, whose question is asked in *)
(* the callback of the download.                                           *)
THEOREM RelockNeedsLaunch == Spec => []StuckOnlyIfLaunched
<1>1. QED
  BY DesktopCorrect, PTL DEF IInv
===============================================================================
