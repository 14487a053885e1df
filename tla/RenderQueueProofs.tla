--------------------------- MODULE RenderQueueProofs ---------------------------
(* Proofs about RenderQueue, for any set of jobs.                           *)
EXTENDS RenderQueue, SequenceTheorems, TLAPS

USE EmptyJobAssumption

-------------------------------------------------------------------------------
(* What the operators on sequences keep.                                   *)

(* The set of a sequence in terms of its places. *)
LEMMA SetOfSeq == \A S : \A s \in Seq(S) : ToSet(s) = {s[i] : i \in 1..Len(s)}
<1>1. QED
  BY DEF ToSet

LEMMA AppendKeeps ==
    ASSUME NEW S, NEW s \in Seq(S), NEW e \in S
    PROVE  /\ Append(s, e) \in Seq(S)
           /\ Len(Append(s, e)) = Len(s) + 1
           /\ ToSet(Append(s, e)) = ToSet(s) \cup {e}
           /\ IsInjective(s) /\ e \notin ToSet(s) => IsInjective(Append(s, e))
<1> DEFINE t == Append(s, e)
<1>1. /\ t \in Seq(S) /\ Len(t) = Len(s) + 1
      /\ \A i \in 1..Len(s) : t[i] = s[i]
      /\ t[Len(s) + 1] = e
  BY AppendProperties
<1>2. Len(s) \in Nat /\ DOMAIN s = 1..Len(s) /\ DOMAIN t = 1..(Len(s) + 1)
  BY <1>1
<1> HIDE DEF t
<1>3. ToSet(t) = ToSet(s) \cup {e}
  <2>1. ToSet(t) \subseteq ToSet(s) \cup {e}
    BY <1>1, <1>2, SetOfSeq
  <2>2. Len(s) + 1 \in DOMAIN t /\ \A i \in DOMAIN s : i \in DOMAIN t
    BY <1>2
  <2>3. ToSet(s) \cup {e} \subseteq ToSet(t)
    BY <1>1, <1>2, <2>2 DEF ToSet
  <2>4. QED
    BY <2>1, <2>3
<1>4. ASSUME IsInjective(s), e \notin ToSet(s) PROVE IsInjective(t)
  <2>1. \A i \in 1..Len(s) : s[i] # e
    BY <1>4, SetOfSeq
  <2>2. QED
    BY <1>1, <1>2, <1>4, <2>1 DEF IsInjective
<1>5. QED
  BY <1>1, <1>3, <1>4 DEF t

LEMMA HeadTailKeep ==
    ASSUME NEW S, NEW s \in Seq(S), s # <<>>
    PROVE  /\ Head(s) \in ToSet(s) /\ Tail(s) \in Seq(S) /\ Len(Tail(s)) = Len(s) - 1
           /\ ToSet(Tail(s)) \subseteq ToSet(s)
           /\ IsInjective(s) => IsInjective(Tail(s)) /\ Head(s) \notin ToSet(Tail(s))
<1> DEFINE t == Tail(s)
<1>1. /\ t \in Seq(S) /\ Len(t) = Len(s) - 1 /\ \A i \in 1..Len(t) : t[i] = s[i + 1]
      /\ Head(s) = s[1] /\ Len(s) \in Nat \ {0}
  BY HeadTailProperties, EmptySeq
<1>2. DOMAIN s = 1..Len(s) /\ DOMAIN t = 1..Len(t)
  BY <1>1
<1>3. Head(s) \in ToSet(s)
  BY <1>1, SetOfSeq
<1> HIDE DEF t
<1>4. 1 \in DOMAIN s /\ \A i \in DOMAIN t : i \in Nat \ {0} /\ i + 1 \in DOMAIN s /\ t[i] = s[i + 1]
  BY <1>1, <1>2
<1>5. ToSet(t) \subseteq ToSet(s)
  BY <1>4 DEF ToSet
<1>6. ASSUME IsInjective(s) PROVE IsInjective(t) /\ Head(s) \notin ToSet(t)
  <2>1. IsInjective(t)
    BY <1>4, <1>6 DEF IsInjective
  <2>2. \A i \in DOMAIN t : t[i] # s[1]
    BY <1>4, <1>6 DEF IsInjective
  <2>3. QED
    BY <1>1, <2>1, <2>2 DEF ToSet
<1>7. QED
  BY <1>1, <1>3, <1>5, <1>6 DEF t

LEMMA AppendEnds ==
    ASSUME NEW S, NEW s \in Seq(S), NEW e \in S
    PROVE  Append(s, e) # <<>> /\ Last(Append(s, e)) = e /\ Front(Append(s, e)) = s
<1> DEFINE t == Append(s, e)
<1>1. /\ t \in Seq(S) /\ t # <<>> /\ Len(t) = Len(s) + 1 /\ t[Len(s) + 1] = e
      /\ \A i \in 1..Len(s) : t[i] = s[i]
  BY AppendProperties
<1>2. Len(s) \in Nat /\ \A i \in 1..Len(s) : s[i] \in S
  OBVIOUS
<1> HIDE DEF t
<1>3. Front(t) = SubSeq(t, 1, Len(s))
  BY <1>1, <1>2 DEF Front
<1>4. /\ SubSeq(t, 1, Len(s)) \in Seq(S) /\ Len(SubSeq(t, 1, Len(s))) = Len(s)
      /\ \A i \in 1..Len(s) : SubSeq(t, 1, Len(s))[i] = t[i]
  BY <1>1, <1>2, SubSeqProperties
<1>5. Front(t) = s
  BY <1>1, <1>2, <1>3, <1>4, SeqEqual
<1>6. QED
  BY <1>1, <1>2, <1>5 DEF Last, t

LEMMA HeadThenTail ==
    ASSUME NEW S, NEW s \in Seq(S), s # <<>>
    PROVE  Tail(s) \in Seq(S) /\ Head(s) \in S /\ s = <<Head(s)>> \o Tail(s)
<1>1. /\ Tail(s) \in Seq(S) /\ Head(s) \in S /\ Len(s) \in Nat \ {0}
      /\ Len(Tail(s)) = Len(s) - 1 /\ \A i \in 1..Len(Tail(s)) : Tail(s)[i] = s[i + 1]
      /\ Head(s) = s[1]
  BY EmptySeq, HeadTailProperties
<1> DEFINE t == <<Head(s)>> \o Tail(s)
<1>2. <<Head(s)>> \in Seq(S) /\ Len(<<Head(s)>>) = 1 /\ <<Head(s)>>[1] = Head(s)
  BY <1>1
<1>3. /\ t \in Seq(S) /\ Len(t) = 1 + (Len(s) - 1)
      /\ \A i \in 1..(1 + (Len(s) - 1)) : t[i] = IF i <= 1 THEN <<Head(s)>>[i] ELSE Tail(s)[i - 1]
  BY <1>1, <1>2, ConcatProperties
<1> HIDE DEF t
<1>4. \A i \in 1..Len(s) : t[i] = s[i]
  BY <1>1, <1>2, <1>3
<1>5. s = t
  BY <1>1, <1>3, <1>4, SeqEqual
<1>6. QED
  BY <1>1, <1>5 DEF t

(* The inductive form of SleepsOnlyIfLost: it already holds in the window   *)
(* between the look at the queue and the moment the thread blocks.          *)
DozesOnlyIfLost ==
    render \in {"toBlock", "blocked"} /\ queue # <<>> =>
        \/ render = "blocked" /\ signal
        \/ gui \in {"notify", "notifyClose"}
        \/ lost

LEMMA DozesInit == Init => DozesOnlyIfLost
BY DEF Init, DozesOnlyIfLost

LEMMA DozesNext == DozesOnlyIfLost /\ [Next]_vars => DozesOnlyIfLost'
<1> SUFFICES ASSUME DozesOnlyIfLost, [Next]_vars PROVE DozesOnlyIfLost'
  OBVIOUS
<1> USE DEF DozesOnlyIfLost, threadVars, historyVars
<1>1. ASSUME NEW j \in Jobs, Push(j) PROVE DozesOnlyIfLost'
  BY <1>1 DEF Push
<1>2. ASSUME NEW j \in Jobs, CancelPendingJob(j) PROVE DozesOnlyIfLost'
  BY <1>2 DEF CancelPendingJob
<1>3. CASE Close
  BY <1>3 DEF Close
<1>4. CASE Notify
  BY <1>4 DEF Notify, NotifyOne
<1>5. CASE CancelAllPendingJobs
  BY <1>5 DEF CancelAllPendingJobs
<1>6. CASE PushEmpty
  BY <1>6 DEF PushEmpty
<1>7. CASE Join
  BY <1>7 DEF Join
<1>8. CASE CheckQueue
  BY <1>8 DEF CheckQueue
<1>9. CASE Block
  BY <1>9 DEF Block
<1>10. CASE TestClosing \/ WakeUp \/ WakeSpuriously \/ StartJob \/ RunJob \/ SkipEmptyJob \/ EndBatch
  BY <1>10 DEF TestClosing, WakeUp, WakeSpuriously, StartJob, RunJob, SkipEmptyJob, EndBatch
<1>11. CASE UNCHANGED vars
  BY <1>11 DEF vars
<1>12. QED
  BY <1>1, <1>2, <1>3, <1>4, <1>5, <1>6, <1>7, <1>8, <1>9, <1>10, <1>11
     DEF Next, GuiDuty, RenderStep

(* The render thread sleeps over work only if its notification was lost or  *)
(* is still to come, for any number of jobs.                                *)
THEOREM SleepsCorrect == Spec => []SleepsOnlyIfLost
<1>1. DozesOnlyIfLost => SleepsOnlyIfLost
  BY DEF DozesOnlyIfLost, SleepsOnlyIfLost
<1>2. QED
  BY <1>1, DozesInit, DozesNext, PTL DEF Spec

-------------------------------------------------------------------------------
(* The two queues.                                                         *)

Entries == Jobs \cup {EmptyJob}

(* A queue ends with the empty job, or has none. *)
LEMMA EndedForm ==
    ASSUME NEW s \in Seq(Entries)
    PROVE  Ended(s) <=> s \in Seq(Jobs) \/ \E u \in Seq(Jobs) : s = Append(u, EmptyJob)
<1>1. ASSUME NEW u \in Seq(Jobs), s = Append(u, EmptyJob) PROVE Ended(s)
  <2>1. u \in Seq(Entries) /\ EmptyJob \in Entries
    BY SeqMonotonic DEF Entries
  <2>2. QED
    BY <1>1, <2>1, AppendEnds DEF Ended
<1>2. ASSUME s # <<>>, Last(s) = EmptyJob, Front(s) \in Seq(Jobs)
      PROVE  s = Append(Front(s), EmptyJob)
  <2>1. PICK u \in Seq(Entries), e \in Entries : s = Append(u, e)
    BY <1>2, SequenceEmptyOrAppend
  <2>2. QED
    BY <1>2, <2>1, AppendEnds
<1>3. QED
  BY <1>1, <1>2 DEF Ended

LEMMA RealIsSelf ==
    ASSUME NEW s \in Seq(Jobs)
    PROVE  Real(s) = s
<1>1. ASSUME s # <<>> PROVE Last(s) \in Jobs
  <2>1. Len(s) \in 1..Len(s)
    BY <1>1, EmptySeq
  <2>2. QED
    BY <2>1, ElementOfSeq DEF Last
<1>2. QED
  BY <1>1 DEF Real

LEMMA RealOfEmptied ==
    ASSUME NEW s \in Seq(Jobs)
    PROVE  Real(Append(s, EmptyJob)) = s
<1>1. s \in Seq(Entries) /\ EmptyJob \in Entries
  BY SeqMonotonic DEF Entries
<1>2. QED
  BY <1>1, AppendEnds DEF Real

LEMMA RealTypes ==
    ASSUME NEW s \in Seq(Entries), Ended(s)
    PROVE  Real(s) \in Seq(Jobs)
<1>1. QED
  BY EndedForm, RealIsSelf, RealOfEmptied

(* Taking the first entry of a queue. *)
LEMMA RealOfTail ==
    ASSUME NEW s \in Seq(Entries), Ended(s), s # <<>>
    PROVE  /\ Tail(s) \in Seq(Entries) /\ Ended(Tail(s))
           /\ s \in Seq(Jobs) => Tail(s) \in Seq(Jobs)
           /\ Head(s) # EmptyJob => Head(s) \in Jobs /\ Real(s) = <<Head(s)>> \o Real(Tail(s))
           /\ Head(s) = EmptyJob => Real(s) = <<>> /\ Tail(s) = <<>>
<1>1. ASSUME s \in Seq(Jobs) PROVE /\ Tail(s) \in Seq(Jobs) /\ Head(s) \in Jobs
                                   /\ s = <<Head(s)>> \o Tail(s)
  BY <1>1, HeadThenTail
<1>2. CASE s \in Seq(Jobs)
  <2>1. Tail(s) \in Seq(Jobs) /\ Tail(s) \in Seq(Entries) /\ Head(s) \in Jobs
    BY <1>1, <1>2, SeqMonotonic DEF Entries
  <2>2. Real(s) = s /\ Real(Tail(s)) = Tail(s)
    BY <1>2, <2>1, RealIsSelf
  <2>3. QED
    BY <1>1, <1>2, <2>1, <2>2 DEF Ended
<1>3. ASSUME NEW u \in Seq(Jobs), s = Append(u, EmptyJob), s \notin Seq(Jobs) PROVE
        /\ Tail(s) \in Seq(Entries) /\ Ended(Tail(s))
        /\ Head(s) # EmptyJob => Head(s) \in Jobs /\ Real(s) = <<Head(s)>> \o Real(Tail(s))
        /\ Head(s) = EmptyJob => Real(s) = <<>> /\ Tail(s) = <<>>
  <2>1. /\ Head(s) = (IF u = <<>> THEN EmptyJob ELSE Head(u)) /\ Real(s) = u
        /\ Tail(s) = (IF u = <<>> THEN <<>> ELSE Append(Tail(u), EmptyJob))
    BY <1>3, HeadTailAppend, RealOfEmptied
  <2>2. CASE u = <<>>
    BY <2>1, <2>2, EmptySeq DEF Ended
  <2>3. CASE u # <<>>
    <3>1. Tail(u) \in Seq(Jobs) /\ Head(u) \in Jobs /\ u = <<Head(u)>> \o Tail(u)
      BY <2>3, HeadThenTail
    <3>2. Append(Tail(u), EmptyJob) \in Seq(Entries)
      BY <3>1, SeqMonotonic, AppendProperties DEF Entries
    <3>3. Ended(Append(Tail(u), EmptyJob)) /\ Real(Append(Tail(u), EmptyJob)) = Tail(u) /\ Head(u) # EmptyJob
      BY <3>1, <3>2, RealOfEmptied, EndedForm
    <3>4. QED
      BY <2>1, <2>3, <3>1, <3>2, <3>3
  <2>4. QED
    BY <2>2, <2>3
<1>4. QED
  BY <1>2, <1>3, EndedForm

-------------------------------------------------------------------------------
(* The order of the documents.                                             *)

LEMMA QueueInit == Init => IInv
<1> SUFFICES ASSUME Init PROVE IInv
  OBVIOUS
<1>1. <<>> \in Seq(Jobs) /\ <<>> \in Seq(Entries) /\ ToSet(<<>>) = {} /\ Real(<<>>) = <<>>
  BY EmptySeq DEF ToSet, Real
<1>2. <<>> \o <<>> = <<>>
  BY <1>1, ConcatEmptySeq
<1>3. TypeOK
  BY <1>1 DEF Init, TypeOK, Entries
<1>4. EndsInv /\ BatchInv /\ CancelInv
  BY <1>1 DEF Init, EndsInv, BatchInv, CancelInv, Ended
<1>5. InOrderOnce
  BY <1>1, <1>2 DEF Init, InOrderOnce, Waiting
<1>6. QED
  BY <1>3, <1>4, <1>5 DEF IInv

LEMMA QueueTypeNext == IInv /\ [Next]_vars => TypeOK'
<1> SUFFICES ASSUME IInv, [Next]_vars PROVE TypeOK'
  OBVIOUS
<1> USE DEF TypeOK, threadVars, historyVars
<1>0. TypeOK /\ BatchInv /\ EndsInv
  BY DEF IInv
<1>1. ASSUME NEW j \in Jobs, Push(j) PROVE TypeOK'
  BY <1>0, <1>1, AppendProperties DEF Push
<1>2. ASSUME NEW j \in Jobs, CancelPendingJob(j) PROVE TypeOK'
  BY <1>0, <1>2 DEF CancelPendingJob
<1>3. CASE CancelAllPendingJobs
  BY <1>0, <1>3, SetOfSeq DEF CancelAllPendingJobs
<1>4. CASE PushEmpty
  BY <1>0, <1>4, AppendProperties DEF PushEmpty
<1>5. CASE Close \/ Notify \/ Join
  BY <1>0, <1>5 DEF Close, Notify, NotifyOne, Join
<1>6. CASE CheckQueue
  BY <1>0, <1>6, EmptySeq DEF CheckQueue
<1>7. CASE StartJob
  <2>1. Head(batch) \in Jobs
    BY <1>0, <1>7, HeadTailProperties DEF StartJob
  <2>2. QED
    BY <1>0, <1>7, <2>1, AppendProperties DEF StartJob
<1>8. CASE RunJob
  <2>1. Head(batch) \in Jobs /\ Tail(batch) \in Seq(Jobs \cup {EmptyJob})
    BY <1>0, <1>8, HeadTailProperties DEF RunJob, BatchInv
  <2>2. QED
    BY <1>0, <1>8, <2>1 DEF RunJob
<1>9. CASE SkipEmptyJob
  BY <1>0, <1>9, HeadTailProperties DEF SkipEmptyJob
<1>10. CASE TestClosing \/ Block \/ WakeUp \/ WakeSpuriously \/ EndBatch \/ UNCHANGED vars
  BY <1>0, <1>10 DEF TestClosing, Block, WakeUp, WakeSpuriously, EndBatch, vars
<1>11. QED
  BY <1>1, <1>2, <1>3, <1>4, <1>5, <1>6, <1>7, <1>8, <1>9, <1>10 DEF Next, GuiDuty, RenderStep

(* The empty job stays last, and comes when nothing else will.             *)
LEMMA EndsNext == IInv /\ [Next]_vars => EndsInv' /\ BatchInv'
<1> SUFFICES ASSUME IInv, [Next]_vars PROVE EndsInv' /\ BatchInv'
  OBVIOUS
<1> USE DEF threadVars, historyVars
<1>0. /\ EndsInv /\ BatchInv /\ queue \in Seq(Entries) /\ batch \in Seq(Entries)
      /\ gui \in {"idle", "notify", "cancelAll", "pushEmpty", "notifyClose", "join", "gone"}
  BY DEF IInv, TypeOK, Entries
<1>1. ASSUME NEW j \in Jobs, Push(j) PROVE EndsInv' /\ BatchInv'
  <2>1. queue' \in Seq(Jobs)
    BY <1>0, <1>1, AppendProperties DEF Push, EndsInv
  <2>2. QED
    BY <1>0, <1>1, <2>1 DEF Push, EndsInv, BatchInv, Ended
<1>2. CASE PushEmpty
  <2>1. Ended(queue') /\ batch \in Seq(Jobs)
    <3>1. queue \in Seq(Jobs) /\ batch \in Seq(Jobs) /\ queue' = Append(queue, EmptyJob)
      BY <1>0, <1>2 DEF PushEmpty, EndsInv
    <3>2. queue' \in Seq(Entries)
      BY <1>0, <3>1, AppendProperties DEF Entries
    <3>3. QED
      BY <3>1, <3>2, EndedForm
  <2>2. QED
    BY <1>0, <1>2, <2>1 DEF PushEmpty, EndsInv, BatchInv
<1>3. CASE CheckQueue
  <2>1. batch = <<>> /\ <<>> \in Seq(Jobs)
    BY <1>0, <1>3, EmptySeq DEF CheckQueue, BatchInv
  <2>2. QED
    BY <1>0, <1>3, <2>1 DEF CheckQueue, EndsInv, BatchInv, Ended
<1>4. CASE RunJob \/ SkipEmptyJob
  <2>1. batch # <<>> /\ batch' = Tail(batch) /\ render' = "batch" /\ UNCHANGED <<queue, gui>>
    BY <1>0, <1>4 DEF RunJob, SkipEmptyJob, BatchInv
  <2>2. Ended(Tail(batch)) /\ (batch \in Seq(Jobs) => Tail(batch) \in Seq(Jobs))
    BY <1>0, <2>1, RealOfTail DEF EndsInv
  <2>3. QED
    BY <1>0, <2>1, <2>2 DEF EndsInv, BatchInv
<1>5. CASE StartJob \/ EndBatch \/ TestClosing \/ Block \/ WakeUp \/ WakeSpuriously
  BY <1>0, <1>5 DEF StartJob, EndBatch, TestClosing, Block, WakeUp, WakeSpuriously, EndsInv, BatchInv
<1>6. CASE Close \/ Notify \/ Join \/ CancelAllPendingJobs \/ (\E j \in Jobs : CancelPendingJob(j)) \/ UNCHANGED vars
  BY <1>0, <1>6 DEF Close, Notify, Join, CancelAllPendingJobs, CancelPendingJob, vars, EndsInv, BatchInv
<1>7. QED
  BY <1>1, <1>2, <1>3, <1>4, <1>5, <1>6 DEF Next, GuiDuty, RenderStep

(* Everything that waits was pushed, and is canceled by the destructor.    *)
LEMMA CanceledNext == IInv /\ [Next]_vars => CancelInv'
<1> SUFFICES ASSUME IInv, [Next]_vars PROVE CancelInv'
  OBVIOUS
<1> USE DEF threadVars, historyVars
<1>0. /\ CancelInv /\ BatchInv /\ queue \in Seq(Entries) /\ batch \in Seq(Entries) /\ pushed \in Seq(Jobs)
  BY DEF IInv, TypeOK, Entries
<1>1. ASSUME NEW j \in Jobs, Push(j) PROVE CancelInv'
  <2>1. ToSet(queue') \subseteq ToSet(queue) \cup {j}
    BY <1>0, <1>1, AppendKeeps DEF Push, Entries
  <2>2. ToSet(pushed) \cup {j} \subseteq ToSet(pushed')
    BY <1>0, <1>1, AppendKeeps DEF Push
  <2>3. gui' = "notify" /\ UNCHANGED <<batch, cancelling>>
    BY <1>1 DEF Push
  <2>4. QED
    BY <1>0, <2>1, <2>2, <2>3 DEF CancelInv
<1>2. CASE PushEmpty
  <2>1. ToSet(queue') \subseteq ToSet(queue) \cup {EmptyJob}
    BY <1>0, <1>2, AppendKeeps DEF PushEmpty, Entries
  <2>2. QED
    BY <1>0, <1>2, <2>1 DEF PushEmpty, CancelInv
<1>3. CASE CheckQueue
  <2>1. ToSet(<<>>) = {}
    BY DEF ToSet
  <2>2. QED
    BY <1>0, <1>3, <2>1 DEF CheckQueue, CancelInv
<1>4. CASE RunJob \/ SkipEmptyJob
  <2>1. batch # <<>> /\ batch' = Tail(batch) /\ UNCHANGED <<queue, gui, pushed, cancelling>>
    BY <1>0, <1>4 DEF RunJob, SkipEmptyJob, BatchInv
  <2>2. ToSet(Tail(batch)) \subseteq ToSet(batch)
    BY <1>0, <2>1, HeadTailKeep
  <2>3. QED
    BY <1>0, <2>1, <2>2 DEF CancelInv
<1>5. CASE StartJob \/ EndBatch \/ TestClosing \/ Block \/ WakeUp \/ WakeSpuriously
  BY <1>0, <1>5 DEF StartJob, EndBatch, TestClosing, Block, WakeUp, WakeSpuriously, CancelInv
<1>6. CASE Close \/ Notify \/ Join \/ CancelAllPendingJobs \/ (\E j \in Jobs : CancelPendingJob(j)) \/ UNCHANGED vars
  BY <1>0, <1>6 DEF Close, Notify, Join, CancelAllPendingJobs, CancelPendingJob, vars, CancelInv
<1>7. QED
  BY <1>1, <1>2, <1>3, <1>4, <1>5, <1>6 DEF Next, GuiDuty, RenderStep

LEMMA OrderNext == IInv /\ [Next]_vars => InOrderOnce'
<1> SUFFICES ASSUME IInv, [Next]_vars PROVE InOrderOnce'
  OBVIOUS
<1> USE DEF threadVars, historyVars
<1>0. /\ EndsInv /\ BatchInv /\ InOrderOnce /\ queue \in Seq(Entries) /\ batch \in Seq(Entries)
      /\ pushed \in Seq(Jobs) /\ started \in Seq(Jobs)
      /\ Ended(queue) /\ Ended(batch)
  BY DEF IInv, TypeOK, Entries, EndsInv
<1>1. /\ Waiting \in Seq(Entries) /\ Ended(Waiting)
      /\ Real(Waiting) \in Seq(Jobs) /\ Real(queue) \in Seq(Jobs)
  <2>1. Waiting \in Seq(Entries) /\ Ended(Waiting)
    BY <1>0, RealOfTail DEF Waiting, BatchInv
  <2>2. QED
    BY <1>0, <2>1, RealTypes
<1>2. started \o Real(Waiting) \in Seq(Jobs)
  BY <1>0, <1>1, ConcatProperties
<1>3. ASSUME UNCHANGED <<pushed, started, queue>>, Waiting' = Waiting PROVE InOrderOnce'
  BY <1>0, <1>3 DEF InOrderOnce
<1>4. ASSUME NEW j \in Jobs, Push(j) PROVE InOrderOnce'
  <2>1. queue \in Seq(Jobs) /\ queue' = Append(queue, j) /\ Append(queue, j) \in Seq(Jobs)
    BY <1>0, <1>4, AppendProperties DEF Push, EndsInv
  <2>2. Real(queue) = queue /\ Real(queue') = Append(queue, j)
    BY <2>1, RealIsSelf
  <2>3. pushed' = Append(pushed, j) /\ started' = started /\ Waiting' = Waiting
    BY <1>4 DEF Push, Waiting
  <2> DEFINE a == started \o Real(Waiting)
  <2>4. <<j>> \in Seq(Jobs) /\ queue \o <<j>> \in Seq(Jobs)
    BY <2>1, ConcatProperties
  <2>5. Append(a \o queue, j) = a \o Append(queue, j)
    <3> HIDE DEF a
    <3>1. a \in Seq(Jobs) /\ a \o queue \in Seq(Jobs)
      BY <1>2, <2>1, ConcatProperties DEF a
    <3>2. Append(a \o queue, j) = (a \o queue) \o <<j>> /\ Append(queue, j) = queue \o <<j>>
      BY <2>1, <3>1, AppendIsConcat
    <3>3. QED
      BY <2>1, <2>4, <3>1, <3>2, ConcatAssociative
  <2>6. pushed = a \o queue
    BY <1>0, <2>2 DEF InOrderOnce
  <2>7. QED
    BY <2>2, <2>3, <2>5, <2>6 DEF InOrderOnce
<1>5. CASE PushEmpty
  <2>1. queue \in Seq(Jobs) /\ queue' = Append(queue, EmptyJob) /\ UNCHANGED <<pushed, started>> /\ Waiting' = Waiting
    BY <1>0, <1>5 DEF PushEmpty, EndsInv, Waiting
  <2>2. Real(queue') = Real(queue)
    BY <2>1, RealIsSelf, RealOfEmptied
  <2>3. QED
    BY <1>0, <2>1, <2>2 DEF InOrderOnce
<1>6. CASE CheckQueue
  <2>1. /\ Waiting = <<>> /\ Waiting' = queue /\ queue' = <<>> /\ UNCHANGED <<pushed, started>>
    BY <1>0, <1>6 DEF CheckQueue, BatchInv, Waiting
  <2>2. <<>> \in Seq(Jobs) /\ Real(<<>>) = <<>>
    BY EmptySeq, RealIsSelf
  <2>3. started \o <<>> = started /\ started \o Real(queue) \in Seq(Jobs)
    BY <1>0, <1>1, ConcatEmptySeq, ConcatProperties
  <2>4. (started \o Real(queue)) \o <<>> = started \o Real(queue)
    BY <2>3, ConcatEmptySeq
  <2>5. pushed = started \o Real(queue)
    BY <1>0, <2>1, <2>2, <2>3 DEF InOrderOnce
  <2>6. QED
    BY <2>1, <2>2, <2>4, <2>5 DEF InOrderOnce
<1>7. CASE StartJob
  <2>1. /\ Waiting = batch /\ Waiting' = Tail(batch) /\ started' = Append(started, Head(batch))
        /\ UNCHANGED <<pushed, queue>> /\ batch # <<>> /\ Head(batch) # EmptyJob
    BY <1>7 DEF StartJob, Waiting
  <2>2. Head(batch) \in Jobs /\ Real(batch) = <<Head(batch)>> \o Real(Tail(batch)) /\ Real(Tail(batch)) \in Seq(Jobs)
    BY <1>0, <2>1, RealOfTail, RealTypes
  <2> DEFINE h == Head(batch)
  <2> DEFINE r == Real(Tail(batch))
  <2>3. Append(started, h) = started \o <<h>> /\ <<h>> \in Seq(Jobs)
    BY <1>0, <2>2, AppendIsConcat
  <2> HIDE DEF h, r
  <2>4. (started \o <<h>>) \o r = started \o (<<h>> \o r)
    BY <1>0, <2>2, <2>3, ConcatAssociative DEF r
  <2>5. QED
    BY <1>0, <2>1, <2>2, <2>3, <2>4 DEF InOrderOnce, h, r
<1>8. CASE RunJob
  BY <1>0, <1>3, <1>8 DEF RunJob, Waiting
<1>9. CASE SkipEmptyJob
  <2>1. /\ Waiting = batch /\ Waiting' = Tail(batch) /\ UNCHANGED <<pushed, started, queue>>
        /\ batch # <<>> /\ Head(batch) = EmptyJob
    BY <1>9 DEF SkipEmptyJob, Waiting
  <2>2. Real(batch) = <<>> /\ Tail(batch) = <<>> /\ Real(<<>>) = <<>>
    BY <1>0, <2>1, RealOfTail, RealIsSelf, EmptySeq
  <2>3. QED
    BY <1>0, <2>1, <2>2 DEF InOrderOnce
<1>10. CASE EndBatch \/ TestClosing \/ Block \/ WakeUp \/ WakeSpuriously
  BY <1>3, <1>10 DEF EndBatch, TestClosing, Block, WakeUp, WakeSpuriously, Waiting
<1>11. CASE Close \/ Notify \/ Join \/ CancelAllPendingJobs \/ (\E j \in Jobs : CancelPendingJob(j)) \/ UNCHANGED vars
  BY <1>3, <1>11 DEF Close, Notify, Join, CancelAllPendingJobs, CancelPendingJob, vars, Waiting
<1>12. QED
  BY <1>4, <1>5, <1>6, <1>7, <1>8, <1>9, <1>10, <1>11 DEF Next, GuiDuty, RenderStep

LEMMA QueueNext == IInv /\ [Next]_vars => IInv'
<1>1. QED
  BY QueueTypeNext, EndsNext, CanceledNext, OrderNext DEF IInv

LEMMA QueueInvariant == Spec => []IInv
<1>1. QED
  BY QueueInit, QueueNext, PTL DEF Spec

(* RenderLoop starts the documents in the order Render pushed them, each   *)
(* once, and none is lost between m_queue and its batch, for any number of *)
(* documents.                                                              *)
THEOREM OrderCorrect == Spec => []InOrderOnce
<1>1. IInv => InOrderOnce
  BY DEF IInv
<1>2. QED
  BY <1>1, QueueInvariant, PTL

(* Once ~JobProcessorImpl has canceled the pending jobs, no render task    *)
(* gets to the requests to the server.                                     *)
THEOREM CloseStopsJobs == Spec => NothingPassesAfterCancel
<1> USE DEF threadVars, historyVars
<1>1. IInv /\ [Next]_vars => [gui \notin {"idle", "notify", "cancelAll"} => passed' = passed]_vars
  <2> SUFFICES ASSUME IInv, Next, gui \notin {"idle", "notify", "cancelAll"} PROVE passed' = passed
    BY DEF vars
  <2>1. CASE RunJob
    <3>1. /\ batch \in Seq(Entries) /\ batch # <<>> /\ Head(batch) # EmptyJob
          /\ ToSet(batch) \subseteq ToSet(pushed) \cup {EmptyJob} /\ ToSet(pushed) \subseteq cancelling
      BY <2>1 DEF IInv, TypeOK, Entries, BatchInv, CancelInv, RunJob
    <3>2. Head(batch) \in cancelling
      BY <3>1, HeadTailKeep
    <3>3. QED
      BY <2>1, <3>2 DEF RunJob
  <2>2. CASE ~RunJob
    BY <2>2 DEF Next, GuiDuty, RenderStep, Push, CancelPendingJob, Close, Notify, CancelAllPendingJobs, PushEmpty,
       Join, TestClosing, CheckQueue, Block, WakeUp, WakeSpuriously, StartJob, SkipEmptyJob, EndBatch
  <2>3. QED
    BY <2>1, <2>2
<1>2. QED
  BY <1>1, QueueInvariant, PTL DEF Spec, NothingPassesAfterCancel
===============================================================================
