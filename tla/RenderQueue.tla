------------------------------ MODULE RenderQueue ------------------------------
(***************************************************************************)
(* The render queue of JobProcessorImpl: the GUI thread pushes render jobs *)
(* on m_queue under m_queueMutex and calls notify_one; the render thread   *)
(* waits on m_cv with m_cvMutex, takes the whole queue at once and runs    *)
(* the batch.  ~JobProcessorImpl (also the GUI thread) raises m_isClosing, *)
(* cancels, pushes an empty job and joins the thread.                      *)
(*                                                                         *)
(* m_queueMutex is not the mutex of the condition variable, so a push and  *)
(* its notification may fall between the moment the render thread finds    *)
(* the queue empty and the moment it blocks: that notification is lost.    *)
(***************************************************************************)
EXTENDS Sequences, SequencesExt, FiniteSets

CONSTANTS
    Jobs,       \* the render jobs that may be submitted
    EmptyJob    \* the RenderJob without task that ends the wait

ASSUME EmptyJobAssumption == EmptyJob \notin Jobs

VARIABLES
    queue,      \* m_queue
    closing,    \* m_isClosing
    gui,        \* where the GUI thread is
    render,     \* where the render thread is
    signal,     \* a notification has reached the blocked render thread
    batch,      \* RenderLoop's local queue jobs
    cancelling, \* jobs with PendingJobInfo::Cancelling
    (* history *)
    pushed,     \* the jobs in the order of their submission
    started,    \* the jobs in the order their task was started
    passed,     \* the jobs that got past every IsJobCanceling of their task
                \* and its callback, so that their chain goes on
    lost        \* the latest notification was for jobs the render thread had
                \* not seen, and came just before that thread blocked

threadVars == <<gui, render>>
historyVars == <<pushed, started, passed, lost>>
vars == <<queue, closing, threadVars, signal, batch, cancelling, historyVars>>

TypeOK ==
    /\ queue \in Seq(Jobs \cup {EmptyJob})
    /\ batch \in Seq(Jobs \cup {EmptyJob})
    /\ closing \in BOOLEAN /\ signal \in BOOLEAN /\ lost \in BOOLEAN
    /\ gui \in {"idle", "notify", "cancelAll", "pushEmpty", "notifyClose", "join", "gone"}
    /\ render \in {"loop", "check", "toBlock", "blocked", "batch", "run", "finished"}
    /\ cancelling \subseteq Jobs /\ passed \subseteq Jobs
    /\ pushed \in Seq(Jobs) /\ started \in Seq(Jobs)

Init ==
    /\ queue = <<>> /\ batch = <<>>
    /\ closing = FALSE /\ signal = FALSE /\ lost = FALSE
    /\ gui = "idle" /\ render = "loop"
    /\ cancelling = {} /\ passed = {}
    /\ pushed = <<>> /\ started = <<>>

-------------------------------------------------------------------------------
(* Plausible mistakes in the code; each replaces the definition it is      *)
(* named after and has to break a property.                                *)

PushWithoutNotify(j) ==
    /\ gui = "idle" /\ j \notin ToSet(pushed)
    /\ queue' = Append(queue, j)
    /\ pushed' = Append(pushed, j)
    /\ UNCHANGED <<closing, threadVars, signal, batch, cancelling, started, passed, lost>>

CancelAllPendingJobsNot ==
    /\ gui = "cancelAll"
    /\ gui' = "pushEmpty"
    /\ UNCHANGED <<queue, closing, render, signal, batch, cancelling, historyVars>>

PushEmptyNot ==
    /\ gui = "pushEmpty"
    /\ gui' = "notifyClose"
    /\ UNCHANGED <<queue, closing, render, signal, batch, cancelling, historyVars>>

(* The queue is copied, not swapped. *)
CheckQueueCopying ==
    /\ render = "check"
    /\ render' = IF queue = <<>> THEN "toBlock" ELSE "batch"
    /\ batch' = queue
    /\ lost' = (lost /\ queue = <<>>)
    /\ UNCHANGED <<queue, closing, gui, signal, cancelling, pushed, started, passed>>

(* m_cv.wait without a predicate. *)
EndBatchAndBlock ==
    /\ render = "batch" /\ batch = <<>>
    /\ render' = "toBlock"
    /\ UNCHANGED <<queue, closing, gui, signal, batch, cancelling, historyVars>>

-------------------------------------------------------------------------------
(* The GUI thread.                                                         *)

(* Render: the task goes on the queue, ... *)
Push(j) ==
    /\ gui = "idle" /\ j \notin ToSet(pushed)
    /\ queue' = Append(queue, j)
    /\ pushed' = Append(pushed, j)
    /\ gui' = "notify"
    /\ UNCHANGED <<closing, render, signal, batch, cancelling, started, passed, lost>>

(* ... then m_cv.notify_one(), which nobody hears unless he is blocked.    *)
NotifyOne ==
    /\ signal' = (signal \/ render = "blocked")
    /\ lost' = (render = "toBlock" /\ queue # <<>>)

Notify ==
    /\ gui \in {"notify", "notifyClose"}
    /\ NotifyOne
    /\ gui' = IF gui = "notify" THEN "idle" ELSE "join"
    /\ UNCHANGED <<queue, closing, render, batch, cancelling, pushed, started, passed>>

(* CancelPendingJob; the jobs of this module are in m_pendingJobs at least *)
(* until their task has run.                                               *)
CancelPendingJob(j) ==
    /\ gui = "idle" /\ j \in ToSet(pushed)
    /\ cancelling' = cancelling \cup {j}
    /\ UNCHANGED <<queue, closing, threadVars, signal, batch, historyVars>>

(* ~JobProcessorImpl: m_isClosing, CancelAllPendingJobs, the empty job,    *)
(* notify_one, join.                                                       *)
Close ==
    /\ gui = "idle"
    /\ closing' = TRUE
    /\ gui' = "cancelAll"
    /\ UNCHANGED <<queue, render, signal, batch, cancelling, historyVars>>

CancelAllPendingJobs ==
    /\ gui = "cancelAll"
    /\ cancelling' = cancelling \cup ToSet(pushed)
    /\ gui' = "pushEmpty"
    /\ UNCHANGED <<queue, closing, render, signal, batch, historyVars>>

PushEmpty ==
    /\ gui = "pushEmpty"
    /\ queue' = Append(queue, EmptyJob)
    /\ gui' = "notifyClose"
    /\ UNCHANGED <<closing, render, signal, batch, cancelling, historyVars>>

Join ==
    /\ gui = "join" /\ render = "finished"
    /\ gui' = "gone"
    /\ UNCHANGED <<queue, closing, render, signal, batch, cancelling, historyVars>>

-------------------------------------------------------------------------------
(* The render thread.                                                      *)

(* while (!m_isClosing) *)
TestClosing ==
    /\ render = "loop"
    /\ render' = IF closing THEN "finished" ELSE "check"
    /\ UNCHANGED <<queue, closing, gui, signal, batch, cancelling, historyVars>>

(* The predicate of m_cv.wait takes the whole queue. *)
CheckQueue ==
    /\ render = "check"
    /\ render' = IF queue = <<>> THEN "toBlock" ELSE "batch"
    /\ batch' = queue
    /\ queue' = <<>>
    /\ lost' = (lost /\ queue = <<>>)
    /\ UNCHANGED <<closing, gui, signal, cancelling, pushed, started, passed>>

Block ==
    /\ render = "toBlock"
    /\ render' = "blocked"
    /\ UNCHANGED <<queue, closing, gui, signal, batch, cancelling, historyVars>>

(* A condition variable may also wake without reason. *)
WakeUp ==
    /\ render = "blocked" /\ signal
    /\ render' = "check"
    /\ signal' = FALSE
    /\ UNCHANGED <<queue, closing, gui, batch, cancelling, historyVars>>

WakeSpuriously ==
    /\ render = "blocked" /\ ~signal
    /\ render' = "check"
    /\ UNCHANGED <<queue, closing, gui, signal, batch, cancelling, historyVars>>

StartJob ==
    /\ render = "batch" /\ batch # <<>> /\ Head(batch) # EmptyJob
    /\ started' = Append(started, Head(batch))
    /\ render' = "run"
    /\ UNCHANGED <<queue, closing, gui, signal, batch, cancelling, pushed, passed, lost>>

(* The task and its callback up to the last IsJobCanceling of the two, or  *)
(* an exception and its handler, which asks nothing and goes no further.   *)
RunJob ==
    /\ render = "run"
    /\ \/ UNCHANGED passed
       \/ /\ Head(batch) \notin cancelling
          /\ passed' = passed \cup {Head(batch)}
    /\ batch' = Tail(batch)
    /\ render' = "batch"
    /\ UNCHANGED <<queue, closing, gui, signal, cancelling, pushed, started, lost>>

SkipEmptyJob ==
    /\ render = "batch" /\ batch # <<>> /\ Head(batch) = EmptyJob
    /\ batch' = Tail(batch)
    /\ UNCHANGED <<queue, closing, threadVars, signal, cancelling, historyVars>>

EndBatch ==
    /\ render = "batch" /\ batch = <<>>
    /\ render' = "loop"
    /\ UNCHANGED <<queue, closing, gui, signal, batch, cancelling, historyVars>>

RenderStep ==
    TestClosing \/ CheckQueue \/ Block \/ WakeUp \/ StartJob \/ RunJob \/ SkipEmptyJob \/ EndBatch

GuiDuty == Notify \/ CancelAllPendingJobs \/ PushEmpty \/ Join

Next ==
    \/ \E j \in Jobs : Push(j) \/ CancelPendingJob(j)
    \/ Close \/ GuiDuty \/ RenderStep \/ WakeSpuriously

Spec == Init /\ [][Next]_vars

(* Both threads go on with what they have begun.  The user need not submit *)
(* or close anything, and nothing is assumed of spurious wakeups.          *)
FairSpec == Spec /\ WF_vars(GuiDuty) /\ WF_vars(RenderStep)
-------------------------------------------------------------------------------
(* Properties.                                                             *)

(* A queue without the empty job, which only ever comes last. *)
Real(s) == IF s # <<>> /\ Last(s) = EmptyJob THEN Front(s) ELSE s
Waiting == IF render = "run" THEN Tail(batch) ELSE batch

(* Documents are rendered in the order they were submitted, each once, and *)
(* none is lost between the two queues, whenever the swap comes; closing   *)
(* skips the ones left on m_queue but reorders nothing.                    *)
InOrderOnce ==
    pushed = started \o Real(Waiting) \o Real(queue)

(* The render thread sleeps on a queue with work only if its notification  *)
(* is under way, or came in the window before the thread blocked.          *)
SleepsOnlyIfLost ==
    render = "blocked" /\ queue # <<>> =>
        signal \/ gui \in {"notify", "notifyClose"} \/ lost

(* Once the destructor has canceled the pending jobs, none that the batch  *)
(* still holds gets from its task to the requests to the server: the       *)
(* callbacks of those would outlive the JobProcessorImpl.                  *)
NothingPassesAfterCancel ==
    [][gui \notin {"idle", "notify", "cancelAll"} => passed' = passed]_vars

(* Every submitted document is started unless the destructor comes first,  *)
(* or a notification was lost and no later one ever came: then, and only   *)
(* then, a job waits forever, and the next submission would release it.    *)
PushedIsStarted ==
    \/ <>[]lost
    \/ \A j \in Jobs : j \in ToSet(pushed) ~> (j \in ToSet(started) \/ closing)

(* The destructor returns, unless the notification of the empty job was    *)
(* lost: then it hangs in join.                                            *)
CloseEnds == <>[]lost \/ (closing ~> gui = "gone")

-------------------------------------------------------------------------------
(* Why they hold: what every step preserves.                               *)

(* The empty job is pushed once, after everything else. *)
Ended(s) == s \in Seq(Jobs) \/ (s # <<>> /\ Last(s) = EmptyJob /\ Front(s) \in Seq(Jobs))

EndsInv ==
    /\ Ended(queue) /\ Ended(batch)
    /\ gui \in {"idle", "notify", "cancelAll", "pushEmpty"} => queue \in Seq(Jobs) /\ batch \in Seq(Jobs)
    /\ batch \notin Seq(Jobs) => queue = <<>>

(* What the render thread holds. *)
BatchInv ==
    /\ render \notin {"batch", "run"} => batch = <<>>
    /\ render = "run" => batch # <<>> /\ Head(batch) # EmptyJob

(* What the destructor has canceled. *)
CancelInv ==
    /\ ToSet(queue) \cup ToSet(batch) \subseteq ToSet(pushed) \cup {EmptyJob}
    /\ gui \in {"pushEmpty", "notifyClose", "join", "gone"} => ToSet(pushed) \subseteq cancelling

IInv == TypeOK /\ EndsInv /\ BatchInv /\ CancelInv /\ InOrderOnce
===============================================================================
