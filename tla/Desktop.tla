-------------------------------- MODULE Desktop --------------------------------
(***************************************************************************)
(* The main window as the program's life: it asks before it closes with    *)
(* jobs pending, closes itself when the last of them is destroyed - on the *)
(* thread that destroys it -, looks for updates, installs one, and reads   *)
(* the results of requests when idle, holding m_asyncResultMutex while the *)
(* callback of one runs.  Modal dialogs run event loops of their own, in   *)
(* which everything but the windows behind them goes on.                   *)
(***************************************************************************)
EXTENDS Integers, Sequences, SequencesExt, FiniteSets

CONSTANTS
    Jobs,       \* the jobs that may be printed
    Checks,     \* updates that may be looked for at a time
    MaxModal    \* bound: so many dialogs are nested

ASSUME MaxModalAssumption == MaxModal \in Nat \ {0}

VARIABLES
    job,        \* "no", "pending", "removed" from the list, "closing" the window, "destroyed"
    modal,      \* the open dialogs, the innermost last
    closeOnLastJobDestroyed,
    shown,      \* the window is not hidden in the tray
    jobsPage,   \* the page of the jobs is selected
    update,     \* what is under way for an update
    processing, \* m_processingCheckUpdate
    app,        \* "running", "closed", or "stuck" in a mutex its thread holds
    (* history *)
    printedLate,    \* a job was printed after the user had asked to close
    twoChecks,      \* a check was started when an update was under way
    launched        \* an installer was launched with jobs pending

window == <<closeOnLastJobDestroyed, shown, jobsPage>>
updates == <<update, processing>>
history == <<printedLate, twoChecks, launched>>
vars == <<job, modal, window, updates, app, history>>

NoUpdate == [stage |-> "none", manually |-> FALSE]
Stages == {"none", "checking", "newer", "noNewer", "failed", "newerInfo", "noNewerInfo", "asking",
           "downloading", "downloaded"}
UpdateStates == [stage : Stages, manually : BOOLEAN]
Dialogs == [kind : {"exit", "update", "noUpdate"}, check : Checks \cup {0}, locked : BOOLEAN]

TypeOK ==
    /\ job \in [Jobs -> {"no", "pending", "removed", "closing", "destroyed"}]
    /\ modal \in Seq(Dialogs)
    /\ update \in [Checks -> UpdateStates]
    /\ {closeOnLastJobDestroyed, shown, jobsPage, processing} \subseteq BOOLEAN
    /\ {printedLate, twoChecks, launched} \subseteq BOOLEAN
    /\ app \in {"running", "closed", "stuck"}

Init ==
    /\ job = [j \in Jobs |-> "no"] /\ modal = <<>>
    /\ closeOnLastJobDestroyed = FALSE /\ shown = TRUE /\ jobsPage = FALSE
    /\ update = [k \in Checks |-> NoUpdate] /\ processing = FALSE
    /\ app = "running"
    /\ printedLate = FALSE /\ twoChecks = FALSE /\ launched = FALSE

-------------------------------------------------------------------------------
PendingJobs == {j \in Jobs : job[j] = "pending"}

Running == app = "running"
InFront == Running /\ shown /\ modal = <<>>
Locked == \E d \in DOMAIN modal : modal[d].locked

(* StoreAsyncResult and RetrieveAsyncResult under a callback of the same   *)
(* queue lock a mutex this thread holds, which is undefined: it blocks for *)
(* good or goes on.                                                        *)
Relock == app' \in IF Locked THEN {"running", "stuck"} ELSE {"running"}

Open(dialog) == Len(modal) < MaxModal /\ modal' = Append(modal, dialog)
Dialog(kind, check, locked) == [kind |-> kind, check |-> check, locked |-> locked]
Answered(kind) == Running /\ modal # <<>> /\ Last(modal).kind = kind /\ modal' = Front(modal)

-------------------------------------------------------------------------------
(* Jobs.                                                                   *)

(* RunPrinting: OnJobCreate selects the page of the jobs, which posts a    *)
(* request for the list.                                                   *)
OnJobCreate(j) ==
    /\ InFront /\ job[j] = "no"
    /\ job' = [job EXCEPT ![j] = "pending"]
    /\ jobsPage' = TRUE
    /\ printedLate' = (printedLate \/ closeOnLastJobDestroyed)
    /\ UNCHANGED <<modal, closeOnLastJobDestroyed, shown, updates, app, twoChecks, launched>>

(* ~PendingJob, on any thread: the job leaves the list, ...                *)
RemoveJobToPendingList(j) ==
    /\ Running /\ job[j] = "pending"
    /\ job' = [job EXCEPT ![j] = "removed"]
    /\ UNCHANGED <<modal, window, updates, app, history>>

(* The count is not looked at.                                             *)
OnJobDestroyUncounted(j) ==
    /\ Running /\ job[j] = "removed"
    /\ job' = [job EXCEPT ![j] = IF closeOnLastJobDestroyed THEN "closing" ELSE "destroyed"]
    /\ UNCHANGED <<modal, window, updates, app, history>>

(* The job is still counted when it looks.                                 *)
OnJobDestroyFirst(j) ==
    /\ Running /\ job[j] = "removed"
    /\ job' = [job EXCEPT ![j] = IF closeOnLastJobDestroyed /\ \A i \in Jobs \ {j} : job[i] = "no"
                                 THEN "closing" ELSE "destroyed"]
    /\ UNCHANGED <<modal, window, updates, app, history>>

(* ... the flag and the count are tested, ...                              *)
OnJobDestroy(j) ==
    /\ Running /\ job[j] = "removed"
    /\ job' = [job EXCEPT ![j] = IF closeOnLastJobDestroyed /\ PendingJobs = {}
                                 THEN "closing" ELSE "destroyed"]
    /\ UNCHANGED <<modal, window, updates, app, history>>

(* ... and the window is closed.                                           *)
CloseOnJobDestroy(j) ==
    /\ Running /\ job[j] = "closing"
    /\ job' = [job EXCEPT ![j] = "destroyed"]
    /\ app' = "closed"
    /\ UNCHANGED <<modal, window, updates, history>>

(* CheckPendingJobsAndCloseApp, under the mutex or not.  SelectPage posts  *)
(* a request.                                                              *)
CheckPendingJobsAndCloseApp(locked) ==
    IF PendingJobs # {}
    THEN /\ Open(Dialog("exit", 0, locked))
         /\ jobsPage' = (jobsPage \/ shown)
         /\ app' \in IF shown /\ ~jobsPage /\ (locked \/ Locked) THEN {"running", "stuck"} ELSE {"running"}
    ELSE app' = "closed" /\ UNCHANGED <<modal, jobsPage>>

(* The menu of the window, or that of the tray icon, which works beside a  *)
(* modal dialog too.                                                       *)
Quit ==
    /\ Running
    /\ CheckPendingJobsAndCloseApp(FALSE)
    /\ UNCHANGED <<job, closeOnLastJobDestroyed, shown, updates, history>>

(* "Wait for their completion?": Yes, No (CancelAllPendingJobs, after      *)
(* which the jobs end, too) or Cancel.                                     *)
ExitAnswer(wait) ==
    /\ Answered("exit")
    /\ closeOnLastJobDestroyed' = (closeOnLastJobDestroyed \/ wait)
    /\ UNCHANGED <<job, shown, jobsPage, updates, app, history>>

(* OnClose hides the window; the tray icon and another instance show it.   *)
Hide ==
    /\ Running /\ shown /\ shown' = FALSE
    /\ UNCHANGED <<job, modal, closeOnLastJobDestroyed, jobsPage, updates, app, history>>

Show ==
    /\ Running /\ ~shown /\ shown' = TRUE
    /\ UNCHANGED <<job, modal, closeOnLastJobDestroyed, jobsPage, updates, app, history>>

SelectPage ==
    /\ InFront
    /\ jobsPage' \in BOOLEAN \ {jobsPage}
    /\ UNCHANGED <<job, modal, closeOnLastJobDestroyed, shown, updates, app, history>>

-------------------------------------------------------------------------------
(* Updates.                                                                *)

Stage(k, stage) == update' = [update EXCEPT ![k].stage = stage]
Over(k) == update' = [update EXCEPT ![k] = NoUpdate]

(* CheckForUpdates: by hand when the menu allows it, else when the window  *)
(* comes up or the offices are loaded and a day has passed since the last  *)
(* check, which may be at any time.                                        *)
CheckForUpdates(k, manually) ==
    /\ IF manually THEN InFront /\ ~processing ELSE Running
    /\ update[k] = NoUpdate /\ \A i \in Checks : i < k => update[i] # NoUpdate
    /\ update' = [update EXCEPT ![k] = [stage |-> "checking", manually |-> manually]]
    /\ processing' = TRUE
    /\ twoChecks' = (twoChecks \/ \E i \in Checks : update[i] # NoUpdate)
    /\ Relock
    /\ UNCHANGED <<job, modal, window, printedLate, launched>>

(* The requests end, on io threads; a list that holds nothing for this     *)
(* version of Windows is no failure.                                       *)
AsyncCheckForUpdates(k) ==
    /\ update[k].stage = "checking"
    /\ \E stage \in {"newer", "noNewer", "failed"} : Stage(k, stage)

(* The installer is saved: or cannot be, or was not sent.                  *)
AsyncDownloadUpdate(k) ==
    /\ update[k].stage = "downloading"
    /\ \E stage \in {"downloaded", "failed"} : Stage(k, stage)

UpdateAnswers(k) ==
    /\ Running
    /\ AsyncCheckForUpdates(k) \/ AsyncDownloadUpdate(k)
    /\ UNCHANGED <<job, modal, window, processing, app, history>>

(* OnIdle, also that of a dialog's loop, under a callback.                 *)
IdleUnderLock ==
    /\ Running /\ Locked
    /\ app' = "stuck"
    /\ UNCHANGED <<job, modal, window, updates, history>>

(* The question is asked by the callback itself.                           *)
RetrieveCheckAndAsk(k) ==
    /\ Running /\ update[k].stage \in {"newer", "noNewer"}
    /\ IF update[k].stage = "newer" \/ update[k].manually
       THEN Stage(k, "asking") /\ Open(Dialog("update", k, TRUE)) /\ UNCHANGED processing
       ELSE Over(k) /\ processing' = FALSE /\ UNCHANGED modal
    /\ UNCHANGED <<job, window, app, history>>

(* An event is posted to tell the user, unless he need not know.           *)
RetrieveCheck(k) ==
    /\ Running /\ update[k].stage \in {"newer", "noNewer"}
    /\ IF update[k].stage = "newer" \/ update[k].manually
       THEN Stage(k, IF update[k].stage = "newer" THEN "newerInfo" ELSE "noNewerInfo") /\ UNCHANGED processing
       ELSE Over(k) /\ processing' = FALSE
    /\ UNCHANGED <<job, modal, window, app, history>>

(* The error is not of the category Update.                                *)
RetrieveFailureOther(k) ==
    /\ Running /\ update[k].stage = "failed"
    /\ Over(k)
    /\ UNCHANGED <<job, modal, window, processing, app, history>>

(* The error handler of OnIdle.                                            *)
RetrieveFailure(k) ==
    /\ Running /\ update[k].stage = "failed"
    /\ Over(k) /\ processing' = FALSE
    /\ UNCHANGED <<job, modal, window, app, history>>

HandleReceiveUpdatesInfo(k) ==
    /\ Running /\ update[k].stage \in {"newerInfo", "noNewerInfo"}
    /\ Open(Dialog(IF update[k].stage = "newerInfo" THEN "update" ELSE "noUpdate", k, FALSE))
    /\ Stage(k, "asking")
    /\ UNCHANGED <<job, window, processing, app, history>>

(* "New version available": Yes downloads it; the result is stored.        *)
UpdateAccepted ==
    /\ Answered("update")
    /\ Stage(Last(modal).check, "downloading")
    /\ Relock
    /\ UNCHANGED <<job, window, processing, history>>

UpdateDeclined ==
    /\ Answered("update") \/ Answered("noUpdate")
    /\ Over(Last(modal).check) /\ processing' = FALSE
    /\ UNCHANGED <<job, window, app, history>>

(* The installer is launched, or not, and the program closes or asks,      *)
(* inside the callback of the result.                                      *)
RetrieveDownload(k) ==
    /\ Running /\ update[k].stage = "downloaded"
    /\ Over(k) /\ processing' = FALSE
    /\ \/ /\ CheckPendingJobsAndCloseApp(TRUE)
          /\ launched' = (launched \/ PendingJobs # {})
       \/ UNCHANGED <<modal, jobsPage, app, launched>>
    /\ UNCHANGED <<job, closeOnLastJobDestroyed, shown, printedLate, twoChecks>>

Next ==
    \/ \E j \in Jobs : OnJobCreate(j) \/ RemoveJobToPendingList(j) \/ OnJobDestroy(j) \/ CloseOnJobDestroy(j)
    \/ Quit \/ Hide \/ Show \/ SelectPage \/ IdleUnderLock
    \/ \E answer \in BOOLEAN : ExitAnswer(answer)
    \/ \E k \in Checks : \/ UpdateAnswers(k) \/ RetrieveCheck(k) \/ RetrieveFailure(k)
                         \/ HandleReceiveUpdatesInfo(k) \/ RetrieveDownload(k)
                         \/ \E manually \in BOOLEAN : CheckForUpdates(k, manually)
    \/ UpdateAccepted \/ UpdateDeclined

Spec == Init /\ [][Next]_vars

(* Jobs end (JobProcessor shows it) and their destructors run to the end.  *)
FairSpec ==
    /\ Spec
    /\ \A j \in Jobs : /\ WF_vars(RemoveJobToPendingList(j)) /\ WF_vars(OnJobDestroy(j))
                       /\ WF_vars(CloseOnJobDestroy(j))
-------------------------------------------------------------------------------
(* Properties.                                                             *)

(* A window that is to close after the last job does: if a job was still   *)
(* pending when the user had answered, the program ends.  (If the last one *)
(* ended while he was thinking, nobody closes it.)                         *)
ClosesAsAsked ==
    (Running /\ closeOnLastJobDestroyed /\ PendingJobs # {}) ~> ~Running

(* The program closes with a job pending only if it was printed after the  *)
(* user had asked to close, between the test on the job's thread and the   *)
(* closing.                                                                *)
ClosesWithoutJobs == app = "closed" /\ PendingJobs # {} => printedLate

(* The menu is disabled exactly while an update is looked for, talked      *)
(* about or downloaded, unless the check of the next day was started       *)
(* beside one that never ended.                                            *)
ProcessingTrue ==
    Running /\ ~twoChecks => (processing <=> \E k \in Checks : update[k] # NoUpdate)

(* The GUI thread locks a mutex it holds only after an installer was       *)
(* launched with jobs pending.                                             *)
StuckOnlyIfLaunched == app = "stuck" => launched

-------------------------------------------------------------------------------
(* Why they hold: what every step preserves.                               *)

(* A job closes the window only when asked to, and when it looked none     *)
(* other was pending.                                                      *)
ClosingInv ==
    (\E j \in Jobs : job[j] = "closing") =>
        closeOnLastJobDestroyed /\ (PendingJobs = {} \/ printedLate)

(* A dialog about an update asks about one of its own.                     *)
Asks(d) == modal[d].kind # "exit"

DialogInv ==
    /\ \A d \in DOMAIN modal : Asks(d) =>
          modal[d].check \in Checks /\ update[modal[d].check].stage = "asking"
    /\ \A d, e \in DOMAIN modal :
          Asks(d) /\ Asks(e) /\ modal[d].check = modal[e].check => d = e

LockedInv == Locked => launched

OneCheckInv ==
    ~twoChecks => \A k, l \in Checks : update[k] # NoUpdate /\ update[l] # NoUpdate => k = l

IInv ==
    /\ TypeOK /\ ClosingInv /\ DialogInv /\ LockedInv /\ OneCheckInv
    /\ ClosesWithoutJobs /\ ProcessingTrue /\ StuckOnlyIfLaunched
===============================================================================
