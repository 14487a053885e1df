----------------------------- MODULE JobProcessor -----------------------------
(***************************************************************************)
(* JobProcessorImpl: a print job is rendered page by page on the render    *)
(* thread and then carried through create / upload / complete / get by a   *)
(* chain of HTTP callbacks that run on the io threads of HttpClientMT.     *)
(* The GUI thread may ask to cancel at any moment.                         *)
(*                                                                         *)
(* The chain of a job is in one place at a time (pc, step), but the thread *)
(* that posted a request is not done with it: it still has to register the *)
(* request's id with SetPendingJobHttpCancelId, and by then the callback   *)
(* of the request may have run on another thread and posted the next one.  *)
(* Those late registrations are the variable tail.                         *)
(***************************************************************************)
EXTENDS Naturals

CONSTANTS
    Jobs,          \* the calls of RenderAndUpload
    PageCount,     \* PageCount[j]: what documentRenderer->GetPageCount() says
    HttpThreads,   \* io threads of HttpClientMT (HttpThreadCount = 2)
    RenderThread,  \* the one thread of RenderLoop
    MaxAttempts,   \* tries of a request (2, see HttpContract)
    None           \* no thread, no tail

ASSUME PagesAssumption == PageCount \in [Jobs -> Nat]
ASSUME TriesAssumption == MaxAttempts \in Nat \ {0}
ASSUME ThreadsAssumption ==
    /\ RenderThread \notin HttpThreads
    /\ None \notin HttpThreads \cup {RenderThread}

Threads == HttpThreads \cup {RenderThread}

(* The requests of a job, in the order a successful job makes them; Cancel *)
(* is the DELETE that replaces the rest once the job is being canceled.    *)
Steps == {"Create", "Upload", "Complete", "Get", "Cancel"}

VARIABLES
    (* JobProcessorImpl::m_pendingJobs *)
    listed,      \* jobs in the map: their PendingJob is alive
    cancelling,  \* PendingJobInfo::Cancelling
    curId,       \* PendingJobInfo::CurrentHttpRequestId, 0 for none
    (* the chain of each job *)
    pc, step,    \* where it is, and the request it is about
    owner,       \* the thread running it, if one is
    tail,        \* tail[t]: the registration thread t has still to make
    rendered,    \* size of the FileStreamList
    uploaded,    \* size of UploadResults
    outcome,     \* the last progress status, set together with the promise
    lateWork,    \* history: pages rendered and requests posted for the job
                 \* (its DELETE apart) after it was asked to cancel
    (* the HTTP client.  The id of a request is the second it was created  *)
    (* in (std::time), so the next request of the job may have the same    *)
    reqId,       \* id of the latest request of the job, 0 before the first
    lateId,      \* history: an id was registered after CancelServerJob
                 \* had cleared it
    phase, attempt, served, abort,
    (* the print server and CloudPrintClient's login context *)
    srv, got,    \* state of the job on the server, pages it holds
    stray,       \* abandoned requests the server may still receive
    loggedIn

listVars   == <<listed, cancelling, curId>>
chainVars  == <<pc, step, owner, tail>>
workVars   == <<rendered, uploaded, outcome, lateWork>>
httpVars   == <<phase, attempt, served, abort>>
idVars     == <<reqId, lateId>>
serverVars == <<srv, got, stray>>
vars == <<listVars, chainVars, workVars, idVars, httpVars, serverVars, loggedIn>>

Http == INSTANCE HttpContract WITH Channels <- Jobs

NoTail == [job |-> None, id |-> 0]

ListTypeOK ==
    /\ listed \subseteq Jobs
    /\ cancelling \in [Jobs -> BOOLEAN]
    /\ curId \in [Jobs -> Nat]

ChainTypeOK ==
    /\ pc \in [Jobs -> {"new", "queued", "checkPage", "renderPage", "check",
                        "post", "wait", "clearId", "done"}]
    /\ step \in [Jobs -> Steps]
    /\ owner \in [Jobs -> Threads \cup {None}]
    /\ tail \in [Threads -> {NoTail} \cup [job : Jobs, id : Nat]]

WorkTypeOK ==
    /\ rendered \in [Jobs -> Nat]
    /\ uploaded \in [Jobs -> Nat]
    /\ outcome \in [Jobs -> {"none", "complete", "canceled", "error"}]
    /\ lateWork \in [Jobs -> Nat]

ServerTypeOK ==
    /\ srv \in [Jobs -> {"absent", "open", "completed", "deleted"}]
    /\ got \in [Jobs -> SUBSET Nat]
    /\ stray \in [Jobs -> SUBSET (Steps \X Nat)]

TypeOK ==
    /\ ListTypeOK /\ ChainTypeOK /\ WorkTypeOK /\ ServerTypeOK
    /\ Http!HttpTypeOK
    /\ reqId \in [Jobs -> Nat] /\ lateId \in [Jobs -> BOOLEAN]
    /\ loggedIn \in BOOLEAN

Init ==
    /\ listed = {}
    /\ cancelling = [j \in Jobs |-> FALSE]
    /\ curId = [j \in Jobs |-> 0]
    /\ pc = [j \in Jobs |-> "new"]
    /\ step = [j \in Jobs |-> "Create"]
    /\ owner = [j \in Jobs |-> None]
    /\ tail = [t \in Threads |-> NoTail]
    /\ rendered = [j \in Jobs |-> 0]
    /\ uploaded = [j \in Jobs |-> 0]
    /\ outcome = [j \in Jobs |-> "none"]
    /\ lateWork = [j \in Jobs |-> 0]
    /\ reqId = [j \in Jobs |-> 0] /\ lateId = [j \in Jobs |-> FALSE]
    /\ Http!Init
    /\ srv = [j \in Jobs |-> "absent"]
    /\ got = [j \in Jobs |-> {}]
    /\ stray = [j \in Jobs |-> {}]
    /\ loggedIn \in BOOLEAN

-------------------------------------------------------------------------------
(* Helpers.                                                                *)

(* A thread that has neither a job to run nor a registration to make.      *)
Free(t) == tail[t] = NoTail /\ \A j \in Jobs : owner[j] # t

Goto(j, place) == pc' = [pc EXCEPT ![j] = place]

NextStep(j, s) == step' = [step EXCEPT ![j] = s]

Release(j) == owner' = [owner EXCEPT ![j] = None]

Take(j, t) == owner' = [owner EXCEPT ![j] = t]

(* OnComplete, OnCancel or OnError followed by set_value or set_exception: *)
(* the chain ends and its thread goes back to its loop.                    *)
Resolve(j, result) ==
    /\ Goto(j, "done")
    /\ outcome' = [outcome EXCEPT ![j] = result]
    /\ Release(j)

CountLateWork(j) ==
    lateWork' = [lateWork EXCEPT ![j] = IF cancelling[j] THEN @ + 1 ELSE @]

-------------------------------------------------------------------------------
(* Plausible mistakes in the code; each replaces the definition it is      *)
(* named after and has to break a property.                                *)

(* IsJobCanceling is only asked before the job is created. *)
CheckCancelingOnce(j) ==
    /\ pc[j] = "check"
    /\ IF cancelling[j] /\ step[j] = "Create"
       THEN Resolve(j, "canceled")
       ELSE Goto(j, "post") /\ UNCHANGED <<owner, outcome>>
    /\ UNCHANGED <<listVars, step, tail, rendered, uploaded, lateWork, idVars, httpVars,
                   serverVars, loggedIn>>

(* CancelServerJob leaves the id of the earlier request registered. *)
ClearCancelIdNot(j) ==
    /\ pc[j] = "clearId"
    /\ Goto(j, "post")
    /\ UNCHANGED <<listVars, step, owner, tail, workVars, idVars, httpVars, serverVars,
                   loggedIn>>

(* pageNum is not recomputed after push_back. *)
PageBefore(j) == uploaded[j]

-------------------------------------------------------------------------------
(* The GUI thread.                                                         *)

(* RenderAndUpload: the PendingJob registers itself, the render task is    *)
(* pushed on m_queue.                                                      *)
Submit(j) ==
    /\ pc[j] = "new"
    /\ Goto(j, "queued")
    /\ listed' = listed \cup {j}
    /\ UNCHANGED <<cancelling, curId, step, owner, tail, workVars, idVars,
                   httpVars, serverVars, loggedIn>>

(* CancelPendingJob: CancelRequest does something only if the registered   *)
(* id is that of the request outstanding now (it may be the id of an       *)
(* earlier request that was created in the same second).                   *)
CancelPendingJob(j) ==
    /\ j \in listed
    /\ cancelling' = [cancelling EXCEPT ![j] = TRUE]
    /\ Http!Cancel({k \in {j} : curId[k] = reqId[k] /\ curId[k] # 0})
    /\ UNCHANGED <<listed, curId, chainVars, workVars, idVars, serverVars, loggedIn>>

(* CancelAllPendingJobs. *)
CancelAllPendingJobs ==
    /\ cancelling' = [j \in Jobs |-> cancelling[j] \/ j \in listed]
    /\ Http!Cancel({k \in listed : curId[k] = reqId[k] /\ curId[k] # 0})
    /\ curId' = [j \in Jobs |-> IF j \in listed THEN 0 ELSE curId[j]]
    /\ UNCHANGED <<listed, chainVars, workVars, idVars, serverVars, loggedIn>>

(* AsyncLogout, AsyncLogin... reset or set m_loginCtx at any moment.       *)
ChangeLogin ==
    /\ loggedIn' = ~loggedIn
    /\ UNCHANGED <<listVars, chainVars, workVars, idVars, httpVars, serverVars>>

-------------------------------------------------------------------------------
(* The render thread.  RenderQueue.tla models the queue itself.            *)

StartRender(j) ==
    /\ pc[j] = "queued"
    /\ Free(RenderThread)
    /\ Goto(j, "checkPage")
    /\ Take(j, RenderThread)
    /\ UNCHANGED <<listVars, step, tail, workVars, idVars, httpVars, serverVars, loggedIn>>

(* The head of the loop over the pages.  A canceled task returns an empty  *)
(* list, and so does the task of a document without pages: renderCallback  *)
(* takes both for a cancellation.                                          *)
CheckPage(j) ==
    /\ pc[j] = "checkPage"
    /\ \/ /\ rendered[j] < PageCount[j] /\ ~cancelling[j]
          /\ Goto(j, "renderPage")
          /\ UNCHANGED <<owner, outcome>>
       \/ /\ rendered[j] < PageCount[j] /\ cancelling[j]
          /\ Resolve(j, "canceled")
       \/ /\ rendered[j] = PageCount[j] /\ PageCount[j] = 0
          /\ Resolve(j, "canceled")
       \/ /\ rendered[j] = PageCount[j] /\ PageCount[j] > 0
          /\ Goto(j, "check")
          /\ UNCHANGED <<owner, outcome>>
    /\ UNCHANGED <<listVars, step, tail, rendered, uploaded, lateWork, idVars,
                   httpVars, serverVars, loggedIn>>

(* OnRenderPage and RenderForPrinting, which may throw: RenderLoop hands   *)
(* the exception to renderCallback.                                        *)
RenderPage(j) ==
    /\ pc[j] = "renderPage"
    /\ CountLateWork(j)
    /\ \/ /\ rendered' = [rendered EXCEPT ![j] = @ + 1]
          /\ Goto(j, "checkPage")
          /\ UNCHANGED <<owner, outcome>>
       \/ /\ Resolve(j, "error")
          /\ UNCHANGED rendered
    /\ UNCHANGED <<listVars, step, tail, uploaded, idVars, httpVars, serverVars, loggedIn>>

-------------------------------------------------------------------------------
(* A callback between the moment it decides and the moment it returns, on  *)
(* whichever thread runs it.                                               *)

(* IsJobCanceling before CreateJobAndUploadPages, UploadNextPage,          *)
(* CompleteSuccessfulJob and GetNewJobInfo.  Before there is a job on the  *)
(* server a canceled one just ends.                                        *)
CheckCanceling(j) ==
    /\ pc[j] = "check"
    /\ \/ /\ ~cancelling[j]
          /\ Goto(j, "post")
          /\ UNCHANGED <<step, owner, outcome>>
       \/ /\ cancelling[j] /\ step[j] = "Create"
          /\ Resolve(j, "canceled")
          /\ UNCHANGED step
       \/ /\ cancelling[j] /\ step[j] # "Create"
          /\ Goto(j, "clearId")
          /\ NextStep(j, "Cancel")
          /\ UNCHANGED <<owner, outcome>>
    /\ UNCHANGED <<listVars, tail, rendered, uploaded, lateWork, idVars, httpVars,
                   serverVars, loggedIn>>

(* CancelServerJob: SetPendingJobHttpCancelId(id, 0), then the DELETE.     *)
ClearCancelId(j) ==
    /\ pc[j] = "clearId"
    /\ curId' = [curId EXCEPT ![j] = 0]
    /\ Goto(j, "post")
    /\ UNCHANGED <<listed, cancelling, step, owner, tail, workVars, idVars,
                   httpVars, serverVars, loggedIn>>

(* The id of the DELETE is not registered, every other id is. *)
Register(j, id) ==
    IF step[j] = "Cancel" THEN UNCHANGED tail
    ELSE tail' = [tail EXCEPT ![owner[j]] = [job |-> j, id |-> id]]

(* AsyncCreateJob, AsyncUploadPage, AsyncCompleteJob, AsyncGetJob or       *)
(* AsyncCancelJob.  Not logged in, the callback runs at once with a        *)
(* failure that is no cancellation, and 0 is returned for the id.          *)
Post(j) ==
    /\ pc[j] = "post"
    /\ \/ /\ loggedIn
          /\ Http!Post(j)
          /\ \E second \in {reqId[j], reqId[j] + 1} \ {0} :
               reqId' = [reqId EXCEPT ![j] = second] /\ Register(j, second)
          /\ Goto(j, "wait")
          /\ Release(j)
          /\ IF step[j] = "Cancel" THEN UNCHANGED lateWork ELSE CountLateWork(j)
          /\ UNCHANGED outcome
       \/ /\ ~loggedIn
          /\ Resolve(j, IF step[j] = "Cancel" THEN "canceled" ELSE "error")
          /\ Register(j, 0)
          /\ UNCHANGED <<lateWork, reqId, httpVars>>
    /\ UNCHANGED <<listVars, step, rendered, uploaded, lateId, serverVars, loggedIn>>

(* The last thing a posting thread does with the job. *)
SetPendingJobHttpCancelId(t) ==
    /\ tail[t] # NoTail
    /\ curId' = IF tail[t].job \in listed
                THEN [curId EXCEPT ![tail[t].job] = tail[t].id] ELSE curId
    /\ tail' = [tail EXCEPT ![t] = NoTail]
    /\ lateId' = [j \in Jobs |->
                    lateId[j] \/ (tail[t].job = j /\ tail[t].id # 0 /\ step[j] = "Cancel" /\ pc[j] # "clearId")]
    /\ UNCHANGED <<listed, cancelling, pc, step, owner, workVars, reqId, httpVars,
                   serverVars, loggedIn>>

-------------------------------------------------------------------------------
(* The print server, as the requests of src/ use it.                       *)

(* What a request of kind s for page p does when the server accepts it.    *)
Effect(j, s, p) ==
    /\ srv' = [srv EXCEPT ![j] =
         CASE s = "Create" -> "open"
           [] s = "Complete" /\ @ = "open" -> "completed"
           [] s = "Cancel" -> "deleted"
           [] OTHER -> @]
    /\ got' = IF s = "Upload" /\ srv[j] = "open"
              THEN [got EXCEPT ![j] = @ \cup {p}] ELSE got

Accepts(j, s) ==
    CASE s = "Upload" -> srv[j] = "open"
      [] s = "Complete" -> srv[j] \in {"open", "completed"}
      [] s = "Get" -> srv[j] # "deleted"
      [] OTHER -> TRUE

Page(j) == uploaded[j] + 1

(* A request is accepted, or refused, or accepted with an answer that      *)
(* reaches the client as an HttpException (status or unreadable body).     *)
ServerHandles(j) ==
    /\ pc[j] = "wait"
    /\ \/ /\ Accepts(j, step[j])
          /\ \E answer \in {"ok", "reject"} : Http!Serve(j, answer)
          /\ Effect(j, step[j], Page(j))
       \/ /\ Http!Serve(j, "reject")
          /\ UNCHANGED <<srv, got>>
    /\ UNCHANGED <<listVars, chainVars, workVars, idVars, stray, loggedIn>>

(* A request the client has given up may still arrive. *)
ServerHandlesStray(j) ==
    /\ \E r \in stray[j] :
         /\ Effect(j, r[1], r[2])
         /\ stray' = [stray EXCEPT ![j] = @ \ {r}]
    /\ UNCHANGED <<listVars, chainVars, workVars, idVars, httpVars, loggedIn>>

(* The client gives up the current try.  Nobody learns the juid of a job   *)
(* created by it: such a job stays on the server, out of the client's      *)
(* reach, and is no longer the job srv is about.                           *)
Abandon(j) ==
    IF step[j] = "Create"
    THEN /\ srv' = [srv EXCEPT ![j] = "absent"]
         /\ UNCHANGED <<got, stray>>
    ELSE /\ stray' = IF step[j] # "Get" /\ served[j] = "no"
                     THEN [stray EXCEPT ![j] = @ \cup {<<step[j], Page(j)>>}] ELSE stray
         /\ UNCHANGED <<srv, got>>

-------------------------------------------------------------------------------
(* Two more mistakes: an error withdraws the job like a cancellation, or   *)
(* reports it first and then withdraws it.                                 *)
GiveUpAndWithdraw(t, j) ==
    /\ pc[j] = "wait" /\ Free(t)
    /\ Http!Respond(j) \/ Http!Fail(j)
    /\ Abandon(j)
    /\ IF step[j] \in {"Create", "Cancel"}
       THEN Resolve(j, "error") /\ UNCHANGED step
       ELSE Goto(j, "clearId") /\ NextStep(j, "Cancel") /\ Take(j, t) /\ UNCHANGED outcome
    /\ UNCHANGED <<listVars, tail, rendered, uploaded, lateWork, idVars, loggedIn>>

GiveUpThenWithdraw(t, j) ==
    /\ pc[j] = "wait" /\ Free(t) /\ step[j] \notin {"Create", "Cancel"}
    /\ Http!Respond(j) \/ Http!Fail(j)
    /\ Abandon(j)
    /\ outcome' = [outcome EXCEPT ![j] = "error"]
    /\ Goto(j, "clearId") /\ NextStep(j, "Cancel") /\ Take(j, t)
    /\ UNCHANGED <<listVars, tail, rendered, uploaded, lateWork, idVars, loggedIn>>

(* ... or every failure is taken for a cancellation. *)
RequestCanceledOrFailed(t, j) ==
    /\ pc[j] = "wait" /\ Free(t)
    /\ Http!Aborted(j) \/ Http!Fail(j)
    /\ Abandon(j)
    /\ Resolve(j, "canceled")
    /\ UNCHANGED <<listVars, step, tail, rendered, uploaded, lateWork, idVars, loggedIn>>

-------------------------------------------------------------------------------
(* The io threads of HttpClientMT.                                         *)

RetryRequest(j) ==
    /\ pc[j] = "wait"
    /\ Http!Retry(j)
    /\ Abandon(j)
    /\ UNCHANGED <<listVars, chainVars, workVars, idVars, loggedIn>>

(* A response with a good status and body: createJobCallback,              *)
(* UploadNextPage, completeJobCallback, getJobCallback, cancelJobCallback. *)
Continue(t, j) ==
    /\ pc[j] = "wait" /\ Free(t)
    /\ served[j] = "ok"
    /\ Http!Respond(j)
    /\ uploaded' = IF step[j] = "Upload" THEN [uploaded EXCEPT ![j] = @ + 1] ELSE uploaded
    /\ IF step[j] \in {"Get", "Cancel"}
       THEN /\ Resolve(j, IF step[j] = "Get" THEN "complete" ELSE "canceled")
            /\ UNCHANGED step
       ELSE /\ Goto(j, "check")
            /\ Take(j, t)
            /\ NextStep(j, CASE step[j] = "Create" -> "Upload"
                             [] step[j] = "Complete" -> "Get"
                             [] OTHER -> IF Page(j) = PageCount[j]
                                         THEN "Complete" ELSE "Upload")
            /\ UNCHANGED outcome
    /\ UNCHANGED <<listVars, tail, rendered, lateWork, idVars, serverVars, loggedIn>>

(* ProcessServerException for an error that is no cancellation.  Whether   *)
(* the DELETE worked makes no difference.                                  *)
GiveUp(t, j) ==
    /\ pc[j] = "wait" /\ Free(t)
    /\ \/ served[j] = "reject" /\ Http!Respond(j)
       \/ Http!Fail(j)
    /\ Abandon(j)
    /\ Resolve(j, IF step[j] = "Cancel" THEN "canceled" ELSE "error")
    /\ UNCHANGED <<listVars, step, tail, rendered, uploaded, lateWork, idVars, loggedIn>>

(* ProcessServerException for a canceled request (needCancelJob is false   *)
(* for Create only), or cancelJobCallback.                                 *)
RequestCanceled(t, j) ==
    /\ pc[j] = "wait" /\ Free(t)
    /\ Http!Aborted(j)
    /\ Abandon(j)
    /\ IF step[j] \in {"Create", "Cancel"}
       THEN /\ Resolve(j, "canceled")
            /\ UNCHANGED step
       ELSE /\ Goto(j, "clearId")
            /\ NextStep(j, "Cancel")
            /\ Take(j, t)
            /\ UNCHANGED outcome
    /\ UNCHANGED <<listVars, tail, rendered, uploaded, lateWork, idVars, loggedIn>>

(* Only a job that has got as far as uploading leaves the list. *)
DestroyUploadedJob(j) ==
    /\ j \in listed /\ pc[j] = "done" /\ uploaded[j] > 0
    /\ \A t \in Threads : tail[t].job # j
    /\ listed' = listed \ {j}
    /\ UNCHANGED <<cancelling, curId, chainVars, workVars, idVars, httpVars,
                   serverVars, loggedIn>>

(* ~PendingJob: run by whichever thread drops the last reference to the    *)
(* job, so not before every thread that posted for it has registered.      *)
DestroyJob(j) ==
    /\ j \in listed /\ pc[j] = "done"
    /\ \A t \in Threads : tail[t].job # j
    /\ listed' = listed \ {j}
    /\ UNCHANGED <<cancelling, curId, chainVars, workVars, idVars, httpVars,
                   serverVars, loggedIn>>

-------------------------------------------------------------------------------
GuiStep ==
    \/ \E j \in Jobs : Submit(j) \/ CancelPendingJob(j)
    \/ CancelAllPendingJobs
    \/ ChangeLogin

RunStep(j) == CheckPage(j) \/ RenderPage(j) \/ CheckCanceling(j) \/ ClearCancelId(j) \/ Post(j)

AnswerStep(j) ==
    \/ RetryRequest(j)
    \/ \E t \in HttpThreads : Continue(t, j) \/ GiveUp(t, j) \/ RequestCanceled(t, j)

Next ==
    \/ GuiStep
    \/ \E j \in Jobs :
         \/ StartRender(j) \/ RunStep(j) \/ AnswerStep(j) \/ DestroyJob(j)
         \/ ServerHandles(j) \/ ServerHandlesStray(j)
    \/ \E t \in Threads : SetPendingJobHttpCancelId(t)

Spec == Init /\ [][Next]_vars

(* Threads that have something to run, run it; every try of a request ends *)
(* in an answer or an error.  Nothing is assumed of the user, of the       *)
(* server, or of the wakeup of the render thread (see RenderQueue).        *)
Fairness ==
    /\ \A j \in Jobs : WF_vars(RunStep(j)) /\ WF_vars(AnswerStep(j)) /\ WF_vars(DestroyJob(j))
    /\ \A t \in Threads : WF_vars(SetPendingJobHttpCancelId(t))

FairSpec == Spec /\ Fairness
-------------------------------------------------------------------------------
(* Properties.                                                             *)

Finished(j) == outcome[j] # "none"

(* A job is reported complete (OnComplete, set_value with the job info)    *)
(* only when the server holds every page of it and was told that the       *)
(* upload is over, and neither a retried nor a late request, nor a cancel  *)
(* in the last moment, takes that back.                                    *)
CompleteIsTrue ==
    \A j \in Jobs : outcome[j] = "complete" =>
        /\ srv[j] = "completed"
        /\ got[j] = 1..PageCount[j]

(* A job is reported canceled only if the user asked for it, whatever was  *)
(* aborted and whichever ids were registered late; the document without    *)
(* pages, which renderCallback mistakes for a canceled one, is the only    *)
(* exception.                                                              *)
CanceledIfAsked ==
    \A j \in Jobs : outcome[j] = "canceled" => cancelling[j] \/ PageCount[j] = 0

(* What the comment "canceled" in renderCallback says: a list without      *)
(* streams comes from a job that was asked to cancel.  It does not hold:   *)
(* the list of a document without pages is as empty.                       *)
EmptyListMeansCanceled ==
    \A j \in Jobs : outcome[j] = "canceled" /\ rendered[j] = 0 => cancelling[j]

(* The job is withdrawn from the server only if the user asked for it: no  *)
(* failure of an upload, of the completion or of the last query deletes a  *)
(* job that others may already print.                                      *)
WithdrawnIfAsked ==
    \A j \in Jobs : srv[j] = "deleted" => cancelling[j]

(* Once a job is asked to cancel, at most one more page is rendered or one *)
(* more request posted for it (its DELETE apart): the one whose            *)
(* IsJobCanceling had already been passed.                                 *)
CancelStopsWork == \A j \in Jobs : lateWork[j] <= 1

(* The client aborts its own DELETE, when the user cancels a second time,  *)
(* only if the thread that posted the request before it was so late that   *)
(* it registered its id after CancelServerJob had cleared it (and both     *)
(* requests were created in the same second).                              *)
DeleteAbortedOnlyIfLate ==
    \A j \in Jobs : step[j] = "Cancel" /\ abort[j] => lateId[j]

(* Every job that the render thread has taken is resolved, and then leaves *)
(* the list of pending jobs, so that the application can close.            *)
StartedJobsFinish ==
    \A j \in Jobs : pc[j] = "checkPage" ~> (Finished(j) /\ j \notin listed)

(* What the user has been told, and what the server is going to do.        *)
Status == [j \in Jobs |-> IF pc[j] = "new" THEN "none"
                          ELSE IF Finished(j) THEN outcome[j] ELSE "pending"]

Order == [j \in Jobs |-> IF srv[j] = "deleted" THEN "withdrawn"
                         ELSE IF srv[j] = "completed" /\ got[j] = 1..PageCount[j]
                              THEN "print" ELSE "nothing"]

Promise == INSTANCE PrintJob WITH
    Blank <- {j \in Jobs : PageCount[j] = 0},
    status <- Status, asked <- cancelling, order <- Order

(* JobProcessor implements PrintJob: whatever the threads, the retries and *)
(* the late requests do, a job is resolved once, the user is told the      *)
(* truth about what the server will print, and nothing is withdrawn that   *)
(* nobody asked to cancel.                                                 *)
KeepsPromise == Promise!Spec

-------------------------------------------------------------------------------
(* The inductive invariant behind the properties above, part by part.      *)

(* Where the chain of a job can be.  No job is listed before it exists.    *)
(* Before its first callback the chain is about Create and nothing was     *)
(* posted; a request is outstanding exactly while the chain waits for it;  *)
(* the promise is set exactly when the chain ends.                         *)
ChainInv(j) ==
    /\ pc[j] = "new" => j \notin listed
    /\ pc[j] \in {"new", "queued", "checkPage", "renderPage"} => step[j] = "Create"
    /\ pc[j] = "check" => step[j] # "Cancel"
    /\ pc[j] = "clearId" => step[j] = "Cancel"
    /\ pc[j] \in {"check", "post", "wait", "clearId"} => PageCount[j] > 0
    /\ (pc[j] = "wait") <=> (phase[j] = "pending")
    /\ phase[j] = "idle" => served[j] = "no" /\ ~abort[j]
    /\ Finished(j) <=> (pc[j] = "done")

(* Whatever serves a cancellation was asked for. *)
AskedInv(j) ==
    /\ step[j] = "Cancel" \/ abort[j] \/ lateWork[j] > 0 \/ srv[j] = "deleted" => cancelling[j]
    /\ outcome[j] = "canceled" => cancelling[j] \/ PageCount[j] = 0

(* After late work the chain is never again past a check. *)
LateInv(j) ==
    /\ lateWork[j] \in {0, 1}
    /\ lateWork[j] = 1 => /\ pc[j] # "renderPage"
                          /\ pc[j] = "post" => step[j] = "Cancel"

(* Once cleared, the registered id stays cleared unless an old one comes   *)
(* late.                                                                   *)
IdInv(j) ==
    step[j] = "Cancel" /\ pc[j] \in {"post", "wait"} /\ ~lateId[j] => curId[j] = 0 /\ ~abort[j]

(* What the server has, given what the chain has been told. *)
ServerInv(j) ==
    LET all  == 1..PageCount[j]
        live == pc[j] \in {"check", "post", "wait"}
    IN  /\ got[j] \subseteq all
        /\ srv[j] = "completed" => got[j] = all
        /\ step[j] = "Create" =>
             /\ uploaded[j] = 0 /\ stray[j] = {}
             /\ srv[j] \in {"absent", "open"}
             /\ served[j] = "ok" => srv[j] = "open"
        /\ step[j] = "Upload" /\ live =>
             /\ srv[j] = "open"
             /\ uploaded[j] < PageCount[j]
             /\ 1..uploaded[j] \subseteq got[j]
             /\ served[j] = "ok" => Page(j) \in got[j]
        /\ step[j] \in {"Complete", "Get"} /\ live =>
             /\ srv[j] \in {"open", "completed"}
             /\ got[j] = all
             /\ step[j] = "Get" \/ served[j] = "ok" => srv[j] = "completed"
        /\ outcome[j] = "complete" => srv[j] = "completed" /\ step[j] = "Get"
        /\ \A r \in stray[j] :
             \/ r[1] = "Upload" /\ r[2] \in all
             \/ r[1] = "Complete" /\ got[j] = all /\ step[j] \in {"Complete", "Get", "Cancel"}
             \/ r[1] = "Cancel" /\ step[j] = "Cancel"

IInv ==
    /\ TypeOK
    /\ \A j \in Jobs : /\ ChainInv(j) /\ AskedInv(j) /\ LateInv(j)
                        /\ IdInv(j) /\ ServerInv(j)
===============================================================================
