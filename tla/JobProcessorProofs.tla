-------------------------- MODULE JobProcessorProofs --------------------------
(* Proofs about JobProcessor, for any number of jobs, pages and threads.   *)
EXTENDS JobProcessor, TLAPS

-------------------------------------------------------------------------------
(* Type correctness.                                                       *)

LEMMA TypeInit == Init => TypeOK
BY TriesAssumption DEF Init, TypeOK, ListTypeOK, ChainTypeOK, WorkTypeOK, ServerTypeOK,
   Http!Init, Http!HttpTypeOK, NoTail, Steps

(* Every step of JobProcessor and of its environment preserves the types.  *)
(* Each action is shown for the groups of variables it changes.            *)
LEMMA TypeNext == TypeOK /\ [Next]_vars => TypeOK'
<1> SUFFICES ASSUME TypeOK, [Next]_vars PROVE TypeOK'
  OBVIOUS
<1> USE TriesAssumption DEF TypeOK, idVars
<1>1. ASSUME NEW j \in Jobs, Submit(j) PROVE TypeOK'
  <2>1. ListTypeOK'
    BY <1>1 DEF Submit, ListTypeOK
  <2>2. ChainTypeOK'
    BY <1>1 DEF Submit, Goto, ChainTypeOK
  <2>3. QED
    BY <1>1, <2>1, <2>2 DEF Submit, WorkTypeOK, ServerTypeOK, Http!HttpTypeOK, workVars, serverVars, httpVars
<1>2. ASSUME NEW j \in Jobs, CancelPendingJob(j) PROVE TypeOK'
  <2>1. ListTypeOK'
    BY <1>2 DEF CancelPendingJob, ListTypeOK
  <2>2. Http!HttpTypeOK'
    BY <1>2 DEF CancelPendingJob, Http!Cancel, Http!HttpTypeOK
  <2>3. QED
    BY <1>2, <2>1, <2>2 DEF CancelPendingJob, ChainTypeOK, WorkTypeOK, ServerTypeOK, chainVars, workVars, serverVars
<1>3. CASE CancelAllPendingJobs
  <2>1. ListTypeOK'
    BY <1>3 DEF CancelAllPendingJobs, ListTypeOK
  <2>2. Http!HttpTypeOK'
    BY <1>3 DEF CancelAllPendingJobs, Http!Cancel, Http!HttpTypeOK
  <2>3. QED
    BY <1>3, <2>1, <2>2 DEF CancelAllPendingJobs, ChainTypeOK, WorkTypeOK, ServerTypeOK, chainVars, workVars, serverVars
<1>4. CASE ChangeLogin
  BY <1>4 DEF ChangeLogin, ListTypeOK, ChainTypeOK, WorkTypeOK, ServerTypeOK, Http!HttpTypeOK,
     listVars, chainVars, workVars, serverVars, httpVars
<1>5. ASSUME NEW j \in Jobs, StartRender(j) PROVE TypeOK'
  <2>1. ChainTypeOK'
    BY <1>5 DEF StartRender, Goto, Take, ChainTypeOK, Threads
  <2>2. QED
    BY <1>5, <2>1 DEF StartRender, ListTypeOK, WorkTypeOK, ServerTypeOK, Http!HttpTypeOK, listVars, workVars, serverVars, httpVars
<1>6. ASSUME NEW j \in Jobs, CheckPage(j) PROVE TypeOK'
  <2>1. ChainTypeOK'
    BY <1>6 DEF CheckPage, Goto, Resolve, Release, ChainTypeOK
  <2>2. WorkTypeOK'
    BY <1>6 DEF CheckPage, Resolve, WorkTypeOK
  <2>3. QED
    BY <1>6, <2>1, <2>2 DEF CheckPage, ListTypeOK, ServerTypeOK, Http!HttpTypeOK, listVars, serverVars, httpVars
<1>7. ASSUME NEW j \in Jobs, RenderPage(j) PROVE TypeOK'
  <2>1. ChainTypeOK'
    BY <1>7 DEF RenderPage, Goto, Resolve, Release, ChainTypeOK
  <2>2. WorkTypeOK'
    BY <1>7 DEF RenderPage, Resolve, CountLateWork, WorkTypeOK
  <2>3. QED
    BY <1>7, <2>1, <2>2 DEF RenderPage, ListTypeOK, ServerTypeOK, Http!HttpTypeOK, listVars, serverVars, httpVars
<1>8. ASSUME NEW j \in Jobs, CheckCanceling(j) PROVE TypeOK'
  <2>1. ChainTypeOK'
    BY <1>8 DEF CheckCanceling, Goto, Resolve, Release, NextStep, Steps, ChainTypeOK
  <2>2. WorkTypeOK'
    BY <1>8 DEF CheckCanceling, Resolve, WorkTypeOK
  <2>3. QED
    BY <1>8, <2>1, <2>2 DEF CheckCanceling, ListTypeOK, ServerTypeOK, Http!HttpTypeOK, listVars, serverVars, httpVars
<1>9. ASSUME NEW j \in Jobs, ClearCancelId(j) PROVE TypeOK'
  <2>1. ListTypeOK'
    BY <1>9 DEF ClearCancelId, ListTypeOK
  <2>2. ChainTypeOK'
    BY <1>9 DEF ClearCancelId, Goto, ChainTypeOK
  <2>3. QED
    BY <1>9, <2>1, <2>2 DEF ClearCancelId, WorkTypeOK, ServerTypeOK, Http!HttpTypeOK, workVars, serverVars, httpVars
<1>10. ASSUME NEW j \in Jobs, Post(j) PROVE TypeOK'
  <2>1. ChainTypeOK'
    BY <1>10 DEF Post, Register, Goto, Resolve, Release, ChainTypeOK
  <2>2. WorkTypeOK'
    BY <1>10 DEF Post, Resolve, CountLateWork, WorkTypeOK
  <2>3. Http!HttpTypeOK'
    <3>1. Http!Post(j) \/ UNCHANGED httpVars
      BY <1>10 DEF Post
    <3>2. CASE Http!Post(j)
      BY <3>2 DEF Http!Post, Http!Reset, Http!HttpTypeOK
    <3>3. CASE UNCHANGED httpVars
      BY <3>3 DEF Http!HttpTypeOK, httpVars
    <3>4. QED
      BY <3>1, <3>2, <3>3
  <2>4. QED
    BY <1>10, <2>1, <2>2, <2>3 DEF Post, ListTypeOK, ServerTypeOK, listVars, serverVars
<1>11. ASSUME NEW t \in Threads, SetPendingJobHttpCancelId(t) PROVE TypeOK'
  <2>1. ListTypeOK'
    BY <1>11 DEF SetPendingJobHttpCancelId, ChainTypeOK, ListTypeOK
  <2>2. ChainTypeOK'
    BY <1>11 DEF SetPendingJobHttpCancelId, ChainTypeOK
  <2>3. QED
    BY <1>11, <2>1, <2>2 DEF SetPendingJobHttpCancelId, WorkTypeOK, ServerTypeOK, Http!HttpTypeOK, workVars, serverVars, httpVars
<1>12. ASSUME NEW j \in Jobs, ServerHandles(j) PROVE TypeOK'
  <2>1. ServerTypeOK'
    BY <1>12 DEF ServerHandles, Effect, Page, WorkTypeOK, ServerTypeOK
  <2>2. Http!HttpTypeOK'
    BY <1>12 DEF ServerHandles, Http!Serve, Http!HttpTypeOK
  <2>3. QED
    BY <1>12, <2>1, <2>2 DEF ServerHandles, ListTypeOK, ChainTypeOK, WorkTypeOK, listVars, chainVars, workVars
<1>13. ASSUME NEW j \in Jobs, ServerHandlesStray(j) PROVE TypeOK'
  <2>1. ServerTypeOK'
    BY <1>13 DEF ServerHandlesStray, Effect, ServerTypeOK
  <2>2. QED
    BY <1>13, <2>1 DEF ServerHandlesStray, ListTypeOK, ChainTypeOK, WorkTypeOK, Http!HttpTypeOK, listVars, chainVars, workVars, httpVars
<1>14. ASSUME NEW j \in Jobs, RetryRequest(j) PROVE TypeOK'
  <2>1. ServerTypeOK'
    BY <1>14 DEF RetryRequest, Abandon, Page, WorkTypeOK, ChainTypeOK, ServerTypeOK
  <2>2. Http!HttpTypeOK'
    BY <1>14 DEF RetryRequest, Http!Retry, Http!HttpTypeOK
  <2>3. QED
    BY <1>14, <2>1, <2>2 DEF RetryRequest, ListTypeOK, ChainTypeOK, WorkTypeOK, listVars, chainVars, workVars
<1>15. ASSUME NEW t \in HttpThreads, NEW j \in Jobs, Continue(t, j) PROVE TypeOK'
  <2>1. ChainTypeOK'
    BY <1>15 DEF Continue, Goto, Resolve, Release, Take, NextStep, Steps, Threads, ChainTypeOK
  <2>2. WorkTypeOK'
    BY <1>15 DEF Continue, Resolve, WorkTypeOK
  <2>3. Http!HttpTypeOK'
    BY <1>15 DEF Continue, Http!Respond, Http!Finish, Http!Reset, Http!HttpTypeOK
  <2>4. QED
    BY <1>15, <2>1, <2>2, <2>3 DEF Continue, ListTypeOK, ServerTypeOK, listVars, serverVars
<1>16. ASSUME NEW t \in HttpThreads, NEW j \in Jobs, GiveUp(t, j) PROVE TypeOK'
  <2>1. ChainTypeOK'
    BY <1>16 DEF GiveUp, Goto, Resolve, Release, ChainTypeOK
  <2>2. WorkTypeOK'
    BY <1>16 DEF GiveUp, Resolve, WorkTypeOK
  <2>3. ServerTypeOK'
    BY <1>16 DEF GiveUp, Abandon, Page, WorkTypeOK, ChainTypeOK, ServerTypeOK
  <2>4. Http!HttpTypeOK'
    <3>1. Http!Finish(j)
      BY <1>16 DEF GiveUp, Http!Respond, Http!Fail
    <3>2. QED
      BY <3>1 DEF Http!Finish, Http!Reset, Http!HttpTypeOK
  <2>5. QED
    BY <1>16, <2>1, <2>2, <2>3, <2>4 DEF GiveUp, ListTypeOK, listVars
<1>17. ASSUME NEW t \in HttpThreads, NEW j \in Jobs, RequestCanceled(t, j) PROVE TypeOK'
  <2>1. ChainTypeOK'
    BY <1>17 DEF RequestCanceled, Goto, Resolve, Release, Take, NextStep, Steps, Threads, ChainTypeOK
  <2>2. WorkTypeOK'
    BY <1>17 DEF RequestCanceled, Resolve, WorkTypeOK
  <2>3. ServerTypeOK'
    BY <1>17 DEF RequestCanceled, Abandon, Page, WorkTypeOK, ChainTypeOK, ServerTypeOK
  <2>4. Http!HttpTypeOK'
    BY <1>17 DEF RequestCanceled, Http!Aborted, Http!Finish, Http!Reset, Http!HttpTypeOK
  <2>5. QED
    BY <1>17, <2>1, <2>2, <2>3, <2>4 DEF RequestCanceled, ListTypeOK, listVars
<1>18. ASSUME NEW j \in Jobs, DestroyJob(j) PROVE TypeOK'
  <2>1. ListTypeOK'
    BY <1>18 DEF DestroyJob, ListTypeOK
  <2>2. QED
    BY <1>18, <2>1 DEF DestroyJob, ChainTypeOK, WorkTypeOK, ServerTypeOK, Http!HttpTypeOK,
       chainVars, workVars, serverVars, httpVars
<1>19. CASE UNCHANGED vars
  BY <1>19 DEF vars, listVars, chainVars, workVars, httpVars, serverVars, ListTypeOK,
     ChainTypeOK, WorkTypeOK, ServerTypeOK, Http!HttpTypeOK
<1>20. QED
  BY <1>1, <1>2, <1>3, <1>4, <1>5, <1>6, <1>7, <1>8, <1>9, <1>10, <1>11, <1>12, <1>13, <1>14,
     <1>15, <1>16, <1>17, <1>18, <1>19 DEF Next, GuiStep, RunStep, AnswerStep

(* The variables of JobProcessor keep their types. *)
THEOREM TypeCorrect == Spec => []TypeOK
<1>1. QED
  BY TypeInit, TypeNext, PTL DEF Spec
-------------------------------------------------------------------------------
(* The places of the chain. *)
LEMMA ChainNext ==
    TypeOK /\ TypeOK' /\ [Next]_vars
    /\ (\A k \in Jobs : ChainInv(k)) => \A k \in Jobs : ChainInv(k)'
<1> SUFFICES ASSUME TypeOK, TypeOK', [Next]_vars, NEW k \in Jobs,
                    \A i \in Jobs : ChainInv(i)
             PROVE  ChainInv(k)'
  OBVIOUS
<1> USE PagesAssumption DEF TypeOK, ListTypeOK, ChainTypeOK, WorkTypeOK, Http!HttpTypeOK, ChainInv, Finished, listVars, chainVars, workVars, idVars, httpVars, serverVars
<1>1. ASSUME NEW j \in Jobs, Submit(j) PROVE ChainInv(k)'
  BY <1>1 DEF Submit, Goto
<1>2. ASSUME NEW j \in Jobs, CancelPendingJob(j) PROVE ChainInv(k)'
  BY <1>2 DEF CancelPendingJob, Http!Cancel
<1>3. CASE CancelAllPendingJobs
  BY <1>3 DEF CancelAllPendingJobs, Http!Cancel
<1>4. CASE ChangeLogin
  BY <1>4 DEF ChangeLogin
<1>5. ASSUME NEW j \in Jobs, StartRender(j) PROVE ChainInv(k)'
  BY <1>5 DEF StartRender, Goto, Take
<1>6. ASSUME NEW j \in Jobs, CheckPage(j) PROVE ChainInv(k)'
  BY <1>6 DEF CheckPage, Goto, Resolve, Release
<1>7. ASSUME NEW j \in Jobs, RenderPage(j) PROVE ChainInv(k)'
  BY <1>7 DEF RenderPage, Goto, Resolve, Release, CountLateWork
<1>8. ASSUME NEW j \in Jobs, CheckCanceling(j) PROVE ChainInv(k)'
  BY <1>8 DEF CheckCanceling, Goto, Resolve, Release, NextStep
<1>9. ASSUME NEW j \in Jobs, ClearCancelId(j) PROVE ChainInv(k)'
  BY <1>9 DEF ClearCancelId, Goto
<1>10. ASSUME NEW j \in Jobs, Post(j) PROVE ChainInv(k)'
  BY <1>10 DEF Post, Register, CountLateWork, Goto, Resolve, Release, Http!Post, Http!Reset
<1>11. ASSUME NEW t \in Threads, SetPendingJobHttpCancelId(t) PROVE ChainInv(k)'
  BY <1>11 DEF SetPendingJobHttpCancelId, NoTail
<1>12. ASSUME NEW j \in Jobs, ServerHandles(j) PROVE ChainInv(k)'
  BY <1>12 DEF ServerHandles, Accepts, Effect, Page, Http!Serve
<1>13. ASSUME NEW j \in Jobs, ServerHandlesStray(j) PROVE ChainInv(k)'
  BY <1>13 DEF ServerHandlesStray, Effect
<1>14. ASSUME NEW j \in Jobs, RetryRequest(j) PROVE ChainInv(k)'
  BY <1>14 DEF RetryRequest, Abandon, Page, Http!Retry
<1>15. ASSUME NEW t \in HttpThreads, NEW j \in Jobs, Continue(t, j) PROVE ChainInv(k)'
  BY <1>15 DEF Continue, Goto, Resolve, Release, Take, NextStep, Page, Http!Respond, Http!Finish, Http!Reset
<1>16. ASSUME NEW t \in HttpThreads, NEW j \in Jobs, GiveUp(t, j) PROVE ChainInv(k)'
  BY <1>16 DEF GiveUp, Abandon, Page, Goto, Resolve, Release, Http!Respond, Http!Fail, Http!Finish, Http!Reset
<1>17. ASSUME NEW t \in HttpThreads, NEW j \in Jobs, RequestCanceled(t, j) PROVE ChainInv(k)'
  BY <1>17 DEF RequestCanceled, Abandon, Page, Goto, Resolve, Release, Take, NextStep, Http!Aborted, Http!Finish, Http!Reset
<1>18. ASSUME NEW j \in Jobs, DestroyJob(j) PROVE ChainInv(k)'
  BY <1>18 DEF DestroyJob
<1>19. CASE UNCHANGED vars
  BY <1>19 DEF vars
<1>20. QED
  BY <1>1, <1>2, <1>3, <1>4, <1>5, <1>6, <1>7, <1>8, <1>9, <1>10, <1>11, <1>12, <1>13, <1>14, <1>15, <1>16, <1>17, <1>18, <1>19 DEF Next, GuiStep, RunStep, AnswerStep

(* Only cancelling leads to anything a cancellation does. *)
LEMMA AskedNext ==
    TypeOK /\ TypeOK' /\ [Next]_vars
    /\ (\A k \in Jobs : ChainInv(k) /\ AskedInv(k) /\ ServerInv(k)) => \A k \in Jobs : AskedInv(k)'
<1> SUFFICES ASSUME TypeOK, TypeOK', [Next]_vars, NEW k \in Jobs,
                    \A i \in Jobs : ChainInv(i) /\ AskedInv(i) /\ ServerInv(i)
             PROVE  AskedInv(k)'
  OBVIOUS
<1>0. \A r \in stray[k] : r[1] = "Cancel" => step[k] = "Cancel"
  BY DEF ServerInv
<1> USE DEF TypeOK, ListTypeOK, ChainTypeOK, WorkTypeOK, ServerTypeOK, Http!HttpTypeOK, ChainInv, AskedInv, Finished, listVars, chainVars, workVars, idVars, httpVars, serverVars
<1>1. ASSUME NEW j \in Jobs, Submit(j) PROVE AskedInv(k)'
  BY <1>1 DEF Submit, Goto
<1>2. ASSUME NEW j \in Jobs, CancelPendingJob(j) PROVE AskedInv(k)'
  BY <1>2 DEF CancelPendingJob, Http!Cancel
<1>3. CASE CancelAllPendingJobs
  BY <1>3 DEF CancelAllPendingJobs, Http!Cancel
<1>4. CASE ChangeLogin
  BY <1>4 DEF ChangeLogin
<1>5. ASSUME NEW j \in Jobs, StartRender(j) PROVE AskedInv(k)'
  BY <1>5 DEF StartRender, Goto, Take
<1>6. ASSUME NEW j \in Jobs, CheckPage(j) PROVE AskedInv(k)'
  <2>1. CASE k # j
    BY <1>6, <2>1 DEF CheckPage, Goto, Resolve, Release
  <2>2. CASE k = j
    BY <1>6, <2>2 DEF CheckPage, Goto, Resolve, Release
  <2>3. QED
    BY <2>1, <2>2
<1>7. ASSUME NEW j \in Jobs, RenderPage(j) PROVE AskedInv(k)'
  BY <1>7 DEF RenderPage, Goto, Resolve, Release, CountLateWork
<1>8. ASSUME NEW j \in Jobs, CheckCanceling(j) PROVE AskedInv(k)'
  BY <1>8 DEF CheckCanceling, Goto, Resolve, Release, NextStep
<1>9. ASSUME NEW j \in Jobs, ClearCancelId(j) PROVE AskedInv(k)'
  BY <1>9 DEF ClearCancelId, Goto
<1>10. ASSUME NEW j \in Jobs, Post(j) PROVE AskedInv(k)'
  <2>1. abort'[k] => abort[k]
    BY <1>10 DEF Post, Http!Post, Http!Reset
  <2>2. cancelling' = cancelling /\ step' = step /\ srv' = srv
    BY <1>10 DEF Post
  <2>3. lateWork'[k] > 0 => lateWork[k] > 0 \/ cancelling[k]
    <3>1. lateWork' = lateWork \/ CountLateWork(j)
      BY <1>10 DEF Post
    <3>2. ASSUME CountLateWork(j), ~cancelling[k] PROVE lateWork'[k] = lateWork[k]
      BY <3>2 DEF CountLateWork
    <3>3. QED
      BY <3>1, <3>2
  <2>4. outcome'[k] = "canceled" => outcome[k] = "canceled" \/ step[k] = "Cancel"
    BY <1>10 DEF Post, Resolve
  <2>5. QED
    BY <2>1, <2>2, <2>3, <2>4
<1>11. ASSUME NEW t \in Threads, SetPendingJobHttpCancelId(t) PROVE AskedInv(k)'
  BY <1>11 DEF SetPendingJobHttpCancelId, NoTail
<1>12. ASSUME NEW j \in Jobs, ServerHandles(j) PROVE AskedInv(k)'
  BY <1>12 DEF ServerHandles, Accepts, Effect, Page, Http!Serve
<1>13. ASSUME NEW j \in Jobs, ServerHandlesStray(j) PROVE AskedInv(k)'
  BY <1>0, <1>13 DEF ServerHandlesStray, Effect
<1>14. ASSUME NEW j \in Jobs, RetryRequest(j) PROVE AskedInv(k)'
  BY <1>14 DEF RetryRequest, Abandon, Page, Http!Retry
<1>15. ASSUME NEW t \in HttpThreads, NEW j \in Jobs, Continue(t, j) PROVE AskedInv(k)'
  <2>1. CASE k # j
    BY <1>15, <2>1 DEF Continue, Goto, Resolve, Release, Take, NextStep, Page, Http!Respond, Http!Finish, Http!Reset
  <2>2. CASE k = j
    BY <1>15, <2>2 DEF Continue, Goto, Resolve, Release, Take, NextStep, Page, Http!Respond, Http!Finish, Http!Reset
  <2>3. QED
    BY <2>1, <2>2
<1>16. ASSUME NEW t \in HttpThreads, NEW j \in Jobs, GiveUp(t, j) PROVE AskedInv(k)'
  BY <1>16 DEF GiveUp, Abandon, Page, Goto, Resolve, Release, Http!Respond, Http!Fail, Http!Finish, Http!Reset
<1>17. ASSUME NEW t \in HttpThreads, NEW j \in Jobs, RequestCanceled(t, j) PROVE AskedInv(k)'
  BY <1>17 DEF RequestCanceled, Abandon, Page, Goto, Resolve, Release, Take, NextStep, Http!Aborted, Http!Finish, Http!Reset
<1>18. ASSUME NEW j \in Jobs, DestroyJob(j) PROVE AskedInv(k)'
  BY <1>18 DEF DestroyJob
<1>19. CASE UNCHANGED vars
  BY <1>19 DEF vars
<1>20. QED
  BY <1>1, <1>2, <1>3, <1>4, <1>5, <1>6, <1>7, <1>8, <1>9, <1>10, <1>11, <1>12, <1>13, <1>14, <1>15, <1>16, <1>17, <1>18, <1>19 DEF Next, GuiStep, RunStep, AnswerStep

(* Late work is done once. *)
LEMMA LateNext ==
    TypeOK /\ TypeOK' /\ [Next]_vars
    /\ (\A k \in Jobs : ChainInv(k) /\ AskedInv(k) /\ LateInv(k)) => \A k \in Jobs : LateInv(k)'
<1> SUFFICES ASSUME TypeOK, TypeOK', [Next]_vars, NEW k \in Jobs,
                    \A i \in Jobs : ChainInv(i) /\ AskedInv(i) /\ LateInv(i)
             PROVE  LateInv(k)'
  OBVIOUS
<1> USE DEF TypeOK, ChainTypeOK, WorkTypeOK, ListTypeOK, ChainInv, AskedInv, LateInv, listVars, chainVars, workVars, idVars, httpVars, serverVars
<1>1. ASSUME NEW j \in Jobs, Submit(j) PROVE LateInv(k)'
  BY <1>1 DEF Submit, Goto
<1>2. ASSUME NEW j \in Jobs, CancelPendingJob(j) PROVE LateInv(k)'
  BY <1>2 DEF CancelPendingJob, Http!Cancel
<1>3. CASE CancelAllPendingJobs
  BY <1>3 DEF CancelAllPendingJobs, Http!Cancel
<1>4. CASE ChangeLogin
  BY <1>4 DEF ChangeLogin
<1>5. ASSUME NEW j \in Jobs, StartRender(j) PROVE LateInv(k)'
  BY <1>5 DEF StartRender, Goto, Take
<1>6. ASSUME NEW j \in Jobs, CheckPage(j) PROVE LateInv(k)'
  BY <1>6 DEF CheckPage, Goto, Resolve, Release
<1>7. ASSUME NEW j \in Jobs, RenderPage(j) PROVE LateInv(k)'
  BY <1>7 DEF RenderPage, Goto, Resolve, Release, CountLateWork
<1>8. ASSUME NEW j \in Jobs, CheckCanceling(j) PROVE LateInv(k)'
  BY <1>8 DEF CheckCanceling, Goto, Resolve, Release, NextStep
<1>9. ASSUME NEW j \in Jobs, ClearCancelId(j) PROVE LateInv(k)'
  BY <1>9 DEF ClearCancelId, Goto
<1>10. ASSUME NEW j \in Jobs, Post(j) PROVE LateInv(k)'
  BY <1>10 DEF Post, Register, CountLateWork, Goto, Resolve, Release, Http!Post, Http!Reset
<1>11. ASSUME NEW t \in Threads, SetPendingJobHttpCancelId(t) PROVE LateInv(k)'
  BY <1>11 DEF SetPendingJobHttpCancelId, NoTail
<1>12. ASSUME NEW j \in Jobs, ServerHandles(j) PROVE LateInv(k)'
  BY <1>12 DEF ServerHandles, Accepts, Effect, Page, Http!Serve
<1>13. ASSUME NEW j \in Jobs, ServerHandlesStray(j) PROVE LateInv(k)'
  BY <1>13 DEF ServerHandlesStray, Effect
<1>14. ASSUME NEW j \in Jobs, RetryRequest(j) PROVE LateInv(k)'
  BY <1>14 DEF RetryRequest, Abandon, Page, Http!Retry
<1>15. ASSUME NEW t \in HttpThreads, NEW j \in Jobs, Continue(t, j) PROVE LateInv(k)'
  BY <1>15 DEF Continue, Goto, Resolve, Release, Take, NextStep, Page, Http!Respond, Http!Finish, Http!Reset
<1>16. ASSUME NEW t \in HttpThreads, NEW j \in Jobs, GiveUp(t, j) PROVE LateInv(k)'
  BY <1>16 DEF GiveUp, Abandon, Page, Goto, Resolve, Release, Http!Respond, Http!Fail, Http!Finish, Http!Reset
<1>17. ASSUME NEW t \in HttpThreads, NEW j \in Jobs, RequestCanceled(t, j) PROVE LateInv(k)'
  BY <1>17 DEF RequestCanceled, Abandon, Page, Goto, Resolve, Release, Take, NextStep, Http!Aborted, Http!Finish, Http!Reset
<1>18. ASSUME NEW j \in Jobs, DestroyJob(j) PROVE LateInv(k)'
  BY <1>18 DEF DestroyJob
<1>19. CASE UNCHANGED vars
  BY <1>19 DEF vars
<1>20. QED
  BY <1>1, <1>2, <1>3, <1>4, <1>5, <1>6, <1>7, <1>8, <1>9, <1>10, <1>11, <1>12, <1>13, <1>14, <1>15, <1>16, <1>17, <1>18, <1>19 DEF Next, GuiStep, RunStep, AnswerStep

(* Registered ids. *)
LEMMA IdNext ==
    TypeOK /\ TypeOK' /\ [Next]_vars
    /\ (\A k \in Jobs : ChainInv(k) /\ IdInv(k)) => \A k \in Jobs : IdInv(k)'
<1> SUFFICES ASSUME TypeOK, TypeOK', [Next]_vars, NEW k \in Jobs,
                    \A i \in Jobs : ChainInv(i) /\ IdInv(i)
             PROVE  IdInv(k)'
  OBVIOUS
<1> USE DEF TypeOK, ListTypeOK, ChainTypeOK, Http!HttpTypeOK, ChainInv, IdInv, listVars, chainVars, workVars, idVars, httpVars, serverVars
<1>1. ASSUME NEW j \in Jobs, Submit(j) PROVE IdInv(k)'
  BY <1>1 DEF Submit, Goto
<1>2. ASSUME NEW j \in Jobs, CancelPendingJob(j) PROVE IdInv(k)'
  BY <1>2 DEF CancelPendingJob, Http!Cancel
<1>3. CASE CancelAllPendingJobs
  BY <1>3 DEF CancelAllPendingJobs, Http!Cancel
<1>4. CASE ChangeLogin
  BY <1>4 DEF ChangeLogin
<1>5. ASSUME NEW j \in Jobs, StartRender(j) PROVE IdInv(k)'
  BY <1>5 DEF StartRender, Goto, Take
<1>6. ASSUME NEW j \in Jobs, CheckPage(j) PROVE IdInv(k)'
  BY <1>6 DEF CheckPage, Goto, Resolve, Release
<1>7. ASSUME NEW j \in Jobs, RenderPage(j) PROVE IdInv(k)'
  BY <1>7 DEF RenderPage, Goto, Resolve, Release, CountLateWork
<1>8. ASSUME NEW j \in Jobs, CheckCanceling(j) PROVE IdInv(k)'
  BY <1>8 DEF CheckCanceling, Goto, Resolve, Release, NextStep
<1>9. ASSUME NEW j \in Jobs, ClearCancelId(j) PROVE IdInv(k)'
  BY <1>9 DEF ClearCancelId, Goto
<1>10. ASSUME NEW j \in Jobs, Post(j) PROVE IdInv(k)'
  <2>1. curId' = curId /\ step' = step /\ lateId' = lateId
    BY <1>10 DEF Post
  <2>2. abort'[k] => abort[k]
    BY <1>10 DEF Post, Http!Post, Http!Reset
  <2>3. pc'[k] \in {"post", "wait"} => pc[k] \in {"post", "wait"}
    BY <1>10 DEF Post, Goto, Resolve
  <2>4. QED
    BY <2>1, <2>2, <2>3
<1>11. ASSUME NEW t \in Threads, SetPendingJobHttpCancelId(t) PROVE IdInv(k)'
  <2>1. step' = step /\ pc' = pc /\ abort' = abort
    BY <1>11 DEF SetPendingJobHttpCancelId
  <2>2. ~lateId'[k] => ~lateId[k] /\ ~(tail[t].job = k /\ tail[t].id # 0 /\ step[k] = "Cancel" /\ pc[k] # "clearId")
    BY <1>11 DEF SetPendingJobHttpCancelId
  <2>3. curId'[k] = curId[k] \/ (tail[t].job = k /\ curId'[k] = tail[t].id)
    BY <1>11 DEF SetPendingJobHttpCancelId
  <2>4. QED
    BY <2>1, <2>2, <2>3
<1>12. ASSUME NEW j \in Jobs, ServerHandles(j) PROVE IdInv(k)'
  BY <1>12 DEF ServerHandles, Accepts, Effect, Page, Http!Serve
<1>13. ASSUME NEW j \in Jobs, ServerHandlesStray(j) PROVE IdInv(k)'
  BY <1>13 DEF ServerHandlesStray, Effect
<1>14. ASSUME NEW j \in Jobs, RetryRequest(j) PROVE IdInv(k)'
  BY <1>14 DEF RetryRequest, Abandon, Page, Http!Retry
<1>15. ASSUME NEW t \in HttpThreads, NEW j \in Jobs, Continue(t, j) PROVE IdInv(k)'
  BY <1>15 DEF Continue, Goto, Resolve, Release, Take, NextStep, Page, Http!Respond, Http!Finish, Http!Reset
<1>16. ASSUME NEW t \in HttpThreads, NEW j \in Jobs, GiveUp(t, j) PROVE IdInv(k)'
  BY <1>16 DEF GiveUp, Abandon, Page, Goto, Resolve, Release, Http!Respond, Http!Fail, Http!Finish, Http!Reset
<1>17. ASSUME NEW t \in HttpThreads, NEW j \in Jobs, RequestCanceled(t, j) PROVE IdInv(k)'
  BY <1>17 DEF RequestCanceled, Abandon, Page, Goto, Resolve, Release, Take, NextStep, Http!Aborted, Http!Finish, Http!Reset
<1>18. ASSUME NEW j \in Jobs, DestroyJob(j) PROVE IdInv(k)'
  BY <1>18 DEF DestroyJob
<1>19. CASE UNCHANGED vars
  BY <1>19 DEF vars
<1>20. QED
  BY <1>1, <1>2, <1>3, <1>4, <1>5, <1>6, <1>7, <1>8, <1>9, <1>10, <1>11, <1>12, <1>13, <1>14, <1>15, <1>16, <1>17, <1>18, <1>19 DEF Next, GuiStep, RunStep, AnswerStep
(* What the server holds follows the chain: one step per action that can   *)
(* disturb it; everything else leaves the job's view of the server alone.  *)
LEMMA ServerNext ==
    TypeOK /\ TypeOK' /\ [Next]_vars
    /\ (\A k \in Jobs : ChainInv(k) /\ ServerInv(k)) => \A k \in Jobs : ServerInv(k)'
<1> SUFFICES ASSUME TypeOK, TypeOK', [Next]_vars, NEW k \in Jobs,
                    \A i \in Jobs : ChainInv(i) /\ ServerInv(i)
             PROVE  ServerInv(k)'
  OBVIOUS
<1> DEFINE SameServer == srv'[k] = srv[k] /\ got'[k] = got[k] /\ stray'[k] = stray[k]
           SameChain  == /\ pc'[k] = pc[k] /\ step'[k] = step[k] /\ uploaded'[k] = uploaded[k]
                         /\ outcome'[k] = outcome[k]
           Same       == SameServer /\ SameChain /\ served'[k] = served[k]
<1> USE PagesAssumption
<1>0. ChainInv(k) /\ ServerInv(k)
  OBVIOUS
<1>a. /\ PageCount[k] \in Nat /\ uploaded[k] \in Nat /\ got[k] \subseteq Nat
      /\ stray[k] \subseteq Steps \X Nat
  BY DEF TypeOK, WorkTypeOK, ServerTypeOK
<1>b. ASSUME Same PROVE ServerInv(k)'
  BY <1>0, <1>b DEF ServerInv, Page
<1>c. ASSUME SameServer, served'[k] = served[k], uploaded'[k] = uploaded[k],
             step'[k] = step[k], step[k] = "Create", outcome'[k] # "complete"
      PROVE  ServerInv(k)'
  BY <1>0, <1>c DEF ServerInv
<1> HIDE DEF Same
<1>1. ASSUME NEW j \in Jobs,
             Submit(j) \/ CancelPendingJob(j) \/ StartRender(j) \/ ClearCancelId(j) \/ DestroyJob(j)
      PROVE  ServerInv(k)'
  <2> USE DEF listVars, workVars, httpVars, serverVars, chainVars, Goto, SameServer, SameChain
  <2>1. CASE k # j
    <3>1. Same
      BY <1>1, <2>1 DEF Submit, CancelPendingJob, Http!Cancel, StartRender, ClearCancelId, DestroyJob, Same,
         TypeOK, ChainTypeOK
    <3>2. QED
      BY <3>1, <1>b
  <2>2. CASE k = j /\ (CancelPendingJob(j) \/ DestroyJob(j))
    <3>1. Same
      BY <2>2 DEF CancelPendingJob, Http!Cancel, DestroyJob, Same
    <3>2. QED
      BY <3>1, <1>b
  <2>3. CASE k = j /\ (Submit(j) \/ StartRender(j))
    BY <2>3, <1>0, <1>c DEF Submit, StartRender, ChainInv, Finished
  <2>4. CASE k = j /\ ClearCancelId(j)
    BY <2>4, <1>0 DEF ClearCancelId, ChainInv, ServerInv, TypeOK, ChainTypeOK
  <2>5. QED
    BY <1>1, <2>1, <2>2, <2>3, <2>4
<1>2. CASE CancelAllPendingJobs \/ ChangeLogin \/ UNCHANGED vars \/ \E t \in Threads : SetPendingJobHttpCancelId(t)
  BY <1>2, <1>b DEF CancelAllPendingJobs, ChangeLogin, SetPendingJobHttpCancelId, Http!Cancel, vars,
     listVars, chainVars, workVars, httpVars, serverVars, Same
<1>3. ASSUME NEW j \in Jobs, CheckPage(j) \/ RenderPage(j) PROVE ServerInv(k)'
  <2> USE DEF listVars, httpVars, serverVars, Goto, Resolve
  <2>1. CASE k # j
    <3>1. Same
      BY <1>3, <2>1 DEF CheckPage, RenderPage, TypeOK, ChainTypeOK, WorkTypeOK, Same
    <3>2. QED
      BY <3>1, <1>b
  <2>2. CASE k = j
    <3>1. step[k] = "Create" /\ outcome[k] = "none"
      BY <1>3, <2>2, <1>0 DEF CheckPage, RenderPage, ChainInv, Finished
    <3>2. outcome'[k] # "complete"
      BY <1>3, <2>2, <3>1 DEF CheckPage, RenderPage, TypeOK, WorkTypeOK
    <3>3. SameServer /\ served'[k] = served[k] /\ uploaded'[k] = uploaded[k] /\ step'[k] = step[k]
      BY <1>3 DEF CheckPage, RenderPage
    <3>4. QED
      BY <3>1, <3>2, <3>3, <1>c
  <2>3. QED
    BY <2>1, <2>2
<1>4. ASSUME NEW j \in Jobs, CheckCanceling(j) PROVE ServerInv(k)'
  <2> USE DEF listVars, httpVars, serverVars, Goto, Resolve, Release, NextStep
  <2>1. SameServer /\ served'[k] = served[k] /\ uploaded'[k] = uploaded[k]
    BY <1>4 DEF CheckCanceling
  <2>2. CASE k # j
    <3>1. SameChain
      BY <1>4, <2>1, <2>2 DEF CheckCanceling, TypeOK, ChainTypeOK, WorkTypeOK
    <3>2. Same
      BY <2>1, <3>1 DEF Same
    <3>3. QED
      BY <3>2, <1>b
  <2>3. CASE k = j
    <3>1. pc[k] = "check" /\ outcome[k] = "none"
      BY <1>4, <2>3, <1>0 DEF CheckCanceling, ChainInv, Finished
    <3>2. \/ pc'[k] = "post" /\ step'[k] = step[k] /\ outcome'[k] = "none"
          \/ step[k] = "Create" /\ step'[k] = "Create" /\ outcome'[k] = "canceled"
          \/ pc'[k] = "clearId" /\ step'[k] = "Cancel" /\ step[k] # "Create" /\ outcome'[k] = "none"
      BY <1>4, <2>3, <3>1 DEF CheckCanceling, TypeOK, ChainTypeOK, WorkTypeOK
    <3>3. CASE pc'[k] = "post" /\ step'[k] = step[k] /\ outcome'[k] = "none"
      BY <3>1, <3>3, <2>1, <1>0 DEF ServerInv, Page
    <3>4. CASE step[k] = "Create" /\ step'[k] = "Create" /\ outcome'[k] = "canceled"
      BY <3>4, <2>1, <1>c
    <3>5. CASE pc'[k] = "clearId" /\ step'[k] = "Cancel" /\ step[k] # "Create" /\ outcome'[k] = "none"
      BY <3>5, <2>1, <1>0 DEF ServerInv
    <3>6. QED
      BY <3>2, <3>3, <3>4, <3>5
  <2>4. QED
    BY <2>2, <2>3
<1>5. ASSUME NEW j \in Jobs, Post(j) PROVE ServerInv(k)'
  <2>1. SameServer /\ step'[k] = step[k] /\ uploaded'[k] = uploaded[k]
    BY <1>5 DEF Post, serverVars
  <2>2. served'[k] = served[k]
    <3>1. CASE UNCHANGED httpVars
      BY <3>1 DEF httpVars
    <3>2. CASE Http!Post(j)
      BY <3>2, <1>0 DEF Http!Post, Http!Reset, ChainInv, TypeOK, Http!HttpTypeOK
    <3>3. QED
      BY <3>1, <3>2, <1>5 DEF Post
  <2>3. CASE k # j
    <3>1. Same
      BY <1>5, <2>1, <2>2, <2>3 DEF Post, Goto, Resolve, TypeOK, ChainTypeOK, WorkTypeOK, Same
    <3>2. QED
      BY <3>1, <1>b
  <2>4. CASE k = j
    <3>1. pc[k] = "post" /\ outcome[k] = "none"
      BY <1>5, <2>4, <1>0 DEF Post, ChainInv, Finished
    <3>2. outcome'[k] # "complete" /\ pc'[k] \in {"wait", "done"}
      BY <1>5, <2>4, <3>1 DEF Post, Goto, Resolve, TypeOK, ChainTypeOK, WorkTypeOK
    <3>3. QED
      BY <2>1, <2>2, <3>1, <3>2, <1>0 DEF ServerInv, Page
  <2>5. QED
    BY <2>3, <2>4
<1>6. ASSUME NEW j \in Jobs, ServerHandles(j) PROVE ServerInv(k)'
  <2>1. SameChain
    BY <1>6 DEF ServerHandles, chainVars, workVars
  <2>2. stray'[k] = stray[k]
    BY <1>6 DEF ServerHandles
  <2>3. CASE k # j
    <3>1. Same
      BY <1>6, <2>1, <2>2, <2>3 DEF ServerHandles, Effect, Http!Serve, TypeOK, ServerTypeOK, Http!HttpTypeOK, Same
    <3>2. QED
      BY <3>1, <1>b
  <2>4. CASE k = j
    <3>1. pc[k] = "wait" /\ served'[k] \in {"ok", "reject"}
      BY <1>6, <2>4 DEF ServerHandles, Http!Serve, TypeOK, Http!HttpTypeOK
    <3>2. CASE srv'[k] = srv[k] /\ got'[k] = got[k] /\ served'[k] = "reject"
      BY <1>0, <2>1, <2>2, <3>2 DEF ServerInv, Page
    <3>3. CASE Accepts(j, step[j]) /\ Effect(j, step[j], Page(j))
      <4>1. CASE step[k] = "Create"
        BY <4>1, <1>0, <2>1, <2>2, <2>4, <3>3 DEF ServerInv, Effect, TypeOK, ServerTypeOK
      <4>2. CASE step[k] = "Upload"
        <5>1. srv'[k] = srv[k] /\ got'[k] = got[k] \cup {Page(k)}
          BY <4>2, <2>4, <3>3 DEF Effect, Accepts, TypeOK, ServerTypeOK
        <5>2. QED
          BY <4>2, <5>1, <1>0, <1>a, <2>1, <2>2, <3>1 DEF ServerInv, Page
      <4>3. CASE step[k] = "Complete"
        <5>1. srv'[k] = "completed" /\ got'[k] = got[k]
          BY <4>3, <2>4, <3>3 DEF Effect, Accepts, TypeOK, ServerTypeOK
        <5>2. QED
          BY <4>3, <5>1, <1>0, <2>1, <2>2, <3>1 DEF ServerInv, Page
      <4>4. CASE step[k] = "Get"
        <5>1. srv'[k] = srv[k] /\ got'[k] = got[k]
          BY <4>4, <2>4, <3>3 DEF Effect, TypeOK, ServerTypeOK
        <5>2. QED
          BY <4>4, <5>1, <1>0, <2>1, <2>2, <3>1 DEF ServerInv, Page
      <4>5. CASE step[k] = "Cancel"
        <5>1. srv'[k] = "deleted" /\ got'[k] = got[k]
          BY <4>5, <2>4, <3>3 DEF Effect, TypeOK, ServerTypeOK
        <5>2. outcome[k] = "none"
          BY <1>0, <3>1 DEF ChainInv, Finished
        <5>3. QED
          BY <4>5, <5>1, <5>2, <1>0, <2>1, <2>2, <3>1 DEF ServerInv, Page
      <4>6. QED
        BY <4>1, <4>2, <4>3, <4>4, <4>5 DEF TypeOK, ChainTypeOK, Steps
    <3>4. QED
      BY <1>6, <2>4, <3>2, <3>3 DEF ServerHandles, Http!Serve, TypeOK, Http!HttpTypeOK
  <2>5. QED
    BY <2>3, <2>4
<1>7. ASSUME NEW j \in Jobs, ServerHandlesStray(j) PROVE ServerInv(k)'
  <2>1. SameChain /\ served'[k] = served[k]
    BY <1>7 DEF ServerHandlesStray, chainVars, workVars, httpVars
  <2>2. CASE k # j
    <3>1. Same
      BY <1>7, <2>1, <2>2 DEF ServerHandlesStray, Effect, TypeOK, ServerTypeOK, Same
    <3>2. QED
      BY <3>1, <1>b
  <2>3. CASE k = j
    <3>1. PICK r \in stray[k] : Effect(k, r[1], r[2]) /\ stray' = [stray EXCEPT ![k] = @ \ {r}]
      BY <1>7, <2>3 DEF ServerHandlesStray
    <3>2. stray'[k] = stray[k] \ {r} /\ step[k] # "Create"
      BY <3>1, <1>0 DEF TypeOK, ServerTypeOK, ServerInv
    <3>3. CASE r[1] = "Upload" /\ r[2] \in 1..PageCount[k]
      <4>1. srv'[k] = srv[k] /\ got'[k] \in {got[k], got[k] \cup {r[2]}}
        BY <3>1, <3>3 DEF Effect, TypeOK, ServerTypeOK
      <4>0. got[k] \subseteq 1..PageCount[k]
        BY <1>0 DEF ServerInv
      <4>2. /\ got[k] \subseteq got'[k] /\ got'[k] \subseteq 1..PageCount[k]
            /\ got[k] = 1..PageCount[k] => got'[k] = got[k]
        BY <4>0, <4>1, <3>3
      <4>3. \A i \in stray'[k] : i \in stray[k]
        BY <3>2
      <4>4. QED
        BY <4>1, <4>2, <4>3, <3>2, <2>1, <1>0 DEF ServerInv, Page
    <3>4. CASE r[1] = "Complete" /\ got[k] = 1..PageCount[k] /\ step[k] \in {"Complete", "Get", "Cancel"}
      <4>1. srv'[k] = (IF srv[k] = "open" THEN "completed" ELSE srv[k]) /\ got'[k] = got[k]
        BY <3>1, <3>4 DEF Effect, TypeOK, ServerTypeOK
      <4>2. QED
        BY <4>1, <3>2, <3>4, <2>1, <1>0 DEF ServerInv, Page
    <3>5. CASE r[1] = "Cancel" /\ step[k] = "Cancel"
      <4>1. srv'[k] = "deleted" /\ got'[k] = got[k]
        BY <3>1, <3>5 DEF Effect, TypeOK, ServerTypeOK
      <4>2. QED
        BY <4>1, <3>2, <3>5, <2>1, <1>0 DEF ServerInv, Page
    <3>6. QED
      BY <3>3, <3>4, <3>5, <1>0 DEF ServerInv
  <2>4. QED
    BY <2>2, <2>3
(* Giving up a try leaves at most a stray request behind. *)
<1>8. ASSUME NEW j \in Jobs, pc[j] = "wait", Abandon(j), k # j
      PROVE  SameServer
  BY <1>8 DEF Abandon, TypeOK, ServerTypeOK
<1>9. ASSUME pc[k] = "wait", Abandon(k), served'[k] = "no", uploaded'[k] = uploaded[k],
             outcome'[k] # "complete",
             \/ step'[k] = step[k] /\ pc'[k] \in {"wait", "done"}
             \/ step'[k] = "Cancel" /\ step[k] # "Create" /\ pc'[k] = "clearId"
      PROVE  ServerInv(k)'
  <2>1. CASE step[k] = "Create"
    <3>1. srv'[k] = "absent" /\ got'[k] = got[k] /\ stray'[k] = stray[k]
      BY <1>9, <2>1 DEF Abandon, TypeOK, ServerTypeOK
    <3>2. QED
      BY <1>9, <2>1, <3>1, <1>0 DEF ServerInv, Page
  <2>2. CASE step[k] # "Create"
    <3>1. srv'[k] = srv[k] /\ got'[k] = got[k]
      BY <1>9, <2>2 DEF Abandon
    <3>2. \/ stray'[k] = stray[k]
          \/ step[k] # "Get" /\ stray'[k] = stray[k] \cup {<<step[k], Page(k)>>}
      BY <1>9, <2>2 DEF Abandon, TypeOK, ServerTypeOK
    <3>3. step[k] \in {"Upload", "Complete", "Get", "Cancel"}
      BY <2>2 DEF TypeOK, ChainTypeOK, Steps
    <3>4. step[k] = "Upload" => Page(k) \in 1..PageCount[k]
      BY <1>9, <1>0, <1>a DEF ServerInv, Page
    <3>5. \A r \in stray'[k] :
             \/ r[1] = "Upload" /\ r[2] \in 1..PageCount[k]
             \/ r[1] = "Complete" /\ got[k] = 1..PageCount[k] /\ step[k] \in {"Complete", "Get", "Cancel"}
             \/ r[1] = "Cancel" /\ step[k] = "Cancel"
      BY <3>2, <3>3, <3>4, <1>9, <1>0 DEF ServerInv
    <3>6. QED
      BY <1>9, <2>2, <3>1, <3>3, <3>5, <1>0 DEF ServerInv, Page
  <2>3. QED
    BY <2>1, <2>2
<1>10. ASSUME NEW j \in Jobs, RetryRequest(j) PROVE ServerInv(k)'
  <2>1. SameChain /\ pc[j] = "wait" /\ Abandon(j)
    BY <1>10 DEF RetryRequest, chainVars, workVars
  <2>2. CASE k # j
    <3>1. served'[k] = served[k]
      BY <1>10, <2>2 DEF RetryRequest, Http!Retry, TypeOK, Http!HttpTypeOK
    <3>2. QED
      BY <3>1, <2>1, <2>2, <1>8, <1>b DEF Same
  <2>3. CASE k = j
    <3>1. served'[k] = "no"
      BY <1>10, <2>3 DEF RetryRequest, Http!Retry, TypeOK, Http!HttpTypeOK
    <3>2. outcome[k] = "none"
      BY <2>1, <2>3, <1>0 DEF ChainInv, Finished
    <3>3. QED
      BY <3>1, <3>2, <2>1, <2>3, <1>9
  <2>4. QED
    BY <2>2, <2>3
<1>11. ASSUME NEW t \in HttpThreads, NEW j \in Jobs, GiveUp(t, j) \/ RequestCanceled(t, j)
       PROVE  ServerInv(k)'
  <2>1. /\ Abandon(j) /\ Http!Finish(j) /\ pc[j] = "wait" /\ uploaded' = uploaded
    BY <1>11 DEF GiveUp, RequestCanceled, Http!Respond, Http!Fail, Http!Aborted
  <2>2. CASE k # j
    <3>1. SameChain
      BY <1>11, <2>2 DEF GiveUp, RequestCanceled, Goto, Resolve, NextStep, TypeOK, ChainTypeOK, WorkTypeOK
    <3>2. served'[k] = served[k]
      BY <2>1, <2>2 DEF Http!Finish, Http!Reset, TypeOK, Http!HttpTypeOK
    <3>3. QED
      BY <3>1, <3>2, <2>1, <2>2, <1>8, <1>b DEF Same
  <2>3. CASE k = j
    <3>1. served'[k] = "no"
      BY <2>1, <2>3 DEF Http!Finish, Http!Reset, TypeOK, Http!HttpTypeOK
    <3>2. outcome[k] = "none"
      BY <2>1, <2>3, <1>0 DEF ChainInv, Finished
    <3>3. /\ outcome'[k] # "complete"
          /\ \/ step'[k] = step[k] /\ pc'[k] \in {"wait", "done"}
             \/ step'[k] = "Cancel" /\ step[k] # "Create" /\ pc'[k] = "clearId"
      BY <1>11, <2>3, <3>2 DEF GiveUp, RequestCanceled, Goto, Resolve, NextStep, TypeOK, ChainTypeOK, WorkTypeOK
    <3>4. QED
      BY <3>1, <3>3, <2>1, <2>3, <1>9
  <2>4. QED
    BY <2>2, <2>3
<1>12. ASSUME NEW t \in HttpThreads, NEW j \in Jobs, Continue(t, j) PROVE ServerInv(k)'
  <2>1. SameServer /\ Http!Finish(j) /\ pc[j] = "wait" /\ served[j] = "ok"
    BY <1>12 DEF Continue, Http!Respond, serverVars
  <2>2. CASE k # j
    <3>1. SameChain
      BY <1>12, <2>2 DEF Continue, Goto, Resolve, NextStep, TypeOK, ChainTypeOK, WorkTypeOK
    <3>2. served'[k] = served[k]
      BY <2>1, <2>2 DEF Http!Finish, Http!Reset, TypeOK, Http!HttpTypeOK
    <3>3. QED
      BY <3>1, <3>2, <2>1, <1>b DEF Same
  <2>3. CASE k = j
    <3>1. served'[k] = "no"
      BY <2>1, <2>3 DEF Http!Finish, Http!Reset, TypeOK, Http!HttpTypeOK
    <3>2. outcome[k] = "none" /\ PageCount[k] > 0
      BY <2>1, <2>3, <1>0 DEF ChainInv, Finished
    <3>3. CASE step[k] = "Create"
      <4>1. step'[k] = "Upload" /\ uploaded'[k] = uploaded[k] /\ pc'[k] = "check" /\ outcome'[k] = "none"
        BY <1>12, <2>3, <3>2, <3>3 DEF Continue, Goto, NextStep, TypeOK, ChainTypeOK
      <4>2. QED
        BY <4>1, <3>1, <3>2, <3>3, <2>1, <2>3, <1>0, <1>a DEF ServerInv, Page
    <3>4. CASE step[k] = "Upload"
      <4>1. /\ uploaded'[k] = uploaded[k] + 1 /\ pc'[k] = "check" /\ outcome'[k] = "none"
            /\ step'[k] = IF uploaded[k] + 1 = PageCount[k] THEN "Complete" ELSE "Upload"
        BY <1>12, <2>3, <3>2, <3>4 DEF Continue, Goto, NextStep, Page, TypeOK, ChainTypeOK, WorkTypeOK
      <4>2. 1..(uploaded[k] + 1) \subseteq got[k] /\ uploaded[k] < PageCount[k] /\ srv[k] = "open"
        BY <3>4, <2>1, <2>3, <1>0, <1>a DEF ServerInv, Page
      <4>3. \A r \in stray[k] : r[1] = "Upload" /\ r[2] \in 1..PageCount[k]
        BY <3>4, <1>0 DEF ServerInv
      <4>4. CASE uploaded[k] + 1 = PageCount[k]
        <5>1. got'[k] = 1..PageCount[k]
          BY <4>2, <4>4, <2>1, <1>0 DEF ServerInv
        <5>2. QED
          BY <5>1, <4>1, <4>2, <4>3, <4>4, <3>1, <2>1 DEF ServerInv
      <4>5. CASE uploaded[k] + 1 # PageCount[k]
        <5>1. uploaded'[k] < PageCount[k] /\ 1..uploaded'[k] \subseteq got'[k]
          BY <4>1, <4>2, <4>5, <2>1, <1>a
        <5>2. QED
          BY <5>1, <4>1, <4>2, <4>3, <4>5, <3>1, <2>1, <1>0 DEF ServerInv
      <4>6. QED
        BY <4>4, <4>5
    <3>5. CASE step[k] = "Complete"
      <4>1. step'[k] = "Get" /\ pc'[k] = "check" /\ outcome'[k] = "none"
        BY <1>12, <2>3, <3>2, <3>5 DEF Continue, Goto, NextStep, TypeOK, ChainTypeOK
      <4>2. QED
        BY <4>1, <3>1, <3>5, <2>1, <2>3, <1>0 DEF ServerInv, Page
    <3>6. CASE step[k] \in {"Get", "Cancel"}
      <4>1. /\ step'[k] = step[k] /\ pc'[k] = "done"
            /\ outcome'[k] = IF step[k] = "Get" THEN "complete" ELSE "canceled"
        BY <1>12, <2>3, <3>6 DEF Continue, Goto, Resolve, TypeOK, ChainTypeOK, WorkTypeOK
      <4>2. QED
        BY <4>1, <3>1, <3>6, <2>1, <2>3, <1>0 DEF ServerInv, Page
    <3>7. QED
      BY <3>3, <3>4, <3>5, <3>6 DEF TypeOK, ChainTypeOK, Steps
  <2>4. QED
    BY <2>2, <2>3
<1>13. QED
  BY <1>1, <1>2, <1>3, <1>4, <1>5, <1>6, <1>7, <1>10, <1>11, <1>12 DEF Next, GuiStep, RunStep, AnswerStep

-------------------------------------------------------------------------------
(* The inductive invariant, and the properties it implies.                 *)

LEMMA InvInit == Init => IInv
<1> SUFFICES ASSUME Init, NEW j \in Jobs
             PROVE  ChainInv(j) /\ AskedInv(j) /\ LateInv(j) /\ IdInv(j) /\ ServerInv(j)
  BY TypeInit DEF IInv
<1> USE PagesAssumption DEF Init, Http!Init
<1>1. ChainInv(j)
  BY DEF ChainInv, Finished
<1>2. AskedInv(j) /\ LateInv(j)
  BY DEF AskedInv, LateInv
<1>3. IdInv(j)
  BY DEF IdInv, NoTail
<1>4. ServerInv(j)
  BY DEF ServerInv
<1>5. QED
  BY <1>1, <1>2, <1>3, <1>4

LEMMA InvNext == IInv /\ [Next]_vars => IInv'
<1> SUFFICES ASSUME IInv, [Next]_vars PROVE IInv'
  OBVIOUS
<1>1. TypeOK /\ TypeOK'
  BY TypeNext DEF IInv
<1>2. QED
  BY <1>1, ChainNext, AskedNext, LateNext, IdNext, ServerNext DEF IInv

(* Every reachable state of JobProcessor satisfies the invariant.          *)
THEOREM Invariant == Spec => []IInv
<1>1. QED
  BY InvInit, InvNext, PTL DEF Spec

(* "Complete" is only reported for a job the server holds in full and was  *)
(* told to print, for any number of jobs, pages, threads and tries.        *)
THEOREM CompleteCorrect == Spec => []CompleteIsTrue
<1>1. IInv => CompleteIsTrue
  BY DEF IInv, ServerInv, CompleteIsTrue
<1>2. QED
  BY <1>1, Invariant, PTL

(* "Canceled" is only reported for a job somebody asked to cancel, or for  *)
(* a document without pages.                                               *)
THEOREM CanceledCorrect == Spec => []CanceledIfAsked
<1>1. IInv => CanceledIfAsked
  BY DEF IInv, AskedInv, CanceledIfAsked
<1>2. QED
  BY <1>1, Invariant, PTL

(* No job is deleted from the server that nobody asked to cancel.          *)
THEOREM WithdrawnCorrect == Spec => []WithdrawnIfAsked
<1>1. IInv => WithdrawnIfAsked
  BY DEF IInv, AskedInv, WithdrawnIfAsked
<1>2. QED
  BY <1>1, Invariant, PTL

(* One page or one request at most is still made for a canceled job.       *)
THEOREM CancelCorrect == Spec => []CancelStopsWork
<1>1. IInv => CancelStopsWork
  <2> SUFFICES ASSUME IInv, NEW j \in Jobs PROVE lateWork[j] <= 1
    BY DEF CancelStopsWork
  <2>1. lateWork[j] \in {0, 1}
    BY DEF IInv, LateInv
  <2>2. QED
    BY <2>1
<1>2. QED
  BY <1>1, Invariant, PTL

(* The client aborts its own DELETE only after a late registration.        *)
THEOREM DeleteCorrect == Spec => []DeleteAbortedOnlyIfLate
<1>1. IInv => DeleteAbortedOnlyIfLate
  <2> SUFFICES ASSUME IInv, NEW j \in Jobs, step[j] = "Cancel", abort[j] PROVE lateId[j]
    BY DEF DeleteAbortedOnlyIfLate
  <2>1. pc[j] = "wait"
    BY DEF IInv, ChainInv, TypeOK, Http!HttpTypeOK
  <2>2. QED
    BY <2>1 DEF IInv, IdInv
<1>2. QED
  BY <1>1, Invariant, PTL

-------------------------------------------------------------------------------
(* JobProcessor implements PrintJob.                                       *)

(* What the server will do is told by the state of the job alone. *)
LEMMA OrderOfState ==
    ASSUME IInv, NEW j \in Jobs
    PROVE  Order[j] = CASE srv[j] = "deleted" -> "withdrawn"
                        [] srv[j] = "completed" -> "print"
                        [] OTHER -> "nothing"
BY DEF IInv, ServerInv, Order, TypeOK, ServerTypeOK

(* A step that sets a promise is a Resolve of the abstract job.            *)
LEMMA ResolveStep ==
    ASSUME IInv, NEW j \in Jobs, NEW result, Resolve(j, result),
           result \in {"complete", "canceled", "error"}, pc[j] \notin {"new", "done"},
           cancelling' = cancelling, Order' = Order,
           result = "complete" => srv[j] = "completed",
           result = "canceled" => cancelling[j] \/ PageCount[j] = 0
    PROVE  Promise!Resolve(j, result)
<1>1. Status[j] = "pending"
  BY DEF Status, IInv, ChainInv
<1>2. Status' = [Status EXCEPT ![j] = result]
  BY DEF Status, Resolve, Goto, Finished, IInv, TypeOK, ChainTypeOK, WorkTypeOK
<1>3. result = "complete" => Order[j] = "print"
  BY OrderOfState
<1>4. QED
  BY <1>1, <1>2, <1>3 DEF Promise!Resolve
(* The server changes its mind about one job at a time, as PrintJob allows. *)
LEMMA ServerStep ==
    ASSUME IInv, IInv', NEW j \in Jobs, NEW s \in Steps, NEW p, Effect(j, s, p),
           \/ s = step[j] /\ pc[j] = "wait"
           \/ step[j] # "Create" /\ s # "Create",
           cancelling' = cancelling, Status' = Status
    PROVE  [Promise!Next]_(Promise!jobVars)
<1>1. srv' = [srv EXCEPT ![j] = srv'[j]]
  BY DEF Effect, IInv, TypeOK, ServerTypeOK
<1>2. Order' = [Order EXCEPT ![j] = Order'[j]]
  <2>1. \A k \in Jobs : k # j => Order'[k] = Order[k]
    BY <1>1 DEF Order, Effect, IInv, TypeOK, ServerTypeOK
  <2>2. QED
    BY <2>1 DEF Order
<1>3. \/ srv'[j] = srv[j]
      \/ srv'[j] = "open" /\ srv[j] \in {"absent", "open"}
      \/ srv'[j] = "completed" /\ srv[j] = "open"
      \/ srv'[j] = "deleted"
  <2>1. step[j] = "Create" => srv[j] \in {"absent", "open"}
    BY DEF IInv, ServerInv
  <2>2. srv'[j] = CASE s = "Create" -> "open"
                    [] s = "Complete" /\ srv[j] = "open" -> "completed"
                    [] s = "Cancel" -> "deleted"
                    [] OTHER -> srv[j]
    BY DEF Effect, IInv, TypeOK, ServerTypeOK
  <2>3. CASE s = "Create"
    BY <2>1, <2>2, <2>3
  <2>4. CASE s # "Create"
    BY <2>2, <2>4
  <2>5. QED
    BY <2>3, <2>4
<1>4. CASE Order'[j] = Order[j]
  BY <1>2, <1>4 DEF Promise!jobVars, Order
<1>5. CASE srv'[j] = "deleted"
  <2>1. cancelling[j] /\ Order'[j] = "withdrawn"
    BY <1>5, OrderOfState DEF IInv, AskedInv, Order
  <2>2. Promise!Withdraw(j)
    BY <2>1, <1>2 DEF Promise!Withdraw
  <2>3. QED
    BY <2>2 DEF Promise!Next
<1>6. CASE Order'[j] # Order[j] /\ srv'[j] # "deleted"
  <2>1. srv'[j] = "completed" /\ srv[j] = "open"
    BY <1>3, <1>6, OrderOfState DEF IInv, ServerInv, Order
  <2>2. Order'[j] = "print" /\ Order[j] = "nothing"
    BY <2>1, <1>6 DEF IInv, ServerInv, Order
  <2>3. Status[j] # "none"
    BY <2>1 DEF Status, IInv, ChainInv, TypeOK, ChainTypeOK, WorkTypeOK, Finished
  <2>4. Promise!OrderPrint(j)
    BY <2>2, <2>3, <1>2 DEF Promise!OrderPrint
  <2>5. QED
    BY <2>4 DEF Promise!Next
<1>7. QED
  BY <1>4, <1>5, <1>6
(* Giving up a try changes nothing the server will do. *)
LEMMA AbandonStep ==
    ASSUME IInv, NEW j \in Jobs, Abandon(j) PROVE Order' = Order
<1>1. step[j] = "Create" => srv[j] \in {"absent", "open"}
  BY DEF IInv, ServerInv
<1>2. /\ got' = got
      /\ \/ srv' = srv
         \/ step[j] = "Create" /\ srv' = [srv EXCEPT ![j] = "absent"]
  BY DEF Abandon
<1>3. QED
  BY <1>1, <1>2 DEF Order, IInv, TypeOK, ServerTypeOK

(* Every step is a step of PrintJob or changes nothing it speaks of.       *)
LEMMA StepRefines ==
    ASSUME IInv, IInv', [Next]_vars
    PROVE  [Promise!Next]_(Promise!jobVars)
<1> USE DEF listVars, chainVars, workVars, idVars, httpVars, serverVars
<1> DEFINE Stutter == Status' = Status /\ Order' = Order /\ cancelling' = cancelling
<1>a. ASSUME Stutter PROVE [Promise!Next]_(Promise!jobVars)
  BY <1>a DEF Promise!jobVars
<1>b. ASSUME NEW j \in Jobs, Goto(j, pc'[j]), pc[j] # "new", pc'[j] # "new", outcome' = outcome
      PROVE  Status' = Status
  BY <1>b DEF Status, Goto, Finished, IInv, TypeOK, ChainTypeOK
<1>c. ASSUME pc' = pc, outcome' = outcome PROVE Status' = Status
  BY <1>c DEF Status, Finished
<1>d. ASSUME srv' = srv, got' = got PROVE Order' = Order
  BY <1>d DEF Order
<1> HIDE DEF Stutter
<1>1. ASSUME NEW j \in Jobs, Submit(j) PROVE [Promise!Next]_(Promise!jobVars)
  <2>1. Status[j] = "none" /\ Status' = [Status EXCEPT ![j] = "pending"]
    <3>1. outcome[j] = "none" /\ outcome' = outcome /\ pc' = [pc EXCEPT ![j] = "queued"] /\ pc[j] = "new"
      BY <1>1 DEF Submit, Goto, IInv, ChainInv, Finished
    <3>2. DOMAIN pc = Jobs
      BY DEF IInv, TypeOK, ChainTypeOK
    <3>3. Status[j] = "none"
      BY <3>1 DEF Status
    <3>4. \A i \in Jobs : Status'[i] = IF i = j THEN "pending" ELSE Status[i]
      BY <3>1, <3>2 DEF Status, Finished
    <3>5. Status' = [Status EXCEPT ![j] = "pending"]
      BY <3>4 DEF Status
    <3>6. QED
      BY <3>3, <3>5
  <2>2. Order' = Order /\ cancelling' = cancelling
    BY <1>1, <1>d DEF Submit
  <2>3. QED
    BY <2>1, <2>2 DEF Promise!Submit, Promise!Next
<1>2. ASSUME NEW S \in SUBSET listed, cancelling' = [j \in Jobs |-> cancelling[j] \/ j \in S],
             UNCHANGED <<pc, outcome, srv, got>>
      PROVE  [Promise!Next]_(Promise!jobVars)
  <2>1. \A j \in S : Status[j] # "none"
    BY DEF Status, IInv, ChainInv, TypeOK, ListTypeOK, WorkTypeOK, Finished
  <2>2. S \in SUBSET Jobs
    BY DEF IInv, TypeOK, ListTypeOK
  <2>3. Promise!AskCancel(S)
    BY <1>2, <1>c, <1>d, <2>1 DEF Promise!AskCancel
  <2>4. QED
    BY <2>2, <2>3 DEF Promise!Next
<1>3. ASSUME NEW j \in Jobs, CancelPendingJob(j) PROVE [Promise!Next]_(Promise!jobVars)
  <2>1. cancelling' = [k \in Jobs |-> cancelling[k] \/ k \in {j}]
    BY <1>3 DEF CancelPendingJob, IInv, TypeOK, ListTypeOK
  <2>2. {j} \in SUBSET listed /\ UNCHANGED <<pc, outcome, srv, got>>
    BY <1>3 DEF CancelPendingJob
  <2>3. QED
    BY <2>1, <2>2, <1>2
<1>4. CASE CancelAllPendingJobs
  <2>1. listed \in SUBSET listed /\ UNCHANGED <<pc, outcome, srv, got>>
    BY <1>4 DEF CancelAllPendingJobs
  <2>2. QED
    BY <2>1, <1>2, <1>4 DEF CancelAllPendingJobs
<1>5. ASSUME NEW j \in Jobs, NEW result \in {"complete", "canceled", "error"},
             Resolve(j, result), pc[j] \notin {"new", "done"},
             cancelling' = cancelling, Order' = Order,
             result = "complete" => srv[j] = "completed",
             result = "canceled" => cancelling[j] \/ PageCount[j] = 0
      PROVE  [Promise!Next]_(Promise!jobVars)
  BY <1>5, ResolveStep DEF Promise!Next
<1>6. ASSUME NEW j \in Jobs,
             StartRender(j) \/ CheckPage(j) \/ RenderPage(j) \/ CheckCanceling(j) \/ ClearCancelId(j)
      PROVE  [Promise!Next]_(Promise!jobVars)
  <2>1. Order' = Order /\ cancelling' = cancelling /\ pc[j] \notin {"new", "done"}
    BY <1>6, <1>d DEF StartRender, CheckPage, RenderPage, CheckCanceling, ClearCancelId
  <2>2. \/ Goto(j, pc'[j]) /\ pc'[j] # "new" /\ outcome' = outcome
        \/ Resolve(j, "error")
        \/ Resolve(j, "canceled") /\ (cancelling[j] \/ PageCount[j] = 0)
    BY <1>6 DEF StartRender, CheckPage, RenderPage, CheckCanceling, ClearCancelId, Goto,
       IInv, TypeOK, ChainTypeOK
  <2>3. QED
    BY <2>1, <2>2, <1>a, <1>b, <1>5 DEF Stutter
<1>7. ASSUME NEW j \in Jobs, Post(j) PROVE [Promise!Next]_(Promise!jobVars)
  <2>1. Order' = Order /\ cancelling' = cancelling /\ pc[j] = "post"
    BY <1>7, <1>d DEF Post
  <2>2. \/ Goto(j, pc'[j]) /\ pc'[j] # "new" /\ outcome' = outcome
        \/ Resolve(j, "error")
        \/ Resolve(j, "canceled") /\ step[j] = "Cancel"
    BY <1>7 DEF Post, Goto, IInv, TypeOK, ChainTypeOK
  <2>3. step[j] = "Cancel" => cancelling[j]
    BY DEF IInv, AskedInv
  <2>4. QED
    BY <2>1, <2>2, <2>3, <1>a, <1>b, <1>5 DEF Stutter
<1>8. ASSUME NEW j \in Jobs, RetryRequest(j) \/ DestroyJob(j) PROVE [Promise!Next]_(Promise!jobVars)
  <2>1. Order' = Order
    BY <1>8, <1>d, AbandonStep DEF RetryRequest, DestroyJob
  <2>2. QED
    BY <1>8, <2>1, <1>a, <1>c DEF RetryRequest, DestroyJob, Stutter
<1>9. ASSUME NEW t \in HttpThreads, NEW j \in Jobs, Continue(t, j)
      PROVE  [Promise!Next]_(Promise!jobVars)
  <2>1. Order' = Order /\ cancelling' = cancelling /\ pc[j] = "wait" /\ served[j] = "ok"
    BY <1>9, <1>d DEF Continue
  <2>2. \/ Goto(j, "check") /\ outcome' = outcome
        \/ Resolve(j, "complete") /\ step[j] = "Get"
        \/ Resolve(j, "canceled") /\ step[j] = "Cancel"
    BY <1>9 DEF Continue
  <2>3. /\ step[j] = "Cancel" => cancelling[j]
        /\ step[j] = "Get" => srv[j] = "completed"
    BY <2>1 DEF IInv, AskedInv, ServerInv
  <2>4. CASE Goto(j, "check") /\ outcome' = outcome
    <3>1. Goto(j, pc'[j]) /\ pc'[j] # "new"
      BY <2>4 DEF Goto, IInv, TypeOK, ChainTypeOK
    <3>2. QED
      BY <3>1, <2>1, <2>4, <1>a, <1>b DEF Stutter
  <2>5. QED
    BY <2>1, <2>2, <2>3, <2>4, <1>5
<1>10. ASSUME NEW t \in HttpThreads, NEW j \in Jobs, GiveUp(t, j) \/ RequestCanceled(t, j)
       PROVE  [Promise!Next]_(Promise!jobVars)
  <2>1. Order' = Order /\ cancelling' = cancelling /\ pc[j] = "wait"
    BY <1>10, AbandonStep DEF GiveUp, RequestCanceled
  <2>2. \/ Goto(j, "clearId") /\ outcome' = outcome
        \/ Resolve(j, "error")
        \/ Resolve(j, "canceled") /\ (step[j] = "Cancel" \/ abort[j])
    BY <1>10 DEF GiveUp, RequestCanceled, Http!Aborted
  <2>3. step[j] = "Cancel" \/ abort[j] => cancelling[j]
    BY DEF IInv, AskedInv
  <2>4. CASE Goto(j, "clearId") /\ outcome' = outcome
    <3>1. Goto(j, pc'[j]) /\ pc'[j] # "new"
      BY <2>4 DEF Goto, IInv, TypeOK, ChainTypeOK
    <3>2. QED
      BY <3>1, <2>1, <2>4, <1>a, <1>b DEF Stutter
  <2>5. QED
    BY <2>1, <2>2, <2>3, <2>4, <1>5
<1>11. ASSUME NEW j \in Jobs, ServerHandles(j) PROVE [Promise!Next]_(Promise!jobVars)
  <2>1. Status' = Status /\ cancelling' = cancelling /\ pc[j] = "wait"
    BY <1>11, <1>c DEF ServerHandles
  <2>2. CASE Effect(j, step[j], Page(j))
    BY <2>1, <2>2, ServerStep DEF IInv, TypeOK, ChainTypeOK
  <2>3. CASE UNCHANGED <<srv, got>>
    BY <2>1, <2>3, <1>a, <1>d DEF Stutter
  <2>4. QED
    BY <1>11, <2>2, <2>3 DEF ServerHandles
<1>12. ASSUME NEW j \in Jobs, ServerHandlesStray(j) PROVE [Promise!Next]_(Promise!jobVars)
  <2>1. PICK r \in stray[j] : Effect(j, r[1], r[2])
    BY <1>12 DEF ServerHandlesStray
  <2>2. r[1] \in Steps /\ r[1] # "Create" /\ step[j] # "Create"
    BY <2>1 DEF IInv, ServerInv, Steps
  <2>3. Status' = Status /\ cancelling' = cancelling
    BY <1>12, <1>c DEF ServerHandlesStray
  <2>4. QED
    BY <2>1, <2>2, <2>3, ServerStep
<1>13. CASE ChangeLogin \/ UNCHANGED vars \/ \E t \in Threads : SetPendingJobHttpCancelId(t)
  BY <1>13, <1>a, <1>c, <1>d DEF ChangeLogin, vars, SetPendingJobHttpCancelId, Stutter
<1>14. QED
  BY <1>1, <1>3, <1>4, <1>6, <1>7, <1>8, <1>9, <1>10, <1>11, <1>12, <1>13
     DEF Next, GuiStep, RunStep, AnswerStep

(* JobProcessor, with its threads, retries and late requests, implements   *)
(* the abstract job: the initial states are initial states of PrintJob and *)
(* every step is a step of it or changes nothing it speaks of.             *)
THEOREM Refinement == Spec => KeepsPromise
<1>1. Init => Promise!Init
  BY DEF Init, Promise!Init, Status, Order
<1>2. IInv /\ IInv' /\ [Next]_vars => [Promise!Next]_(Promise!jobVars)
  BY StepRefines
<1>3. QED
  BY <1>1, <1>2, Invariant, PTL DEF Spec, KeepsPromise, Promise!Spec
===============================================================================
