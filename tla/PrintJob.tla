------------------------------- MODULE PrintJob -------------------------------
(***************************************************************************)
(* What JobProcessor promises for a print job, without threads, requests   *)
(* or retries.  A submitted job is resolved at most once.  It is           *)
(* "complete" only if the server holds every page and has been told to     *)
(* print it, it is "canceled" only if somebody asked for it (or there was  *)
(* nothing to print), and the server is told to withdraw a job only if     *)
(* somebody asked for it.                                                  *)
(***************************************************************************)
CONSTANTS
    Jobs,
    Blank      \* the jobs whose document has no page

VARIABLES
    status,    \* what the user has been told about the job
    asked,     \* did somebody ask to cancel it?
    order      \* what the server has been told to do with the job

jobVars == <<status, asked, order>>

Init ==
    /\ status = [j \in Jobs |-> "none"]
    /\ asked = [j \in Jobs |-> FALSE]
    /\ order = [j \in Jobs |-> "nothing"]

Submit(j) ==
    /\ status[j] = "none"
    /\ status' = [status EXCEPT ![j] = "pending"]
    /\ UNCHANGED <<asked, order>>

(* One job from its card on the jobs page, or all of them on closing.      *)
AskCancel(S) ==
    /\ \A j \in S : status[j] # "none"
    /\ asked' = [j \in Jobs |-> asked[j] \/ j \in S]
    /\ UNCHANGED <<status, order>>

(* Every page is on the server, which is told to print. *)
OrderPrint(j) ==
    /\ status[j] # "none" /\ order[j] = "nothing"
    /\ order' = [order EXCEPT ![j] = "print"]
    /\ UNCHANGED <<status, asked>>

Withdraw(j) ==
    /\ asked[j]
    /\ order' = [order EXCEPT ![j] = "withdrawn"]
    /\ UNCHANGED <<status, asked>>

Resolve(j, result) ==
    /\ status[j] = "pending"
    /\ result = "complete" => order[j] = "print"
    /\ result = "canceled" => asked[j] \/ j \in Blank
    /\ status' = [status EXCEPT ![j] = result]
    /\ UNCHANGED <<asked, order>>

Next ==
    \/ \E j \in Jobs :
         \/ Submit(j) \/ OrderPrint(j) \/ Withdraw(j)
         \/ \E result \in {"complete", "canceled", "error"} : Resolve(j, result)
    \/ \E S \in SUBSET Jobs : AskCancel(S)

Spec == Init /\ [][Next]_jobVars
===============================================================================
