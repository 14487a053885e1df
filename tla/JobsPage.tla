------------------------------- MODULE JobsPage --------------------------------
(***************************************************************************)
(* The page of the jobs.  It shows a card for each pending job, then one   *)
(* for each job of the server.  The cards are the items of a sizer; the    *)
(* page keeps beside them only the number of pending cards and the list    *)
(* m_jobs, and finds a card by counting.  Three sources change the page in *)
(* an order of their own: progress events of the jobs, results of jobs,    *)
(* and answers to requests for the list, which may be stale when applied.  *)
(***************************************************************************)
EXTENDS Integers, Sequences, SequencesExt, FiniteSets, FiniteSetsExt

CONSTANTS
    Pending,    \* the numbers of the jobs printed in a run, in order: 1..n
    Old,        \* numbers of jobs that were on the server before: below 1
    MaxRequests,    \* bound: so many requests for the list are outstanding
    MaxChanges  \* bound: jobs on the server change or go so often

ASSUME JobsAssumption ==
    /\ IsFiniteSet(Pending) /\ Pending \subseteq Nat \ {0}
    /\ IsFiniteSet(Old) /\ \A j \in Old : j \in Int /\ j <= 0
ASSUME BoundsAssumption == MaxRequests \in Nat /\ MaxChanges \in Nat

VARIABLES
    server,     \* the jobs on the server: their version, Absent, or Gone
    changes,    \* how often they have changed or gone
    state,      \* a pending job: "no", "working", "complete", "failed"
    event,      \* its last progress event is in the queue of the window
    result,     \* its result until it is read: the version of the job, else Absent
    requests,   \* the requests for the list, answered and read in any order
    cards,      \* the items of the sizer
    pendingCount,   \* m_pendingCount
    jobs,       \* m_jobs
    alive,      \* FALSE after a null window was used
    (* history *)
    shifted,    \* a list with a job changed or gone was applied beside pending cards
    raced,      \* a list named a job whose pending card was still there
    applied     \* the jobs of the last list that was applied, and those completed since

page == <<cards, pendingCount, jobs>>
history == <<shifted, raced, applied>>
vars == <<server, changes, state, event, result, requests, page, alive, history>>

Jobs == Pending \cup Old
Absent == -1
Gone == -2

Versions == 0..MaxChanges
JobInfo == [id : Jobs, version : Versions]
Cards == [pending : BOOLEAN, id : Jobs, version : Versions, ended : BOOLEAN]
Requests == [close : Pending \cup {0}, answered : BOOLEAN, list : Seq(JobInfo)]

TypeOK ==
    /\ server \in [Jobs -> Versions \cup {Absent, Gone}]
    /\ state \in [Pending -> {"no", "working", "complete", "failed"}]
    /\ event \in [Pending -> BOOLEAN] /\ result \in [Pending -> Versions \cup {Absent}]
    /\ requests \in Seq(Requests) /\ cards \in Seq(Cards)
    /\ jobs \in Seq(JobInfo) /\ pendingCount \in Nat
    /\ changes \in 0..MaxChanges /\ {alive, shifted, raced} \subseteq BOOLEAN /\ applied \subseteq Jobs

Init ==
    /\ server = [j \in Jobs |-> IF j \in Old THEN 0 ELSE Absent]
    /\ state = [j \in Pending |-> "no"] /\ event = [j \in Pending |-> FALSE]
    /\ result = [j \in Pending |-> Absent]
    /\ requests = <<>>
    /\ changes = 0 /\ cards = <<>> /\ pendingCount = 0 /\ jobs = <<>> /\ alive = TRUE
    /\ shifted = FALSE /\ raced = FALSE /\ applied = {}

(* The n-th of some places, and the elements of a list at these.           *)
Nth(places, n) == CHOOSE k \in places : Cardinality({i \in places : i <= k}) = n
At(s, places) == [n \in 1..Cardinality(places) |-> s[Nth(places, n)]]

-------------------------------------------------------------------------------
(* The server and the pending jobs, seen from here.                        *)

(* A job is there from its creation on; its status changes; it may go (for *)
(* another user all jobs do).  Jobs are numbered by age.                   *)
ServerChanges(j) ==
    /\ alive
    /\ \/ /\ j \in Pending /\ state[j] = "working" /\ server[j] = Absent
          /\ server' = [server EXCEPT ![j] = 0]
          /\ UNCHANGED changes
       \/ /\ server[j] \in Versions /\ changes < MaxChanges
          /\ server' \in {[server EXCEPT ![j] = @ + 1], [server EXCEPT ![j] = Gone]}
          /\ changes' = changes + 1
    /\ UNCHANGED <<state, event, result, requests, page, alive, history>>

ListOfServer ==
    LET there == {j \in Jobs : server[j] \in Versions}
        newest(n) == Nth(there, Cardinality(there) + 1 - n)
    IN [n \in 1..Cardinality(there) |-> [id |-> newest(n), version |-> server[newest(n)]]]

(* A job ends: the progress event is queued, then the promise is set (when *)
(* it failed or was canceled, with nothing that concerns the page).        *)
JobEnds(j) ==
    /\ alive /\ state[j] = "working"
    /\ \/ /\ server[j] \in Versions
          /\ state' = [state EXCEPT ![j] = "complete"]
          /\ result' = [result EXCEPT ![j] = server[j]]
       \/ /\ state' = [state EXCEPT ![j] = "failed"]
          /\ UNCHANGED result
    /\ event' = [event EXCEPT ![j] = TRUE]
    /\ UNCHANGED <<server, changes, requests, page, alive, history>>

(* AsyncGetJobsList: the list is that of the moment the server answers; it *)
(* arrives, and is read, later, so that an older one may come last.        *)
ServerAnswers(n) ==
    /\ alive /\ n \in DOMAIN requests /\ ~requests[n].answered
    /\ requests' \in {[requests EXCEPT ![n].answered = TRUE, ![n].list = ListOfServer],
                      RemoveAt(requests, n)}
    /\ UNCHANGED <<server, changes, state, event, result, page, alive, history>>

-------------------------------------------------------------------------------
(* PageJobsList.                                                           *)

PendingCard(j) == [pending |-> TRUE, id |-> j, version |-> 0, ended |-> FALSE]
JobCard(job) == [pending |-> FALSE, id |-> job.id, version |-> job.version, ended |-> TRUE]

(* The last of the pending cards is not looked at.                         *)
GetPendingJobCtrlShort(j) == {i \in 1..(pendingCount - 1) : cards[i].pending /\ cards[i].id = j}

(* GetPendingJobCtrl searches among the first m_pendingCount items.        *)
GetPendingJobCtrl(j) == {i \in 1..pendingCount : cards[i].pending /\ cards[i].id = j}

(* AsyncGetJobsList, posted for page 2 (close = 0) or by "Close".          *)
Post(close) ==
    /\ Len(requests) < MaxRequests
    /\ requests' = Append(requests, [close |-> close, answered |-> FALSE, list |-> <<>>])

(* OnJobCreate: the card is inserted and the page selected.                *)
CreatePendingJob(j) ==
    /\ alive /\ state[j] = "no" /\ \A i \in Pending : i < j => state[i] # "no"
    /\ state' = [state EXCEPT ![j] = "working"]
    /\ cards' = <<PendingCard(j)>> \o cards
    /\ pendingCount' = pendingCount + 1
    /\ Post(0)
    /\ UNCHANGED <<server, changes, event, result, jobs, alive, history>>

(* The user selects the page.                                              *)
SelectPage ==
    /\ alive /\ Post(0)
    /\ UNCHANGED <<server, changes, state, event, result, page, alive, history>>

(* HandleJobProgress: Complete, Canceled and Error turn "Cancel" into      *)
(* "Close".                                                                *)
HandleJobProgress(j) ==
    /\ alive /\ event[j]
    /\ event' = [event EXCEPT ![j] = FALSE]
    /\ cards' = [i \in DOMAIN cards |-> IF i \in GetPendingJobCtrl(j)
                                        THEN [cards[i] EXCEPT !.ended = TRUE] ELSE cards[i]]
    /\ UNCHANGED <<server, changes, state, result, requests, pendingCount, jobs, alive, history>>

(* OnJobCancelClick on a card that says "Close".  A second click only asks *)
(* for the list again, as SelectPage does.                                 *)
CloseClick(j) ==
    /\ alive /\ \E i \in GetPendingJobCtrl(j) : cards[i].ended
    /\ \A n \in DOMAIN requests : requests[n].close # j
    /\ Post(j)
    /\ UNCHANGED <<server, changes, state, event, result, page, alive, history>>

(* The result of a job, read by an idle window: ReplacePendingJobWith-     *)
(* Complete.                                                               *)
ReplacePendingJobWithComplete(j) ==
    /\ alive /\ result[j] # Absent
    /\ result' = [result EXCEPT ![j] = Absent]
    /\ IF GetPendingJobCtrl(j) # {}
       THEN LET i == Min(GetPendingJobCtrl(j))
                job == [id |-> j, version |-> result[j]]
            IN /\ jobs' = <<job>> \o jobs
               /\ cards' = RemoveAt(InsertAt(cards, pendingCount + 1, JobCard(job)), i)
               /\ pendingCount' = pendingCount - 1
               /\ applied' = applied \cup {j}
       ELSE UNCHANGED <<page, applied>>
    /\ UNCHANGED <<server, changes, state, event, requests, alive, shifted, raced>>

(* The newest job is forgotten: it is taken for a new one.                 *)
KnownShort == {k \in DOMAIN jobs : k > 1 /\ \A i \in 1..(k - 1) : jobs[i].id # jobs[k].id}

(* curJobs of UpdateContent: the first place of each id in m_jobs.         *)
Known == {k \in DOMAIN jobs : \A i \in 1..(k - 1) : jobs[i].id # jobs[k].id}

(* Only the list is brought up to date.                                    *)
UpdateJobNot(card, now) == card

(* The window of a job reads the job it was made for (of a job listed      *)
(* twice: the first).                                                      *)
UpdateJob(card, now) ==
    IF \E k \in Known : now[k].id = card.id
    THEN JobCard(now[CHOOSE k \in Known : now[k].id = card.id]) ELSE card

(* What UpdateContent compares: the jobs of the list, the known jobs that  *)
(* are not among them, those that changed, and the places of the new ones. *)
Listed(list) == {list[n].id : n \in DOMAIN list}
InList(list, id) == CHOOSE job \in Range(list) : job.id = id
Erased(list) == {k \in Known : jobs[k].id \notin Listed(list)}
Changed(list) == {k \in Known \ Erased(list) : jobs[k] # InList(list, jobs[k].id)}
Added(list) == {n \in DOMAIN list : list[n].id \notin {jobs[k].id : k \in Known}}

(* m_jobs and the items after the changed ones were brought up to date.    *)
Now(list) == [k \in DOMAIN jobs |-> IF k \in Changed(list) THEN InList(list, jobs[k].id) ELSE jobs[k]]
Updated(list, items) ==
    [i \in DOMAIN items |-> IF i \in Changed(list) THEN UpdateJob(items[i], Now(list)) ELSE items[i]]

(* UpdateContent, after DeletePendingJob when the request was made by      *)
(* "Close".  A known job k is paired with item k of the sizer: nullptr     *)
(* when that is a pending card.                                            *)
UpdateContent(list, items, count) ==
    LET new == At(list, Added(list))
        touched == Erased(list) \cup Changed(list)
    IN IF \E k \in touched : items[k].pending
       THEN alive' = FALSE /\ UNCHANGED <<page, shifted, raced, applied>>
       ELSE /\ jobs' = new \o At(Now(list), DOMAIN jobs \ Erased(list))
            /\ cards' = SubSeq(items, 1, count) \o [n \in DOMAIN new |-> JobCard(new[n])]
                        \o At(Updated(list, items), ((count + 1)..Len(items)) \ Erased(list))
            /\ pendingCount' = count
            /\ shifted' = (shifted \/ (count > 0 /\ touched # {}))
            /\ raced' = (raced \/ \E i \in 1..count : items[i].id \in Listed(list))
            /\ applied' = Listed(list)
            /\ UNCHANGED alive

(* The card is not destroyed.                                              *)
ListArrivesCardKept(n) ==
    /\ alive /\ n \in DOMAIN requests /\ requests[n].answered
    /\ UpdateContent(requests[n].list, cards,
                     pendingCount - Cardinality(GetPendingJobCtrl(requests[n].close)))
    /\ requests' = RemoveAt(requests, n)
    /\ UNCHANGED <<server, changes, state, event, result>>

(* The callback of AsyncGetJobsList: "Close" deletes its card first.       *)
ListArrives(n) ==
    /\ alive /\ n \in DOMAIN requests /\ requests[n].answered
    /\ LET gone == GetPendingJobCtrl(requests[n].close) IN
       UpdateContent(requests[n].list,
                     IF gone = {} THEN cards ELSE RemoveAt(cards, Min(gone)),
                     pendingCount - Cardinality(gone))
    /\ requests' = RemoveAt(requests, n)
    /\ UNCHANGED <<server, changes, state, event, result>>

Next ==
    \/ SelectPage
    \/ \E j \in Jobs : ServerChanges(j)
    \/ \E j \in Pending : \/ CreatePendingJob(j) \/ JobEnds(j) \/ HandleJobProgress(j)
                          \/ CloseClick(j) \/ ReplacePendingJobWithComplete(j)
    \/ \E n \in 1..MaxRequests : ServerAnswers(n) \/ ListArrives(n)

Spec == Init /\ [][Next]_vars
-------------------------------------------------------------------------------
(* Properties.                                                             *)

(* The layout the code counts on: m_pendingCount pending cards, then one   *)
(* card for each element of m_jobs.  Each of these shows its job as it was *)
(* last heard of, unless a list that changed something was applied while   *)
(* there were pending cards.                                               *)
CardsTrue ==
    /\ Len(cards) = pendingCount + Len(jobs)
    /\ \A i \in DOMAIN cards : cards[i].pending <=> i <= pendingCount
    /\ alive /\ ~shifted /\ ~raced =>
        \A k \in DOMAIN jobs : cards[pendingCount + k] = JobCard(jobs[k])

(* No job is shown twice, unless a list already named it while its pending *)
(* card was there.  The jobs shown are those of the list applied last and  *)
(* those completed since.                                                  *)
JobsShownOnce ==
    alive /\ ~raced =>
        /\ IsInjective([k \in DOMAIN jobs |-> jobs[k].id])
        /\ {jobs[k].id : k \in DOMAIN jobs} = applied

(* The page dies only beside pending cards: with none every known job has  *)
(* its own card.                                                           *)
DiesOnlyBesidePending == [][alive /\ ~alive' => pendingCount > 0]_vars

(* Once the result of a completed job was read its pending card is gone,   *)
(* whatever was applied or closed before.                                  *)
CompleteIsShown ==
    \A j \in Pending : alive /\ state[j] = "complete" /\ result[j] = Absent =>
        \A i \in DOMAIN cards : ~(cards[i].pending /\ cards[i].id = j)

-------------------------------------------------------------------------------
(* Why they hold: what every step preserves.                               *)

(* The layout the code counts on.                                          *)
LayoutInv ==
    /\ Len(cards) = pendingCount + Len(jobs)
    /\ \A i \in DOMAIN cards : cards[i].pending <=> i <= pendingCount

(* A job has one pending card, and only if it was printed.                 *)
PendingInv ==
    \A i \in 1..pendingCount :
        /\ cards[i].id \in Pending /\ state[cards[i].id] # "no"
        /\ \A k \in 1..pendingCount : cards[i].id = cards[k].id => i = k

(* What is heard of a job of this run, from the server or at its end, was  *)
(* printed; a list names each job once.                                    *)
Printed(j) == j \in Pending => state[j] # "no"

GoodList(list) ==
    /\ \A k \in DOMAIN list : Printed(list[k].id)
    /\ \A i, k \in DOMAIN list : list[i].id = list[k].id => i = k

HeardInv ==
    /\ \A j \in Jobs : server[j] <= changes
    /\ \A j \in Pending : /\ server[j] # Absent => state[j] # "no"
                          /\ result[j] # Absent => state[j] = "complete"
    /\ \A n \in DOMAIN requests : GoodList(requests[n].list)
    /\ \A j \in applied : Printed(j)

(* Unless a list named a job beside its pending card, a job that has one   *)
(* is not in m_jobs, and there is none twice.                              *)
OnceInv ==
    ~raced =>
        /\ \A i, k \in DOMAIN jobs : jobs[i].id = jobs[k].id => i = k
        /\ {jobs[k].id : k \in DOMAIN jobs} = applied
        /\ \A i \in 1..pendingCount : cards[i].id \notin applied

(* The card of each job.                                                   *)
ShownInv ==
    ~shifted /\ ~raced => \A k \in DOMAIN jobs : cards[pendingCount + k] = JobCard(jobs[k])

(* A completed job whose result was read has no pending card.              *)
ReadInv ==
    \A i \in 1..pendingCount :
        state[cards[i].id] = "complete" => result[cards[i].id] # Absent

IInv ==
    /\ TypeOK /\ LayoutInv /\ PendingInv /\ HeardInv /\ OnceInv /\ ShownInv /\ ReadInv
===============================================================================
