----------------------------- MODULE HttpClientMT -----------------------------
(***************************************************************************)
(* HttpClientMT: requests become sessions, whose asynchronous operations   *)
(* (resolve, connect, exchange, body) complete on any of the io threads.   *)
(* Sessions are found by request id in m_activeSessions when they fail or  *)
(* are to be canceled; sockets of finished sessions are pooled.            *)
(*                                                                         *)
(* An operation that fails throws; the exception only carries the id, and  *)
(* ThreadLoop looks the session up, posts a retry or runs the callback.    *)
(* The id is the second the request was created in, so IdOf need not be    *)
(* injective; with equal ids only part of the promise is kept.             *)
(***************************************************************************)
EXTENDS Naturals, Sequences, FiniteSets, SequencesExt

CONSTANTS
    Requests,     \* calls of PostRequest
    IdOf,         \* IdOf[r]: HttpRequest::m_id
    Threads,      \* m_threads
    Sockets,      \* names for the sockets that exist at a time
    MaxAttempts,  \* 2: a session is created with Retry = 1
    None

ASSUME IdAssumption == IdOf \in [Requests -> Nat]
ASSUME AttemptsAssumption == MaxAttempts \in Nat \ {0}
ASSUME ThreadsAssumption == IsFiniteSet(Threads)
ASSUME NoneAssumption == None \notin Sockets /\ None \notin Requests \X (1..MaxAttempts)

(* A session is a try of a request. *)
Sessions == Requests \X (1..MaxAttempts)
Ids == {IdOf[r] : r \in Requests}
Id(s) == IdOf[s[1]]

VARIABLES
    stage,     \* stage[s]: the operation outstanding for session s
    sock,      \* HttpSession::Socket
    cancel,    \* HttpSessionBase::Cancel is set
    aborting,  \* Cancel was called during the current operation
    handled,   \* the server has handled the session's request
    active,    \* m_activeSessions
    pool,      \* m_socketPool
    thread,    \* what each io thread is about to do, and for which session
    called,    \* the results each request's callback was run with
    closing,   \* m_closing
    (* history *)
    reached,   \* Cancel was called for the session
    asked      \* the ids CancelRequest was called with

sessionVars == <<stage, sock, cancel, aborting, handled>>
historyVars == <<reached, asked>>
vars == <<sessionVars, active, pool, thread, called, closing, historyVars>>

(* Between two handlers a thread waits in m_ios.run(). *)
Running == [at |-> "run", s |-> None, result |-> "none"]
Does(at, s, result) == [at |-> at, s |-> s, result |-> result]

Doing == [at : {"run", "connect", "caught", "decide", "callback", "gone"},
          s : Sessions \cup {None}, result : {"none", "ok", "error", "canceled"}]

OnSocket == {"connect", "exchange", "body"}
Operation == OnSocket \cup {"resolve"}

TypeOK ==
    /\ stage \in [Sessions -> {"none", "posted", "resolved", "over"} \cup Operation]
    /\ sock \in [Sessions -> Sockets \cup {None}]
    /\ cancel \in [Sessions -> BOOLEAN]
    /\ aborting \in [Sessions -> BOOLEAN]
    /\ handled \in [Sessions -> BOOLEAN]
    /\ reached \in [Sessions -> BOOLEAN]
    /\ active \in [Ids -> Sessions \cup {None}]
    /\ pool \in Seq(Sockets)
    /\ thread \in [Threads -> Doing]
    /\ called \in [Requests -> Seq({"ok", "error", "canceled"})]
    /\ closing \in {"no", "dropping", "yes", "terminated"}
    /\ asked \subseteq Ids

Init ==
    /\ stage = [s \in Sessions |-> "none"]
    /\ sock = [s \in Sessions |-> None]
    /\ cancel = [s \in Sessions |-> FALSE]
    /\ aborting = [s \in Sessions |-> FALSE]
    /\ handled = [s \in Sessions |-> FALSE]
    /\ reached = [s \in Sessions |-> FALSE]
    /\ active = [i \in Ids |-> None]
    /\ pool = <<>>
    /\ thread = [t \in Threads |-> Running]
    /\ called = [r \in Requests |-> <<>>]
    /\ closing = "no"
    /\ asked = {}

-------------------------------------------------------------------------------
(* Helpers.                                                                *)

Alive == closing # "terminated"

(* Thread t takes a handler from the io_service. *)
Takes(t) == Alive /\ thread[t].at = "run"

Goes(t, next) == thread' = [thread EXCEPT ![t] = next]

(* A thread that has caught an exception tests m_closing before it runs    *)
(* m_ios again.                                                            *)
BackToLoop(t) ==
    Goes(t, IF closing = "no" THEN Running ELSE Does("gone", None, "none"))

Stage(s, next) == stage' = [stage EXCEPT ![s] = next]

(* The next operation of s starts; what was to abort the previous one is   *)
(* forgotten.                                                              *)
Begin(s, operation) ==
    /\ Stage(s, operation)
    /\ aborting' = [aborting EXCEPT ![s] = FALSE]

FreeSockets == Sockets \ ({sock[s] : s \in Sessions} \cup ToSet(pool))

(* Mistakes of the kind the code might make stand before the definition    *)
(* they replace; each has to break a property.                             *)

(* The pool is trimmed to one socket too many. *)
CachedOneMore(socket) ==
    LET kept == IF Len(pool) > Cardinality(Threads)
                THEN SubSeq(pool, Len(pool) - Cardinality(Threads) + 1, Len(pool))
                ELSE pool
    IN  Append(kept, socket)

(* CacheSocket keeps the pool at the number of threads. *)
Cached(socket) ==
    LET kept == IF Len(pool) >= Cardinality(Threads)
                THEN SubSeq(pool, Len(pool) - Cardinality(Threads) + 2, Len(pool))
                ELSE pool
    IN  Append(kept, socket)

-------------------------------------------------------------------------------
(* The users of the client.                                                *)

PostRequest(r) ==
    /\ closing = "no" /\ stage[<<r, 1>>] = "none"
    /\ Stage(<<r, 1>>, "posted")
    /\ UNCHANGED <<sock, cancel, aborting, handled, active, pool, thread, called, closing, historyVars>>

(* Nothing happens before StartSession, after the end, or in the middle of *)
(* HandleResolve.                                                          *)
CancelRequest(i) ==
    /\ closing = "no" /\ i \notin asked
    /\ asked' = asked \cup {i}
    /\ IF active[i] # None /\ cancel[active[i]]
       THEN /\ aborting' = [aborting EXCEPT ![active[i]] = TRUE]
            /\ reached' = [reached EXCEPT ![active[i]] = TRUE]
       ELSE UNCHANGED <<aborting, reached>>
    /\ UNCHANGED <<stage, sock, cancel, handled, active, pool, thread, called, closing>>

(* ~Impl: m_closing, then all active sessions are canceled and forgotten.  *)
(* Calling an empty Cancel throws out of the destructor.                   *)
Close ==
    /\ closing = "no"
    /\ closing' = "dropping"
    /\ UNCHANGED <<sessionVars, active, pool, thread, called, historyVars>>

ActiveSessions == {active[i] : i \in Ids} \ {None}

DropSessions ==
    /\ closing = "dropping"
    /\ IF \A s \in ActiveSessions : cancel[s]
       THEN /\ closing' = "yes"
            /\ aborting' = [s \in Sessions |-> aborting[s] \/ s \in ActiveSessions]
            /\ active' = [i \in Ids |-> None]
            /\ pool' = <<>>
       ELSE closing' = "terminated" /\ UNCHANGED <<aborting, active, pool>>
    /\ UNCHANGED <<stage, sock, cancel, handled, thread, called, historyVars>>

(* External: the server handles the request of a session. *)
ServerHandles(s) ==
    /\ stage[s] = "exchange" /\ ~handled[s]
    /\ handled' = [handled EXCEPT ![s] = TRUE]
    /\ UNCHANGED <<stage, sock, cancel, aborting, active, pool, thread, called, closing, historyVars>>

-------------------------------------------------------------------------------
(* The handlers.                                                           *)

(* insert does nothing if the id is taken.  A pooled socket saves the      *)
(* resolving and connecting.                                               *)
StartSession(t, s) ==
    /\ Takes(t) /\ stage[s] = "posted"
    /\ active' = [active EXCEPT ![Id(s)] = IF @ = None THEN s ELSE @]
    /\ cancel' = [cancel EXCEPT ![s] = TRUE]
    /\ IF pool # <<>>
       THEN /\ sock' = [sock EXCEPT ![s] = Head(pool)]
            /\ pool' = Tail(pool)
            /\ Begin(s, "exchange")
       ELSE Begin(s, "resolve") /\ UNCHANGED <<sock, pool>>
    /\ UNCHANGED <<handled, thread, called, closing, historyVars>>

(* HandleResolve empties Cancel, Connect sets it again. *)
HandleResolve(t, s) ==
    /\ Takes(t) /\ stage[s] = "resolve"
    /\ Begin(s, "resolved")
    /\ cancel' = [cancel EXCEPT ![s] = FALSE]
    /\ Goes(t, Does("connect", s, "none"))
    /\ UNCHANGED <<sock, handled, active, pool, called, closing, historyVars>>

Connect(t) ==
    /\ Alive /\ thread[t].at = "connect"
    /\ \E socket \in FreeSockets : sock' = [sock EXCEPT ![thread[t].s] = socket]
    /\ Begin(thread[t].s, "connect")
    /\ cancel' = [cancel EXCEPT ![thread[t].s] = TRUE]
    /\ Goes(t, Running)
    /\ UNCHANGED <<handled, active, pool, called, closing, historyVars>>

(* HandleConnect and the handshake, then SendRequest. *)
HandleConnect(t, s) ==
    /\ Takes(t) /\ stage[s] = "connect"
    /\ Begin(s, "exchange")
    /\ UNCHANGED <<sock, cancel, handled, active, pool, thread, called, closing, historyVars>>

(* The session keeps the socket it has pooled. *)
FinishReadContentShared(t, s) ==
    /\ pool' = Cached(sock[s])
    /\ cancel' = [cancel EXCEPT ![s] = FALSE]
    /\ active' = [active EXCEPT ![Id(s)] = None]
    /\ Begin(s, "over")
    /\ Goes(t, Does("callback", s, "ok"))
    /\ UNCHANGED sock

(* The session is not forgotten. *)
FinishReadContentKept(t, s) ==
    /\ pool' = Cached(sock[s])
    /\ sock' = [sock EXCEPT ![s] = None]
    /\ cancel' = [cancel EXCEPT ![s] = FALSE]
    /\ Begin(s, "over")
    /\ Goes(t, Does("callback", s, "ok"))
    /\ UNCHANGED active

(* FinishReadContent: the socket is pooled, the session forgotten, and     *)
(* then, no lock held, the callback is run.                                *)
FinishReadContent(t, s) ==
    /\ pool' = Cached(sock[s])
    /\ sock' = [sock EXCEPT ![s] = None]
    /\ cancel' = [cancel EXCEPT ![s] = FALSE]
    /\ active' = [active EXCEPT ![Id(s)] = None]
    /\ Begin(s, "over")
    /\ Goes(t, Does("callback", s, "ok"))

(* HandleReadHeaders: the content may be in the buffer already. *)
HandleReadHeaders(t, s) ==
    /\ Takes(t) /\ stage[s] = "exchange" /\ handled[s]
    /\ \/ Begin(s, "body") /\ UNCHANGED <<sock, cancel, active, pool, thread>>
       \/ FinishReadContent(t, s)
    /\ UNCHANGED <<handled, called, closing, historyVars>>

HandleReadContent(t, s) ==
    /\ Takes(t) /\ stage[s] = "body"
    /\ FinishReadContent(t, s)
    /\ UNCHANGED <<handled, called, closing, historyVars>>

(* Every failure is reported as a cancellation. *)
OperationFailsCanceled(t, s) ==
    /\ Takes(t) /\ stage[s] \in Operation
    /\ Goes(t, Does("caught", s, "canceled"))
    /\ Begin(s, "over")
    /\ sock' = [sock EXCEPT ![s] = None]
    /\ UNCHANGED <<cancel, handled, active, pool, called, closing, historyVars>>

(* Any operation may fail (an invalid response included).  An aborted one  *)
(* says so, except while the body is read.                                 *)
OperationFails(t, s) ==
    /\ Takes(t) /\ stage[s] \in Operation
    /\ \/ Goes(t, Does("caught", s, "error"))
       \/ aborting[s] /\ stage[s] # "body" /\ Goes(t, Does("caught", s, "canceled"))
    /\ Begin(s, "over")
    /\ sock' = [sock EXCEPT ![s] = None]
    /\ UNCHANGED <<cancel, handled, active, pool, called, closing, historyVars>>

(* The session is erased before it is looked up. *)
CatchExceptionErased(t) ==
    /\ Alive /\ thread[t].at = "caught"
    /\ active' = [active EXCEPT ![Id(thread[t].s)] = None]
    /\ BackToLoop(t)
    /\ UNCHANGED <<sessionVars, pool, called, closing, historyVars>>

(* ThreadLoop looks up the session with the id of the exception. *)
CatchException(t) ==
    /\ Alive /\ thread[t].at = "caught"
    /\ LET i == Id(thread[t].s)
       IN  /\ active' = [active EXCEPT ![i] = None]
           /\ IF active[i] = None
              THEN BackToLoop(t) /\ UNCHANGED cancel
              ELSE /\ Goes(t, Does("decide", active[i], thread[t].result))
                   /\ cancel' = [cancel EXCEPT ![active[i]] = FALSE]
    /\ UNCHANGED <<stage, sock, aborting, handled, pool, called, closing, historyVars>>

(* Retry is decremented before it is tested. *)
GiveUpAtOnce(t) ==
    /\ Alive /\ thread[t].at = "decide"
    /\ Goes(t, Does("callback", thread[t].s, thread[t].result))
    /\ UNCHANGED <<sessionVars, active, pool, called, closing, historyVars>>

(* A session that failed without being canceled is retried once. *)
RetryOrGiveUp(t) ==
    /\ Alive /\ thread[t].at = "decide"
    /\ LET s == thread[t].s
       IN  IF thread[t].result = "error" /\ s[2] < MaxAttempts
           THEN Stage(<<s[1], s[2] + 1>>, "posted") /\ BackToLoop(t)
           ELSE Goes(t, Does("callback", s, thread[t].result)) /\ UNCHANGED stage
    /\ UNCHANGED <<sock, cancel, aborting, handled, active, pool, called, closing, historyVars>>

RunCallback(t) ==
    /\ Alive /\ thread[t].at = "callback"
    /\ called' = [called EXCEPT ![thread[t].s[1]] = Append(@, thread[t].result)]
    /\ IF thread[t].result = "ok" THEN Goes(t, Running) ELSE BackToLoop(t)
    /\ UNCHANGED <<sessionVars, active, pool, closing, historyVars>>

-------------------------------------------------------------------------------
HandlerStep(t, s) ==
    \/ StartSession(t, s) \/ HandleResolve(t, s) \/ HandleConnect(t, s)
    \/ HandleReadHeaders(t, s) \/ HandleReadContent(t, s) \/ OperationFails(t, s)

ThreadStep(t) == Connect(t) \/ CatchException(t) \/ RetryOrGiveUp(t) \/ RunCallback(t)

Next ==
    \/ \E r \in Requests : PostRequest(r)
    \/ \E i \in Ids : CancelRequest(i)
    \/ Close \/ DropSessions
    \/ \E s \in Sessions : ServerHandles(s) \/ \E t \in Threads : HandlerStep(t, s)
    \/ \E t \in Threads : ThreadStep(t)

Spec == Init /\ [][Next]_vars

(* The threads run, and every operation the network is asked for ends one  *)
(* way or the other: the client has no timeout of its own.                 *)
FairSpec ==
    /\ Spec
    /\ \A s \in Sessions : WF_vars(\E t \in Threads : HandlerStep(t, s))
    /\ \A t \in Threads : WF_vars(ThreadStep(t))

-------------------------------------------------------------------------------
(* Properties.                                                             *)

(* Two sessions never talk on the same socket, and no session talks on a   *)
(* socket that is waiting in the pool for another one.                     *)
SocketExclusive ==
    /\ \A s1, s2 \in Sessions : s1 # s2 /\ sock[s1] # None => sock[s1] # sock[s2]
    /\ \A s \in Sessions : sock[s] \notin ToSet(pool)
    /\ IsInjective(pool)

(* The pool holds no more sockets than there are threads to use them.      *)
PoolBounded == Len(pool) <= Cardinality(Threads)

(* Even if ids collide, the sockets of sessions and of the pool are kept   *)
(* apart, and the pool does not outgrow the threads, whatever is canceled, *)
(* fails or is tried again.                                                *)
SocketsKept == SocketExclusive /\ PoolBounded

(* Even if ids collide, a callback is told of a cancellation only if       *)
(* CancelRequest was called with that id, or the client was destroyed.     *)
CanceledIfAsked ==
    \A r \in Requests : "canceled" \in ToSet(called[r]) => IdOf[r] \in asked \/ closing # "no"

(* Even if ids collide, ~Impl calls an empty Cancel, and the application   *)
(* dies of it, only if a session that can be found is between              *)
(* HandleResolve and Connect: none that is over, or that another one's     *)
(* failure was taken for, is left in m_activeSessions without its Cancel.  *)
DiesOnlyInResolve ==
    closing = "terminated" =>
        \E t \in Threads : thread[t].at = "connect" /\ active[Id(thread[t].s)] = thread[t].s

(* The current try of a request, and what HttpContract knows of it.        *)
Outstanding(r) == stage[<<r, 1>>] # "none" /\ called[r] = <<>>
Try(r) == IF \E k \in 2..MaxAttempts : stage[<<r, k>>] # "none"
          THEN CHOOSE k \in 2..MaxAttempts : /\ stage[<<r, k>>] # "none"
                                             /\ \A l \in (k + 1)..MaxAttempts : stage[<<r, l>>] = "none"
          ELSE 1

Contract == INSTANCE HttpContract WITH
    Channels <- Requests,
    phase <- [r \in Requests |-> IF Outstanding(r) THEN "pending" ELSE "idle"],
    attempt <- [r \in Requests |-> IF Outstanding(r) THEN Try(r) ELSE 1],
    served <- [r \in Requests |-> IF Outstanding(r) /\ handled[<<r, Try(r)>>] THEN "ok" ELSE "no"],
    abort <- [r \in Requests |-> Outstanding(r) /\ reached[<<r, Try(r)>>]]

(* With distinct ids HttpClientMT implements HttpContract: one callback    *)
(* per request, a response only if the server handled the last try, a      *)
(* cancellation only if Cancel reached the last try, a failure only after  *)
(* the last try.                                                           *)
KeepsContract == Contract!Spec

(* With distinct ids every request's callback is run, unless the client is *)
(* destroyed.                                                              *)
PostedIsAnswered ==
    \A r \in Requests : stage[<<r, 1>>] = "posted" ~> (called[r] # <<>> \/ closing # "no")

-------------------------------------------------------------------------------
(* Why they hold: what every step preserves, also when ids collide.        *)

(* A thread that does something does it for a session.                     *)
Busy(t) == thread[t].at \in {"connect", "caught", "decide", "callback"}

ThreadInv ==
    \A t \in Threads :
        /\ Busy(t) => thread[t].s \in Sessions
        /\ thread[t].at \in {"caught", "decide"} => thread[t].result \in {"error", "canceled"}
        /\ thread[t].at = "callback" => thread[t].result # "none"

SocketInv == \A s \in Sessions : stage[s] \in OnSocket => sock[s] # None

(* A session is found by its own id, if it is found. *)
ActiveInv == \A i \in Ids : active[i] # None => Id(active[i]) = i

MayCancel(s) == Id(s) \in asked \/ closing # "no"

CancelInv ==
    /\ \A s \in Sessions : aborting[s] => MayCancel(s)
    /\ \A t \in Threads : Busy(t) /\ thread[t].result = "canceled" => MayCancel(thread[t].s)
    /\ CanceledIfAsked

(* A session that is found can be canceled, or is about to connect.        *)
CallableInv ==
    \A i \in Ids : active[i] # None /\ ~cancel[active[i]] =>
        \E t \in Threads : thread[t].at = "connect" /\ thread[t].s = active[i]

IInv ==
    /\ TypeOK /\ ThreadInv /\ SocketInv /\ SocketExclusive /\ PoolBounded
    /\ ActiveInv /\ CancelInv

(* With distinct ids more is true.  The last try of a request is the one   *)
(* session of it that is not over, or that a thread is busy with.          *)
Latest(s) == stage[s] # "none" /\ \A k \in (s[2] + 1)..MaxAttempts : stage[<<s[1], k>>] = "none"

TryInv ==
    /\ \A s \in Sessions :
        /\ stage[s] = "none" => ~handled[s] /\ ~reached[s] /\ (s[2] = 1 => called[s[1]] = <<>>)
        /\ stage[s] # "none" => \A k \in 1..(s[2] - 1) : stage[<<s[1], k>>] = "over"
        /\ stage[s] \notin {"none", "over"} => Latest(s) /\ called[s[1]] = <<>>
    /\ \A r \in Requests :
        stage[<<r, 1>>] # "none" => \E k \in 1..MaxAttempts : Latest(<<r, k>>)

BusyInv ==
    /\ \A t \in Threads : Busy(t) =>
        LET s == thread[t].s
        IN /\ stage[s] = IF thread[t].at = "connect" THEN "resolved" ELSE "over"
           /\ Latest(s) /\ called[s[1]] = <<>>
           /\ \A u \in Threads : u # t /\ Busy(u) => thread[u].s # s
           /\ thread[t].at \in {"decide", "callback"} => active[Id(s)] = None

FoundInv ==
    /\ \A i \in Ids : active[i] # None => stage[active[i]] # "posted" /\ Latest(active[i])
    /\ \A s \in Sessions : aborting[s] /\ active[Id(s)] = s => reached[s]

(* What a result says. *)
ResultInv ==
    \A t \in Threads : Busy(t) =>
        LET s == thread[t].s
        IN /\ thread[t].at = "caught" /\ thread[t].result = "canceled" /\ active[Id(s)] = s => reached[s]
           /\ thread[t].at \in {"decide", "callback"} /\ thread[t].result = "canceled" => reached[s]
           /\ thread[t].at = "callback" /\ thread[t].result = "ok" => handled[s]
           /\ thread[t].at = "callback" /\ thread[t].result = "error" => s[2] = MaxAttempts

(* A body is only read of a response. *)
HandledInv == \A s \in Sessions : stage[s] = "body" => handled[s]

DistinctInv == IInv /\ TryInv /\ BusyInv /\ FoundInv /\ ResultInv /\ HandledInv
===============================================================================
