----------------------------- MODULE HttpContract -----------------------------
(***************************************************************************)
(* What HttpClientMT promises to the code that posts a request with a      *)
(* callback: the request is tried at most MaxAttempts times, the callback  *)
(* runs once with a response, a failure or a cancellation, a response only *)
(* if the server handled the last attempt, and a cancellation only if      *)
(* CancelRequest was called for it.  A channel carries one request at a    *)
(* time.  HttpClientMT.tla is shown to implement this module; JobProcessor *)
(* is built on it.                                                         *)
(***************************************************************************)
EXTENDS Naturals

CONSTANTS
    Channels,     \* users of the client, each with one request at a time
    MaxAttempts   \* the first try and the retries (HttpSession's Retry = 1)

VARIABLES
    phase,     \* phase[c]: is a request of c outstanding?
    attempt,   \* attempt[c]: number of the current try
    served,    \* served[c]: what the server answered to the current try
    abort      \* abort[c]: CancelRequest reached the current try

httpVars == <<phase, attempt, served, abort>>

HttpTypeOK ==
    /\ phase \in [Channels -> {"idle", "pending"}]
    /\ attempt \in [Channels -> 1..MaxAttempts]
    /\ served \in [Channels -> {"no", "ok", "reject"}]
    /\ abort \in [Channels -> BOOLEAN]

Init ==
    /\ phase = [c \in Channels |-> "idle"]
    /\ attempt = [c \in Channels |-> 1]
    /\ served = [c \in Channels |-> "no"]
    /\ abort = [c \in Channels |-> FALSE]

Reset(c) ==
    /\ attempt' = [attempt EXCEPT ![c] = 1]
    /\ served' = [served EXCEPT ![c] = "no"]
    /\ abort' = [abort EXCEPT ![c] = FALSE]

(* PostRequest. *)
Post(c) ==
    /\ phase[c] = "idle"
    /\ phase' = [phase EXCEPT ![c] = "pending"]
    /\ Reset(c)

(* The server handles the current try and its answer is on the way. *)
Serve(c, answer) ==
    /\ phase[c] = "pending" /\ served[c] = "no"
    /\ served' = [served EXCEPT ![c] = answer]
    /\ UNCHANGED <<phase, attempt, abort>>

(* A transport error on a try that is not the last one: the request is     *)
(* posted again without telling its owner.                                 *)
Retry(c) ==
    /\ phase[c] = "pending" /\ attempt[c] < MaxAttempts
    /\ attempt' = [attempt EXCEPT ![c] = @ + 1]
    /\ served' = [served EXCEPT ![c] = "no"]
    /\ abort' = [abort EXCEPT ![c] = FALSE]
    /\ UNCHANGED phase

(* CancelRequest for the outstanding requests of S.                        *)
Cancel(S) ==
    /\ abort' = [c \in Channels |-> abort[c] \/ (c \in S /\ phase[c] = "pending")]
    /\ UNCHANGED <<phase, attempt, served>>

(* The three ways the callback can be called. *)
Finish(c) ==
    /\ phase[c] = "pending"
    /\ phase' = [phase EXCEPT ![c] = "idle"]
    /\ Reset(c)

Respond(c) == served[c] # "no" /\ Finish(c)
Fail(c)    == attempt[c] = MaxAttempts /\ Finish(c)
Aborted(c) == abort[c] /\ Finish(c)

Next ==
    \/ \E c \in Channels :
         \/ Post(c) \/ Retry(c) \/ Respond(c) \/ Fail(c) \/ Aborted(c)
         \/ \E answer \in {"ok", "reject"} : Serve(c, answer)
    \/ \E S \in SUBSET Channels : Cancel(S)

Spec == Init /\ [][Next]_httpVars
===============================================================================
