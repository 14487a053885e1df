-------------------------------- MODULE Session --------------------------------
(***************************************************************************)
(* Who is logged in.  The same fact is kept in five places: m_loginCtx of  *)
(* CloudPrintClient (the token requests are sent with), m_userInfo of      *)
(* CoreManager, the credentials file, the header of the main window (which *)
(* also decides between "Login" and "Logout"), and what the user was told. *)
(* They are written by callbacks on io threads and by results the GUI      *)
(* polls for when idle, one request at a time or several at once.          *)
(***************************************************************************)
EXTENDS Integers, Sequences, FiniteSetsExt

CONSTANTS
    Users,       \* the accounts; none has the reserved user name "anonymous"
    Slots,       \* 1..n: at most n requests are outstanding at a time
    OtherModes,  \* DlgLoginMode::SignUp and DlgLoginMode::ForgotPassword
    None, Anon, Torn

ASSUME SlotsAssumption == Slots \subseteq Nat
ASSUME ModesAssumption == OtherModes \subseteq {"SignUp", "ForgotPassword"}
ASSUME ValuesAssumption ==
    {None, Anon, Torn} \cap Users = {} /\ None # Anon /\ None # Torn /\ Anon # Torn

VARIABLES
    ctx,        \* m_loginCtx: whose token it holds
    userInfo,   \* m_userInfo: NotLogged (None), LoggedAnonymous (Anon), LoggedWithCreds
    creds,      \* the credentials file; Torn after a crash in the middle of a write
    req,        \* the requests outstanding or answered and not yet retrieved
    dialogs,    \* the modal login dialogs, the innermost last
    loginUi,    \* usrEVT_LOGIN_UI is posted
    header,     \* the user shown; the button says Logout iff it is a user
    offices,    \* "posted": usrEVT_INIT_LOAD_OFFICES was; "failed": never will be
    app,        \* "new" until the first activation, then "running", or how it died
    (* history *)
    trouble,    \* since the start, "overlapped": a session request was posted before the
                \* result of another was read; else "halfDone": one failed after its first
                \* half had changed ctx
    told        \* over restarts: the user was told that he is logged out, and has not
                \* tried to log in since; forgotten when requests overlap

volatile == <<ctx, userInfo, req, dialogs, loginUi, header, offices, app>>
history == <<trouble, told>>
vars == <<volatile, creds, history>>

Main == 0       \* owner of a result: the queue of MainWindow, of a dialog, of nobody
Nobody == -1
Identity == Users \cup {Anon, None}
Modes == {"SignIn"} \cup OtherModes
SessionOps == {"quiet", "login", "anon", "logout"}
Done == {"ok", "failed"}

NoRequest == [op |-> "none", step |-> "free", who |-> None, token |-> None,
              owner |-> Nobody, first |-> FALSE]
Request(op, who, owner, first) ==
    [NoRequest EXCEPT !.op = op, !.step = "post", !.who = who, !.owner = owner, !.first = first]

Requests == [op : SessionOps \cup OtherModes \cup {"none"},
             step : {"free", "post", "hasCtx", "info", "anon"} \cup Done,
             who : Users \cup {None}, token : Identity, owner : Nobody..2, first : BOOLEAN]
LoginDialogs == [first : BOOLEAN, mode : Modes, ended : BOOLEAN]

TypeOK ==
    /\ ctx \in Identity /\ userInfo \in Identity /\ header \in Identity
    /\ creds \in Users \cup {None, Torn}
    /\ req \in [Slots -> Requests]
    /\ dialogs \in Seq(LoginDialogs) /\ Len(dialogs) <= 2
    /\ loginUi \in BOOLEAN /\ offices \in {"no", "posted", "failed"}
    /\ app \in {"new", "running", "fatal", "nullContext"}
    /\ trouble \in {"none", "halfDone", "overlapped"} /\ told \in BOOLEAN
    /\ \A i \in Slots : req[i].owner \in 1..2 => req[i].owner <= Len(dialogs)

Init ==
    /\ ctx = None /\ userInfo = None /\ header = None
    /\ req = [i \in Slots |-> NoRequest]
    /\ dialogs = <<>> /\ loginUi = FALSE /\ offices = "no" /\ app = "new"
    /\ creds \in Users \cup {None}
    /\ trouble = "none" /\ told = FALSE

-------------------------------------------------------------------------------
(* Helpers.                                                                *)

Outstanding(i) == req[i].op \in SessionOps
EndedUnread == \E d \in 1..Len(dialogs) : dialogs[d].ended

FreeSlots(r) == {i \in Slots : r[i] = NoRequest}

(* A request is posted, its result stored with its owner's queue. *)
PostInto(r, request) ==
    /\ FreeSlots(r) # {}
    /\ req' = [r EXCEPT ![Min(FreeSlots(r))] = request]
    /\ IF request.op \in SessionOps /\ (EndedUnread \/ \E i \in Slots : Outstanding(i))
       THEN trouble' = "overlapped" /\ told' = FALSE
       ELSE UNCHANGED trouble /\ told' = (told /\ request.op # "login")

HalfDone == trouble' = IF trouble = "none" THEN "halfDone" ELSE trouble

(* The promise is set; nobody may be left to read the future. *)
Fulfil(i, result) ==
    req' = [req EXCEPT ![i] = IF @.owner = Nobody THEN NoRequest
                              ELSE [@ EXCEPT !.step = result, !.who = None, !.token = None]]

GoesTo(i, step, token) == req' = [req EXCEPT ![i].step = step, ![i].token = token]

(* CredentialsCache.  Encryption and the layout of the file are not        *)
(* modelled: a torn file has no password that could be decrypted.          *)
GetCredentials == IF creds \in Users THEN creds ELSE None
SetCredentials(user) == creds' = user
ClearCredentialsNot == UNCHANGED creds
ClearCredentials == creds' = None

(* The header and its mode are set after a login with a password, ... *)
AfterLogin(first) ==
    IF userInfo \in Users
    THEN /\ header' = userInfo
         /\ offices' = IF first THEN "posted" ELSE offices
         /\ UNCHANGED app
    ELSE /\ app' = "fatal"
         /\ UNCHANGED <<header, offices>>

-------------------------------------------------------------------------------
(* CloudPrintClient and CoreManager: the answers, on io threads.           *)

Answers(i, op, step) == app = "running" /\ req[i].op \in op /\ req[i].step = step

gui == <<dialogs, loginUi, header, offices>>

(* Mistakes of the kind the code might make stand before the definition    *)
(* they replace; each has to break a property.                             *)

(* The promise is set without asking for the user info. *)
LoginAnswerAtOnce(i) ==
    /\ Answers(i, {"login", "quiet"}, "post")
    /\ \/ ctx' = req[i].who /\ Fulfil(i, "ok")
       \/ Fulfil(i, "failed") /\ UNCHANGED ctx
    /\ UNCHANGED <<userInfo, creds, gui, app, history>>

(* AsyncLogin: the first answer sets the context. *)
LoginAnswer(i) ==
    /\ Answers(i, {"login", "quiet"}, "post")
    /\ \/ ctx' = req[i].who /\ GoesTo(i, "hasCtx", None)
       \/ Fulfil(i, "failed") /\ UNCHANGED ctx
    /\ UNCHANGED <<userInfo, creds, gui, app, history>>

(* The ends of AsyncLogin and of AsyncLoginWithStoredCreds.                *)
AsyncLogin(i, ui) == SetCredentials(req[i].who) /\ userInfo' = ui /\ Fulfil(i, "ok")

AsyncLoginWithStoredCreds(i, ui) == userInfo' = ui /\ Fulfil(i, "ok") /\ UNCHANGED creds

GetsUserInfo(i, ui) ==
    \/ req[i].op = "login" /\ AsyncLogin(i, ui)
    \/ req[i].op = "quiet" /\ AsyncLoginWithStoredCreds(i, ui)

(* GetUserInfo is asked with the token that is there by now.  Without one  *)
(* it answers at once with a user who is not logged in.                    *)
AskUserInfo(i) ==
    /\ Answers(i, {"login", "quiet"}, "hasCtx")
    /\ \/ ctx # None /\ GoesTo(i, "info", ctx) /\ UNCHANGED <<userInfo, creds>>
       \/ ctx = None /\ GetsUserInfo(i, None)
    /\ UNCHANGED <<ctx, gui, app, history>>

(* The answer tells whose token it was; the token of the anonymous client *)
(* belongs to a user named "anonymous", whose status is LoggedAnonymous.  *)
UserInfoAnswer(i) ==
    /\ Answers(i, {"login", "quiet"}, "info")
    /\ \/ /\ ctx = None   \* m_loginCtx->UserId = ...
          /\ app' = "nullContext"
          /\ UNCHANGED <<userInfo, creds, req, trouble>>
       \/ /\ ctx # None
          /\ GetsUserInfo(i, req[i].token)
          /\ UNCHANGED <<app, trouble>>
       \/ /\ Fulfil(i, "failed")
          /\ HalfDone
          /\ UNCHANGED <<userInfo, creds, app>>
    /\ UNCHANGED <<ctx, gui, told>>

(* The end of CoreManager::AsyncLoginAnonymously ...                       *)
AsyncLoginAnonymously(i) ==
    /\ req[i].op = "anon"
    /\ \E result \in Done : Fulfil(i, result) /\ ctx' = IF result = "ok" THEN Anon ELSE ctx
    /\ UNCHANGED <<userInfo, trouble>>

(* ... and that of AsyncLogout.                                            *)
LoginAnonCallback(i) ==
    /\ req[i].op = "logout"
    /\ \/ Fulfil(i, "ok") /\ ctx' = Anon /\ userInfo' = Anon /\ UNCHANGED trouble
       \/ Fulfil(i, "failed") /\ HalfDone /\ UNCHANGED <<ctx, userInfo>>

AnonymousAnswer(i) ==
    /\ Answers(i, {"anon"}, "post") \/ Answers(i, {"logout"}, "anon")
    /\ AsyncLoginAnonymously(i) \/ LoginAnonCallback(i)
    /\ UNCHANGED <<creds, gui, app, told>>

(* The first half of AsyncLogout.                                          *)
LogoutCallback == userInfo' = None /\ ClearCredentials

(* Without the anonymous login after it. *)
LogoutAnswerAtOnce(i) ==
    /\ Answers(i, {"logout"}, "post")
    /\ \/ ctx' = None /\ LogoutCallback /\ Fulfil(i, "ok")
       \/ Fulfil(i, "failed") /\ UNCHANGED <<ctx, userInfo, creds>>
    /\ UNCHANGED <<gui, app, history>>

LogoutAnswer(i) ==
    /\ Answers(i, {"logout"}, "post")
    /\ \/ ctx' = None /\ LogoutCallback /\ GoesTo(i, "anon", None)
       \/ Fulfil(i, "failed") /\ UNCHANGED <<ctx, userInfo, creds>>
    /\ UNCHANGED <<gui, app, history>>

(* AsyncSignUp and AsyncResetPassword change nothing here. *)
AccountDone(i) == \E result \in Done : Fulfil(i, result)

AccountAnswer(i) ==
    /\ Answers(i, OtherModes, "post") /\ AccountDone(i)
    /\ UNCHANGED <<ctx, userInfo, creds, gui, app, history>>

Answer(i) ==
    \/ LoginAnswer(i) \/ AskUserInfo(i) \/ UserInfoAnswer(i)
    \/ AnonymousAnswer(i) \/ LogoutAnswer(i) \/ AccountAnswer(i)

-------------------------------------------------------------------------------
(* The main window.                                                        *)

core == <<ctx, userInfo, creds>>

(* The first activation logs in with the stored credentials, if any. *)
OnActivate ==
    /\ app = "new"
    /\ app' = "running"
    /\ PostInto(req, LET quiet == Request("quiet", GetCredentials, Main, TRUE)
                     IN  IF GetCredentials = None THEN [quiet EXCEPT !.step = "failed"] ELSE quiet)
    /\ UNCHANGED <<core, gui>>

NewDialog(first) == [first |-> first, mode |-> "SignIn", ended |-> FALSE]

(* The last dialog has ended, but its ShowModal has not returned yet. *)
Returning == dialogs # <<>> /\ dialogs[Len(dialogs)].ended

(* The login button, out of reach while a dialog is up. *)
OnLogin ==
    /\ app = "running" /\ dialogs = <<>>
    /\ IF header \in Users
       THEN /\ IF ctx = None   \* AsyncLogout calls back at once
               THEN /\ LogoutCallback
                    /\ PostInto(req, [Request("logout", None, Main, FALSE) EXCEPT !.step = "anon"])
               ELSE /\ PostInto(req, Request("logout", None, Main, FALSE))
                    /\ UNCHANGED <<userInfo, creds>>
            /\ UNCHANGED dialogs
       ELSE /\ dialogs' = <<NewDialog(FALSE)>>
            /\ UNCHANGED <<userInfo, creds, req, history>>
    /\ UNCHANGED <<ctx, loginUi, header, offices, app>>

(* Login(false). *)
OnLoginUiNotFirst ==
    /\ app = "running" /\ loginUi /\ ~Returning
    /\ loginUi' = FALSE
    /\ dialogs' = Append(dialogs, NewDialog(FALSE))
    /\ UNCHANGED <<core, req, header, offices, app, history>>

(* The posted event is handled in the modal loop of a dialog, too. *)
OnLoginUi ==
    /\ app = "running" /\ loginUi /\ ~Returning
    /\ loginUi' = FALSE
    /\ dialogs' = Append(dialogs, NewDialog(TRUE))
    /\ UNCHANGED <<core, req, header, offices, app, history>>

(* OnIdle of the main window, which runs inside the dialogs' loops, too.   *)
(* IsReady waits 50 ms, so results may be taken in any order.              *)
Retrieve(i) ==
    /\ app = "running" /\ ~Returning
    /\ req[i].owner = Main /\ req[i].step \in Done
    /\ req' = [req EXCEPT ![i] = NoRequest]
    /\ CASE req[i].op = "quiet" /\ req[i].step = "ok" ->
                AfterLogin(TRUE) /\ UNCHANGED <<loginUi, told>>
         [] req[i].op = "quiet" /\ req[i].step = "failed" ->
                loginUi' = TRUE /\ UNCHANGED <<header, offices, app, told>>
         [] req[i].op # "quiet" /\ req[i].step = "ok" ->
                /\ header' = Anon
                /\ offices' = IF req[i].first THEN "posted" ELSE offices
                /\ told' = (told \/ (req[i].op = "logout" /\ trouble # "overlapped"))
                /\ UNCHANGED <<loginUi, app>>
         [] req[i].op # "quiet" /\ req[i].step = "failed" ->
                /\ offices' = IF req[i].first THEN "failed" ELSE offices
                /\ UNCHANGED <<loginUi, header, app, told>>
    /\ UNCHANGED <<core, dialogs, trouble>>

-------------------------------------------------------------------------------
(* DlgLogin.                                                               *)

OnTop == app = "running" /\ dialogs # <<>> /\ ~Returning
Top == dialogs[Len(dialogs)]

OnHyperlinkClick(mode) ==
    /\ OnTop
    /\ IF Top.mode = "SignIn" THEN mode # "SignIn" ELSE mode = "SignIn"
    /\ dialogs' = [dialogs EXCEPT ![Len(dialogs)].mode = mode]
    /\ UNCHANGED <<core, req, loginUi, header, offices, app, history>>

(* Apply with valid fields; with others nothing happens. *)
OnApply(user) ==
    /\ OnTop
    /\ PostInto(req, IF Top.mode = "SignIn" THEN Request("login", user, Len(dialogs), FALSE)
                     ELSE Request(Top.mode, None, Len(dialogs), FALSE))
    /\ UNCHANGED <<core, gui, app>>

(* A dialog goes away with its queue; answers under way go on. *)
Closed(d) ==
    [i \in Slots |-> IF req[i].owner # d THEN req[i]
                     ELSE IF req[i].step \in Done THEN NoRequest
                     ELSE [req[i] EXCEPT !.owner = Nobody]]

OnSkip ==
    /\ OnTop /\ Top.mode = "SignIn"
    /\ dialogs' = SubSeq(dialogs, 1, Len(dialogs) - 1)
    /\ PostInto(Closed(Len(dialogs)), Request("anon", None, Main, Top.first))
    /\ UNCHANGED <<core, loginUi, header, offices, app>>

(* OnIdle of a dialog: the first successful login ends it.  ShowModal of   *)
(* an outer dialog returns only after that of the inner one.               *)
RetrieveInDialog(i) ==
    LET d == req[i].owner IN
    /\ OnTop /\ d \in 1..Len(dialogs) /\ req[i].step \in Done
    /\ IF req[i].op = "login" /\ req[i].step = "ok"
       THEN IF d = Len(dialogs)
            THEN /\ req' = Closed(d)
                 /\ dialogs' = SubSeq(dialogs, 1, d - 1)
                 /\ AfterLogin(dialogs[d].first)
            ELSE /\ req' = [req EXCEPT ![i] = NoRequest]
                 /\ dialogs' = [dialogs EXCEPT ![d].ended = TRUE]
                 /\ UNCHANGED <<header, offices, app>>
       ELSE /\ req' = [req EXCEPT ![i] = NoRequest]
            /\ UNCHANGED <<dialogs, header, offices, app>>
    /\ UNCHANGED <<core, loginUi, history>>

OuterReturns ==
    /\ app = "running" /\ Returning
    /\ req' = Closed(1)
    /\ dialogs' = <<>>
    /\ AfterLogin(dialogs[1].first)
    /\ UNCHANGED <<core, loginUi, history>>

-------------------------------------------------------------------------------
(* The process ends at any moment, also while SetCredentials has truncated *)
(* the file and not yet written it, and is started again.                  *)
Saving == \E i \in Slots : Answers(i, {"login"}, "info") \/ Answers(i, {"login"}, "hasCtx")

Restart ==
    /\ creds' \in {creds} \cup (IF Saving THEN {Torn} ELSE {})
    /\ ctx' = None /\ userInfo' = None /\ header' = None
    /\ req' = [i \in Slots |-> NoRequest]
    /\ dialogs' = <<>> /\ loginUi' = FALSE /\ offices' = "no" /\ app' = "new"
    /\ trouble' = "none" /\ UNCHANGED told

UserStep ==
    \/ OnActivate \/ OnLogin \/ OnSkip \/ Restart
    \/ \E mode \in Modes : OnHyperlinkClick(mode)
    \/ \E user \in Users : OnApply(user)

Next ==
    \/ UserStep \/ OnLoginUi \/ OuterReturns
    \/ \E i \in Slots : Answer(i) \/ Retrieve(i) \/ RetrieveInDialog(i)

Spec == Init /\ [][Next]_vars

(* The server answers or the connection fails, and an idle window polls.   *)
(* Users owe nothing.                                                      *)
FairSpec ==
    /\ Spec
    /\ WF_vars(OnLoginUi) /\ WF_vars(OuterReturns)
    /\ \A i \in Slots : WF_vars(Answer(i)) /\ WF_vars(Retrieve(i)) /\ WF_vars(RetrieveInDialog(i))
-------------------------------------------------------------------------------
(* Properties.                                                             *)

Settled == app = "running" /\ ~EndedUnread /\ \A i \in Slots : req[i] = NoRequest

(* When nothing is under way the header tells whose token the client       *)
(* holds, unless two session requests were outstanding together or one     *)
(* failed half way (login without user info, logout without anonymous      *)
(* login).                                                                 *)
HeaderTrue ==
    Settled /\ header # None /\ trouble = "none" => header = ctx

(* One session request at a time never aborts the program ("Wrong user     *)
(* info after login") and never dereferences a context that a logout has   *)
(* reset.                                                                  *)
DiesOnlyIfOverlapped ==
    app \in {"fatal", "nullContext"} => trouble = "overlapped"

(* A user who was told that he is logged out is not logged in again by the *)
(* next start: his password is gone, whatever failed or crashed meanwhile. *)
LogoutForgets == told => GetCredentials = None

(* After the first activation the offices are loaded sooner or later,      *)
(* unless a login dialog waits for the user, the anonymous login failed    *)
(* (then they never are), or the program has ended.                        *)
FirstLoginEnds ==
    (app = "running" /\ offices = "no") ~>
        (offices # "no" \/ app # "running" \/ \E d \in 1..Len(dialogs) : dialogs[d].first)

-------------------------------------------------------------------------------
(* Why they hold: what every step preserves.                               *)

Alone == trouble # "overlapped"
LoginOps == {"login", "quiet"}

(* The quiet login of the first activation is the only one, and asks for a *)
(* dialog at most once: two dialogs at most, the outer of which may end    *)
(* first.                                                                  *)
DialogInv ==
    /\ app = "new" => ~loginUi /\ dialogs = <<>> /\ \A i \in Slots : req[i] = NoRequest
    /\ \A i \in Slots : req[i].op = "quiet" => ~loginUi /\ \A j \in Slots \ {i} : req[j].op # "quiet"
    /\ (loginUi \/ \E i \in Slots : req[i].op = "quiet") => Len(dialogs) <= 1
    /\ Len(dialogs) = 2 => ~dialogs[2].ended

(* What a queue is given, and who a login is for.                          *)
RequestInv ==
    \A i \in Slots :
        /\ req[i].op = "none" => req[i] = NoRequest
        /\ req[i].owner = Main <=> req[i].op \in SessionOps \ {"login"}
        /\ req[i].op \in LoginOps /\ req[i].step \notin Done => req[i].who \in Users

(* One request at a time; nobody forgets it, and a login in an outer       *)
(* dialog stays the last word until the dialog returns.                    *)
AloneInv ==
    Alone =>
        /\ \A i, j \in Slots : Outstanding(i) /\ Outstanding(j) => i = j
        /\ \A i \in Slots : Outstanding(i) => req[i].owner # Nobody /\ ~EndedUnread
        /\ EndedUnread => userInfo = ctx /\ ctx \in Users

(* How far it is.                                                          *)
Progress(r) ==
    /\ r.op \in LoginOps =>
          /\ r.step \in {"hasCtx", "info"} => ctx = r.who
          /\ r.step = "info" => r.token = ctx
          /\ r.step = "ok" => userInfo = ctx /\ ctx \in Users
    /\ r.op \in {"anon", "logout"} /\ r.step = "ok" => ctx = Anon
    /\ r.op = "logout" /\ r.step \in {"anon", "ok"} => creds \notin Users

StepInv == Alone => \A i \in Slots : Progress(req[i])

(* The header waits for the answer only while one is under way.            *)
HeaderInv ==
    (trouble = "none" /\ ~EndedUnread
       /\ \A i \in Slots : Outstanding(i) => req[i].step \in {"post", "failed"})
    => header \in {None, ctx}

ToldInv ==
    told => Alone /\ creds \notin Users /\ \A i \in Slots : req[i].op # "login"

IInv ==
    /\ TypeOK /\ DialogInv /\ RequestInv /\ AloneInv /\ StepInv /\ HeaderInv /\ ToldInv
    /\ DiesOnlyIfOverlapped
===============================================================================
