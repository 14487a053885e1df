# Verification of CustomerPrintClient

CustomerPrintClient is a desktop program that renders documents page by page,
uploads the pages to a print server over HTTP and follows the job until the
server knows it is complete. Around that it keeps a user logged in, shows print
offices on a map and a preview of the document, lists the jobs of the server and
updates itself. This directory holds TLA+ models of it, the TLC runs that check
them and the TLAPS proofs about its core. Paths below are relative to the
repository (`src/src/...` is first-party code).

## 1. The system

| Component | State | Operations | Talks to |
|---|---|---|---|
| JobProcessor (`CustomerPrintClientCore/JobProcessor.cpp`) | `m_pendingJobs` (flag `Cancelling`, `CurrentHttpRequestId`), per job an `UploadPagesContext` and a promise | `RenderAndUpload`, `CancelPendingJob`, `CancelAllPendingJobs`, the callbacks of create / upload / complete / get / cancel | render queue, CloudPrintClient, GUI progress events |
| Render queue (same file) | `m_queue`, `m_cv`, `m_cvMutex`, `m_queueMutex`, `m_isClosing`, `m_thread` | `Render`, `RenderLoop`, destructor | JobProcessor's tasks and callbacks |
| CloudPrintClient | `m_loginCtx` | one method per REST call; each turns a response into a result or an exception and calls back | HttpClientMT |
| HttpClientMT (`Networking/Http`) | `m_activeSessions`, `m_socketPool`, sessions, `m_closing`, io threads | `PostRequest`, `CancelRequest`, the asio handlers, `ThreadLoop`, destructor | asio, the server |
| HttpRequest / HttpResponse / HttpContent | a request's id, headers, body | construction, serialisation, `GetContentLength` | HttpClientMT |
| CoreManager | `m_userInfo`, `m_printOffices`, `m_selectedOffice` | login, logout, office search and selection, printing, updates; owns the objects above | all of the core, from the GUI and the io threads |
| UpdateClient, BinaryVersion | own HttpClientMT with one thread | list and download installers | update server |
| Config, CredentialsCache | files | load, save, set, clear | CoreManager; what is on disk survives a crash |
| PrintOffice, PrintProfile, PrintJobInfo | records, the profile selected for an office | parse JSON, select a profile, compare | CoreManager, GUI |
| AsyncResultQueue | list of futures and callbacks, `m_asyncResultMutex` | store, poll on idle | MainWindow and each DlgLogin have one |
| MainWindow, DlgLogin | header and login mode, `m_closeOnLastJobDestroyed`, `m_processingCheckUpdate` | menu, tray and idle handlers, job events (some on other threads) | CoreManager |
| Jobs page | cards of pending and known jobs, `m_pendingCount`, `m_jobs` | create, update, replace, delete, `UpdateContent` | MainWindow |
| Print page | preview panel: an office object, a renderer with a profile, a canvas with another and a cache of bitmaps | GUI handlers, painting | CoreManager, Printing |
| Map page | the offices placed, office cards | clicks | MainWindow |
| Printing | documents, renderers | `GetPageCount`, `RenderForPreview`, `RenderForPrinting` | GDI+, PDFium |
| jsonxx | | parse, write | Config, all answers of servers |
| HttpClient (unused), wxWidgets, boost, test applications | | | |

Threads: the GUI thread; one render thread; two io threads of the print
server's HttpClientMT; one io thread per UpdateClient. Callbacks of a request
run on any io thread, with no lock held; they fulfil a promise, and the GUI
thread polls its future when idle and runs a second callback, under
`m_asyncResultMutex`. Modal dialogs run event loops of their own, idle handlers
included. The first callback of a job runs on the render thread; without a login
a request calls back on the thread that posts it.

### What makes it correct, and what is hard

* A job ends once, and the user is told the truth: complete only if the server
  has every page and the order to print; canceled only if asked for; a job is
  withdrawn only if asked for. Hard because the cancel arrives on another
  thread at any moment, because a request may be retried after it was executed
  or arrive after it was given up, and because the id under which a request can
  be canceled is registered *after* the request was posted, when its callback
  may already have posted the next one elsewhere.
* Documents are rendered in order, and none is forgotten. Hard because the
  queue and the condition variable have different mutexes.
* Each request's callback runs exactly once. Hard because failing sessions are
  found again by an id that is the *second* in which the request was created.
  No two sessions use one socket, and the pool is bounded.
* The header, the token requests are sent with, the user info and the stored
  credentials are about the same user. Hard because each of them is written by
  another callback, and logging in and out are two requests each.
* What is printed is what the preview shows. Hard because an office is an
  object that an answer may replace while references to it are held.
* The list shows each job once, on its own card. Hard because cards are found by
  counting, and lists arrive late and out of order.
* The program closes when it was asked to, and not before its jobs have ended.
  Hard because the last job is destroyed on another thread, while a question may
  be open.
* What was on disk when the program died is understood by the next start.

`PROJECT.json` lists the hazards one by one, with the line and the properties.

## 2. The modules

| Module | Models |
|---|---|
| `PrintJob` | abstract: what JobProcessor promises for a job |
| `HttpContract` | abstract: what HttpClientMT promises to its users |
| `JobProcessor`, `JobProcessorMC` | the chain of every job, the pending list, cancellation; uses `HttpContract` for its requests; refines `PrintJob` |
| `RenderQueue` | the queue, condition variable, render loop and destructor |
| `HttpClientMT`, `HttpClientMC` | sessions, handlers, pool, retry, cancellation, destructor; refines `HttpContract` |
| `Session` | login, logout, credentials file, header, login dialogs |
| `Offices`, `OfficesMC` | searches for offices, selection, preview, configuration |
| `JobsPage` | cards, lists of jobs, results |
| `Desktop` | closing, jobs' destruction, updates, dialogs, `m_asyncResultMutex` |
| `Json`, `HttpMessage`, `Layout`, `Canvas`, `Updates` | pure: files, the bytes of an exchange, rectangles, the preview's cache, the choice of an installer |
| `Conversions`, `ConversionsMC` | what `HttpMessage`, `Layout`, `Canvas` and `Updates` are for: the inputs as constants, the properties; bounded inputs |
| `FilesMC` | what `Json` is for, over bounded files; `ConversionsMC` takes it in |
| `JobProcessorProofs`, `RenderQueueProofs`, `HttpClientMTProofs`, `SessionProofs`, `OfficesProofs`, `JobsPageProofs`, `DesktopProofs`, `ConversionsProofs` | theorems about the module of that name, with the lemmas they rest on |

The layers of printing meet in `HttpContract`: `HttpClientMT` is shown to
implement it, and the actions of `JobProcessor` are built from its actions
(`Http!Post`, `Http!Cancel`, `Http!Retry`, ...) rather than from a network. The
GUI's modules have requests that end either way, in any order, for the same
reason. `Canvas` extends `Layout`, so the cache is about real rectangles.

### JobProcessor

A job's chain is in one place at a time:

| `pc` | In the code |
|---|---|
| `new`, `queued` | before `RenderAndUpload`; its task waits for the render thread |
| `checkPage`, `renderPage` | head and body of the loop in `renderTask` |
| `check` | the `IsJobCanceling` before a request |
| `clearId` | `SetPendingJobHttpCancelId(id, 0)` in `CancelServerJob` |
| `post` | the call of `AsyncCreateJob`, ..., `AsyncCancelJob` |
| `wait` | the request is outstanding |
| `done` | the promise is set |

`step` says which request it is about and `owner` which thread runs the chain.
A thread that has posted is not done: it registers the request's id, maybe much
later; this is `tail[t]`. Request ids are seconds, so the next request of a job
has the same id or a later one (`Post` chooses); `CancelPendingJob` aborts the
outstanding request only if the registered id is equal to its id. The
destruction of a `PendingJob` (`DestroyJob`) waits for the tails, which hold
references to it.

The server is external, modelled from the requests the client sends: it may
accept, refuse, or accept and answer with something the client cannot use;
a request the client gave up may still be executed later (`stray`). A job whose
creation the client gave up is out of its reach and no longer the job `srv` is
about (`Abandon`). `ChangeLogin` lets the login context appear and disappear at
any time; `Session` has the reasons. History variables: `lateWork` and `lateId`.

### RenderQueue

One action per atomic step of the two threads. `CheckQueue` is the predicate of
`m_cv.wait` (it takes the whole queue under `m_queueMutex`), `Block` is the
moment the thread goes to sleep; a notification between the two wakes nobody
and is remembered only in the history variable `lost`. Waking without reason is
allowed, and nothing counts on it.

### HttpClientMT

A session is a try of a request. `stage` is the asio operation outstanding for
it; a handler is an action of whichever thread `Takes` it. `HandleResolve` and
`Connect` are separate because `Cancel` is empty in between. `aborting` is a
cancellation that the current operation will report: it is lost when the next
operation begins and is reported as an ordinary error while the body is read,
as in the code. `ThreadLoop`'s catch block is three steps (look-up, decision,
callback), with no lock held between them. Connecting includes the handshake of
the Https client, which is an operation of its own in the code
(`async_handshake`) but fails and is canceled as connecting does; sending and
reading the status line and the headers are one stage, `exchange`, for the same
reason. A
failed session keeps no socket. How the end of a body is found is
`HttpMessage!ReadContent`.

`IdOf` gives every request its id. `KeepsContract` and `PostedIsAnswered` are
checked with distinct ids. With equal ids they do not hold: the second session
is not inserted, and a failure finds the wrong session or none. The run
`http_same_second` checks what is left. `JobProcessor` is built on
`HttpContract`, so its results carry this **assumption**: requests outstanding
at the same time (of different jobs, or of the other users of
CloudPrintClient) were not created in the same second. Requests of one job
follow each other, and there equal ids are modelled.

### Session

A request goes through `step`s: an answer that posts the next request is one
action (`LoginAnswer`), the next answer another, reading the result a third
(`Retrieve`, `RetrieveInDialog`). `AskUserInfo` takes the token that is there
when the request is built. `owner` is the queue the result goes to: that of the
main window, of a dialog, or of nobody once the dialog is gone. Dialogs nest:
the posted event that opens the first login is handled inside the loop of one
that is open. `Restart` ends the process at any moment, also while the
credentials are written, and starts it again; `creds` stays, and so does `told`.
Two histories say when the parts may disagree: `trouble` is `overlapped` once a
request was posted while another was outstanding, and `halfDone` once one failed
after its first half had taken effect.

### Offices

An office of `m_printOffices` is a numbered object, so that `selectedOffice`
(what `AsyncRunPrinting` uses) and `preview` (what the panel shows) may refer to
different objects of the same office. `SearchAnswer` runs on an io thread and
puts new objects in the map, whose profile is the first; `Retrieve` is the
callback in the GUI, which at the start selects the office of the last run.
`config` is the file. `init` covers the two orders in which the login and the
map may be ready. Which offices lie in a view port is not modelled: an answer
may name any that are not excluded.

### JobsPage

`cards` are the items of the sizer in order, `pendingCount` and `jobs` what the
page keeps. `UpdateContent` is one action, with its pairing of known jobs and
items by position, and with `DeletePendingJob` before it where the request came
from "Close"; its parts have names: `Erased`, `Changed` and `Added` compare the
list with the known jobs, `Now` and `Updated` are the jobs and the cards brought
up to date, `At` picks the places that stay. Requests are answered and read in any order; a list is that of the
moment the server answered.

### Desktop

A job is `pending`, then `removed` from the list, then its destructor tests the
flag and the count (`OnJobDestroy`) and, one step later, closes the window:
three steps on a thread that is not the GUI's. `modal` is the stack of open
dialogs, each with whether it was opened under `m_asyncResultMutex`; locking a
mutex its thread holds is undefined, so `Relock` either goes on or is `stuck`.
An update goes through `stage`s; `CheckForUpdates` may start a second one when a
day has passed.

### Json, HttpMessage, Layout, Canvas, Updates

Operators, not state machines. `Json` parses with jsonxx's partial results (an
object keeps what it read before it failed), and `Torn` gives the prefixes a
crash may leave. `HttpMessage` counts bytes; a stream that inserts nothing sets
failbit. `Layout` has wxRect's arithmetic, and the renderers' as exact fractions
of the page. The canvas lays pages out from papers in hundredths of a
millimetre; the renderers get the whole millimetres (`ConvertPrintProfile`),
215 by 279 for Letter's 21590 by 27940. `Canvas` takes a canvas to what it is after a handler: `OnPaint`
renders what is missing, `OnScroll` drops what was not in view before the scroll,
every layout drops all. `Updates` reads and sorts a list with a comparison that
is no order: every result of the sort is considered.

`Conversions` makes a specification of the last four: each step picks one input
from the sets the constants give, and a preview is an input that goes on to be
painted, scrolled, resized and given other profiles and settings. Its invariants
say what the code does with an input. `FilesMC` has inputs and properties for
`Json`; they join the others in `ConversionsMC`, not in `Conversions`, since no
theorem can be about a module that reaches recursive operators.

## 3. The runs

| Run | Instance | Shows |
|---|---|---|
| `job_one` | 1 job, 2 pages, 2 io threads, 2 tries, log-outs | the safety properties, and `KeepsPromise` (implements `PrintJob`) |
| `job_blank` | a job of 1 page and one of none, 1 io thread, 2 tries | every started job ends and leaves the list |
| `job_empty_list` | as `job_blank`, 1 try | violation, see Findings |
| `render_queue` | 3 jobs | order, sleep, closing |
| `http_contract` | 2 requests, 2 threads, 2 sockets, 2 tries, own ids | implements `HttpContract` |
| `http_same_second` | 2 requests, 1 thread, 3 sockets, same id | what survives a shared id; sockets and pool |
| `http_live` | 2 requests, 1 thread, own ids | every request is answered |
| `session` | 2 accounts, 2 requests, 2 nested dialogs, restarts | token, header, credentials; the first login ends |
| `offices` | 2 offices, one with two profiles, 4 objects, 2 searches | what is printed, shown and saved |
| `jobs_page` | 2 pending jobs, 1 old one, 2 lists, 1 change | cards and jobs |
| `desktop` | 2 jobs, 2 updates, 2 nested dialogs | closing, the menu, the mutex |
| `conversions` | the inputs of `ConversionsMC`, the files of `FilesMC` cut off anywhere | lengths, places, pages painted, bitmaps and updates against what they are for; what the next start reads |

**Why the bounds are enough.** Two pages are the least with a first, a next and
a last upload, so `UploadNextPage` goes round; two io threads are the least for
a callback to overtake the thread that posted its request (the render thread
overtakes nobody after the first request). Two tries are what the code has
(`Retry = 1`). Two jobs are needed for one chain to wait for a thread taken by
another. Three pushes let one job be running, one in the batch and one on the
queue. Two requests are the least that can meet on a socket or an id; one
thread with two requests fills and trims a pool of one (with more threads the
pool would never be full; `SocketsAreKept` is proved for any number of them). In `session` two
requests and two accounts are the least that can be confused. In `offices` the
second office lacks the first one's profile, so a saved profile may not be
offered; the objects suffice for both offices, the selection and the preview to
be four different ones (the assumption of the module). In `jobs_page` two
pending cards make places shift, one known job is misplaced beside them, and two
lists arrive out of order; one change is enough, since cards are compared, not
counted. In `desktop` a second job can be printed after the question, a second
check started beside the first. `conversions` has views of every height around
that of a page, papers of ratio 2:3, 3:2, 1:1 and 9:2, so that the integer
division is exact, small and far off, papers with fractions of a millimetre
(a tenth of Letter among them) that the renderers do not see, answers around the one-digit lengths, and a
window of 60 by 12 pixels, in which nothing may be in view; the files are
cut at every lexeme and inside numbers, over values nested once.
Bounds in the guards: `Slots`, `MaxRequests`, `MaxChanges`, `MaxModal`; ids of a
job's requests grow by at most one per request.

**`SYMMETRY`.** Threads and sockets are interchangeable in `http_contract` and
`http_same_second`, which check no liveness. Deadlock is not checked where the
system may stop for good: after the destructor, when all requests are over, or
when the program has ended.

**Fairness.** Threads run what they have to run. `AnswerStep` and `HandlerStep`
being fair means that every network operation ends, in success or error: the
client has no timeout, so this is an assumption about the network (TCP) and is
listed as a hazard. Nothing is assumed of the user, the login, the server's
answers or of spurious wakeups. Taking a job from the render queue is not fair
in `JobProcessor`, because a wakeup may be lost (`RenderQueue`), so
`StartedJobsFinish` speaks of jobs whose task has started. In `RenderQueue`
both threads continue what they have begun; pushes and closing are free. In
`Session` answers come and the idle handler reads them; in `Desktop` destructors
run to their end and pending jobs are destroyed, which is what
`StartedJobsFinish` shows.

**What the properties say that one would not expect.**

* `CancelStopsWork`: a cancel is followed by at most one page or request.
  `DeleteAbortedOnlyIfLate`: a second cancel can hit the client's own DELETE only
  through a late registration of an id of the same second.
* `SleepsOnlyIfLost`, `PushedIsStarted`, `CloseEnds`: a lost notification is
  possible, and it is the *only* way for a document to stay behind or for the
  destructor to hang in `join`; the next push repairs the former.
* `HeaderTrue`, `DiesOnlyIfOverlapped`: one session request at a time is safe.
  Two at once can leave the header with another user than the token's, end with
  "Wrong user info after login", or dereference a context that is gone.
  `LogoutForgets` holds through crashes. `FirstLoginEnds`: if the anonymous login
  after a skipped dialog fails, the offices are never loaded.
* `PrintsWhatIsShown`, `DiesOnlyIfInitLate`: an office selected before the first
  search is answered is deselected, or replaced, by that answer; printing then
  throws. `ConfigTrue`: a restored profile is in memory only, the file names the
  first profile until another is chosen. `ReplacedOnlyIfOverlapped`: the profile
  selected for an office is lost when two searches find the office.
* `CardsTrue`, `DiesOnlyBesidePending`: a list with a job changed or gone, applied
  beside pending cards, updates or deletes a neighbour's card or uses a null
  window; without pending cards it never does.
* `ClosesAsAsked`: the window closes if a job was pending when the question was
  answered; if the last one ended while the question was open, nobody closes it.
  `StuckOnlyIfLaunched`: the question after an installer was launched is asked
  under the mutex.
* `SelectionSurvives`: no torn file mixes two offices. `LengthAnnounced`: an
  empty part cuts a body short. `ContentFramed`: lengths of one digit are not
  read. `PreviewIsPrint`: a PDF or a stretched image lies elsewhere in print
  than in the preview if the paper loses its proportions with the fractions of
  its millimetres, as Letter does and A4 does not; a stretched image also if
  its ratio lies between the page's and the integer part of that. `CacheTrue`:
  bitmaps are stale only after an office with a profile of the same id was
  selected; in a window of less than 30 rows they may also outlive two scrolls.
  `UpdateChosen`: a newer installer may be missed if the one before it
  in the list asks for the same Windows.
* `DiesOnlyInResolve`: the destructor of `HttpClientMT` calls an empty `Cancel`,
  and the exception ends the program, only inside `HandleResolve`; no failure,
  retry or shared id leaves a session in the map without one.

In all of these the exception is part of the property, named by a history
variable or by the input, so that TLC would find any other. Two exceptions are
themselves what goes wrong: an office object replaced under the preview
(`doubled` in `Offices`) and cards paired with a neighbour's job (`shifted` in
`JobsPage`) do happen in the code; the properties say that nothing else has
their effects.

**Findings.** `job_empty_list`: the comment at `JobProcessor.cpp:213` takes an
empty list of streams for a cancellation; a document without pages gives one
too (a PDF of which no page is available, `PdfDocument.cpp:278`), and its user
is told "Canceled".

Every property of a passing run has a mutant: an operator, next to the
definition it replaces and described there as a mistake, with which TLC finds
the property violated. The type invariants (`TypeOK`) state the types of the
variables and are in no run; each is a conjunct of the inductive invariant that
is proved of its module.

## 4. The proofs

Every invariant and every action property, but for the two about files, is
proved for all values of the constants, and so are the two refinements. The
modules of theorems about state machines have the same form: a lemma that the
initial states satisfy `IInv`, one lemma for each part of `IInv` or for each
action, a lemma that puts the steps together, and theorems `Spec => []Property`
that follow. `IInv` is defined at the end of the module it is about, after the
properties; TLC has checked it on the instance of section 3 before it was proved.
`ConversionsProofs` has lemmas about the operators first and a theorem for each
property after the lemmas it needs.

| Theorem | Property |
|---|---|
| `JobProcessorProofs` `TypeCorrect`, `Invariant` | `TypeOK`, `IInv` |
| `CompleteCorrect`, `CanceledCorrect`, `CancelCorrect`, `DeleteCorrect` | the safety properties of `job_one` |
| `WithdrawnCorrect` | the server is told to delete a job only if somebody asked to cancel it |
| `Refinement` | `KeepsPromise`: every step is a step of `PrintJob` or stutters |
| `RenderQueueProofs` `SleepsCorrect`, `OrderCorrect`, `CloseStopsJobs` | `SleepsOnlyIfLost`, `InOrderOnce`, `NothingPassesAfterCancel` |
| `HttpClientMTProofs` `SocketsAreKept`, `CancelsOnlyIfAsked` | `SocketsKept`, `CanceledIfAsked`, whatever ids are shared |
| `DestroyedOnlyInResolve` | `DiesOnlyInResolve`, whatever ids are shared |
| `ContractIsKept` | `KeepsContract`: with distinct ids every step is a step of `HttpContract` or stutters |
| `SessionProofs` `HeaderIsTrue`, `OneRequestIsSafe`, `LogoutIsKept` | `HeaderTrue`, `DiesOnlyIfOverlapped`, `LogoutForgets` |
| `OfficesProofs` `ShownIsPrinted`, `DeathNeedsLateSearch`, `ConfigIsTrue`, `ObjectsStay` | `PrintsWhatIsShown`, `DiesOnlyIfInitLate`, `ConfigTrue`, `ReplacedOnlyIfOverlapped` |
| `JobsPageProofs` `PageInvariant`, `PageIsTrue`, `NoJobIsShownTwice`, `NoCompleteJobIsPending`, `DeathNeedsPending` | `IInv`, `CardsTrue`, `JobsShownOnce`, `CompleteIsShown`, `DiesOnlyBesidePending` |
| `DesktopProofs` `JobsOutliveTheWindow`, `MenuIsTrue`, `RelockNeedsLaunch` | `ClosesWithoutJobs`, `ProcessingTrue`, `StuckOnlyIfLaunched` |
| `ConversionsProofs` `LengthsAreAnnounced`, `AnswersAreFramed` | `LengthAnnounced`, `ContentFramed`: any parts, any lengths |
| `VisiblePagesAreDrawn`, `PreviewsArePrints` | `VisibleDrawn`, `PreviewIsPrint`: any document, window and position, any paper of a millimetre at least |
| `CacheIsTrue` | `CacheTrue`: any use of a preview |
| `UpdatesAreChosen` | `UpdateChosen`: any list, any result of the sort |

### Why the invariants are needed

**JobProcessor.** "Complete is true" needs to know what the server has at each
point of the chain, what the current try was answered and which given-up
requests may still arrive. `ChainInv`: a request is outstanding exactly while
the chain waits, the promise is set exactly at its end. `AskedInv`: whatever
serves a cancellation was asked for. `LateInv`: after late work the chain is
never past a check again. `IdInv`: a cleared id stays cleared but for late
registrations. `ServerInv`: pages and state of the job on the server, by step,
with the late requests that are still harmless. For the refinement,
`OrderOfState` relates `srv` and `got` to the abstract order, and `ResolveStep`,
`ServerStep` and `AbandonStep` treat the steps that are not stuttering.

**RenderQueue.** `SleepsCorrect` rests on `DozesOnlyIfLost`, the same statement
strengthened to the moment before the thread blocks. `InOrderOnce` counts the
jobs rendered, held and waiting; it needs that the empty job of the destructor
is pushed once and last (`EndsInv`), so that whatever `StartJob` takes from the
batch is a job, and that a batch is only held while it is worked on
(`BatchInv`). `CancelInv` says that after `CancelAllPendingJobs` every job pushed
is canceled, nothing being pushed after it.

**HttpClientMT.** Without assuming anything of the ids, a socket is exclusive
because a session on one has one (`SocketInv`), and a cancellation can always be
traced to somebody who named its id (`CancelInv`, with `ActiveInv`: the session
found under an id has that id). `DiesOnlyInResolve` follows from `CallableInv`: a
session that is found has a `Cancel`, or a thread is about to connect it. Distinct ids give much more (`DistinctInv`): of
the tries of a request exactly one is the last, all before it are over and its
callback has not run while it is not (`TryInv`); a thread that is busy with a
session is the only one (`BusyInv`), which is why the three unlocked steps of
`ThreadLoop`'s catch block do not call back twice; `FoundInv`, `ResultInv` and
`HandledInv` say what a cancellation, a response or an error that a thread
carries has to do with the server and with `Cancel`. `ContractIsKept` has the
distinct ids as its hypothesis (`IdsDistinct`); the run `http_same_second` shows
what fails without, and `JobProcessor` states where it relies on it.

**Session.** `AloneInv` and `StepInv` say what may be going on while no two
requests overlap: one outstanding request, whose progress says whose token,
user info and stored credentials there are; or a login of an outer dialog that
has ended and was not read yet. That needs to know which dialogs there can be
(`DialogInv`): the quiet login of the start is the only one and opens one
dialog, so that at most two nest. `HeaderInv` says when the header may wait for
an answer, `ToldInv` that no login is under way, and no user is stored, while a user was
told that he is logged out.

**Offices.** `ReferInv`: what is selected and what is shown are objects of an
office, and the ones in the map unless two searches found the same office.
`LateInv` and `PreviewInv`: unless the first search came late, the print page
has a selected office, the preview shows that office, and the combo box shows
the profile of the object. `OneSearchInv` is why the exception in
`ReplacedOnlyIfOverlapped` is the only one: a search on its own excludes all
that is known. That `SearchAnswer` always finds names for the new objects is a
lemma of its own (names enough: the map and two references are all that is held).

**JobsPage.** `UpdateContent` trusts positions, so most of the proof is about
lists: `NthIs` and the lemmas after it say that `At` keeps elements, order and
distinctness, so that the cards after an update are, in order, the pending ones,
the new ones and the known ones that stay. `LayoutInv` is the layout the code
counts on; `PendingInv` that a job has at most one pending card, printed from
here; `HeardInv` that a list names a job once, and only one of the old ones or
one printed; `OnceInv` and `ShownInv` are `JobsShownOnce` and `CardsTrue` in a
form that also says that no known job has a pending card; `ReadInv` ties pending
cards to results not read. After "Close" the sizer has one item less before the
list is compared: `ItemsGood` is what is then true of the items.

**Desktop.** `ClosingInv`: between the look at the list and the closing of the
window no job appears but one printed after the question. `DialogInv`: each open
dialog about an update is the only one about it, and the update is waiting for
it; without it a second dialog could finish the update of the first.
`LockedInv` and `OneCheckInv` do the same for the mutex and the checks.

**Conversions.** Five of the six properties are about one input, and their proofs
are about operators. `LengthAnnounced` compares two loops, the one that adds up
the length (`MultipartLengthIs`) and the one that writes (`SaveMultipartIs`);
both are recursive functions on the numbers up to the number of parts.
`LoopExists` shows that such a function exists, and `UpTo` is the induction over
it: a set that contains 0, and n when it contains n - 1, contains them all,
because otherwise there would be a least number outside. `MultipartAnnounced`
then says how far the two sums agree: up to the first empty part.
`VisibleDrawn` rests on the pages being stacked (`PageRectsIs`, `VisibleIs`): the
pages that do not end above the view and begin in it are then an interval.
`PreviewIsPrint` is arithmetic of fractions: equal proportions have equal
integer parts (`SameQuotient`), alignment follows from size (`AlignedSame`), and on
pages of the same proportions a stretched image differs exactly if the two
renderings choose different sides (`StretchedSame`). On pages of different
proportions it always differs (`StretchedApart`), and `SameProportions` carries
those of the rectangle on the screen to the paper. `UpdateChosen` needs that any permutation the comparison allows
is one in falling order of Windows (`SortedIs`). `CacheTrue` is the invariant of a
state machine; `CanvasInv` adds that the pages are where profile, settings and
window put them and that the view is not behind what can be scrolled to. The
latter is needed because a scroll drops bitmaps only if a page is in view:
`LastLineIs` and `SomethingInView` show that from 30 rows on one always is. TLC
has checked `CanvasInv` on the instance of `conversions`.

### What is assumed

`JobProcessor`: page counts are naturals, there is at least one try, the render
thread is not an io thread. `HttpClientMT`: ids are naturals (seconds), at least
one try, the threads are finitely many (`m_threads` is a vector). `Session`: a
dialog has the modes of `DlgLoginMode`, and the values that stand for nobody are
no users. `Offices`: an office offers at least one profile, offices are finitely
many, and there are two more names for objects than offices. `JobsPage`: jobs
are numbered by age and finitely many. `Desktop`: at least one dialog may be
open. `Conversions`: papers, in hundredths of a millimetre, have sides of at least
a millimetre, since the renderers would get a page without a side otherwise;
pictures have sides of at least one, sizes of
windows, positions, lengths and versions are naturals, a document has a page, a
profile a paper, settings and contents the fields the code gives them. Apart from these the constants stand for any sets and numbers, the bounds
`MaxRequests`, `MaxChanges` and `MaxModal` included.

`Nth` and `At` in `JobsPage` do what `SelectSeq` would, and `RenderQueue` and the
others avoid the library's recursive operators, which the provers cannot use.

### Only model-checked

* Liveness: `StartedJobsFinish`,
  `PostedIsAnswered`, `PushedIsStarted`, `CloseEnds`, `FirstLoginEnds` and
  `ClosesAsAsked`. Fairness and `ENABLED` are outside the prover.
* `TornFile` and `SelectionSurvives` (`FilesMC`): the parser and the writer of
  `Json` recur over values and texts, and the prover can use no module with
  recursive operators.

## 5. Not modelled

* `HttpClient.cpp`: nothing uses it. wxWidgets, boost, GDI+, PDFium and the map's
  web page are external; the test applications are manual.
* Inside one call: the data races on `session->Cancel`, on `m_loginCtx` and in
  the container `m_printOffices`. The models interleave calls and show what
  wrong results these orders give, not what undefined behaviour does.
* The destruction of `JobProcessorImpl` and `MainWindow` while jobs run, except
  for the render queue's: `Desktop` ends when the window is closed.
* Texts: progress of rendering and upload, costs, fields of the cards and of the
  job dialog, the messages of errors; the encryption of the credentials; white
  space and escapes of JSON; headers other than Content-Length.
* Reading offices, profiles and jobs from JSON; which offices lie in a view port;
  choosing files; the start of libraries; loading a PDF page by page.

`PROJECT.json` has a line for each component.

## 6. Plan

What is left, in the order it would pay:

* `TornFile` for every file: the parser and the writer as recursive functions on
  the length of a text and the depth of a value, and the induction of
  `ConversionsProofs` over both;
* the destruction of the program while jobs run;
* reading offices, profiles and jobs from the print server's answers.
