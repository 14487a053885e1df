-------------------------------- MODULE Offices --------------------------------
(***************************************************************************)
(* Which print office and print profile a document is printed with.        *)
(* m_printOffices of CoreManager maps the id of an office to an object,    *)
(* which also keeps the profile the user selected; an answer of the server *)
(* puts new objects into it, on an io thread.  m_selectedOffice (what is   *)
(* printed with) and m_printOffice of the preview panel (what the user     *)
(* sees) are references to such objects, taken at different times; the     *)
(* configuration file keeps the ids of the selection over restarts.        *)
(***************************************************************************)
EXTENDS Integers, Sequences, FiniteSets, FiniteSetsExt, Functions

CONSTANTS
    Offered,    \* [office id -> the ids of its valid profiles, in order]
    Profiles,   \* the profile ids
    Objects,    \* 1..n: names for the PrintOffice objects that are referenced
    Slots,      \* 1..n: at most n requests for offices are outstanding
    None

Offices == DOMAIN Offered

(* PrintOffice without a valid profile is not valid and is skipped.        *)
ASSUME OfferedAssumption == \A o \in Offices : Offered[o] \in Seq(Profiles) /\ Offered[o] # <<>>
ASSUME ObjectsAssumption ==
    /\ IsFiniteSet(Offices) /\ IsFiniteSet(Objects) /\ Objects \subseteq Nat \ {0}
    /\ Cardinality(Objects) >= Cardinality(Offices) + 2
ASSUME SlotsAssumption == Slots \subseteq Nat
ASSUME NoneAssumption == None \notin Offices \cup Profiles

VARIABLES
    config,     \* the configuration file: SelectedOffice/Id and SelectedProfileId
    object,     \* the objects: their office and SelectedProfileId
    printOffices,    \* m_printOffices; 0: not in the map
    selectedOffice,  \* m_selectedOffice, or 0
    preview,    \* m_printOffice of the preview panel; 0: no panel
    shown,      \* m_selectedPrintProfileId of its combo box
    page,       \* the tab of the main window: "what" is the print page
    card,       \* the office whose card is open (modal), or None
    placed,     \* the offices that can be clicked on the map
    search,     \* the requests for offices
    init,       \* LoadOfficesAtInit: "no", "posted", "done"
    app,        \* "running", or how it died
    (* history *)
    initLate,   \* the first search selected an office when one was selected
    doubled,    \* an answer replaced the object of the selected or previewed office
    overlapped, \* a search was posted when another request was outstanding
    restored    \* the selected profile is the one of the last run

references == <<printOffices, selectedOffice, preview>>
gui == <<shown, page, card, placed>>
history == <<initLate, doubled, overlapped, restored>>
vars == <<config, object, references, gui, search, init, app, history>>

Configs == [office : Offices \cup {None}, profile : Profiles \cup {None}]
EmptyConfig == [office |-> None, profile |-> None]
NoObject == [office |-> None, profile |-> None]
NoSearch == [op |-> "none", step |-> "free", exclude |-> {}, found |-> {}, want |-> EmptyConfig]

Searches ==
    [op : {"none", "init", "view", "card"}, step : {"free", "post", "found"},
     exclude : SUBSET Offices, found : SUBSET Offices, want : Configs]

TypeOK ==
    /\ config \in Configs /\ object \in [Objects -> Configs]
    /\ printOffices \in [Offices -> Objects \cup {0}]
    /\ {selectedOffice, preview} \subseteq Objects \cup {0}
    /\ \A x \in {selectedOffice, preview} \ {0} : object[x] # NoObject
    /\ \A o \in Offices : printOffices[o] # 0 => object[printOffices[o]].office = o
    /\ shown \in Profiles \cup {None} /\ page \in {"where", "what"}
    /\ card \in Offices \cup {None}
    /\ placed \subseteq {o \in Offices : printOffices[o] # 0}
    /\ search \in [Slots -> Searches]
    /\ init \in {"no", "posted", "done"} /\ app \in {"running", "nullOffice", "notSelected"}
    /\ {initLate, doubled, overlapped, restored} \subseteq BOOLEAN

Started ==
    /\ object = [x \in Objects |-> NoObject] /\ printOffices = [o \in Offices |-> 0]
    /\ selectedOffice = 0 /\ preview = 0 /\ shown = None
    /\ page = "where" /\ card = None /\ placed = {}
    /\ search = [s \in Slots |-> NoSearch] /\ init = "no" /\ app = "running"
    /\ initLate = FALSE /\ doubled = FALSE /\ overlapped = FALSE /\ restored = FALSE

Init == Started /\ config \in {c \in Configs : c.office = None => c.profile = None}

-------------------------------------------------------------------------------
(* PrintOffice.                                                            *)

OfficeOf(x) == object[x].office

(* GetSelectedPrintProfile: the first one when the id is not offered.      *)
Effective(o, profile) ==
    IF \E i \in DOMAIN Offered[o] : Offered[o][i] = profile THEN profile ELSE Head(Offered[o])

SelectedProfile(x) == Effective(OfficeOf(x), object[x].profile)

(* A new object starts with its first profile.                             *)
NewOffice(o) == [office |-> o, profile |-> Head(Offered[o])]

(* shared_ptr: an object nobody refers to is gone, its name free again.    *)
Live(map, sel, prev) == {map[o] : o \in Offices} \cup {sel, prev}

Kept(objects, live) == [x \in Objects |-> IF x \in live THEN objects[x] ELSE NoObject]

(* CoreManager::SelectOffice with what it saves: the profile is the one    *)
(* the object has now.                                                     *)
ConfigOf(o) ==
    IF printOffices[o] = 0 THEN EmptyConfig
    ELSE [office |-> o, profile |-> SelectedProfile(printOffices[o])]

(* UpdateConfigSelectedProfile saves no profile when nothing is selected.  *)
UpdatedConfig(objects) ==
    [config EXCEPT !.profile =
        IF selectedOffice = 0 THEN None
        ELSE Effective(objects[selectedOffice].office, objects[selectedOffice].profile)]

FreeSlots == {s \in Slots : search[s] = NoSearch}

-------------------------------------------------------------------------------
(* Requests for offices, posted by the GUI, answered on an io thread.      *)

AsyncSearchPrintOffices(op, exclude, want) ==
    /\ FreeSlots # {}
    /\ search' = [search EXCEPT ![Min(FreeSlots)] =
                    [op |-> op, step |-> "post", exclude |-> exclude, found |-> {}, want |-> want]]
    /\ overlapped' = (overlapped \/ \E s \in Slots : search[s].step = "post")

(* The login is done and the map loaded, in either order; posted once.     *)
LoadOfficesAtInit ==
    /\ app = "running" /\ init = "no"
    /\ AsyncSearchPrintOffices("init", {}, IF config.office = None THEN EmptyConfig ELSE config)
    /\ init' = "posted"
    /\ UNCHANGED <<config, object, references, gui, app, initLate, doubled, restored>>

(* The offices that are known are asked for again.                         *)
KnownForgotten == {}

Known == {o \in Offices : printOffices[o] # 0}

(* The view port moved and stayed: what is not known there.                *)
LoadOffices ==
    /\ app = "running"
    /\ AsyncSearchPrintOffices("view", Known, EmptyConfig)
    /\ UNCHANGED <<config, object, references, gui, init, app, initLate, doubled, restored>>

(* The card of a job asks for its office if it is not known (modal: the    *)
(* dialog is closed before anything else is clicked; the answer comes).    *)
DlgJobCard(o) ==
    /\ app = "running" /\ card = None /\ page = "where"
    /\ o \notin Known
    /\ AsyncSearchPrintOffices("card", Offices \ {o}, EmptyConfig)
    /\ UNCHANGED <<config, object, references, gui, init, app, initLate, doubled, restored>>

(* The answer: an error, or the offices found and not excluded, each a new *)
(* object that takes the place of what the map held.  The order of         *)
(* m_printOffices and the view port are not modelled: any offices may be   *)
(* found.                                                                  *)
SearchAnswer(s) ==
    /\ app = "running" /\ search[s].step = "post"
    /\ \/ /\ search' = [search EXCEPT ![s] = NoSearch]
          /\ UNCHANGED <<object, printOffices, doubled>>
       \/ \E F \in SUBSET (Offices \ search[s].exclude) :
          LET used == {printOffices[o] : o \in Offices \ F} \cup {selectedOffice, preview}
              names == CHOOSE f \in [F -> Objects \ used] : IsInjective(f)
              map == [o \in Offices |-> IF o \in F THEN names[o] ELSE printOffices[o]]
              objects == [x \in Objects |-> IF \E o \in F : names[o] = x
                                            THEN NewOffice(CHOOSE o \in F : names[o] = x) ELSE object[x]]
          IN /\ (search[s].op = "card" => F # {})
             /\ printOffices' = map
             /\ object' = Kept(objects, Live(map, selectedOffice, preview))
             /\ doubled' = (doubled \/ \E x \in {selectedOffice, preview} \ {0} : OfficeOf(x) \in F)
             /\ search' = IF search[s].op = "card" THEN [search EXCEPT ![s] = NoSearch]
                          ELSE [search EXCEPT ![s].step = "found", ![s].found = F, ![s].exclude = {}]
    /\ UNCHANGED <<config, selectedOffice, preview, gui, init, app, initLate, overlapped, restored>>

(* SelectOfficeAndProfile: the selection is saved, then the profile of the *)
(* last run is selected, which is not.                                     *)
SelectOfficeAndProfile(o, profile) ==
    LET x == printOffices[o]
        objects == IF x # 0 /\ profile # None THEN [object EXCEPT ![x].profile = profile] ELSE object
    IN /\ config' = ConfigOf(o)
       /\ selectedOffice' = x
       /\ object' = Kept(objects, Live(printOffices, x, preview))
       /\ restored' = (x # 0 /\ profile # None)

(* OnIdle reads the result.  It also runs while a dialog is open.          *)
Retrieve(s) ==
    LET r == search[s] IN
    /\ app = "running" /\ r.step = "found"
    /\ placed' = placed \cup r.found
    /\ search' = [search EXCEPT ![s] = NoSearch]
    /\ init' = IF r.op = "init" THEN "done" ELSE init
    /\ IF r.want.office # None
       THEN /\ SelectOfficeAndProfile(r.want.office, r.want.profile)
            /\ initLate' = (initLate \/ selectedOffice # 0)
       ELSE UNCHANGED <<config, selectedOffice, object, restored, initLate>>
    /\ UNCHANGED <<printOffices, preview, shown, page, card, app, doubled, overlapped>>

-------------------------------------------------------------------------------
(* The user.  The page of the jobs is left by the same buttons as the map  *)
(* and touches none of this: it is part of "where".                        *)

User == app = "running" /\ card = None

OnOfficeClicked(o) ==
    /\ User /\ page = "where" /\ o \in placed
    /\ card' = o
    /\ UNCHANGED <<config, object, references, shown, page, placed, search, init, app, history>>

CardOk ==
    /\ app = "running" /\ card # None
    /\ SelectOfficeAndProfile(card, None)
    /\ card' = None
    /\ UNCHANGED <<printOffices, preview, shown, page, placed, search, init, app,
                   initLate, doubled, overlapped>>

CardCancel ==
    /\ app = "running" /\ card # None
    /\ card' = None
    /\ UNCHANGED <<config, object, references, shown, page, placed, search, init, app, history>>

SelectWhere ==
    /\ User /\ page = "what"
    /\ page' = "where"
    /\ UNCHANGED <<config, object, references, shown, card, placed, search, init, app, history>>

(* The combo box of the panel is made for an object and takes its id.      *)
CtrlPrintProfiles(x) == shown' = object[x].profile

(* SetPrintOffice.                                                         *)
Show(x) ==
    /\ preview' = x
    /\ CtrlPrintProfiles(x)
    /\ object' = Kept(object, Live(printOffices, selectedOffice, x))

(* The panel is made for the selected office, its canvas for the profile,  *)
(* which is taken without a test.                                          *)
PanelPrintPreview ==
    IF selectedOffice # 0 THEN Show(selectedOffice) /\ UNCHANGED app
    ELSE app' = "nullOffice" /\ UNCHANGED <<object, preview, shown>>

(* The test for a selected office is missing.                              *)
SelectWhatUnchecked ==
    /\ User /\ page = "where"
    /\ page' = "what"
    /\ IF preview # 0 /\ selectedOffice # 0 /\ OfficeOf(selectedOffice) # OfficeOf(preview)
       THEN Show(selectedOffice) ELSE UNCHANGED <<object, preview, shown>>
    /\ UNCHANGED <<config, printOffices, selectedOffice, card, placed, search, init, app, history>>

(* The office of the preview is not brought up to date.                    *)
SelectWhatStale ==
    /\ User /\ page = "where" /\ selectedOffice # 0
    /\ page' = "what"
    /\ UNCHANGED <<config, object, references, shown, card, placed, search, init, app, history>>

(* UpdatePrintOffice: SetPrintOffice returns early when the ids are equal. *)
SelectWhat ==
    /\ User /\ page = "where" /\ selectedOffice # 0
    /\ page' = "what"
    /\ IF preview # 0 /\ OfficeOf(selectedOffice) # OfficeOf(preview)
       THEN Show(selectedOffice) ELSE UNCHANGED <<object, preview, shown>>
    /\ UNCHANGED <<config, printOffices, selectedOffice, card, placed, search, init, app, history>>

(* OnNextClick, OnBrowseResult.                                            *)
OnBrowseResult ==
    /\ User /\ page = "what" /\ preview = 0
    /\ PanelPrintPreview
    /\ UNCHANGED <<config, printOffices, selectedOffice, page, card, placed, search, init, history>>

OnPreviewCloseClick ==
    /\ User /\ page = "what" /\ preview # 0
    /\ preview' = 0 /\ shown' = None
    /\ object' = Kept(object, Live(printOffices, selectedOffice, 0))
    /\ UNCHANGED <<config, printOffices, selectedOffice, page, card, placed, search, init, app, history>>

(* An item of the combo box: a profile the office offers.                  *)
OnCmbSelectionChanged(profile) ==
    /\ profile # shown /\ profile = Effective(OfficeOf(preview), profile)
    /\ shown' = profile

(* The selection is not saved.                                             *)
OnPrintProfileSelectUnsaved(profile) ==
    /\ User /\ page = "what" /\ preview # 0
    /\ OnCmbSelectionChanged(profile)
    /\ object' = [object EXCEPT ![preview].profile = profile]
    /\ restored' = (restored /\ preview # selectedOffice)
    /\ UNCHANGED <<config, references, page, card, placed, search, init, app, initLate, doubled, overlapped>>

(* The event OnCmbSelectionChanged posts is handled before the next input. *)
OnPrintProfileSelect(profile) ==
    /\ User /\ page = "what" /\ preview # 0
    /\ OnCmbSelectionChanged(profile)
    /\ object' = [object EXCEPT ![preview].profile = profile]
    /\ config' = UpdatedConfig(object')
    /\ restored' = FALSE
    /\ UNCHANGED <<references, page, card, placed, search, init, app, initLate, doubled, overlapped>>

(* AsyncRunPrinting prints with m_selectedOffice and its profile; without  *)
(* one it throws, and nobody catches.  OnJobCreate selects the jobs page.  *)
OnPrintClick ==
    /\ User /\ page = "what" /\ preview # 0
    /\ IF selectedOffice # 0 THEN page' = "where" /\ UNCHANGED app
       ELSE app' = "notSelected" /\ UNCHANGED page
    /\ UNCHANGED <<config, object, references, shown, card, placed, search, init, history>>

(* The program is started again; Save may have been interrupted after      *)
(* truncating the file or in the middle, which loses the end of it.        *)
Saving == IF card # None THEN {card} ELSE IF preview # 0 THEN {config.office} \ {None} ELSE {}

Restart ==
    /\ config' \in {config} \cup (IF Saving = {} THEN {} ELSE {EmptyConfig})
                  \cup [office : Saving, profile : {None}]
    /\ object' = [x \in Objects |-> NoObject] /\ printOffices' = [o \in Offices |-> 0]
    /\ selectedOffice' = 0 /\ preview' = 0 /\ shown' = None
    /\ page' = "where" /\ card' = None /\ placed' = {}
    /\ search' = [s \in Slots |-> NoSearch] /\ init' = "no" /\ app' = "running"
    /\ initLate' = FALSE /\ doubled' = FALSE /\ overlapped' = FALSE /\ restored' = FALSE

Next ==
    \/ LoadOfficesAtInit \/ LoadOffices
    \/ \E o \in Offices : DlgJobCard(o) \/ OnOfficeClicked(o)
    \/ \E s \in Slots : SearchAnswer(s) \/ Retrieve(s)
    \/ CardOk \/ CardCancel \/ SelectWhere \/ SelectWhat
    \/ OnBrowseResult \/ OnPreviewCloseClick \/ OnPrintClick
    \/ \E profile \in Profiles : OnPrintProfileSelect(profile)
    \/ Restart

Spec == Init /\ [][Next]_vars
-------------------------------------------------------------------------------
(* Properties.                                                             *)

(* What the preview shows is what AsyncRunPrinting would print with: the   *)
(* same office, the same profile.  Two cases are known to break it: the    *)
(* first search selects its office after the user selected one, and an     *)
(* answer replaced the object of the office that is shown.                 *)
PrintsWhatIsShown ==
    page = "what" /\ preview # 0 /\ app = "running" /\ ~initLate /\ ~doubled =>
        /\ selectedOffice # 0 /\ OfficeOf(selectedOffice) = OfficeOf(preview)
        /\ SelectedProfile(selectedOffice) = Effective(OfficeOf(preview), shown)

(* The program dies for want of a selected office only after the first     *)
(* search, coming late, deselected it.                                     *)
DiesOnlyIfInitLate == app # "running" => initLate

(* The file names the office that is printed with, and its profile unless  *)
(* the last run's profile was restored, which happens in memory only: the  *)
(* file then names the first profile.                                      *)
ConfigTrue ==
    app = "running" /\ selectedOffice # 0 =>
        /\ config.office = OfficeOf(selectedOffice)
        /\ restored \/ config.profile = SelectedProfile(selectedOffice)

(* The profile the user selected for an office is lost by an answer only   *)
(* if requests were outstanding together, or to the first search, which    *)
(* excludes nothing.                                                       *)
ReplacedOnlyIfOverlapped ==
    [][\A s \in Slots : SearchAnswer(s) /\ search[s].op # "init" /\ ~overlapped =>
          \A o \in Offices : printOffices[o] # 0 =>
            object'[printOffices'[o]] = object[printOffices[o]]]_vars

-------------------------------------------------------------------------------
(* Why they hold: what every step preserves.                               *)

(* What is referred to is an office, and what the map refers to unless an  *)
(* answer replaced it.                                                     *)
ReferInv ==
    \A x \in {selectedOffice, preview} \ {0} :
        OfficeOf(x) \in Offices /\ (~doubled => printOffices[OfficeOf(x)] = x)

(* What was found stays in the map.                                        *)
FoundInv == \A s \in Slots : search[s].step = "found" => search[s].found \subseteq Known

CardInv == card # None => page = "where" /\ card \in placed

(* Unless the first search came late, the print page and the preview are   *)
(* only there when an office is selected, and the combo box goes with the  *)
(* object of the preview.                                                  *)
LateInv ==
    ~initLate =>
        /\ page = "what" \/ preview # 0 => selectedOffice # 0
        /\ preview # 0 => shown = object[preview].profile

(* The print page shows the office that is selected.                       *)
PreviewInv ==
    page = "what" /\ preview # 0 /\ ~initLate => OfficeOf(selectedOffice) = OfficeOf(preview)

(* A search on its own excludes all that is known, but for the first one.  *)
OneSearchInv ==
    ~overlapped =>
        /\ \A s, r \in Slots : search[s].step = "post" /\ search[r].step = "post" => s = r
        /\ \A s \in Slots : search[s].step = "post" /\ search[s].op # "init" => Known \subseteq search[s].exclude

IInv ==
    /\ TypeOK /\ ReferInv /\ FoundInv /\ CardInv /\ LateInv /\ PreviewInv /\ OneSearchInv
    /\ DiesOnlyIfInitLate /\ ConfigTrue
===============================================================================
