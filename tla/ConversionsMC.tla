----------------------------- MODULE ConversionsMC -----------------------------
(***************************************************************************)
(* Bounded inputs for Conversions, and those of FilesMC beside them.       *)
(***************************************************************************)
EXTENDS Conversions

Size(w, h) == [w |-> w, h |-> h]
Profile(office, id, paper) == [office |-> office, id |-> id, paper |-> paper]

(* Contents of at most two parts.                                          *)
ContentsMC ==
    {Text(n) : n \in {0, 3}} \cup {Stream(n) : n \in {0, 3}} \cup
    {Multipart(p) : p \in UNION {[1..n -> {Part(5, 0), Part(5, 3), Part(7, 1)}] : n \in 0..2}}

(* Answers of up to 13 bytes.                                              *)
LengthsMC == {0, 5, 9, 10, 12}
BodiesMC == 0..13

(* Higher and wider than a square, and more than twice as wide, in whole   *)
(* millimetres; in fractions of which the renderers are told nothing, with *)
(* the proportions kept; and Letter, ten times smaller.                    *)
PapersMC == {Size(200, 300), Size(300, 200), Size(900, 200), Size(200, 200), Size(250, 375), Size(850, 1100)}
PicturesMC == {Size(1, 1), Size(5, 4), Size(1, 3), Size(9, 2)}

(* Views of every height around that of a page, scrolled in steps of ten.  *)
PageViewsMC == {Size(w, h) : w \in {30, 60, 100}, h \in {30} \cup 66..100}
PictureViewsMC == {Size(w, h) : w \in {60, 84, 100, 130, 220}, h \in {60, 70, 84, 100, 220}}
PositionsMC == {10 * step : step \in 0..20}

(* A preview in a view of one page, of two, or of less than one.           *)
CanvasViewsMC == {Size(60, 70), Size(60, 110), Size(60, 12)}
CanvasSettingsMC ==
    [orientation : {"portrait", "landscape"}, mode : {"display", "stretch"}, horAlign : {"center"}, vertAlign : {"near"}]

(* Two offices, one profile of each with the same id.                      *)
ProfilesMC ==
    {Profile("a", "p", Size(200, 300)), Profile("a", "q", Size(300, 200)),
     Profile("b", "p", Size(200, 200)), Profile("b", "r", Size(200, 300))}

(* Up to three installers for two versions of Windows.                     *)
ListsMC == UNION {[1..n -> [os : {Unreadable, 1, 2}, version : {Unreadable, 1, 2, 3}]] : n \in 0..3}
SystemsMC == 1..2
VersionsMC == 1..2
-------------------------------------------------------------------------------
Files == INSTANCE FilesMC

NextMC == Next \/ (input = Nothing /\ (Files!CrashInSave \/ Files!CrashInSelectOffice))

SpecMC == Init /\ [][NextMC]_input

(* Config: a file whose writing was cut off (Config.cpp:79) is read as the *)
(* pairs that were wholly written, and a number as far as it was.          *)
TornFile == Files!TornFile

(* CoreManager: wherever the writing of a selection of an office was cut   *)
(* off, the next start finds that office whole, or none.                   *)
SelectionSurvives == Files!SelectionSurvives
===============================================================================
