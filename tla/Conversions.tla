------------------------------ MODULE Conversions ------------------------------
(***************************************************************************)
(* The conversions of the program: each step picks one input, the          *)
(* invariants say what becomes of it.  A preview is an input that goes on  *)
(* to be painted, scrolled and changed.                                    *)
(***************************************************************************)
EXTENDS Integers, Sequences, HttpMessage, Canvas, Updates

CONSTANTS
    Contents,                              \* of requests
    Lengths, Bodies,                       \* announced by answers, and sent
    Papers, Pictures,
    PageViews, PictureViews, CanvasViews,  \* sizes of the window
    Positions,                             \* of the view of pages
    Profiles, CanvasSettings,
    Lists, Systems, Versions               \* of installers, Windows, the program

Sizes == [w : Nat, h : Nat]
SidesOfPaper == [w : Nat \ {0}, h : Nat \ {0}]

PrintSettings ==
    [orientation : {"portrait", "landscape"}, mode : {"original", "display", "stretch"},
     horAlign : {"near", "center", "far"}, vertAlign : {"near", "center", "far"}]

ASSUME ContentsAssumption == Contents \subseteq HttpContents
ASSUME AnswersAssumption == Lengths \subseteq Nat /\ Bodies \subseteq Nat
(* No paper is narrower than a millimetre.                                 *)
ASSUME PapersAssumption ==
    /\ Papers \subseteq SidesOfPaper /\ \A paper \in Papers : paper.w >= 100 /\ paper.h >= 100
    /\ Pictures \subseteq SidesOfPaper
ASSUME ViewsAssumption ==
    PageViews \subseteq Sizes /\ PictureViews \subseteq Sizes /\ CanvasViews \subseteq Sizes /\ Positions \subseteq Nat
ASSUME PagesAssumption == PageCount \in Nat \ {0}
ASSUME ProfilesAssumption == \A profile \in Profiles : profile.paper \in Papers
ASSUME SettingsAssumption == CanvasSettings \subseteq PrintSettings
ASSUME ListsAssumption ==
    /\ Lists \subseteq Seq([os : Nat \cup {Unreadable}, version : Nat \cup {Unreadable}])
    /\ Systems \subseteq Nat /\ Versions \subseteq Nat

VARIABLE input

Nothing == [kind |-> "nothing"]

Init == input = Nothing

-------------------------------------------------------------------------------
(* Requests and answers.                                                   *)

SendContent == \E c \in Contents : input' = [kind |-> "content", content |-> c]

ReadAnswer ==
    \E length \in Lengths \cup {NoHeader}, body \in Bodies, buffered \in Bodies, after \in {"open", "eof", "reset"} :
        /\ buffered <= body
        /\ input' = [kind |-> "answer", length |-> length, body |-> body, buffered |-> buffered, after |-> after]

-------------------------------------------------------------------------------
(* Pages in a view of the same height, and pictures on their page.         *)

ShowPages ==
    \E size \in PageViews, sheet \in Papers, count \in 1..PageCount, from \in Positions :
        input' = [kind |-> "pages", view |-> [from |-> from, length |-> size.h],
                  rects |-> PageRects(size, sheet, count)]

PreviewPicture ==
    \E content \in {"images", "pdf"}, chosen \in PrintSettings, paper \in Papers, picture \in Pictures,
       size \in PictureViews :
        LET settings == SettingsFor(content, chosen)
            rect == FirstPageRect(size, Sheet(paper, settings))
        IN input' = [kind |-> "picture", content |-> content, settings |-> settings, paper |-> paper,
                     renderer |-> ConvertPrintProfile(paper), picture |-> picture,
                     rect |-> [w |-> rect.x.length, h |-> rect.y.length]]

-------------------------------------------------------------------------------
(* Installers.                                                             *)

LookForUpdate ==
    \E entries \in Lists, os \in Systems, current \in Versions :
        \E list \in SortedLists(UpdateList(entries)) :
            input' = [kind |-> "updates", entries |-> entries, list |-> list, os |-> os, current |-> current]

-------------------------------------------------------------------------------
(* A preview.                                                              *)

Became(c) == input' = [kind |-> "canvas", canvas |-> c]

OpenPreview ==
    \E profile \in Profiles, settings \in CanvasSettings, size \in CanvasViews :
        Became(New(profile, settings, size))

(* The whole view is painted, or the line a scroll brought into it.        *)
PaintCanvas(c) ==
    LET view == View(c)
    IN \E update \in {view, [view EXCEPT !.length = 10], [view EXCEPT !.from = @ + view.length - 10, !.length = 10]} :
        Became(OnPaint(c, update))

ScrollCanvas(c) == \E line \in 0..LastLine(c) : Became(OnScroll(c, line))

ResizeCanvas(c) == \E size \in CanvasViews : Became(OnSize(c, size))

(* Another profile of the office, or the selected profile of another one.  *)
ChooseProfile(c) == \E profile \in Profiles : Became(SetPrintProfile(c, profile))

ChooseSettings(c) == \E settings \in CanvasSettings : Became(SetPrintSettings(c, settings))

Preview(c) == PaintCanvas(c) \/ ScrollCanvas(c) \/ ResizeCanvas(c) \/ ChooseProfile(c) \/ ChooseSettings(c)

-------------------------------------------------------------------------------
Forget == input # Nothing /\ input' = Nothing

Pick == SendContent \/ ReadAnswer \/ ShowPages \/ PreviewPicture \/ LookForUpdate \/ OpenPreview

Next == (input = Nothing /\ Pick) \/ (input.kind = "canvas" /\ Preview(input.canvas)) \/ Forget

Spec == Init /\ [][Next]_input
-------------------------------------------------------------------------------
(* HttpContent: what is sent has the length the header announces, although *)
(* the content has been written to the log before, exactly when it is not  *)
(* a stream with bytes and none of its parts is empty; an empty part cuts  *)
(* the content off (HttpContent.cpp:95) and the server waits.              *)
LengthAnnounced ==
    input.kind = "content" =>
        LET c == input.content
        IN Sent(c) = GetLength(c)
             <=> CASE c.kind = "text" -> TRUE
                   [] c.kind = "stream" -> c.size = 0
                   [] c.kind = "multipart" -> \A i \in DOMAIN c.parts : c.parts[i].size > 0

(* HttpClientMT: an answer with an announced length of two digits or more  *)
(* is delivered with exactly that length, as soon as it is there, and an   *)
(* answer cut short is an error.  One digit is as good as no length        *)
(* (HttpClientMT.cpp:431): the answer ends when the server closes.         *)
ContentFramed ==
    input.kind = "answer" =>
        LET read == ReadContent(input)
        IN IF input.length >= 10
           THEN /\ read.end = "delivered" <=> input.body >= input.length /\ input.buffered <= input.length
                /\ read.end = "delivered" => read.size = input.length
                /\ read.end = "waits" <=> input.body < input.length /\ input.after = "open"
           ELSE /\ read.end = "waits" <=> input.after = "open"
                /\ read.end = "delivered" => read.size = input.body

(* CtrlPrintPreviewCanvas: the pages painted are those that, with border   *)
(* and shadow, lie in the view: what the loop over all pages found before  *)
(* it was optimised (CtrlPrintPreviewCanvas.cpp:67).  Only a page behind   *)
(* the first of which no more than the border and two rows show at the     *)
(* bottom is left out.                                                     *)
VisibleDrawn ==
    input.kind = "pages" =>
        LET inView == {i \in DOMAIN input.rects : Intersects(Bounds(input.rects[i]), input.view)}
            bottom == Bottom(input.view)
            barely == {i \in inView : /\ input.rects[i].from - 1 <= bottom /\ bottom < input.rects[i].from + 2
                                      /\ \E j \in inView : j < i}
        IN Painted(input.rects, input.view) = inView \ barely

(* The renderers: on a page whose pixels have the proportions of the paper *)
(* a picture lies in print where it lay in the preview, for all settings   *)
(* the user can reach, if it has a size of its own.  One that is fitted to *)
(* the page does exactly if the whole millimetres the renderer gets        *)
(* (ConvertPrintProfile.cpp:8) have the proportions of the paper, as those *)
(* of A4 have and those of Letter have not, and an image's do not lie      *)
(* between the page's and their integer part (ImageBundleRenderer.cpp:80), *)
(* the integer part included.                                              *)
PreviewIsPrint ==
    input.kind = "picture" =>
        LET sheet == Sheet(input.paper, input.settings)
            page == Sheet(input.renderer, input.settings)
            image == Fraction(input.picture.w, input.picture.h)
            isFitted == input.content = "pdf" \/ input.settings.mode = "stretch"
            isMisled == /\ input.content = "images"
                        /\ ~IsLess(image, Fraction(page.w \div page.h, 1))
                        /\ IsLess(image, Fraction(page.w, page.h))
            agree == IF input.content = "images"
                     THEN SamePlace(ImageInPreview(input.picture, input.renderer, input.settings, input.rect),
                                    ImageInPrint(input.picture, input.renderer, input.settings))
                     ELSE SamePlace(PdfInPreview(input.picture, input.rect),
                                    PdfInPrint(input.picture, input.renderer))
        IN input.rect.w * sheet.h = input.rect.h * sheet.w /\ input.rect.h > 0 =>
             (agree <=> (isFitted => sheet.w * page.h = sheet.h * page.w /\ ~isMisled))

(* DrawPageCache: a page is painted from a bitmap that the renderer would  *)
(* make again as it is, for the present profile, settings and size, unless *)
(* an office whose profile has the same id was selected since the pages    *)
(* were laid out: the canvas then keeps them (CtrlPrintPreviewCanvas:220). *)
(* However long the document is scrolled, bitmaps are kept only of pages   *)
(* in view now or before the last scroll; in a window of less than 30 rows *)
(* the view may lie behind the last page, and nothing is dropped (188).    *)
CacheTrue ==
    input.kind = "canvas" =>
        LET c == input.canvas
            inView == VisiblePageNums(c.rects, View(c))
            wasInView == VisiblePageNums(c.rects, [View(c) EXCEPT !.from = c.before])
        IN \A i \in Pages : c.bitmap[i] # None =>
              /\ c.bitmap[i] = Rendering(c) \/ c.sameId
              /\ c.size.h >= 30 => i \in inView \cup wasInView

(* The readable entries for this Windows that ask for the latest one.      *)
Best(entries, os) ==
    LET readable == {i \in DOMAIN entries : \A j \in 1..i : IsReadable(entries[j])}
        runnable == {entries[i] : i \in {j \in readable : entries[j].os <= os}}
    IN {e \in runnable : \A f \in runnable : f.os <= e.os}

(* CoreManager::AsyncCheckForUpdates: the installer offered is newer and   *)
(* runs on this Windows, no readable one asks for a later Windows and      *)
(* still runs on it; nothing is offered only if none runs here or one of   *)
(* the most demanding that do is not newer.                                *)
UpdateChosen ==
    input.kind = "updates" =>
        LET best == Best(input.entries, input.os)
            offered == Found(input.list, input.os, input.current)
        IN /\ \A e \in offered : e \in best /\ e.version > input.current
           /\ offered = {} => best = {} \/ \E e \in best : e.version <= input.current
===============================================================================
