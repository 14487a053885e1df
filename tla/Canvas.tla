--------------------------------- MODULE Canvas ---------------------------------
(***************************************************************************)
(* The preview of a document: the pages are rendered when they are first   *)
(* painted and kept as bitmaps (DrawPageCache) until the pages are laid    *)
(* out anew or are scrolled away.  A bitmap is made by the renderer, which *)
(* the panel gives a profile of its own, from the settings the canvas      *)
(* reads by reference.  All of it runs on the GUI thread: the operators    *)
(* take the canvas to what it is after a handler.                          *)
(***************************************************************************)
EXTENDS Integers, Layout

CONSTANTS
    PageCount,  \* a document has one page at least
    None        \* no bitmap

Pages == 1..PageCount
ScrollRate == 10

View(c) == [from |-> c.from, length |-> c.size.h]
Page(c) == FirstPageRect(c.size, Sheet(c.profile.paper, c.settings))

(* RenderForPreview: all that a bitmap depends on, but for the page.       *)
Rendering(c) == [profile |-> c.renderer, settings |-> c.settings, rect |-> c.rect]

NoBitmaps == [i \in Pages |-> None]

(* GetTotalHeight, and what wxScrolled makes of it: a view as high as the  *)
(* pages does not scroll, and a scroll page is one line at least.          *)
LastLine(c) ==
    LET total == Bottom(c.rects[PageCount]) + PageMarginPx
        lines == (total + ScrollRate - 1) \div ScrollRate
    IN IF total <= c.size.h THEN 0 ELSE Max({0, lines - Max({1, c.size.h \div ScrollRate})})

(* Bitmaps of pages that keep their size are kept.                         *)
CalcPageRectsLazily(c) ==
    LET rect == [w |-> Page(c).x.length, h |-> Page(c).y.length]
        rects == PageRects(c.size, Sheet(c.profile.paper, c.settings), PageCount)
    IN [c EXCEPT !.rects = rects, !.rect = rect, !.bitmap = IF rect = c.rect THEN @ ELSE NoBitmaps,
                 !.sameId = FALSE]

(* Every layout drops the bitmaps, forced or not.                          *)
CalcPageRects(c) ==
    [c EXCEPT !.rects = PageRects(c.size, Sheet(c.profile.paper, c.settings), PageCount),
              !.rect = [w |-> Page(c).x.length, h |-> Page(c).y.length],
              !.bitmap = NoBitmaps, !.sameId = FALSE]

RecalcPageRects(c) ==
    LET laid == CalcPageRects(c)
    IN [laid EXCEPT !.from = Min({@, ScrollRate * LastLine(laid)})]

(* The panel is made for an office, laid out, and only then painted.       *)
New(profile, settings, size) ==
    RecalcPageRects(
        [renderer |-> profile, profile |-> profile, settings |-> settings, size |-> size,
         from |-> 0, rects |-> <<>>, rect |-> size, bitmap |-> NoBitmaps,
         (* history: where the view was before it was scrolled, and whether *)
         (* an office with a profile of the same id was selected since the  *)
         (* pages were laid out                                             *)
         before |-> 0, sameId |-> FALSE])

(* DrawPageContent: a page that has a bitmap is not rendered again.        *)
DrawPageContent(c, drawn) ==
    [c EXCEPT !.bitmap = [i \in Pages |-> IF i \in drawn /\ @[i] = None THEN Rendering(c) ELSE @[i]]]

(* `update` is the part of the view to be painted.                         *)
OnPaint(c, update) ==
    DrawPageContent(c, {i \in VisiblePageNums(c.rects, View(c)) : Intersects(Bounds(c.rects[i]), update)})

OnSize(c, size) == RecalcPageRects([c EXCEPT !.size = size])

(* All pages from the first visible one on are kept.                       *)
ClearInvisiblePagesCacheAbove(c) ==
    LET first == Min(VisiblePageNums(c.rects, View(c)))
    IN [c EXCEPT !.bitmap = [i \in Pages |-> IF i >= first THEN @[i] ELSE None]]

ClearInvisiblePagesCache(c) ==
    LET visible == VisiblePageNums(c.rects, View(c))
    IN IF visible = {} THEN c
       ELSE [c EXCEPT !.bitmap = [i \in Pages |-> IF i \in visible THEN @[i] ELSE None]]

(* The handler runs before the view is moved, to a line.                   *)
OnScroll(c, line) ==
    [ClearInvisiblePagesCache(c) EXCEPT !.from = ScrollRate * line, !.before = c.from]

(* CtrlPrintPreviewCanvas::SetPrintProfile compares ids, of profiles that  *)
(* may be of two offices; the renderer has been given the new one.         *)
SetPrintProfile(c, profile) ==
    LET rendering == [c EXCEPT !.renderer = profile]
    IN IF c.profile.id # profile.id THEN RecalcPageRects([rendering EXCEPT !.profile = profile])
       ELSE [rendering EXCEPT !.sameId = @ \/ profile # c.renderer]

(* Orientation, mode and alignment: a change lays the pages out.           *)
SetPrintSettings(c, settings) ==
    IF settings = c.settings THEN c ELSE RecalcPageRects([c EXCEPT !.settings = settings])
===============================================================================
