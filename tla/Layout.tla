--------------------------------- MODULE Layout ---------------------------------
(***************************************************************************)
(* Where things are on a page: the rectangles of the pages in the preview, *)
(* which of them are drawn, and where a document lies on its page in the   *)
(* preview and in print.  Papers are hundredths of a millimetre, and the   *)
(* renderers get whole millimetres of them.  Pixels of the preview are     *)
(* integers as in the code, whose products of a window's and a paper's     *)
(* side stay far below 2^32; a place on the page is an exact fraction of   *)
(* its side.                                                               *)
(***************************************************************************)
EXTENDS Integers, FiniteSetsExt

PageMarginPx == 20
InterPageDistPx == 24
ShadowOffset == 4

Turned(size) == [w |-> size.h, h |-> size.w]

(* What the renderers are told of a profile's paper.                       *)
ConvertPrintProfile(paper) == [w |-> paper.w \div 100, h |-> paper.h \div 100]

(* The sheet as the user holds it.                                         *)
Sheet(paper, settings) == IF settings.orientation = "landscape" THEN Turned(paper) ELSE paper

-------------------------------------------------------------------------------
(* CalcPageRects.                                                          *)

(* wxRect::Deflate of one side: where it begins and how long it is.        *)
Deflate(side, d) ==
    IF 2 * d > side.length THEN [from |-> side.from + side.length \div 2, length |-> 0]
    ELSE [from |-> side.from + d, length |-> side.length - 2 * d]

FirstPageRect(view, sheet) ==
    LET x == Deflate([from |-> 0, length |-> view.w], PageMarginPx)
        y == Deflate([from |-> 0, length |-> view.h], PageMarginPx)
        newHeight == (sheet.h * x.length) \div sheet.w
        newWidth == (sheet.w * y.length) \div sheet.h
    IN IF newHeight > y.length THEN [x |-> Deflate(x, (x.length - newWidth) \div 2), y |-> y]
       ELSE [x |-> x, y |-> Deflate(y, (y.length - newHeight) \div 2)]

Bottom(side) == side.from + side.length - 1

(* The vertical extent of the pages, one below the other.                  *)
PageRects(view, sheet, count) ==
    LET first == FirstPageRect(view, sheet).y
    IN [i \in 1..count |-> [first EXCEPT !.from = @ + (i - 1) * (first.length - 1 + InterPageDistPx)]]

(* Without the shadow of the page above.                                   *)
VisibleFirstByPaper(rects, view) == {i \in DOMAIN rects : Bottom(rects[i]) + 1 >= view.from}

(* The pages that do not end above the view.                               *)
VisibleFirst(rects, view) == {i \in DOMAIN rects : Bottom(rects[i]) + ShadowOffset + 1 >= view.from}

(* CalcVisiblePageNums: the first of those, and the ones behind it that    *)
(* begin in the view.                                                      *)
VisiblePageNums(rects, view) ==
    {i \in VisibleFirst(rects, view) :
        \A j \in VisibleFirst(rects, view) :
            j <= i => rects[j].from + 2 <= Bottom(view) \/ j = Min(VisibleFirst(rects, view))}

(* A page with its border and its shadow.                                  *)
Bounds(rect) == [from |-> rect.from - 1, length |-> rect.length + 2 + ShadowOffset]
Intersects(a, b) == a.from <= Bottom(b) /\ b.from <= Bottom(a)

(* OnPaint of the whole view.                                              *)
Painted(rects, view) == {i \in VisiblePageNums(rects, view) : Intersects(Bounds(rects[i]), view)}

-------------------------------------------------------------------------------
(* Places on a page: fractions of its width and its height.                *)

Fraction(n, d) == [n |-> n, d |-> d]

One == Fraction(1, 1)
IsLess(a, b) == a.n * b.d < b.n * a.d
Same(a, b) == a.n * b.d = b.n * a.d

(* HorAlign and VertAlign: what is left free before the picture.           *)
Offset(side, align) ==
    CASE align = "near" -> Fraction(0, 1)
      [] align = "center" -> Fraction(side.d - side.n, 2 * side.d)
      [] align = "far" -> Fraction(side.d - side.n, side.d)

Aligned(w, h, settings) ==
    [w |-> w, h |-> h, x |-> Offset(w, settings.horAlign), y |-> Offset(h, settings.vertAlign)]

SamePlace(a, b) == Same(a.w, b.w) /\ Same(a.h, b.h) /\ Same(a.x, b.x) /\ Same(a.y, b.y)

(* An image as large as a page allows whose sides have that ratio; the     *)
(* choice of the side is made with the ratio `asked`.                      *)
Stretched(image, page, asked) ==
    IF IsLess(Fraction(image.w, image.h), asked)
    THEN [w |-> Fraction(page.h * image.w, image.h * page.w), h |-> One]
    ELSE [w |-> One, h |-> Fraction(page.w * image.h, image.w * page.h)]

(* ImageBundleRenderer::RenderForPreview: `paper` is the renderer's, the   *)
(* rectangle that of the canvas.  25.4 mm are 300 dots of the printer, or  *)
(* 96 of the screen; the ratio of the rectangle is that of two integers.   *)
ImageInPreview(image, paper, settings, pageRect) ==
    LET sheet == Sheet(paper, settings)
        size == CASE settings.mode = "original" ->
                       [w |-> Fraction(127 * image.w, 1500 * sheet.w), h |-> Fraction(127 * image.h, 1500 * sheet.h)]
                  [] settings.mode = "display" ->
                       [w |-> Fraction(127 * image.w, 480 * sheet.w), h |-> Fraction(127 * image.h, 480 * sheet.h)]
                  [] settings.mode = "stretch" ->
                       Stretched(image, pageRect, Fraction(pageRect.w \div pageRect.h, 1))
    IN Aligned(size.w, size.h, settings)

(* ImageBundleRenderer::RenderForPrinting, before the page is turned.      *)
ImageInPrint(image, paper, settings) ==
    LET sheet == Sheet(paper, settings)
        size == CASE settings.mode = "original" ->
                       [w |-> Fraction(127 * image.w, 1500 * sheet.w), h |-> Fraction(127 * image.h, 1500 * sheet.h)]
                  [] settings.mode = "display" ->
                       [w |-> Fraction(25 * (127 * image.w), 8 * (1500 * sheet.w)),
                        h |-> Fraction(25 * (127 * image.h), 8 * (1500 * sheet.h))]
                  [] settings.mode = "stretch" -> Stretched(image, sheet, Fraction(sheet.w, sheet.h))
    IN Aligned(size.w, size.h, settings)

(* PdfDocument's RenderToBitmap: as large as fits, in the middle.          *)
PdfOn(document, page) ==
    LET size == Stretched(document, page, Fraction(page.w, page.h))
    IN Aligned(size.w, size.h, [horAlign |-> "center", vertAlign |-> "center"])

(* PdfDocumentRenderer: the preview has the page's rectangle, the print    *)
(* the renderer's paper, however it is to be turned.                       *)
PdfInPreview(document, pageRect) == PdfOn(document, pageRect)
PdfInPrint(document, paper) == PdfOn(document, paper)

(* OnBrowseResult when a document is opened with what was last chosen for  *)
(* images: the panel of a PDF has no field for the orientation.            *)
SettingsAsTheyWere(content, settings) == settings

(* OnBrowseResult.                                                         *)
SettingsFor(content, settings) ==
    IF content = "pdf" THEN [settings EXCEPT !.orientation = "portrait"] ELSE settings
===============================================================================
