----------------------------- MODULE Occlusion -----------------------------
(***************************************************************************)
(* compositor/Occlusion: what of each layer can be seen once everything    *)
(* above it is in place.  Pure.                                            *)
(*                                                                         *)
(* A rectangle is a record of whole edges; it covers the pixels from left  *)
(* and top up to, and without, right and bottom.  A layer of the stack is  *)
(*   frame        where it lands                                           *)
(*   visible      the client's visible region, a set; empty: all of frame  *)
(*   opaque       its pixels cover the frame whole                         *)
(*   corner_crop, radius   rounded corners, none when radius is 0          *)
(*   keep         never hidden and never cropped                           *)
(* Sources are in units in which every division below is exact, where the  *)
(* code has floats.                                                        *)
(***************************************************************************)
EXTENDS Integers, Sequences, FiniteSets, FiniteSetsExt, SequencesExt

Rect(l, t, r, b) == [left |-> l, top |-> t, right |-> r, bottom |-> b]
NoRect == Rect(0, 0, 0, 0)
EmptyRect(r) == r.right <= r.left \/ r.bottom <= r.top
WidthOf(r) == r.right - r.left
HeightOf(r) == r.bottom - r.top
Covers(r) == (r.left..(r.right - 1)) \X (r.top..(r.bottom - 1))

Intersect(a, b) ==
    Rect(Max({a.left, b.left}), Max({a.top, b.top}),
         Min({a.right, b.right}), Min({a.bottom, b.bottom}))

\* What is left of one piece r without cut: the bands above and below, and
\* what is left and right of the cut between them.
Pieces(r, cut) ==
    LET over == Intersect(r, cut) IN
    IF EmptyRect(over) THEN {r}
    ELSE {p \in {Rect(r.left, r.top, r.right, over.top),
                 Rect(r.left, over.bottom, r.right, r.bottom),
                 Rect(r.left, over.top, over.left, over.bottom),
                 Rect(over.right, over.top, r.right, over.bottom)} : ~EmptyRect(p)}

Subtract(region, cut) == UNION {Pieces(r, cut) : r \in region}

\* What of a layer is opaque: its frame or, with rounded corners, the crop
\* they round without the square each corner takes, as two rectangles.
OpaqueParts(l) ==
    IF ~l.opaque THEN {}
    ELSE IF l.radius <= 0 THEN {l.frame}
    ELSE LET crop == Intersect(l.frame, l.corner_crop) IN
         {p \in {Rect(crop.left + l.radius, crop.top, crop.right - l.radius, crop.bottom),
                 Rect(crop.left, crop.top + l.radius, crop.right, crop.bottom - l.radius)} :
             ~EmptyRect(p)}

\* What the layers above the i-th of the stack hide.
Hiding(stack, i) == UNION {OpaqueParts(stack[j]) : j \in (i + 1)..Len(stack)}

\* What the client says can be seen of a layer.
VisibleRegion(l) ==
    IF l.visible = {} THEN {l.frame}
    ELSE {in \in {Intersect(v, l.frame) : v \in l.visible} : ~EmptyRect(in)}

BoundsOf(region) ==
    Rect(Min({r.left : r \in region}), Min({r.top : r \in region}),
         Max({r.right : r \in region}), Max({r.bottom : r \in region}))

\* Resolve, for the i-th layer of the stack.
ShownOf(stack, i) ==
    LET l == stack[i]
        region == FoldSet(LAMBDA h, left : Subtract(left, h), VisibleRegion(l), Hiding(stack, i))
    IN  IF l.keep \/ EmptyRect(l.frame) THEN [hidden |-> FALSE, bounds |-> l.frame]
        ELSE IF region = {} THEN [hidden |-> TRUE, bounds |-> l.frame]
        ELSE [hidden |-> FALSE, bounds |-> BoundsOf(region)]

Resolve(stack) == [i \in DOMAIN stack |-> ShownOf(stack, i)]

\* The part of source that lands in shown, for a layer whose whole source
\* lands in frame; {} when it cannot be narrowed.  A flip reads the source's
\* edge from the frame's opposite one.
CropSource(source, frame, shown, hflip, vflip, rotate90) ==
    IF \/ rotate90 \/ EmptyRect(frame)
       \/ shown.left < frame.left \/ shown.top < frame.top
       \/ shown.right > frame.right \/ shown.bottom > frame.bottom
    THEN {}
    ELSE LET across(n) == (n * WidthOf(source)) \div WidthOf(frame)
             down(n) == (n * HeightOf(source)) \div HeightOf(frame)
             cutLeft == shown.left - frame.left
             cutRight == frame.right - shown.right
             cutTop == shown.top - frame.top
             cutBottom == frame.bottom - shown.bottom
         IN  {Rect(source.left + across(IF hflip THEN cutRight ELSE cutLeft),
                   source.top + down(IF vflip THEN cutBottom ELSE cutTop),
                   source.right - across(IF hflip THEN cutLeft ELSE cutRight),
                   source.bottom - down(IF vflip THEN cutTop ELSE cutBottom))}

(***************************************************************************)
(* What the results are judged against, pixel by pixel.                    *)
(***************************************************************************)
\* The pixels of a layer its client has it show and nothing opaque covers.
SeenPixels(stack, i) ==
    UNION {Covers(r) : r \in VisibleRegion(stack[i])}
        \ UNION {Covers(r) : r \in Hiding(stack, i)}

\* Where pixel x of the frame is read in the source, across: the middle of
\* the pixel, doubled and scaled by the frame's width.
ReadAcross(source, frame, hflip, x) ==
    LET along == 2 * (x - frame.left) + 1
        from == IF hflip THEN 2 * WidthOf(frame) - along ELSE along
    IN  <<2 * source.left * WidthOf(frame) + from * WidthOf(source), WidthOf(frame)>>
=============================================================================
