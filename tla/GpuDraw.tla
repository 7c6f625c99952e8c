------------------------------ MODULE GpuDraw ------------------------------
(***************************************************************************)
(* One drawing of the Vulkan compositor: which parts of the target are     *)
(* touched, in which render pass, what is cleared, and which layers are    *)
(* written over what lies there instead of blended with it.                *)
(*                                                                         *)
(* A pixel is the sequence of what was laid on it since it was last set,   *)
(* bottom first: <<>> is clear.  Boxes are <<left, top, right, bottom>>,   *)
(* right and bottom exclusive.                                             *)
(***************************************************************************)
EXTENDS Integers, Sequences, FiniteSets, SequencesExt

CONSTANTS
    TargetWidth, TargetHeight,  \* of the target
    LayerSet,       \* the layers a call may bring
    MaxLayers,      \* bound: layers of a call
    DamageLists,    \* the places that changed since the target was drawn
    PartPixels,     \* kPartPixels
    MostParts,      \* kMostParts
    PassSets        \* what InitPipeline may have come up with besides the first pass

VARIABLES
    call,       \* the drawing asked for: its layers, what changed, the passes
                \* there are, and whether the target was drawn before
    canvas,     \* the target's pixels
    done        \* the commands have run

drawVars == <<call, canvas, done>>

Pixels == (0..(TargetWidth - 1)) \X (0..(TargetHeight - 1))
Inside(p, b) == b[1] <= p[1] /\ p[1] < b[3] /\ b[2] <= p[2] /\ p[2] < b[4]
Empty(b) == b[3] <= b[1] \/ b[4] <= b[2]
Larger(a, b) == IF a > b THEN a ELSE b
Smaller(a, b) == IF a < b THEN a ELSE b
Cut(a, b) == <<Larger(a[1], b[1]), Larger(a[2], b[2]), Smaller(a[3], b[3]), Smaller(a[4], b[4])>>
Join(a, b) == <<Smaller(a[1], b[1]), Smaller(a[2], b[2]), Larger(a[3], b[3]), Larger(a[4], b[4])>>
Meet(a, b) == a[1] < b[3] /\ b[1] < a[3] /\ a[2] < b[4] /\ b[2] < a[4]
WholeTarget == <<0, 0, TargetWidth, TargetHeight>>

\* What the target held before, and what a pass that does not care leaves.
Old == <<<<0, 0>>>>
Junk == <<<<0, 1>>>>

Has(pass) == pass \in call.passes

-----------------------------------------------------------------------------
(* vk/Geometry: the quad of a layer, and whether boxes cover an area.      *)

\* Which corner of the crop lands on which corner of the place, clockwise
\* from the top left.
FlippedH(c) == <<c[2], c[1], c[4], c[3]>>
FlippedV(c) == <<c[4], c[3], c[2], c[1]>>
Rotated(c) == <<c[4], c[1], c[2], c[3]>>

PlaceLayer(l) ==
    LET across == IF "flip_h" \in l.transform THEN FlippedH(<<1, 2, 3, 4>>) ELSE <<1, 2, 3, 4>>
        down == IF "flip_v" \in l.transform THEN FlippedV(across) ELSE across
    IN  IF "rotate" \in l.transform THEN Rotated(down) ELSE down

\* A turned layer's crop goes to its corners as it is.
PlaceTurnedLayer(l) == <<1, 2, 3, 4>>

Clamp(x, low, high) == Smaller(Larger(x, low), high)

Reach(spans, from) ==
    FoldLeft(LAMBDA reach, sp : IF sp[1] > reach THEN reach ELSE Larger(reach, sp[2]), from, spans)

SpanBefore(a, b) == a[1] < b[1] \/ (a[1] = b[1] /\ a[2] < b[2])

Covers(area, boxes) ==
    \/ Empty(area)
    \/ LET xs == SetToSortSeq({area[1], area[3]}
                   \cup {Clamp(b[1], area[1], area[3]) : b \in boxes}
                   \cup {Clamp(b[3], area[1], area[3]) : b \in boxes}, LAMBDA x, y : x < y)
           Spans(k) == {<<b[2], b[4]>> : b \in {c \in boxes : /\ c[1] <= xs[k]
                                                              /\ c[3] >= xs[k + 1]
                                                              /\ c[4] > c[2]}}
       IN  \A k \in 1..(Len(xs) - 1) :
              Reach(SetToSortSeq(Spans(k), SpanBefore), area[2]) >= area[4]

-----------------------------------------------------------------------------
(* PartialRedraw's Gather for the GPU, which draws many parts and empty    *)
(* ones: near places joined, and the least growing ones while too many.    *)

AreaOf(b) == (b[3] - b[1]) * (b[4] - b[2])
Growth(a, b) == AreaOf(Join(a, b)) - AreaOf(a) - AreaOf(b)

Pairs(parts) == {<<i, j>> \in (DOMAIN parts) \X (DOMAIN parts) : i < j}
FirstPair(pairs) == CHOOSE p \in pairs : \A q \in pairs : p = q \/ SpanBefore(p, q)
JoinAt(parts, p) == RemoveAt([parts EXCEPT ![p[1]] = Join(parts[p[1]], parts[p[2]])], p[2])

Near(parts) ==
    {p \in Pairs(parts) : \/ Meet(parts[p[1]], parts[p[2]])
                          \/ Growth(parts[p[1]], parts[p[2]]) <= PartPixels}

JoinNear(places) ==
    FoldLeft(LAMBDA ps, k : IF Near(ps) = {} THEN ps ELSE JoinAt(ps, FirstPair(Near(ps))),
             places, places)

Cheapest(parts) ==
    {p \in Pairs(parts) : \A q \in Pairs(parts) :
        Growth(parts[p[1]], parts[p[2]]) <= Growth(parts[q[1]], parts[q[2]])}

JoinDown(places) ==
    FoldLeft(LAMBDA ps, k : IF Len(ps) <= MostParts THEN ps ELSE JoinAt(ps, FirstPair(Cheapest(ps))),
             places, places)

Gather(places) ==
    JoinDown(JoinNear(SelectSeq([k \in DOMAIN places |-> Cut(places[k], WholeTarget)],
                                LAMBDA b : ~Empty(b))))

-----------------------------------------------------------------------------
(* What of the target is drawn, and in which pass.                         *)

\* Only parts of a target that holds a picture of ours are kept to.
Asked == IF call.drawn /\ Has("keep") THEN Gather(call.damage) ELSE <<>>

Around(boxes) == FoldLeft(Join, boxes[1], Tail(boxes))

\* Several parts need the pass that loads; without it they are drawn as one.
Parts(asked) ==
    IF asked = <<>> THEN <<WholeTarget>>
    ELSE IF Len(asked) > 1 /\ ~Has("load") THEN <<Around(asked)>> ELSE asked

Pass(asked, parts) ==
    IF asked = <<>> THEN "render" ELSE IF Len(parts) = 1 THEN "keep" ELSE "load"

-----------------------------------------------------------------------------
(* Which layers are written, which parts cleared.                          *)

Place(l, area) == Cut(l.box, area)

LandsOnDrawn(i, places) ==
    \E k \in 1..(i - 1) : ~Empty(places[k]) /\ Meet(places[k], places[i])

\* A layer that is seen through nowhere.
Hides(l) == ~l.turned /\ l.alpha = "one" /\ ~l.rounded /\ l.opaque

\* A turned layer counts as setting its whole place.
MutWritten(i, places) ==
    /\ Has("replace")
    /\ ~LandsOnDrawn(i, places) \/ Hides(call.layers[i])

Written(i, places) ==
    /\ Has("replace") /\ ~call.layers[i].turned
    /\ ~LandsOnDrawn(i, places) \/ Hides(call.layers[i])

WrittenPlaces(places) ==
    {places[i] : i \in {j \in DOMAIN places : Written(j, places) /\ ~Empty(places[j])}}

ToClear(parts, written) == {k \in DOMAIN parts : ~Covers(parts[k], written)}

\* The pass that clears gives way to the one that does not care, where it
\* came up and nothing is to be cleared.
CoverPass(pass, clear) ==
    IF pass = "load" \/ clear # {} THEN pass
    ELSE LET cover == IF pass = "keep" THEN "cover_keep" ELSE "cover"
         IN  IF Has(cover) THEN cover ELSE pass

-----------------------------------------------------------------------------
(* The GPU.                                                                *)

\* The pixels a layer's quad really has: a turned one leaves out the last
\* column of its place.
Fragment(l, p) == Inside(p, l.box) /\ (l.turned => p[1] < l.box[3] - 1)

\* The crop's quarter seen at a pixel, by halves of the place; 0 in the
\* middle of a place with no halves.
Quarter(l, p, corners) ==
    LET x == (2 * (p[1] - l.box[1]) + 1) - (l.box[3] - l.box[1])
        y == (2 * (p[2] - l.box[2]) + 1) - (l.box[4] - l.box[2])
    IN  IF x = 0 \/ y = 0 THEN 0
        ELSE corners[IF y < 0 THEN (IF x < 0 THEN 1 ELSE 2) ELSE (IF x < 0 THEN 4 ELSE 3)]

\* Outside its corners, here the first column, a layer is nought.
Nought(l, p) == l.rounded /\ p[1] = l.box[1]

Seen(i, l, p) == <<i, Quarter(l, p, IF l.turned THEN PlaceTurnedLayer(l) ELSE PlaceLayer(l))>>

WriteTo(pixel, i, l, p) == IF Nought(l, p) THEN <<>> ELSE <<Seen(i, l, p)>>

BlendOnto(pixel, i, l, p) ==
    IF Nought(l, p) THEN pixel
    ELSE IF l.alpha = "one" /\ l.opaque THEN <<Seen(i, l, p)>>
    ELSE Append(pixel, Seen(i, l, p))

\* What a pass leaves in a pixel of the box it is begun over.
Loaded(pass, area, p) ==
    IF ~Inside(p, area) THEN canvas[p]
    ELSE CASE pass \in {"render", "keep"} -> <<>>
           [] pass \in {"cover", "cover_keep"} -> Junk
           [] pass = "load" -> canvas[p]

\* Each part under its own scissor; a layer that lands nowhere in it is left
\* out.
DrawPart(pixel, part, places, p) ==
    IF ~Inside(p, part) THEN pixel
    ELSE FoldLeftDomain(LAMBDA c, i :
            IF Empty(places[i]) \/ ~Meet(places[i], part) \/ ~Fragment(call.layers[i], p) THEN c
            ELSE IF Written(i, places) THEN WriteTo(c, i, call.layers[i], p)
            ELSE BlendOnto(c, i, call.layers[i], p), pixel, call.layers)

DrawnPixel(p, pass, area, parts, places, clear) ==
    LET begun == Loaded(CoverPass(pass, clear), area, p)
        cleared == IF pass = "load" /\ \E k \in clear : Inside(p, parts[k]) THEN <<>> ELSE begun
    IN  FoldLeft(LAMBDA c, part : DrawPart(c, part, places, p), cleared, parts)

\* ComposeNow, once its images are known.
ComposeNow ==
    /\ ~done /\ done' = TRUE
    /\ \E parts \in {Parts(Asked)} : \E area \in {Around(parts)} :
       \E places \in {[i \in DOMAIN call.layers |-> Place(call.layers[i], area)]} :
       \E clear \in {ToClear(parts, WrittenPlaces(places))} :
          canvas' = [p \in Pixels |-> DrawnPixel(p, Pass(Asked, parts), area, parts, places, clear)]
    /\ UNCHANGED call

Init ==
    /\ call \in [layers : UNION {[1..n -> LayerSet] : n \in 1..MaxLayers}, damage : DamageLists,
                 passes : PassSets, drawn : BOOLEAN]
    /\ canvas = [p \in Pixels |-> Old]
    /\ done = FALSE

Next == ComposeNow

Spec == Init /\ [][Next]_drawVars

-----------------------------------------------------------------------------
(* Properties.                                                             *)

\* HwcVk.h's meaning of a transform: the flips first, then a quarter turn
\* clockwise.  The crop's corner at the corner k of the place, one operation
\* undone after the other.
TurnedBack(l, k) ==
    LET unturned == IF "rotate" \in l.transform THEN IF k = 1 THEN 4 ELSE k - 1 ELSE k
        undown == IF "flip_v" \in l.transform THEN 5 - unturned ELSE unturned
    IN  IF "flip_h" \in l.transform THEN <<2, 1, 4, 3>>[undown] ELSE undown

\* Every layer blended onto nothing, one after the other.
Reference(p) ==
    FoldLeftDomain(LAMBDA c, i : LET l == call.layers[i]
                                     at == IF l.turned THEN <<1, 2, 3, 4>>
                                           ELSE [k \in 1..4 |-> TurnedBack(l, k)]
                                     seen == <<i, Quarter(l, p, at)>>
                                 IN  IF ~Fragment(l, p) \/ Nought(l, p) THEN c
                                     ELSE IF l.alpha = "one" /\ l.opaque THEN <<seen>>
                                     ELSE Append(c, seen), <<>>, call.layers)

\* The passes that do not clear, the layers written instead of blended and
\* the parts drawn on their own are all savings: whichever passes came up, a
\* pixel of the target holds what blending every layer onto a cleared target
\* would give, and only one outside the parts asked for, in a target that
\* held a picture already, may be as it was (VkCompositor::ComposeNow,
\* PlaceLayer, Covers).
SavingsAreUnseen ==
    done => \A p \in Pixels :
        \/ canvas[p] = Reference(p)
        \/ /\ canvas[p] = Old /\ call.drawn
           /\ call.damage # <<>> /\ \A k \in DOMAIN call.damage : ~Inside(p, call.damage[k])

\* No two of the parts a picture is drawn in have a pixel in common, where
\* each layer would be blended twice (Gather).
PartsApart ==
    done => \A i, j \in DOMAIN Gather(call.damage) : i # j =>
         ~Meet(Gather(call.damage)[i], Gather(call.damage)[j])
=============================================================================
