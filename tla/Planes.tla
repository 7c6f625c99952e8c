------------------------------- MODULE Planes -------------------------------
(***************************************************************************)
(* What the windows of a head can show: the controller's feature table     *)
(* (tegra/WindowFeatures), the planes made of it (TegraDisplayPipeline),   *)
(* and what each plane answers for a layer (TegraPlane, TegraCursorPlane,  *)
(* TegraFormat, PresentInfo in compositor/LayerData.h).  Pure.             *)
(*                                                                         *)
(* A layer here is                                                         *)
(*   frame        where it lands, NoRect when unsaid                       *)
(*   crop         what of the buffer is read, NoRect when unsaid           *)
(*   w, h         its buffer                                               *)
(*   turn         a subset of {"hflip", "vflip", "rotate90"}               *)
(*   phase        the crop starts inside a pixel                           *)
(*   format       the DRM name; layout: the memory arrangement             *)
(*   handle       the allocator's own name for the buffer is known         *)
(*   blend, faded, encoding, range, chroma   as the code reads them        *)
(***************************************************************************)
EXTENDS MergeGroup

CONSTANTS kEngineScaleReach, kMaxLayers, kMaxSide

ASSUME PlanesAssumption ==
    kEngineScaleReach \in Nat \ {0} /\ kMaxLayers \in Nat \ {0} /\ kMaxSide \in Nat

-----------------------------------------------------------------------------
(* Formats and memory arrangements.                                         *)

\* The controller's code for a DRM format, "none" for one it does not read.
TegraFormatFromDrm(f) ==
    CASE f \in {"ABGR8888", "XBGR8888"} -> "R8G8B8A8"
      [] f \in {"ARGB8888", "XRGB8888"} -> "B8G8R8A8"
      [] f = "BGR565" -> "B5G6R5"
      [] f = "NV12" -> "YCbCr420SP"
      [] f = "NV21" -> "YCrCb420SP"
      [] OTHER -> "none"

DrmFormatIsYuv(f) ==
    f \in {"YUYV", "YVYU", "UYVY", "VYUY", "AYUV", "NV12", "NV21", "NV16", "NV61", "NV24", "NV42",
           "YUV410", "YVU410", "YUV411", "YVU411", "YUV420", "YVU420", "YUV422", "YVU422",
           "YUV444", "YVU444"}

\* The arrangements the controller was told about; "compressed" is a block
\* kind it does not scan.
TegraLayoutFromModifier(m) == m \in {"blocks", "tiled", "rows"}

-----------------------------------------------------------------------------
(* The extents of a layer.                                                  *)

Size(w, h) == [w |-> w, h |-> h]
SizeOr(r, whole) == IF r = NoRect THEN whole ELSE Size(WidthOf(r), HeightOf(r))
Crossed(l, s) == IF "rotate90" \in l.turn THEN Size(s.h, s.w) ELSE s
NoSize == Size(0, 0)

\* Source and destination in the destination's axes; whole stands in for a
\* rectangle left unsaid.
ExtentsInDestAxes(l, whole) ==
    [src |-> Crossed(l, SizeOr(l.crop, whole)), dst |-> SizeOr(l.frame, whole)]

Said(l) == l.crop # NoRect /\ l.frame # NoRect
Resizes(l) == Said(l) /\ LET e == ExtentsInDestAxes(l, NoSize) IN e.src # e.dst
RequireScalingOrPhasing(l) == Said(l) /\ (Resizes(l) \/ l.phase)

-----------------------------------------------------------------------------
(* Capabilities.                                                            *)

NoCaps ==
    [formats |-> {}, minW |-> 0, maxW |-> 0, minH |-> 0, maxH |-> 0, layouts |-> {}, turns |-> {},
     scaling |-> FALSE, upH |-> 1, upV |-> 1, downH |-> 1, downV |-> 1]

\* One row of the feature table.
DescribeRow(caps, row) ==
    CASE row.option = "formats" -> [caps EXCEPT !.formats = row.arg]
      [] row.option = "size" ->
            [caps EXCEPT !.maxW = row.arg[1], !.minW = row.arg[2], !.maxH = row.arg[3], !.minH = row.arg[4]]
      [] row.option = "scale" ->
            [caps EXCEPT !.upH = row.arg[1], !.upV = row.arg[2], !.downH = row.arg[3], !.downV = row.arg[4],
                         !.scaling = \E k \in 1..4 : row.arg[k] # 1]
      [] row.option = "layout" -> [caps EXCEPT !.layouts = row.arg]
      [] row.option = "invert" -> [caps EXCEPT !.turns = row.arg]
      [] OTHER -> caps

describeWindows(table) ==
    [w \in {table[k].window : k \in DOMAIN table} |->
        FoldLeft(LAMBDA caps, row : IF row.window = w THEN DescribeRow(caps, row) ELSE caps, NoCaps, table)]

IsCursorCandidate(caps) == "blocks" \notin caps.layouts /\ ~caps.scaling

-----------------------------------------------------------------------------
(* What a plane answers.                                                    *)

\* Sixteen to one passes, anything past it does not, either way, per axis.
Past(a, b) == a > 0 /\ b > 0 /\ (a > b * kEngineScaleReach \/ b > a * kEngineScaleReach)
BeyondEngineReach(e) ==
    /\ e.src.w > 0 /\ e.src.h > 0 /\ e.dst.w > 0 /\ e.dst.h > 0
    /\ Past(e.src.w, e.dst.w) \/ Past(e.src.h, e.dst.h)

\* A merging plane is judged by what the engine reads.
MergeTakes(l) ==
    LET e == ExtentsInDestAxes(l, Size(l.w, l.h)) IN
    /\ l.handle
    /\ l.turn # {} => e.src.w > 0 /\ e.src.h > 0
    /\ ~BeyondEngineReach(e)
    /\ ~DrmFormatIsYuv(l.format)

\* The limits of the window's own filter.
WithinScale(caps, l) ==
    Said(l) =>
      LET e == ExtentsInDestAxes(l, NoSize) IN
      (e.src.w > 0 /\ e.src.h > 0 /\ e.dst.w > 0 /\ e.dst.h > 0) =>
         /\ e.src.w <= e.dst.w * caps.downH /\ e.src.h <= e.dst.h * caps.downV
         /\ e.dst.w <= e.src.w * caps.upH /\ e.dst.h <= e.src.h * caps.upV

WithinPanelLimits(caps, l) ==
    l.frame # NoRect => /\ WidthOf(l.frame) \in caps.minW..caps.maxW
                        /\ HeightOf(l.frame) \in caps.minH..caps.maxH

\* A quarter turn is read by columns, which only blocks allow.
Turns(caps, l) ==
    /\ l.turn \subseteq caps.turns
    /\ "rotate90" \in l.turn => l.layout = "blocks"
    /\ ~(l.turn # {} /\ Resizes(l))

WindowTakes(caps, l) ==
    /\ TegraFormatFromDrm(l.format) \in caps.formats
    /\ TegraLayoutFromModifier(l.layout)
    /\ l.layout \in caps.layouts
    /\ RequireScalingOrPhasing(l) => caps.scaling
    /\ WithinScale(caps, l)
    /\ Turns(caps, l)
    /\ WithinPanelLimits(caps, l)

\* The cursor unit places a sprite and does nothing else with it.
CursorTakes(l) ==
    LET sprite == SizeOr(l.crop, Size(l.w, l.h)) IN
    /\ l.handle
    /\ l.format = "ABGR8888"
    /\ l.blend # "coverage" /\ ~l.faded
    /\ l.turn = {}
    /\ l.frame # NoRect
    /\ WidthOf(l.frame) \in 1..kMaxSide /\ HeightOf(l.frame) \in 1..kMaxSide
    /\ sprite.w - WidthOf(l.frame) \in -1..1 /\ sprite.h - HeightOf(l.frame) \in -1..1

Plane(id, caps, merging, cursor) == [id |-> id, caps |-> caps, merging |-> merging, cursor |-> cursor]
NoPlane == Plane(-1, NoCaps, FALSE, FALSE)
kPlaneId == 99

IsValidForLayer(plane, l) ==
    IF plane.cursor THEN CursorTakes(l)
    ELSE IF plane.merging THEN MergeTakes(l)
    ELSE WindowTakes(plane.caps, l)

-----------------------------------------------------------------------------
(* The planes of a head.  on is what the pipeline was brought up with:      *)
(*   vic      the engine and its scratch pool; unit: the cursor unit;       *)
(*   offered  the merge is not switched off by property.                    *)

\* A window the engine may draw for is offered as often as the engine takes
\* layers in one pass.
Copies(on, caps) == IF on.vic /\ "rows" \in caps.layouts /\ ~caps.scaling THEN kMaxLayers ELSE 1
Merging(on, caps) == on.offered /\ on.vic /\ IsCursorCandidate(caps)

Offers(on, w, caps) == [c \in 1..Copies(on, caps) |-> Plane(w, caps, Merging(on, caps), FALSE)]
PlanesOf(on, windows, caps) ==
    FoldLeft(LAMBDA all, w : IF w \in DOMAIN caps THEN all \o Offers(on, w, caps[w]) ELSE all, <<>>, windows)

Ordinary(on, plane) == ~IsCursorCandidate(plane.caps) \/ plane.merging \/ on.unit

\* The planes for layers, and the one for the cursor.
GetUsablePlanes(on, windows, caps) ==
    LET all == PlanesOf(on, windows, caps)
        spare == {k \in DOMAIN all : ~Ordinary(on, all[k])}
    IN  [first  |-> SelectSeq(all, LAMBDA p : Ordinary(on, p)),
         second |-> IF spare # {} THEN all[Min(spare)]
                    ELSE IF on.unit THEN Plane(kPlaneId, NoCaps, FALSE, TRUE)
                    ELSE NoPlane]
=============================================================================
