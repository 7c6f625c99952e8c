------------------------------ MODULE Request -------------------------------
(***************************************************************************)
(* tegra/TegraAtomicStateManager::GetAtomicModeReqForArgs: a plan said the *)
(* way the controller and the engine take it, and DcHead's describe and    *)
(* test, which say it to the kernel.  Pure.                                *)
(*                                                                         *)
(* A request is                                                            *)
(*   windows   one record for each window of the head, fd 0 for one off    *)
(*   merge     the group set aside for the engine, layers empty for none   *)
(*   cursor    the sprite set aside for the unit, <<>> for none            *)
(* A window's fd is the identity of the layer it shows, or Merged.         *)
(***************************************************************************)
EXTENDS Joining

CONSTANTS kFurthestBack, PanelW, PanelH
ASSUME RequestAssumption == kFurthestBack \in Nat /\ PanelW \in Nat \ {0} /\ PanelH \in Nat \ {0}

Merged == 1000
NoRequest == [windows |-> <<>>, merge |-> <<>>, cursor |-> <<>>]

-----------------------------------------------------------------------------
(* Vocabulary.                                                              *)

TransformBits(turn) ==
    (IF "hflip" \in turn THEN 1 ELSE 0) + (IF "vflip" \in turn THEN 2 ELSE 0)
    + (IF "rotate90" \in turn THEN 4 ELSE 0)

\* The controller's flags: a quarter turn reads by columns and toggles the
\* vertical mirror.
WindowTransformFor(bits) ==
    LET rows == <<{}, {"invert_h"}, {"invert_v"}, {"invert_h", "invert_v"},
                  {"scan_column", "invert_v"}, {"invert_h", "scan_column", "invert_v"},
                  {"scan_column"}, {"scan_column", "invert_h"}>>
    IN  rows[bits + 1]

UniformTurn(turns) == \A i, j \in DOMAIN turns : turns[i] = turns[j]

BlendFor(mode) == IF mode \in {"premult", "coverage"} THEN mode ELSE "none"

\* A plan counts from the bottom up, the controller from the viewer back.
DepthForZPos(z_pos) == IF z_pos >= kFurthestBack THEN 0 ELSE kFurthestBack - z_pos

\* Which of the four matrices, by standard and range; a buffer that names no
\* standard is judged by its height.
CscFor(l) ==
    [standard |-> IF \/ l.encoding \in {"709", "2020"}
                     \/ l.encoding = "undefined" /\ l.h >= 720 THEN "709" ELSE "601",
     full     |-> l.range = "full"]

-----------------------------------------------------------------------------
(* One window, one member.                                                  *)

Off(index) ==
    [index |-> index, fd |-> 0, z |-> 0, format |-> "none", flags |-> {}, blend |-> "none",
     csc |-> <<>>, source |-> NoRect, out |-> NoRect]

WholeBuffer(l) == Rect(0, 0, l.w, l.h)
SourceOf(l) == IF l.crop # NoRect THEN l.crop ELSE WholeBuffer(l)
PlaceOf(l) == IF l.frame # NoRect THEN l.frame ELSE WholeBuffer(l)

\* False for a layer the planner should never have let here.
Describable(l) ==
    /\ TegraFormatFromDrm(l.format) # "none"
    /\ TegraLayoutFromModifier(l.layout)
    /\ DrmFormatIsYuv(l.format) => l.chroma

DescribeWindow(l, index, depth) ==
    [index  |-> index,
     fd     |-> l.id,
     z      |-> depth,
     format |-> TegraFormatFromDrm(l.format),
     flags  |-> WindowTransformFor(TransformBits(l.turn)) \cup (IF l.faded THEN {"global_alpha"} ELSE {})
                \cup {l.layout},
     blend  |-> BlendFor(l.blend),
     csc    |-> IF DrmFormatIsYuv(l.format) THEN <<CscFor(l)>> ELSE <<>>,
     source |-> SourceOf(l),
     out    |-> PlaceOf(l)]

MergeLayerFrom(l) ==
    [id |-> l.id, source |-> SourceOf(l), display |-> PlaceOf(l), premultiplied |-> l.blend # "coverage",
     faded |-> l.faded, bits |-> TransformBits(l.turn)]

NoMerge == [slot |-> 0, window |-> 0, depth |-> 0, layers |-> <<>>, origin |-> <<0, 0>>, w |-> 0, h |-> 0]

-----------------------------------------------------------------------------
(* The walk over the plan.  s is [ok, windows, merge, cursor].              *)

WalkCursor(s, j) ==
    IF j.layer.frame = NoRect THEN s
    ELSE [s EXCEPT !.cursor = <<[id |-> j.layer.id, size |-> SizeOr(j.layer.crop, Size(j.layer.w, j.layer.h)),
                                 at |-> <<j.layer.frame.left, j.layer.frame.top>>]>>]

\* The first member is the bottom of the group: its depth is the group's.
WalkMerge(s, j, slot) ==
    [s EXCEPT !.merge =
        IF @.layers = <<>>
        THEN [@ EXCEPT !.slot = slot, !.window = j.plane.id, !.depth = DepthForZPos(j.z_pos),
                       !.layers = <<MergeLayerFrom(j.layer)>>]
        ELSE [@ EXCEPT !.layers = Append(@, MergeLayerFrom(j.layer))]]

WalkWindow(s, j, slot) ==
    IF Describable(j.layer)
    THEN [s EXCEPT !.windows[slot] = DescribeWindow(j.layer, j.plane.id, DepthForZPos(j.z_pos))]
    ELSE [s EXCEPT !.ok = FALSE]

WalkJoining(available, s, j) ==
    IF ~s.ok THEN s
    ELSE IF j.plane.cursor THEN WalkCursor(s, j)
    ELSE IF ~Contains(available, j.plane.id) THEN [s EXCEPT !.ok = FALSE]
    ELSE LET slot == CHOOSE k \in DOMAIN available : available[k] = j.plane.id IN
         IF j.plane.merging THEN WalkMerge(s, j, slot) ELSE WalkWindow(s, j, slot)

-----------------------------------------------------------------------------
(* The group: on the panel, in its own axes, in a window of its own.        *)

OnPanel(r) == r.left >= 0 /\ r.top >= 0 /\ r.right <= PanelW /\ r.bottom <= PanelH

GroupOk(m) == /\ \A k \in DOMAIN m.layers : OnPanel(m.layers[k].display)
              /\ UniformTurn([k \in DOMAIN m.layers |-> m.layers[k].bits])

Shifted(r, x, y) == Rect(r.left - x, r.top - y, r.right - x, r.bottom - y)

\* The members' rectangles from the group's corner.
Rebased(m, b) ==
    [m EXCEPT !.origin = <<b.left, b.top>>,
              !.w = IF b.right > b.left THEN WidthOf(b) ELSE 1,
              !.h = IF b.bottom > b.top THEN HeightOf(b) ELSE 1,
              !.layers = [k \in DOMAIN @ |-> [@[k] EXCEPT !.display = Shifted(@, b.left, b.top)]]]

GroupBounds(m) == BoundsOf({m.layers[k].display : k \in DOMAIN m.layers})

\* A full window standing empty shows the group before the merging one does.
SeatMergeInEmptyWindow(windows, m) ==
    LET empty == {i \in DOMAIN windows : i # m.slot /\ windows[i].fd = 0} IN
    IF empty = {} THEN m ELSE [m EXCEPT !.slot = Min(empty), !.window = windows[Min(empty)].index]

MergedWindow(m) ==
    [Off(m.window) EXCEPT !.fd = Merged, !.z = m.depth, !.format = "R8G8B8A8", !.blend = "premult",
                          !.source = Rect(0, 0, m.w, m.h),
                          !.out = Rect(m.origin[1], m.origin[2], m.origin[1] + m.w, m.origin[2] + m.h)]

WithGroup(s, m) ==
    [windows |-> [s.windows EXCEPT ![m.slot] = MergedWindow(m)], merge |-> m.layers, cursor |-> s.cursor]

Completing(s) ==
    IF ~s.ok \/ ~GroupOk(s.merge) THEN NoRequest
    ELSE IF s.merge.layers = <<>> THEN [windows |-> s.windows, merge |-> <<>>, cursor |-> s.cursor]
    ELSE WithGroup(s, SeatMergeInEmptyWindow(s.windows, Rebased(s.merge, GroupBounds(s.merge))))

GetAtomicModeReqForArgs(joining, available) ==
    IF available = <<>> THEN NoRequest
    ELSE Completing(FoldLeft(LAMBDA s, j : WalkJoining(available, s, j),
                             [ok |-> TRUE, windows |-> [k \in DOMAIN available |-> Off(available[k])],
                              merge |-> NoMerge, cursor |-> <<>>],
                             joining.plan))

-----------------------------------------------------------------------------
(* What the kernel is told: every field of a window, the converter loaded   *)
(* when there is a matrix, and the new contents taken at a frame's end.     *)

Attr(w) == [index |-> w.index, buff_id |-> w.fd, z |-> w.z, blend |-> w.blend,
            flags |-> w.flags \cup (IF w.csc # <<>> THEN {"update_csc"} ELSE {}),
            source |-> w.source, out |-> w.out, swap_interval |-> 1]
Proposal(request) == [k \in DOMAIN request.windows |-> Attr(request.windows[k])]
=============================================================================
