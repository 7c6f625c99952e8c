------------------------------ MODULE Seating -------------------------------
(***************************************************************************)
(* One frame from the layers' types to what the controller is told: the    *)
(* plan weighed at validate, the client range drawn by the GPU executor in *)
(* between, the same plan, or one made again, committed.                   *)
(*                                                                         *)
(* The scene is built layer by layer, bottom first.  setup says what the   *)
(* pipeline was brought up with and what the scene is for:                 *)
(*   aspect "frame"      whole frames;                                     *)
(*   aspect "group"      the choice of a merge group alone;                *)
(*   aspect "occlusion"  what can be seen of each layer alone.             *)
(***************************************************************************)
EXTENDS Request

CONSTANTS Setups, Kinds(_), MaxLayers(_), Table, Windows, Target, ClientFrames, Budgets

ASSUME SeatingAssumption ==
    /\ kSteps \in Budgets
    /\ \A s \in Setups : MaxLayers(s) \in Nat
    /\ PanelW > 0

VARIABLES
    setup,     \* rigid
    layers,    \* the scene, in z order
    types,     \* the planner's answer for each layer
    target,    \* the client layer
    planned,   \* the client layer's frame the plan was made with
    joining,   \* the plan
    request,   \* what is made of it
    stage      \* "scene", "planned", "drawn", "shown", "refused"

vars == <<setup, layers, types, target, planned, joining, request, stage>>

Caps == describeWindows(Table)
Usable == GetUsablePlanes(setup, Windows, Caps)

Init ==
    /\ setup \in Setups
    /\ layers = <<>> /\ types = <<>>
    /\ \E r \in ClientFrames : target = [Target EXCEPT !.frame = r, !.crop = r]
    /\ planned = NoRect
    /\ joining = NoJoining /\ request = NoRequest
    /\ stage = "scene"

AddLayer(l) ==
    /\ stage = "scene" /\ Len(layers) < MaxLayers(setup)
    /\ layers' = Append(layers, [l EXCEPT !.id = Len(layers) + 1])
    /\ UNCHANGED <<setup, types, target, planned, joining, request, stage>>

\* The types a planner answers with: one client range, and the top layer on
\* the cursor plane if it asked to be there.
TypeOf(k, range) ==
    IF k \in range THEN "Client" ELSE IF k = Len(layers) /\ layers[k].cursor THEN "Cursor" ELSE "Device"
Ranges == {{}} \cup (IF setup.client THEN {a..b : a, b \in 1..Len(layers)} ELSE {})

\* TestComposition.
Weighed(j) ==
    /\ joining' = j
    /\ request' = GetAtomicModeReqForArgs(j, Windows)
    /\ stage' = IF j = NoJoining THEN "refused" ELSE "planned"

Validate(range) ==
    /\ stage = "scene" /\ setup.aspect = "frame" /\ layers # <<>>
    /\ types' = [k \in DOMAIN layers |-> TypeOf(k, range)]
    /\ planned' = target.frame
    /\ Weighed(CreateLayerToPlaneJoiningPlan(layers, types', target, setup.still, Usable))
    /\ UNCHANGED <<setup, layers, target>>

\* The client range drawn by the executor and its picture seated: the part
\* it covers, which is the bounds of the range as it is now.
RangeBounds == BoundsOf({PlaceOf(layers[z]) : z \in OfType(layers, types, "Client")})

SeatGpuBuffer ==
    /\ stage = "planned" /\ joining.client_index # 0
    /\ target' = [target EXCEPT !.frame = RangeBounds, !.crop = RangeBounds]
    /\ stage' = "drawn"
    /\ UNCHANGED <<setup, layers, types, planned, joining, request>>

Shown(j) ==
    /\ joining' = j
    /\ request' = GetAtomicModeReqForArgs(j, Windows)
    /\ stage' = IF j = NoJoining THEN "refused" ELSE "shown"
    /\ UNCHANGED <<setup, layers, types, target, planned>>

\* CommitStagedComposition: with the plan of the validation, its client
\* entry brought up to date, or with one made again from kept types.
CommitPlan ==
    /\ stage = IF joining.client_index = 0 THEN "planned" ELSE "drawn"
    /\ Shown(UpdateClientTargetIfNeeded(joining, target))

CommitReused ==
    /\ stage = IF joining.client_index = 0 THEN "planned" ELSE "drawn"
    /\ Shown(CreateLayerToPlaneJoiningPlan(layers, types, target, setup.still, Usable))

Next ==
    \/ \E l \in Kinds(setup) : AddLayer(l)
    \/ \E range \in Ranges : Validate(range)
    \/ SeatGpuBuffer
    \/ CommitPlan
    \/ CommitReused

Spec == Init /\ [][Next]_vars

-----------------------------------------------------------------------------
(* The picture.                                                             *)

Panel == Covers(Rect(0, 0, PanelW, PanelH))
ShownAt(x) == {k \in DOMAIN request.windows : /\ request.windows[k].fd # 0
                                              /\ x \in Covers(request.windows[k].out)}
Ids(entries) == [k \in DOMAIN entries |-> entries[k].id]

\* The members of the merged buffer at a pixel, top first.
MembersAt(w, x) ==
    Reverse(Ids(SelectSeq(request.merge,
                          LAMBDA m : x \in Covers(Shifted(m.display, -w.out.left, -w.out.top)))))
WindowAt(w, x) == IF w.fd = Merged THEN MembersAt(w, x) ELSE <<w.fd>>

\* What the controller shows at a pixel, nearest the viewer first.
PanelAt(x) ==
    FoldLeft(LAMBDA seen, k : seen \o WindowAt(request.windows[k], x), <<>>,
             SetToSortSeq(ShownAt(x), LAMBDA a, b : request.windows[a].z < request.windows[b].z))

\* What the stack has there, a cursor on a window included.
Windowed ==
    StackOf(layers, types, target)
    \o (IF CursorZ(layers, types) # 0 /\ ~setup.unit THEN <<layers[CursorZ(layers, types)]>> ELSE <<>>)
StackAt(x) == Reverse(Ids(SelectSeq(Windowed, LAMBDA l : x \in Covers(PlaceOf(l)))))

PictureTrue == \A x \in Panel : PanelAt(x) = StackAt(x)

\* TypeOK: the stages, and what is known in each.
TypeOK ==
    /\ setup \in Setups
    /\ stage \in {"scene", "planned", "drawn", "shown", "refused"}
    /\ Len(layers) \in 0..MaxLayers(setup)
    /\ stage # "scene" => DOMAIN types = DOMAIN layers

\* Every layer handed to the planes is on the panel exactly once and
\* overlapping layers keep their order, through the choice of a group, the
\* lowering of drawing layers beneath it, the merged buffer's own axes and
\* the controller's depths, for a client range drawn where it was when the
\* plan was made (LayerToPlaneJoiningPlan.cpp, GetAtomicModeReqForArgs).
PictureKept ==
    (stage \in {"planned", "shown"} /\ request # NoRequest /\ (joining.client_index # 0 => target.frame = planned))
        => PictureTrue

\* What a plane accepted is never refused once the frame is promised: no
\* window that cannot be described, no group with mixed turns or off the
\* panel (TegraPlane::IsValidForLayer against DescribeWindow and the merge
\* checks of GetAtomicModeReqForArgs).
AcceptedIsDescribed == (stage \in {"planned", "shown"}) => request # NoRequest

\* Where pixel p of a buffer of size s lands under the framework's
\* transform: the flips first, then the quarter turn, clockwise.
Flipped(p, s, h, v) == <<IF h THEN s.w - 1 - p[1] ELSE p[1], IF v THEN s.h - 1 - p[2] ELSE p[2]>>
Asked(p, s, turn) ==
    LET q == Flipped(p, s, "hflip" \in turn, "vflip" \in turn) IN
    IF "rotate90" \in turn THEN <<s.h - 1 - q[2], q[1]>> ELSE q
\* And under the controller's flags: mirrors in the buffer's axes, then the
\* columns read as rows.
Read(p, s, flags) ==
    LET q == Flipped(p, s, "invert_h" \in flags, "invert_v" \in flags) IN
    IF "scan_column" \in flags THEN <<q[2], q[1]>> ELSE q

\* Every layer a window shows stands the way it was asked to, unresized when
\* turned and read from blocks when turned a quarter (WindowTransformFor,
\* TegraPlane::IsValidForLayer).
TurnIsTrue ==
    \A k \in DOMAIN request.windows :
        LET w == request.windows[k] IN
        w.fd \notin {0, Merged} =>
            LET l == (CHOOSE j \in Range(joining.plan) : j.layer.id = w.fd).layer
                s == Size(WidthOf(w.source), HeightOf(w.source)) IN
            /\ \A p \in Covers(Rect(0, 0, s.w, s.h)) : Read(p, s, w.flags) = Asked(p, s, l.turn)
            /\ "scan_column" \in w.flags => "blocks" \in w.flags
            /\ l.turn # {} => LET t == Crossed(l, s) IN t = Size(WidthOf(w.out), HeightOf(w.out))

\* The group is the best there is -- fewest drawing members, then fewest
\* layers moved, then lowest -- and, with any budget of steps, no worse than
\* the best contiguous run (ChooseMergeGroup).
GroupIsBest ==
    setup.aspect = "group" =>
        \A width \in 1..Len(layers), budget \in Budgets :
            LET choice == ChooseMergeGroup(layers, width, budget)
                groups == IF budget = kSteps THEN GroupsOf(layers, width) ELSE ContiguousRuns(layers, width)
            IN  /\ budget = kSteps => (choice = NoGroup) = (groups = {})
                /\ groups # {} => /\ choice # NoGroup
                                  /\ \A g \in groups : ChoiceCost(layers, choice) <= Cost(layers, g)

\* A layer is called hidden exactly when no pixel of it can be seen, and
\* what is shown of one bounds the pixels that can (occlusion::Resolve).
OcclusionIsTrue ==
    setup.aspect = "occlusion" =>
        \A i \in DOMAIN layers :
            LET seen == SeenPixels(layers, i)
                shown == Resolve(layers)[i]
            IN  (~layers[i].keep /\ ~EmptyRect(layers[i].frame)) =>
                    /\ shown.hidden = (seen = {})
                    /\ seen # {} => shown.bounds = Rect(Min({p[1] : p \in seen}), Min({p[2] : p \in seen}),
                                                        Max({p[1] : p \in seen}) + 1, Max({p[2] : p \in seen}) + 1)

\* What the planes accepted is described to the controller, and described so that
\* it stands as asked.
AcceptedIsShown == AcceptedIsDescribed /\ TurnIsTrue

\* The two searches the frame rests on find what they look for: the best group,
\* and exactly the layers that cannot be seen.
SearchesAreExact == GroupIsBest /\ OcclusionIsTrue
=============================================================================
