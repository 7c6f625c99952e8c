------------------------------ MODULE Planner ------------------------------
(***************************************************************************)
(* compositor/GenericCompositionPlanner: which layers of a scene go to     *)
(* windows, to the cursor unit and to the client.  Pure: the layers are a  *)
(* sequence in the planner's order, the display's answers a record         *)
(*   ctm_by_gpu, color_pipeline, scaling_by_gpu, cursor_plane              *)
(*   planes, direct    GetNumAvailablePlanes and GetNumDirectPlanes        *)
(* and what the kernel answers, TestComposition, a function of the types.  *)
(* A range of the sequence is [start, size], start counted from 0.         *)
(***************************************************************************)
EXTENDS HwcLayer

RequireScalingOrPhasing(l) ==
    \/ WidthOf(l.shown_crop) # WidthOf(l.shown_frame)
    \/ HeightOf(l.shown_crop) # HeightOf(l.shown_frame)

HardwareSupportsLayerType(type) == type \in {"Device", "Cursor"}

IsClientLayer(d, l) ==
    \/ HasEffect(l)
    \/ ~HardwareSupportsLayerType(l.type)
    \/ ~IsLayerUsableAsDevice(l)
    \/ d.ctm_by_gpu
    \/ RequireScalingOrPhasing(l) /\ d.scaling_by_gpu

\* LayersUseDifferentColorspaces
DifferentColorspaces(layers) ==
    \E i \in DOMAIN layers : layers[i].data_space # layers[1].data_space

InRange(i, range) == range.start < i /\ i <= range.start + range.size

GetCompositionTypes(layers, range, cursor) ==
    [i \in DOMAIN layers |->
        IF InRange(i, range) THEN "Client"
        ELSE IF cursor /\ layers[i].type = "Cursor" THEN "Cursor"
        ELSE "Device"]

\* What the windows show below the client's target.
GetPunchOutLayers(layers, range) ==
    IF range.size = 0 THEN {} ELSE {i \in DOMAIN layers : i <= range.start}

GetFlattenedComposition(layers, reason) ==
    [types |-> [i \in DOMAIN layers |-> "Client"], punch |-> {}, flatten |-> reason]

CalcPixOps(layers, start, size) ==
    MapThenSumSet(LAMBDA i : GetPixOps(layers[i]),
                  {i \in DOMAIN layers : InRange(i, [start |-> start, size |-> size])})

\* The range the client must have whatever the windows can take.
ForcedClientRange(d, layers) ==
    LET client == {i \in DOMAIN layers : IsClientLayer(d, layers[i])} IN
    IF client = {} THEN [start |-> 0, size |-> 0]
    ELSE [start |-> Min(client) - 1, size |-> Max(client) - Min(client) + 1]

\* The cheapest place of a window of that size over the layers, the first of
\* equals.
Cheapest(layers, start, steps, size) ==
    LET cost(s) == CalcPixOps(layers, s, size)
        places == start..(start + steps - 1)
        least == Min({cost(s) : s \in places})
    IN  Min({s \in places : cost(s) = least})

\* The range grown by what the planes cannot take, and by what the ladder
\* asks beyond it, at the fewest pixels.
GetExtraClientRange(d, layers, range, cursor, forced) ==
    LET n1 == Len(layers) - (IF cursor THEN 1 ELSE 0)
        p1 == IF d.planes < n1 THEN d.planes - 1 ELSE d.planes
        reserve == /\ ~cursor /\ p1 > 0 /\ n1 > 0
                   /\ range.start + range.size < n1
                   /\ Last(layers).type = "Cursor"
        n == IF reserve THEN n1 - 1 ELSE n1
        p == IF reserve THEN p1 - 1 ELSE p1
        over == IF n - range.size > p THEN n - range.size - p ELSE 0
        extra == Min({over + forced, n - range.size})
        prepend == Min({range.start, extra})
        append == Min({n - (range.start + range.size), extra})
        start == range.start - prepend
        size == range.size + extra
    IN  IF (over = 0 /\ forced = 0) \/ range.size >= n THEN range
        ELSE IF range.size # 0
        THEN [start |-> Cheapest(layers, start,
                            1 + Min({append, prepend, n - (start + size)}), size),
              size |-> size]
        ELSE [start |-> Cheapest(layers, 0, 1 + n - extra, extra), size |-> extra]

GetClientLayers(d, layers, cursor, forced) ==
    GetExtraClientRange(d, layers, ForcedClientRange(d, layers), cursor, forced)

\* Whether the cursor unit may have the cursor: it draws over every window,
\* and is tried alone over a scene the client draws whole.
UseCursorPlane(d, layers, takes) ==
    /\ d.cursor_plane /\ layers # <<>>
    /\ LET first == SelectInSeq(layers, LAMBDA l : l.type = "Cursor") IN
       /\ first = Len(layers)
       /\ ~IsClientLayer(d, layers[first])
       /\ takes[GetCompositionTypes(layers, [start |-> 0, size |-> first - 1], TRUE)]

\* A range as a plan, and whether it stands: all of it to the client is not
\* asked about.
Whole(layers, range) == range.start = 0 /\ range.size = Len(layers)
Stands(layers, range, cursor, takes) ==
    Whole(layers, range) \/ takes[GetCompositionTypes(layers, range, cursor)]
PlanOf(layers, range, cursor) ==
    [types |-> GetCompositionTypes(layers, range, cursor),
     punch |-> GetPunchOutLayers(layers, range), flatten |-> "none"]

\* How many layers the one rung of the ladder gives up: down to what the
\* real windows take without a merge.
Rung(d, layers, range) ==
    LET device == Len(layers) - range.size IN
    IF d.direct > 0 /\ device + 1 > d.direct THEN device + 1 - d.direct ELSE 1

\* The planner's answer, made anew: the plan the planes ask for, one rung
\* down when it is refused, the cursor alone, and the client for all.
Descend(layers, cursor, asked, less, takes) ==
    LET alone == [start |-> 0, size |-> Len(layers) - 1]
        Stand(range) == Stands(layers, range, cursor, takes)
    IN  IF Stand(asked) THEN PlanOf(layers, asked, cursor)
        ELSE IF Len(layers) > 1 /\ less # asked /\ Stand(less)
        THEN PlanOf(layers, less, cursor)
        ELSE IF Last(layers).type = "Cursor" /\ Stand(alone)
        THEN PlanOf(layers, alone, cursor)
        ELSE GetFlattenedComposition(layers, "ValidateFailed")
Ladder(d, layers, cursor, asked, takes) ==
    Descend(layers, cursor, asked,
            GetClientLayers(d, layers, cursor, Rung(d, layers, asked)), takes)
PlanWith(d, layers, cursor, takes) ==
    Ladder(d, layers, cursor, GetClientLayers(d, layers, cursor, 0), takes)
Replan(d, layers, takes) ==
    PlanWith(d, layers, UseCursorPlane(d, layers, takes), takes)

\* The reasons to flatten that are looked at before the plan kept: they do
\* not take what the layers and the display raised.
EarlyFlatten(d, layers) ==
    IF d.ctm_by_gpu THEN "CtmWithOffset"
    ELSE IF DifferentColorspaces(layers) /\ ~d.color_pipeline
    THEN "NoPerPlaneColorspaceSupport"
    ELSE "none"
=============================================================================
