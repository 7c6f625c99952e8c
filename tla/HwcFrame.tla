------------------------------ MODULE HwcFrame ------------------------------
(***************************************************************************)
(* hwc/HwcDisplay and hwc2_device: a frame from the client's layers to the *)
(* panel.  The client sets its layers, validates, collects the answers,    *)
(* draws its target, presents, collects the release fences; or presents    *)
(* without a validation.  Every entry point runs under the main lock, so   *)
(* one call is one step.                                                   *)
(*                                                                         *)
(* The client keeps to the protocol: the layers are left alone between     *)
(* validate and present, no two layers share a z, the pointer's layer is   *)
(* the top one, visible regions are true, a buffer is handed over once a   *)
(* frame, a target is drawn for every frame anew and a present turned away *)
(* is followed by a validation.                                            *)
(*                                                                         *)
(* A picture is, for every pixel, what is blended there from the top down  *)
(* to the first thing that covers it: which buffer, where in it, and the   *)
(* effects it was drawn with.  The sizes that matter to the windows are    *)
(* numbers: the panel is one row of Width pixels.                          *)
(***************************************************************************)
EXTENDS Planner

CONSTANTS
    Width,         \* of the panel
    Scenes,        \* what the client may show: sequences of layer descriptions
    Kinds,         \* the kinds of change
    Setups,        \* <<how many windows the kernel accepts at once, whether
                   \* there is a GPU executor>>
    Planes, Direct,
    CursorPlane,   \* the head has a cursor unit
    MaxId,         \* bound on layer ids
    MaxRefusals    \* bound on commits the kernel refuses

ASSUME FrameAssumption ==
    /\ Width \in Nat \ {0} /\ Planes \in Nat /\ Direct \in Nat
    /\ Setups \subseteq Nat \X BOOLEAN /\ CursorPlane \in BOOLEAN
    /\ MaxId \in Nat /\ MaxRefusals \in Nat

VARIABLES
    kind, mover, gpu, bandwidth, descs,   \* chosen once: what changes, and the setup
    layers,      \* layers_, a function of the ids in use
    who,         \* which description a layer was made from
    client,      \* client_layer_
    invalid,     \* plan_invalidators_ /= 0
    reusable,    \* reusable_plan_
    validated,   \* validated_composition_
    reused,      \* staged_composition_reused_
    engine_last, \* engine_last_frame_: buffers the last frame's merge read
    frontend,    \* Hwc2DeviceDisplay: changed, punch, releases, next_layer_id
    phase,       \* how far the client is with its frame
    fresh,       \* the layers handed a buffer since the last present
    holes,       \* what the client was asked to leave transparent
    target,      \* the picture in the client's target
    answer,      \* of the last present
    refusals,    \* commits refused so far
    scans,       \* the buffers the panel reads
    panel        \* the picture on the panel

setup == <<kind, mover, gpu, bandwidth, descs>>
plans == <<invalid, reusable, validated, reused>>
shown == <<engine_last, scans, panel>>
ours == <<holes, target>>
vars == <<setup, layers, who, client, plans, frontend, phase, fresh, ours, answer,
          refusals, shown>>

Screen == Rect(0, 0, Width, 1)
Pixels == 0..(Width - 1)
Blank == [x \in Pixels |-> <<>>]
NoPlan == [types |-> <<>>, punch |-> {}, flatten |-> "no plan", gpu_draws |-> FALSE]
NoAnswers == [changed |-> {}, punch |-> {}, releases |-> {}, next_layer_id |-> 1]

(***************************************************************************)
(* Pictures.  An entry is a function from pixels to [draws, covers].       *)
(***************************************************************************)
\* Entries blended, the top one first.
Over(entries) ==
    [x \in Pixels |->
        FoldLeft(LAMBDA got, e :
                    IF got.covers THEN got
                    ELSE [draws |-> got.draws \o e[x].draws, covers |-> e[x].covers],
                 [draws |-> <<>>, covers |-> FALSE], entries)]

Clear == Over(<<>>)
PictureOf(entries) == LET blended == Over(entries) IN [x \in Pixels |-> blended[x].draws]

\* Whether a layer's pixels let nothing through.
Covering(l) ==
    /\ l.alpha /\ l.effects \notin {"turned", "corners"}
    /\ IF l.buffer = NoBuffer THEN l.solid ELSE l.blend = "none"

\* Where pixel x is read, in sixths of half a source pixel so that frames
\* of up to three pixels compare.
SampleAt(l, frame, crop, x) ==
    LET read == ReadAcross(crop, frame, l.hflip, x) IN
    IF l.buffer = NoBuffer THEN 0 ELSE (6 * read[1]) \div read[2]

\* A layer drawn into a frame from a crop, with or without its effects.
Drawn(l, frame, crop, effects) ==
    [x \in Pixels |->
        IF frame.left <= x /\ x < frame.right
        THEN [draws |-> <<[buffer |-> l.buffer.id, at |-> SampleAt(l, frame, crop, x),
                           effects |-> effects]>>,
              covers |-> Covering(l)]
        ELSE [draws |-> <<>>, covers |-> FALSE]]

\* Ids from the top down.
TopDown(ls, ids) == SetToSortSeq(ids, LAMBDA a, b : ls[a].z > ls[b].z)

\* The picture the client's layers describe, as the client set them.
SceneOf(ls) ==
    LET order == TopDown(ls, DOMAIN ls) IN
    PictureOf([i \in DOMAIN order |->
        Drawn(ls[order[i]], ls[order[i]].frame, ls[order[i]].crop, ls[order[i]].effects)])

\* The client's target: its layers over a clear ground -- or over whatever
\* the buffer still held, under a layer that lies below and was not named
\* among the holes.
ClientDraws(ls) ==
    LET mine == {i \in DOMAIN ls : ls[i].type = "Client"}
        order == TopDown(ls, mine)
        lowest == Min({ls[i].z : i \in mine})
        at(i, x) == ls[i].frame.left <= x /\ x < ls[i].frame.right
        stale(x) == /\ \E i \in DOMAIN ls \ mine : ls[i].z < lowest /\ at(i, x)
                    /\ \A i \in holes : ~at(i, x)
        ground == [x \in Pixels |->
                      IF stale(x) THEN [draws |-> <<[buffer |-> <<>>, at |-> 0, effects |-> "stale"]>>, covers |-> TRUE]
                      ELSE [draws |-> <<>>, covers |-> FALSE]]
    IN  Over(Append([i \in DOMAIN order |->
                        Drawn(ls[order[i]], ls[order[i]].frame, ls[order[i]].crop,
                              ls[order[i]].effects)], ground))

\* The executor's picture of the client range, over a clear ground.
GpuDraws(ls, types) ==
    LET order == TopDown(ls, {i \in DOMAIN ls : types[i] = "Client"}) IN
    Over([i \in DOMAIN order |->
        Drawn(ls[order[i]], ls[order[i]].shown_frame, ls[order[i]].shown_crop,
              ls[order[i]].effects)])

\* CreateLayerToPlaneJoiningPlan: windows by z, the client's target at the
\* z of its lowest layer, the cursor over all; what is hidden is left out.
PanelOf(ls, types, drawn) ==
    LET mine == {i \in DOMAIN ls : types[i] = "Client"}
        windows == {i \in DOMAIN ls : types[i] \in {"Device", "Cursor"}}
        low == CHOOSE i \in mine : \A j \in mine : ls[i].z <= ls[j].z
        at == windows \cup (IF mine = {} THEN {} ELSE {low})
        above(a, b) == IF types[a] = "Cursor" THEN TRUE
                       ELSE types[b] # "Cursor" /\ ls[a].z > ls[b].z
        order == SetToSortSeq(at, above)
    IN  PictureOf([i \in DOMAIN order |->
            IF order[i] \in windows
            THEN Drawn(ls[order[i]], ls[order[i]].shown_frame, ls[order[i]].shown_crop, "none")
            ELSE drawn])

(***************************************************************************)
(* The layer's entry points: a conversion, and the layer's setter.         *)
(***************************************************************************)
SetLayerBlendMode(l, mode) ==
    SetLayerProperties(l, [blend |-> IF mode \in {"none", "premult", "coverage"} THEN mode
                                     ELSE "undefined"])
SetLayerDataspace(l, dataspace) == SetLayerProperties(l, [encoding |-> dataspace])
SetLayerColor(l) == SetSolidColor(l)
SetLayerGenericMetadata(l, effects) == ApplyEffectMetadata(l, effects)
\* A type there is none of sets nothing.
SetLayerCompositionType(l, type) ==
    IF type \in {"Client", "Device", "SolidColor", "Cursor"}
    THEN SetLayerProperties(l, [type |-> type]) ELSE SetLayerProperties(l, <<>>)
SetLayerDisplayFrame(l, frame) == SetLayerProperties(l, [frame |-> frame])
SetLayerPlaneAlpha(l, alpha) == SetLayerProperties(l, [alpha |-> alpha])
SetLayerSourceCrop(l, crop) == SetLayerProperties(l, [crop |-> crop])
SetLayerTransform(l, hflip) == SetLayerProperties(l, [hflip |-> hflip])
SetLayerVisibleRegion(l, region) == SetVisibleRegion(l, region)
SetLayerZOrder(l, z) == SetLayerProperties(l, [z |-> z])

\* HandleNextBuffer: a buffer no description is found for is turned away.
HandleNextBuffer(buffer) ==
    IF buffer.shape = "unknown" THEN {} ELSE {[buffer |-> buffer]}

\* SetLayerBuffer: no buffer at all is no error and no change.
SetLayerBuffer(l, buffer) ==
    LET next == HandleNextBuffer(buffer) IN
    IF buffer = NoBuffer \/ next = {} THEN l
    ELSE SetLayerProperties(l, CHOOSE p \in next : TRUE)

\* A layer's buffers: two, by turns; the targets have owners of their own.
ClientOwner == 0
GpuOwner == -1
BufferOf(id, slot, shape) == [id |-> <<id, slot>>, shape |-> shape, fb |-> shape # "foreign"]
NextBuffer(id, l, shape) ==
    BufferOf(id, IF l.buffer = NoBuffer \/ l.buffer.id[2] = 2 THEN 1 ELSE 2, shape)

\* A layer made and set up as described.
MadeFrom(id, d) ==
    LET placed == SetLayerZOrder(
                    SetLayerSourceCrop(
                      SetLayerDisplayFrame(
                        SetLayerCompositionType(NewLayer, d.type), d.frame), d.crop), d.z)
        blended == SetLayerBlendMode(SetLayerDataspace(placed, "srgb"), d.blend)
    IN  SetLayerGenericMetadata(
            IF d.type = "SolidColor" THEN SetLayerColor(blended)
            ELSE SetLayerBuffer(blended, BufferOf(id, 1, "rgb")), d.effects)

\* The change of this behaviour's kind the client may make to a layer.
Changed(l, id) ==
    CASE kind = "blend" -> {SetLayerBlendMode(l, m) : m \in {"none", "premult"}}
      [] kind = "alpha" -> {SetLayerPlaneAlpha(l, a) : a \in BOOLEAN}
      [] kind = "flip" -> {SetLayerTransform(l, h) : h \in BOOLEAN}
      [] kind = "frame" -> {SetLayerDisplayFrame(l, Rect(a, 0, b, 1)) :
                               <<a, b>> \in {ab \in (0..Width) \X (0..Width) : ab[1] < ab[2]}}
      [] kind = "crop" -> {SetLayerSourceCrop(l, Rect(a, 0, a + WidthOf(l.frame), 1)) : a \in 0..1}
      [] kind = "z" -> {SetLayerZOrder(l, z) : z \in {2 * n : n \in 0..Len(descs)}}
      [] kind = "effects" -> {SetLayerGenericMetadata(l, e) :
                                 e \in {"none", "corners", "shadow", "turned", "malformed"}}
      [] kind = "type" -> {SetLayerCompositionType(l, t) :
                              t \in {"Client", descs[who[id]].type, "Sideband"}}
      [] kind = "visible" -> {SetLayerVisibleRegion(l, r) :
                                 r \in {{}, {Rect(0, 0, 1, 1)}, {Rect(Width - 1, 0, Width, 1)}}}
      [] OTHER -> {}

(***************************************************************************)
(* Validation.                                                             *)
(***************************************************************************)
\* TestComposition: the joining plan needs the target if the client draws
\* anything, and every window a buffer of its own kind; the kernel answers
\* by how many windows it is asked for.
CreateJoiningPlan(ls, types, cl) ==
    /\ (\E i \in DOMAIN ls : types[i] = "Client") => IsLayerUsableAsDevice(cl)
    /\ \A i \in DOMAIN ls : types[i] = "Device" => IsLayerUsableAsDevice(ls[i])

TestComposition(ls, types, cl) ==
    /\ CreateJoiningPlan(ls, types, cl)
    /\ Cardinality({i \in DOMAIN ls : types[i] = "Device"})
         + (IF \E i \in DOMAIN ls : types[i] = "Client" THEN 1 ELSE 0) <= bandwidth

\* ResolveOcclusion
ResolveOcclusion(ls) ==
    LET order == SetToSortSeq(DOMAIN ls, LAMBDA a, b : ls[a].z < ls[b].z)
        found == Resolve([i \in DOMAIN order |-> OcclusionInput(ls[order[i]])])
    IN  [id \in DOMAIN ls |-> ApplyOcclusion(ls[id], found[CHOOSE i \in DOMAIN order : order[i] = id])]

\* GetOrderLayersByZPos: what can be seen, cursors last.
GetOrderLayersByZPos(ls) ==
    SetToSortSeq({i \in DOMAIN ls : ~ls[i].hidden},
        LAMBDA a, b : IF (ls[a].type = "Cursor") # (ls[b].type = "Cursor")
                      THEN ls[b].type = "Cursor" ELSE ls[a].z < ls[b].z)

\* Whether anything asks for a new plan.
Raised(ls, cl) ==
    \/ invalid \/ cl.invalid \/ LivenessWouldChange(cl, Screen)
    \/ \E i \in DOMAIN ls : ls[i].invalid \/ LivenessWouldChange(ls[i], Screen)

DisplayAnswers ==
    [ctm_by_gpu |-> FALSE, color_pipeline |-> FALSE, scaling_by_gpu |-> FALSE,
     cursor_plane |-> CursorPlane, planes |-> Planes, direct |-> Direct]

\* A plan of the planner, over ids, with what the planner never saw.
ById(ls, order, p) ==
    LET place(id) == CHOOSE i \in DOMAIN order : order[i] = id IN
    [types |-> [id \in DOMAIN ls |->
                   IF ls[id].hidden THEN "DeviceOccluded" ELSE p.types[place(id)]],
     punch |-> {order[i] : i \in p.punch}, flatten |-> p.flatten, gpu_draws |-> FALSE]

GpuReadable(b) == b.shape # "yuv"

GpuCanDrawClient(ls, p) ==
    LET mine == {i \in DOMAIN ls : p.types[i] = "Client"} IN
    /\ p.flatten \notin {"CtmWithOffset", "NoPerPlaneColorspaceSupport"}
    /\ mine # {}
    /\ \A i \in mine : IF ls[i].buffer = NoBuffer THEN ls[i].solid ELSE GpuReadable(ls[i].buffer)

\* The type the client is told of a layer.
ToldType(l, type, gpu_draws) ==
    IF type = "DeviceOccluded" \/ (type = "Client" /\ gpu_draws)
    THEN IF l.type = "SolidColor" THEN "SolidColor" ELSE "Device"
    ELSE type

GpuTarget(slot) == [id |-> <<GpuOwner, slot>>, shape |-> "target", fb |-> TRUE]
SeatGpuBuffer(cl) ==
    SetLayerProperties(cl,
        [buffer |-> GpuTarget(IF cl.buffer = NoBuffer \/ cl.buffer.id[2] = 2 THEN 1 ELSE 2),
         frame |-> Screen, crop |-> Screen])

\* ValidateStagedComposition of a display with layers: what it leaves of
\* the layers, the plan, and what the client is told.
TestOf(ls, cl, order, types) ==
    TestComposition(ls,
        [id \in DOMAIN ls |->
            IF ls[id].hidden THEN "Invalid"
            ELSE types[CHOOSE i \in DOMAIN order : order[i] = id]], cl)
MakePlan(ls, cl, order, seen) ==
    LET takes == [types \in [DOMAIN seen -> {"Client", "Device", "Cursor"}] |->
                     TestOf(ls, cl, order, types)]
    IN  ById(ls, order, Replan(DisplayAnswers, seen, takes))

\* GenericCompositionPlanner::ValidateDisplay: flattened for a reason found
\* early, the plan kept, or a new one.
PlanOfFrame(ls, cl, order, seen, early) ==
    IF early # "none"
    THEN [plan |-> ById(ls, order, GetFlattenedComposition(seen, early)), reused |-> FALSE]
    ELSE IF ~Raised(ls, cl) /\ reusable.flatten = "none"
    THEN [plan |-> reusable, reused |-> TRUE]
    ELSE [plan |-> MakePlan(ls, cl, order, seen), reused |-> FALSE]

Told(ls, early, plan, draws) ==
    [id \in DOMAIN ls |->
        [IF early = "none" THEN Judged(ls[id], Screen) ELSE ls[id] EXCEPT
            !.told = ToldType(ls[id], plan.types[id], draws)]]
StagedWith(told, cl, early, plan, again, draws) ==
    [layers |-> told,
     client |-> IF early = "none" THEN Judged(cl, Screen) ELSE cl,
     invalid |-> invalid /\ early # "none",
     plan |-> [plan EXCEPT !.gpu_draws = draws],
     reused |-> again,
     changed |-> {id \in DOMAIN told : IsTypeChanged(told[id])}]
StagedBy(ls, cl, early, made) ==
    LET draws == made.plan.gpu_draws \/ (gpu /\ GpuCanDrawClient(ls, made.plan)) IN
    StagedWith(Told(ls, early, made.plan, draws), cl, early, made.plan, made.reused, draws)
StagedIn(ls, cl, order, seen, early) ==
    StagedBy(ls, cl, early, PlanOfFrame(ls, cl, order, seen, early))
StagedAs(ls, cl, order) ==
    LET seen == [i \in DOMAIN order |-> ls[order[i]]] IN
    StagedIn(ls, cl, order, seen, EarlyFlatten(DisplayAnswers, seen))
StagedFrom(ls, cl) == StagedAs(ls, cl, GetOrderLayersByZPos(ls))
Staged ==
    StagedFrom(ResolveOcclusion(layers),
               IF gpu /\ ~IsLayerUsableAsDevice(client) THEN SeatGpuBuffer(client) ELSE client)

Accepted(ls) == [i \in DOMAIN ls |-> AcceptTypeChange(ls[i])]

(***************************************************************************)
(* The client's calls.                                                     *)
(***************************************************************************)
Init ==
    /\ kind \in Kinds /\ descs \in Scenes
    /\ \E s \in Setups : bandwidth = s[1] /\ gpu = s[2] /\ (kind = "time" => ~gpu /\ bandwidth < Planes)
    /\ mover \in CASE kind \in {"life", "marks"} -> {1}
                    [] kind = "time" -> {2}
                    [] OTHER -> DOMAIN descs
    /\ layers = <<>> /\ who = <<>> /\ client = NewLayer
    /\ invalid = TRUE /\ reusable = NoPlan /\ validated = NoPlan /\ reused = FALSE
    /\ engine_last = {} /\ frontend = NoAnswers
    /\ phase = "free" /\ fresh = {} /\ holes = {} /\ target = Clear
    /\ answer = "none" /\ refusals = 0 /\ scans = {} /\ panel = Blank

\* CreateLayer, and the calls that describe the new layer.  Unless layers
\* coming and going is what changes, all are made before the first frame.
CreateLayer(d) ==
    LET id == frontend.next_layer_id IN
    /\ phase = "free" /\ id <= MaxId
    /\ \A i \in DOMAIN who : who[i] # d
    /\ kind = "life" \/ d = id
    /\ layers' = (id :> MadeFrom(id, descs[d])) @@ layers
    /\ who' = (id :> d) @@ who
    /\ invalid' = TRUE
    /\ frontend' = [frontend EXCEPT !.next_layer_id = @ + 1]
    /\ UNCHANGED <<setup, client, reusable, validated, reused, phase, fresh, ours, answer,
                   refusals, shown>>

DestroyLayer(id) ==
    /\ phase = "free" /\ kind = "life"
    /\ layers' = [i \in DOMAIN layers \ {id} |-> layers[i]]
    /\ who' = [i \in DOMAIN who \ {id} |-> who[i]]
    /\ invalid' = TRUE /\ reusable' = NoPlan
    /\ fresh' = fresh \ {id}
    /\ UNCHANGED <<setup, client, validated, reused, frontend, phase, ours, answer, refusals, shown>>

\* A new picture in a layer, or a buffer of another kind.
HandBuffer(id) ==
    /\ phase = "free" /\ id \notin fresh /\ layers[id].buffer # NoBuffer
    /\ who[id] = mover /\ kind \in {"shape", "buffer", "time"}
    /\ \E shape \in IF kind = "shape" THEN {"rgb", "yuv", "foreign", "unknown"} ELSE {"rgb"} :
          layers' = [layers EXCEPT ![id] = SetLayerBuffer(@, NextBuffer(id, @, shape))]
    /\ fresh' = fresh \cup {id}
    /\ UNCHANGED <<setup, who, client, plans, frontend, phase, ours, answer, refusals, shown>>

ChangeLayer(id) ==
    /\ phase = "free" /\ who[id] = mover
    /\ \E l \in Changed(layers[id], id) : layers' = [layers EXCEPT ![id] = l]
    /\ UNCHANGED <<setup, who, client, plans, frontend, phase, fresh, ours, answer, refusals,
                   shown>>

\* The client asks again for the types it wants, after it was told others.
Redeclare ==
    /\ phase = "free"
    /\ \E i \in DOMAIN layers : layers[i].type # descs[who[i]].type
    /\ layers' = [i \in DOMAIN layers |->
                     SetLayerCompositionType(layers[i], descs[who[i]].type)]
    /\ UNCHANGED <<setup, who, client, plans, frontend, phase, fresh, ours, answer, refusals,
                   shown>>

\* MarkPlanInvalid by a colour transform, a configuration, a power mode.
MarkPlanInvalid ==
    /\ phase = "free" /\ kind = "marks" /\ ~invalid
    /\ invalid' = TRUE
    /\ UNCHANGED <<setup, layers, who, client, reusable, validated, reused, frontend, phase,
                   fresh, ours, answer, refusals, shown>>

Tick ==
    LET older(l) == [l EXCEPT !.age = IF @ = "now" THEN "recent" ELSE "old"] IN
    /\ kind = "time" /\ phase = "free"
    /\ layers' = [i \in DOMAIN layers |-> older(layers[i])]
    /\ client' = older(client)
    /\ UNCHANGED <<setup, who, plans, frontend, phase, fresh, ours, answer, refusals, shown>>

\* What the client owes a scene it asks to have shown.
SceneIsSound ==
    /\ kind # "life" => frontend.next_layer_id > Len(descs)
    /\ \A i, j \in DOMAIN layers : i # j => layers[i].z # layers[j].z
    /\ \A i, j \in DOMAIN layers : layers[i].type = "Cursor" => layers[i].z >= layers[j].z
    /\ \A i \in DOMAIN layers :
          LET above == {j \in DOMAIN layers : layers[j].z > layers[i].z /\ Covering(layers[j])}
              in(x, r) == r.left <= x /\ x < r.right
          IN  \A x \in Pixels :
                 (in(x, layers[i].frame) /\ ~\E j \in above : in(x, layers[j].frame)) =>
                     layers[i].visible = {} \/ \E r \in layers[i].visible : in(x, r)

\* ValidateDisplay.  An empty display has nothing to validate.
ValidateDisplay ==
    /\ phase = "free" /\ SceneIsSound
    /\ IF layers = <<>>
       THEN /\ validated' = NoPlan
            /\ frontend' = [frontend EXCEPT !.changed = {}, !.punch = {}]
            /\ UNCHANGED <<layers, client, invalid, reused>>
       ELSE \E s \in {Staged} :
            /\ layers' = s.layers /\ client' = s.client /\ invalid' = s.invalid
            /\ validated' = s.plan /\ reused' = s.reused
            /\ frontend' = [frontend EXCEPT !.changed = s.changed, !.punch = s.plan.punch]
    /\ phase' = "changes"
    /\ UNCHANGED <<setup, who, reusable, fresh, ours, answer, refusals, shown>>

\* The answer is handed over once, whole.
GetChangedCompositionTypes ==
    /\ phase = "changes"
    /\ frontend' = [frontend EXCEPT !.changed = {}]
    /\ phase' = "requests"
    /\ UNCHANGED <<setup, layers, who, client, plans, fresh, ours, answer, refusals, shown>>

GetDisplayRequests ==
    /\ phase = "requests"
    /\ holes' = frontend.punch
    /\ frontend' = [frontend EXCEPT !.punch = {}]
    /\ phase' = "accept"
    /\ UNCHANGED <<setup, layers, who, client, plans, fresh, target, answer, refusals, shown>>

AcceptDisplayChanges ==
    /\ phase = "accept"
    /\ layers' = Accepted(layers)
    /\ phase' = "target"
    /\ UNCHANGED <<setup, who, client, plans, frontend, fresh, ours, answer, refusals, shown>>

\* SetClientTarget, when there is anything for the client to draw.
SetClientTarget ==
    /\ phase = "target"
    /\ IF \E i \in DOMAIN layers : layers[i].type = "Client"
       THEN /\ target' = ClientDraws(layers)
            /\ client' = SetLayerProperties(client,
                  [buffer |-> [NextBuffer(ClientOwner, client, "target") EXCEPT !.fb = TRUE],
                   frame |-> Screen, crop |-> Screen])
       ELSE UNCHANGED <<target, client>>
    /\ phase' = "present"
    /\ UNCHANGED <<setup, layers, who, plans, frontend, fresh, holes, answer, refusals, shown>>

(***************************************************************************)
(* Presenting.                                                             *)
(***************************************************************************)
\* ValidateForPresentWithoutValidation, the part that only looks.
MayReuse ==
    /\ validated = NoPlan /\ layers # <<>> /\ reusable.flatten = "none"
    /\ ~Raised(layers, client)

\* A client presents without a validation when it drew nothing itself the
\* last time and was not just sent to validate.
MaySkip ==
    /\ phase = "free" /\ SceneIsSound /\ answer \in {"ok", "BadDisplay"}
    /\ \A i \in DOMAIN layers : layers[i].type # "Client"

\* The frame to be committed, if there is one: as validated, or as found
\* reusable just now.
Reusable(s) == s.reused /\ s.changed = {}
Validated ==
    [layers |-> layers, client |-> client, plan |-> validated, reused |-> reused,
     invalid |-> invalid]
Found(s) ==
    [layers |-> Accepted(s.layers), client |-> s.client, plan |-> s.plan,
     reused |-> s.reused, invalid |-> s.invalid]
Frames ==
    (IF phase = "present" /\ validated # NoPlan THEN {Validated} ELSE {})
        \cup (IF MaySkip /\ MayReuse THEN {Found(s) : s \in {t \in {Staged} : Reusable(t)}} ELSE {})

\* CommitStagedComposition until the kernel: the drawing collected.
Seated(f) == IF f.plan.gpu_draws THEN SeatGpuBuffer(f.client) ELSE f.client

\* The fence a layer's buffer before this one comes back with.
EngineFenceFor(prior) == prior # <<>> /\ prior \in engine_last

\* The engine's answers are kept from the frame before last.
MutRotate(merged) == merged \cup engine_last

\* This frame's answers become the ones handed out next time.
Rotate(merged) == merged

Releases(ls) ==
    {[layer |-> i, buffer |-> ls[i].prior,
      by |-> IF EngineFenceFor(ls[i].prior) THEN "engine" ELSE "flip"] :
        i \in {j \in DOMAIN ls : ls[j].flagged}}

\* What of the windows the controller merges, never one alone: looked at
\* where buffers come and go.
Merges(windows) ==
    IF kind = "buffer" THEN {m \in SUBSET windows : Cardinality(m) # 1} ELSE {{}}

\* PresentDisplay, shown.  Which windows the merge took is the controller's.
PresentShown ==
    /\ \E f \in Frames : \E cl \in {Seated(f)} :
          LET at(ts) == {i \in DOMAIN f.layers : f.plan.types[i] \in ts}
              windows == {f.layers[i].buffer.id : i \in at({"Device", "Cursor"})}
          IN
          /\ CreateJoiningPlan(f.layers, f.plan.types, cl)
          /\ \E merged \in Merges(windows) :
                /\ engine_last' = Rotate(merged)
                /\ scans' = (windows \ merged)
                               \cup (IF at({"Client"}) # {} THEN {cl.buffer.id} ELSE {})
          /\ panel' = PanelOf(f.layers, f.plan.types,
                         IF f.plan.gpu_draws THEN GpuDraws(f.layers, f.plan.types) ELSE target)
          /\ reusable' = IF f.reused THEN reusable ELSE f.plan
          /\ reused' = f.reused /\ invalid' = f.invalid /\ client' = cl
          /\ layers' = [i \in DOMAIN f.layers |->
                           IF f.layers[i].flagged THEN ClearPriorBufferScanOutFlag(f.layers[i])
                           ELSE f.layers[i]]
          /\ frontend' = [frontend EXCEPT !.releases = Releases(f.layers)]
    /\ validated' = NoPlan /\ answer' = "ok" /\ phase' = "releases" /\ fresh' = {}
    /\ holes' = {} /\ target' = Clear
    /\ UNCHANGED <<setup, who, refusals>>

\* PresentDisplay, given up: before the kernel, without a target to seat,
\* or by the kernel.
PresentRefused ==
    /\ \E f \in Frames : \E cl \in {Seated(f)} :
          /\ IF CreateJoiningPlan(f.layers, f.plan.types, cl)
             THEN /\ refusals < MaxRefusals /\ kind \in {"marks", "buffer", "type"}
                  /\ refusals' = refusals + 1
             ELSE UNCHANGED refusals
          /\ layers' = f.layers /\ client' = cl /\ reused' = f.reused
    /\ validated' = NoPlan /\ reusable' = NoPlan /\ invalid' = TRUE
    /\ frontend' = [frontend EXCEPT !.releases = {}]
    /\ answer' = "BadDisplay" /\ phase' = "free" /\ fresh' = {}
    /\ holes' = {} /\ target' = Clear
    /\ UNCHANGED <<setup, who, shown>>

\* PresentDisplay, turned away: nothing was validated and the plan kept is
\* not this frame's.  What the attempt staged stays with the layers.
PresentTurnedAway ==
    /\ \/ /\ \/ MaySkip /\ ~MayReuse
             \/ phase = "present" /\ validated = NoPlan
          /\ UNCHANGED <<layers, client, reused, invalid>>
       \/ /\ MaySkip /\ MayReuse
          /\ \E s \in {Staged} :
                /\ ~Reusable(s)
                /\ layers' = s.layers /\ client' = s.client /\ reused' = s.reused
          /\ invalid' = TRUE
    /\ frontend' = [frontend EXCEPT !.releases = {}]
    /\ answer' = "NotValidated" /\ phase' = "free"
    /\ UNCHANGED <<setup, who, reusable, validated, fresh, ours, refusals, shown>>

GetReleaseFences ==
    /\ phase = "releases"
    /\ frontend' = [frontend EXCEPT !.releases = {}]
    /\ phase' = "free"
    /\ UNCHANGED <<setup, layers, who, client, plans, fresh, ours, answer, refusals, shown>>

Next ==
    \/ \E d \in DOMAIN descs : CreateLayer(d)
    \/ \E id \in DOMAIN layers :
          DestroyLayer(id) \/ HandBuffer(id) \/ ChangeLayer(id)
    \/ Redeclare \/ MarkPlanInvalid \/ Tick
    \/ ValidateDisplay \/ GetChangedCompositionTypes \/ GetDisplayRequests
    \/ AcceptDisplayChanges \/ SetClientTarget
    \/ PresentShown \/ PresentRefused \/ PresentTurnedAway \/ GetReleaseFences

Spec == Init /\ [][Next]_vars

(***************************************************************************)
(* Properties.                                                             *)
(***************************************************************************)
Contract == INSTANCE DisplayContract WITH scene <- SceneOf(layers), panel <- panel

\* The display implements its contract: whatever the plan, kept or made
\* anew, every picture the panel takes is the scene the client's layers
\* describe at that moment -- no stale plan, no layer in the wrong order, in
\* two places or in none, no hole left filled, no effect left out.
ContractKept == Contract!Spec

\* A buffer is given back on the merge engine's fence only if the panel
\* itself was not reading it: that fence says nothing of a buffer on screen.
\* One the panel was reading, and that this frame replaced in its layer, is
\* given back with this frame -- unless a commit was refused.
ReleasesAreTrue ==
    [][(phase # "releases" /\ phase' = "releases") =>
         /\ \A r \in frontend'.releases : r.by = "engine" => r.buffer \notin scans
         /\ refusals = 0 => \A i \in DOMAIN layers :
               (layers[i].prior \in scans /\ layers[i].prior # layers[i].buffer.id) =>
                   \E r \in frontend'.releases : r.layer = i /\ r.buffer = layers[i].prior]_vars

\* A present without a validation that finds a plan to reuse is turned away
\* only for what the layers have become since -- what the occlusion makes of
\* them -- and never because the plan kept would tell a layer another type.
SkipHonoured ==
    [][(phase = "free" /\ answer # "NotValidated" /\ answer' = "NotValidated") =>
         ~MayReuse \/ Raised(ResolveOcclusion(layers), client)]_vars
=============================================================================
