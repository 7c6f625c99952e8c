------------------------------ MODULE HwcLayer ------------------------------
(***************************************************************************)
(* hwc/HwcLayer: one layer of a display, as a value and what is asked and  *)
(* told of it.  Pure.  A layer is a record of                              *)
(*   type, told        sf_type_ and validated_type_                        *)
(*   z, frame, crop    what the client set (sf_display_frame_ ...)         *)
(*   visible           its visible region, {} when none was sent           *)
(*   hflip, alpha      layer_data_.pi.transform and .alpha (TRUE: opaque)  *)
(*   blend, space      blend_mode_ and colorspace_                         *)
(*   encoding          color_encoding_, sample_range_ and transfer_func_   *)
(*   data_space        layer_data_.colorspace                              *)
(*   effects, solid    layer_data_.effects, and .solid_color is set        *)
(*   buffer            layer_data_.bi and .fb; NoBuffer before the first   *)
(*   shown_frame, shown_crop, hidden   what the occlusion left of it       *)
(*   invalid           plan_invalidators_ /= 0: which bit is only printed  *)
(*   age, stream, live the time since last_activity_, whether the activity *)
(*                     before it came within the quiet delay, live_        *)
(*   flagged, prior    prior_buffer_scanout_flag_ and prior_buffer_        *)
(* A buffer is [id, shape, fb]: shape stands for size, format and memory   *)
(* layout, fb for an import that succeeded.  A time is "now" within        *)
(* kSameFrame, "recent" within kLayerQuietDelay, and "old".                *)
(***************************************************************************)
EXTENDS Occlusion

CONSTANT SmallShare   \* kSmallShare

ASSUME SmallShareAssumption == SmallShare \in Nat \ {0}

NoBuffer == [id |-> <<>>, shape |-> "none", fb |-> FALSE]

NewLayer ==
    [type |-> "Invalid", told |-> "Invalid", z |-> 0, frame |-> NoRect, crop |-> NoRect,
     visible |-> {}, hflip |-> FALSE, alpha |-> TRUE, blend |-> "undefined",
     space |-> "default", encoding |-> "default", data_space |-> "default",
     effects |-> "none", solid |-> FALSE,
     buffer |-> NoBuffer, shown_frame |-> NoRect, shown_crop |-> NoRect, hidden |-> FALSE,
     invalid |-> FALSE, age |-> "old", stream |-> FALSE, live |-> FALSE,
     flagged |-> FALSE, prior |-> <<>>]

\* The activity before is the last one, unless this is the same frame
\* announcing itself again.
MarkActivity(l) ==
    [l EXCEPT !.age = "now",
              !.stream = IF l.age = "now" THEN @ ELSE l.age = "recent"]

\* The buffer is part of the plan by its looks alone.
SetBuffer(l, b) ==
    LET looks == l.buffer = NoBuffer \/ l.buffer.shape # b.shape \/ l.buffer.fb # b.fb
        other == (l.buffer.fb \/ b.fb) /\ (l.buffer.id # b.id \/ l.buffer.fb # b.fb)
        moved == IF other THEN MarkActivity(l) ELSE l
    IN  [moved EXCEPT !.invalid = @ \/ looks,
                      !.flagged = l.told # "Client",
                      !.prior = l.buffer.id,
                      !.buffer = b]

\* Colourspace and what comes with it reach the layer data once there is a
\* buffer, and the default never does.
PopulateLayerData(l) ==
    IF l.buffer = NoBuffer \/ l.space = "default" THEN l
    ELSE [l EXCEPT !.data_space = l.space]

\* The properties that shape a plan, and those a change of which is the
\* layer moving.
Shaping == {"blend", "space", "encoding", "type", "frame", "alpha", "crop", "hflip", "z"}
Moving == {"frame", "alpha", "crop", "hflip"}

\* A change of z leaves no mark.
MutSetLayerProperties(l, p) ==
    LET first == IF "buffer" \in DOMAIN p THEN SetBuffer(l, p.buffer) ELSE l
        changed == {k \in (DOMAIN p \cap Shaping) \ {"z"} : p[k] # first[k]}
        set == [k \in DOMAIN l |-> IF k \in DOMAIN p \cap Shaping THEN p[k] ELSE first[k]]
    IN  PopulateLayerData(
            [set EXCEPT !.invalid = @ \/ changed # {},
                        !.shown_frame = IF "frame" \in DOMAIN p THEN p.frame ELSE @,
                        !.shown_crop = IF "crop" \in DOMAIN p THEN p.crop ELSE @])

\* p sets some of a layer's properties, and its buffer first of all.
SetLayerProperties(l, p) ==
    LET first == IF "buffer" \in DOMAIN p THEN SetBuffer(l, p.buffer) ELSE l
        changed == {k \in DOMAIN p \cap Shaping : p[k] # first[k]}
        marked == IF changed \cap Moving # {} THEN MarkActivity(first) ELSE first
        set == [k \in DOMAIN l |-> IF k \in DOMAIN p \cap Shaping THEN p[k] ELSE marked[k]]
    IN  PopulateLayerData(
            [set EXCEPT !.invalid = @ \/ changed # {},
                        !.shown_frame = IF "frame" \in DOMAIN p THEN p.frame ELSE @,
                        !.shown_crop = IF "crop" \in DOMAIN p THEN p.crop ELSE @])

HasEffect(l) == l.effects # "none"
HasTurn(l) == l.effects = "turned"
HasCorners(l) == l.effects = "corners"
ReachesPastFrame(l) == l.effects = "shadow"

\* A value that is malformed leaves the layer as it was.
ApplyEffectMetadata(l, e) ==
    IF e = "malformed" THEN l
    ELSE [l EXCEPT !.effects = e, !.invalid = @ \/ HasEffect(l) # (e # "none")]

SetSolidColor(l) == [l EXCEPT !.solid = TRUE, !.invalid = @ \/ ~l.solid]

SetVisibleRegion(l, region) ==
    [l EXCEPT !.visible = region, !.invalid = @ \/ region # l.visible]

\* The settled type never reaches the layer.
MutAcceptTypeChange(l) == l

AcceptTypeChange(l) == [l EXCEPT !.type = l.told]
IsTypeChanged(l) == l.type # l.told
IsLayerUsableAsDevice(l) == l.buffer # NoBuffer /\ l.buffer.fb

GetPixOps(l) == IF EmptyRect(l.shown_frame) THEN 0 ELSE WidthOf(l.shown_frame) * HeightOf(l.shown_frame)
IsSmall(l, screen) == GetPixOps(l) * SmallShare <= WidthOf(screen) * HeightOf(screen)

LivenessWouldChange(l, screen) ==
    (l.age # "old" /\ (l.live \/ ~IsSmall(l, screen) \/ l.stream)) # l.live

\* Whether the layer is, once judged again, one that draws.
Drawing(l, screen) == l.live # LivenessWouldChange(l, screen)

\* What TakePlanInvalidators and RefreshLiveness leave of a layer.
Judged(l, screen) ==
    [l EXCEPT !.invalid = FALSE, !.live = Drawing(l, screen)]

ClearPriorBufferScanOutFlag(l) == [l EXCEPT !.flagged = FALSE, !.prior = <<>>]

\* The blending a buffer is drawn with, when there is one.
IsOpaque(l) ==
    /\ l.alpha /\ ~HasTurn(l)
    /\ IF l.buffer # NoBuffer THEN l.blend = "none" ELSE l.solid

\* Rounded corners take one pixel of each corner of the frame.
OcclusionInput(l) ==
    [frame |-> l.frame, visible |-> l.visible, opaque |-> IsOpaque(l),
     corner_crop |-> IF HasCorners(l) THEN l.frame ELSE NoRect,
     radius |-> IF HasCorners(l) THEN 1 ELSE 0,
     keep |-> l.type = "Cursor" \/ ReachesPastFrame(l) \/ HasTurn(l)]

\* The frame and the crop are narrowed together or not at all; a layer
\* without a buffer has no crop to narrow.
Narrowed(l, shown) ==
    LET crops == CropSource(l.crop, l.frame, shown.bounds, l.hflip, FALSE, FALSE) IN
    IF shown.hidden \/ shown.bounds = l.frame THEN [frame |-> l.frame, crop |-> l.crop]
    ELSE IF l.buffer = NoBuffer THEN [frame |-> shown.bounds, crop |-> l.crop]
    ELSE IF crops = {} THEN [frame |-> l.frame, crop |-> l.crop]
    ELSE [frame |-> shown.bounds, crop |-> CHOOSE c \in crops : TRUE]

ApplyOcclusion(l, shown) ==
    LET n == Narrowed(l, shown) IN
    [l EXCEPT !.invalid = \/ @ \/ n.frame # l.shown_frame \/ n.crop # l.shown_crop
                          \/ shown.hidden # l.hidden,
              !.shown_frame = n.frame, !.shown_crop = n.crop, !.hidden = shown.hidden]
=============================================================================
