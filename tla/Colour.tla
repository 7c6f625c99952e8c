------------------------------- MODULE Colour -------------------------------
(***************************************************************************)
(* The colour of a display: the client's transform, the render intent and  *)
(* the profile a person chooses are multiplied into one matrix that goes   *)
(* down with every frame, while the client itself draws its transform into *)
(* the frames it composes alone, unless the composer claims to do it.  A   *)
(* thread of Hwc looks for a new profile and asks the client for a frame.  *)
(*                                                                         *)
(* A matrix is the sequence of the shares it multiplies, outermost first;  *)
(* the identity is the empty sequence.                                     *)
(***************************************************************************)
EXTENDS Naturals, Sequences

CONSTANTS
    ColourSetups,   \* the boards: [cmu, ctm, takes, executor]
    MaxAsks,        \* bound: calls of the client about colour
    MaxTaps,        \* bound: times a person writes the profile property
    MaxFrames,      \* bound: frames the client shows of its own
    MaxRefusals     \* bound: commits refused

VARIABLES
    board,      \* the board and its switches, fixed
    asked,      \* what the client last asked: its transform, the intent
    prop,       \* the profile property: its text and its serial
    cache,      \* DisplaySaturation's statics
    hue,        \* HwcDisplay: the three matrices, their product, the saturation
    invalid,    \* plan_invalidators_ has kColorTransform or kColorMode
    plan,       \* validated_composition_: which layers the client draws
    kept,       \* reusable_plan_
    watcher,    \* the profile watcher: "waiting", or "tells" with a change
    refresh,    \* the client owes a frame: a refresh, or the answer NotValidated
    panel,      \* the last frame committed: its matrix, what the client drew in
    since,      \* the saturations the property stood for since the validate
    count       \* the bounds

colourVars == <<board, asked, prop, cache, hue, invalid, plan, kept, watcher,
                refresh, panel, since, count>>

Transforms == {"identity", "plain", "offset", "negative"}

\* The switches, read once.
CmuColorPipeline == board.cmu
GetCtmHandling == IF board.ctm = "DRM_OR_IGNORE" THEN "ignore" ELSE "gpu"

-----------------------------------------------------------------------------
(* ColorUtil and the property.                                             *)

MultiplyMatrices(a, b) == a \o b

TransformMatrix(t) == IF t = "identity" THEN <<>> ELSE <<t>>

SaturationMatrix(saturation) == IF saturation = "neutral" THEN <<>> ELSE <<saturation>>

\* What the text says: nothing, no number, or one past the ceiling is neutral.
ParseSaturation(text) == IF text \in {"grey", "vivid"} THEN text ELSE "neutral"

\* Parsed again only where the serial has moved.
DisplaySaturation(p, c) ==
    IF c.once /\ p.serial = c.serial THEN c
    ELSE [once |-> TRUE, serial |-> p.serial, value |-> ParseSaturation(p.text)]

UpdateColorTransformMatrix(h) ==
    [h EXCEPT !.matrix = MultiplyMatrices(h.intent, MultiplyMatrices(h.client, h.profile))]

\* RefreshDisplayProfile: the matrix is made anew only where the number moved.
Refreshed(h, wanted) ==
    IF h.saturation = wanted THEN h
    ELSE UpdateColorTransformMatrix([h EXCEPT !.saturation = wanted,
                                              !.profile = SaturationMatrix(wanted)])

-----------------------------------------------------------------------------
(* The claims, and who applies the transform.                              *)

\* HookDevGetCapabilities makes the claim for the device, and
\* GetDisplayCapabilities for a display; the client believes the latter.
DeviceSkipsClientTransform == CmuColorPipeline
SkipsClientTransform == DeviceSkipsClientTransform \/ GetCtmHandling = "ignore"

\* What the client is offered.
GetColorModes == IF CmuColorPipeline THEN {"native", "srgb"} ELSE {"native"}
GetRenderIntents == {"colorimetric", "enhance", "tone_map_colorimetric", "vendor"}

\* SupportsCtm, SupportsSignedCtm, SupportsCtmOffset: the matrix stage takes
\* what the transform needs.
Takes(t) == t \in board.takes

CtmByGpu(h) == h.client # <<>> /\ ~Takes(h.client[1]) /\ GetCtmHandling # "ignore"

\* CreateFrameUpdateCommit: the whole product, or the intent's share alone.
FrameMatrix(h, kind) ==
    IF \/ kind \in {"client", "own"} /\ ~CmuColorPipeline
       \/ h.client = <<"offset">> /\ ~Takes("offset")
    THEN h.intent ELSE h.matrix

\* The client draws its transform into a frame that is all its own.
ClientDraws(kind) ==
    IF kind = "client" /\ ~SkipsClientTransform THEN TransformMatrix(asked.client) ELSE <<>>

-----------------------------------------------------------------------------
(* The client's calls, each under the main lock.                           *)

Init ==
    /\ board \in ColourSetups
    /\ asked = [client |-> "identity", boost |-> FALSE]
    /\ prop \in {[serial |-> 0, text |-> "none"], [serial |-> 1, text |-> "vivid"]}
    /\ cache = [once |-> FALSE, serial |-> 0, value |-> "neutral"]
    /\ hue = [client |-> <<>>, intent |-> <<>>, profile |-> <<>>, matrix |-> <<>>,
              saturation |-> "neutral"]
    /\ invalid = TRUE
    /\ plan = "none" /\ kept = "none"
    /\ watcher = "waiting" /\ refresh = FALSE
    /\ panel = [shown |-> FALSE, kind |-> "none", matrix |-> <<>>, drawn |-> <<>>,
                refused |-> FALSE]
    /\ since = {}
    /\ count = [asks |-> 0, taps |-> 0, frames |-> 0, refusals |-> 0]

\* The client asks before it validates, never between that and its present.
MayAsk == plan = "none" /\ count.asks < MaxAsks

\* The plan is not marked.
MutSetColorTransformMatrix(t) ==
    /\ UNCHANGED invalid
    /\ hue' = UpdateColorTransformMatrix([hue EXCEPT !.client = TransformMatrix(t)])

SetColorTransformMatrix(t) ==
    /\ invalid' = TRUE
    /\ hue' = UpdateColorTransformMatrix([hue EXCEPT !.client = TransformMatrix(t)])

\* A hint other than the identity and an arbitrary matrix is refused, and
\* so is an arbitrary matrix that is not there.
SetColorTransform ==
    /\ MayAsk
    /\ \E hint \in {"identity", "arbitrary", "grayscale", "unknown"},
         matrix \in Transforms \union {"null"} :
          /\ hint = "identity" => matrix \in {"identity", "null"}
          /\ IF hint \in {"grayscale", "unknown"} \/ (hint = "arbitrary" /\ matrix = "null")
             THEN UNCHANGED <<asked, hue, invalid, count>>
             ELSE \E t \in {IF matrix = "null" THEN "identity" ELSE matrix} :
                     /\ asked' = [asked EXCEPT !.client = t]
                     /\ count' = [count EXCEPT !.asks = @ + 1]
                     /\ SetColorTransformMatrix(t)
    /\ UNCHANGED <<board, prop, cache, plan, kept, watcher, refresh, panel, since>>

\* A mode out of range is refused, and so is one that belongs to a modeset.
RefusedMode(mode) == mode \in {"modeset", "unknown"}

IntentMatrix(intent) == IF intent \in {"enhance", "vendor"} THEN <<"boost">> ELSE <<>>

SetColorModeOfDisplay(mode, intent) ==
    IF RefusedMode(mode) \/ intent = "unknown"
    THEN UNCHANGED <<asked, hue, invalid, count>>
    ELSE /\ asked' = [asked EXCEPT !.boost = intent \in {"enhance", "vendor"}]
         /\ count' = [count EXCEPT !.asks = @ + 1]
         /\ invalid' = TRUE
         /\ hue' = UpdateColorTransformMatrix([hue EXCEPT !.intent = IntentMatrix(intent)])

\* The older call has no intent to say, and means the plain one.
SetColorMode ==
    /\ MayAsk
    /\ \E mode \in GetColorModes \union {"modeset", "unknown"} :
          SetColorModeOfDisplay(mode, "colorimetric")
    /\ UNCHANGED <<board, prop, cache, plan, kept, watcher, refresh, panel, since>>

SetColorModeWithRenderIntent ==
    /\ MayAsk
    /\ \E mode \in GetColorModes \union {"modeset", "unknown"},
         intent \in GetRenderIntents \union {"unknown"} : SetColorModeOfDisplay(mode, intent)
    /\ UNCHANGED <<board, prop, cache, plan, kept, watcher, refresh, panel, since>>

\* A plan the colours allow: with a transform the controller cannot take,
\* every layer is the client's.  "own": the composer's GPU draws them all.
PlanKinds(h) ==
    IF CtmByGpu(h) THEN {"client"}
    ELSE {"device", "mixed", "client"} \union (IF board.executor THEN {"own"} ELSE {})

\* ValidateStagedComposition: the profile first, then a plan, the kept one
\* where nothing was marked and no layer moved.  A flattened frame is decided
\* before the marks are taken.
Validated(c, h) ==
    /\ cache' = c /\ hue' = h
    /\ since' = {ParseSaturation(prop.text)}
    /\ \/ /\ ~CtmByGpu(h) /\ ~invalid /\ h = hue /\ kept # "none"
          /\ plan' = kept /\ UNCHANGED invalid
       \/ /\ plan' \in PlanKinds(h)
          /\ invalid' = (CtmByGpu(h) /\ (invalid \/ h # hue))

Validate ==
    /\ plan = "none"
    /\ refresh \/ count.frames < MaxFrames
    /\ count' = IF refresh THEN count ELSE [count EXCEPT !.frames = @ + 1]
    /\ refresh' = FALSE
    /\ \E c \in {DisplaySaturation(prop, cache)} : Validated(c, Refreshed(hue, c.value))
    /\ UNCHANGED <<board, asked, prop, kept, watcher, panel>>

\* CommitStagedComposition.
Commit(h, kind) ==
    \/ /\ panel' = [shown |-> TRUE, kind |-> kind, matrix |-> FrameMatrix(h, kind),
                    drawn |-> ClientDraws(kind), refused |-> FALSE]
       /\ kept' = IF CtmByGpu(h) THEN "none" ELSE kind
       /\ UNCHANGED <<count, invalid>>
    \/ /\ count.refusals < MaxRefusals
       /\ count' = [count EXCEPT !.refusals = @ + 1]
       /\ panel' = [panel EXCEPT !.refused = TRUE]
       /\ kept' = "none" /\ invalid' = TRUE

PresentDisplay ==
    /\ plan # "none"
    /\ Commit(hue, plan)
    /\ plan' = "none"
    /\ UNCHANGED <<board, asked, prop, cache, hue, watcher, refresh, since>>

\* ValidateForPresentWithoutValidation: the last plan again, or the client is
\* told to validate, the plan marked where only the profile had moved.
PresentUnvalidated(c, h) ==
    /\ cache' = c /\ hue' = h
    /\ IF h = hue
       THEN /\ Commit(h, kept)
            /\ refresh' = FALSE /\ since' = {ParseSaturation(prop.text)}
       ELSE /\ invalid' = TRUE /\ refresh' = TRUE
            /\ UNCHANGED <<panel, kept, count, since>>

PresentWithoutValidation ==
    /\ plan = "none" /\ kept # "none" /\ ~invalid
    /\ \E c \in {DisplaySaturation(prop, cache)} :
          PresentUnvalidated(c, Refreshed(hue, c.value))
    /\ UNCHANGED <<board, asked, prop, plan, watcher>>

-----------------------------------------------------------------------------
(* The person, and Hwc's watcher.                                          *)

WriteProperty ==
    /\ count.taps < MaxTaps
    /\ count' = [count EXCEPT !.taps = @ + 1]
    /\ \E text \in {"empty", "junk", "grey", "vivid"} \ {prop.text} :
          /\ prop' = [serial |-> prop.serial + 1, text |-> text]
          /\ since' = since \union {ParseSaturation(text)}
    /\ UNCHANGED <<board, asked, cache, hue, invalid, plan, kept, watcher, refresh, panel>>

\* The change is noted and nobody is told.
MutWatcherRound(c, h) ==
    /\ cache' = c /\ hue' = h /\ invalid' = (invalid \/ h # hue)
    /\ UNCHANGED watcher

WatcherRound(c, h) ==
    /\ cache' = c /\ hue' = h /\ invalid' = (invalid \/ h # hue)
    /\ watcher' = IF h # hue THEN "tells" ELSE "waiting"

\* A round of the watcher under the main lock.
Watch ==
    /\ watcher = "waiting"
    /\ \E c \in {DisplaySaturation(prop, cache)} : WatcherRound(c, Refreshed(hue, c.value))
    /\ UNCHANGED <<board, asked, prop, plan, kept, refresh, panel, since, count>>

\* The client is told outside the lock.
Tell ==
    /\ watcher = "tells"
    /\ watcher' = "waiting" /\ refresh' = TRUE
    /\ UNCHANGED <<board, asked, prop, cache, hue, invalid, plan, kept, panel, since, count>>

Next ==
    \/ SetColorTransform \/ SetColorMode \/ SetColorModeWithRenderIntent
    \/ Validate \/ PresentDisplay \/ PresentWithoutValidation
    \/ WriteProperty \/ Watch \/ Tell

\* The watcher's thread runs, and the client answers a refresh with a frame.
Spec == Init /\ [][Next]_colourVars
        /\ WF_colourVars(Watch) /\ WF_colourVars(Tell)
        /\ WF_colourVars(Validate /\ refresh) /\ WF_colourVars(PresentDisplay)

-----------------------------------------------------------------------------
(* Properties.                                                             *)

\* What the viewer's eye gets: the panel's matrix over what the client drew.
Worn == panel.matrix \o panel.drawn

Wanted(saturation) ==
    (IF asked.boost THEN <<"boost">> ELSE <<>>) \o TransformMatrix(asked.client)
      \o SaturationMatrix(saturation)

\* From the transform the client asks to the panel, over every kind of frame
\* and every way to present one: when a frame has just been committed, the
\* client's transform is worn exactly once (not drawn by the client and
\* applied by the panel again, not by neither), outside it the intent, inside
\* it a profile no older than the frame's validation (CreateFrameUpdateCommit,
\* CtmByGpu, RefreshDisplayProfile).  With the colour unit switched off a
\* frame the client draws alone goes without the profile.
TintOnce ==
    [][panel'.shown /\ ~panel'.refused /\ panel' # panel
         => \E saturation \in since' :
              Worn' = Wanted(IF ~board.cmu /\ panel'.kind = "client"
                             THEN "neutral" ELSE saturation)]_colourVars

\* A saturation a person chooses is worn at last on a still screen, though no
\* frame of the client's own ever comes: the watcher notes it under the main
\* lock and asks for the frame, unless a frame or a validation noted it first
\* (Hwc::StartDisplayProfileWatcher, RefreshDisplayProfile).  A frame the
\* controller refused is not asked for again.
ProfileArrives ==
    <>[](board.cmu /\ panel.shown /\ ~panel.refused
           => \E w \in {Worn} : \/ ParseSaturation(prop.text) = "neutral"
                                \/ Len(w) > 0 /\ w[Len(w)] = ParseSaturation(prop.text))
=============================================================================
