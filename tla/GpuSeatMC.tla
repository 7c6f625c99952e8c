----------------------------- MODULE GpuSeatMC -----------------------------
(***************************************************************************)
(* The client range drawn by the composer's own GPU, each part on its own: *)
(* the seat of the drawn buffers over frames (GpuSeat) and one drawing of  *)
(* the Vulkan compositor (GpuDraw).  They share no state; `part' is chosen *)
(* at the start and says which one moves, while the other stays as it came.*)
(***************************************************************************)
EXTENDS GpuSeat

CONSTANT Moving     \* the parts that may be the one that moves

\* Two layers on a row of six pixels: over each other, far apart and scaled, or
\* not there.
MCPlaces == {[src |-> <<0, 2>>, dst |-> <<0, 2>>], [src |-> <<0, 2>>, dst |-> <<3, 6>>],
             [src |-> <<0, 2>>, dst |-> <<0, 0>>]}
MCDamages == {<<>>, << <<0, 1>> >>}

-----------------------------------------------------------------------------
\* Drawings of up to three layers on a target of three by two.
Plain(box) == [box |-> box, transform |-> {}, alpha |-> "one", rounded |-> FALSE,
                     opaque |-> TRUE, turned |-> FALSE]
Whole == <<0, 0, 3, 2>>
Left == <<-1, 0, 1, 2>>
Right == <<1, 0, 3, 2>>
Foot == <<0, 1, 3, 2>>

MCLayers ==
    {Plain(b) : b \in {Whole, Left, Right, Foot}}
      \cup {[Plain(b) EXCEPT !.opaque = FALSE] : b \in {Whole, Left, Right}}
      \cup {[Plain(b) EXCEPT !.rounded = TRUE] : b \in {Whole, Right}}
      \cup {[Plain(b) EXCEPT !.turned = TRUE] : b \in {Whole, Right}}
      \cup {[Plain(Right) EXCEPT !.alpha = "half"]}
      \cup {[Plain(Right) EXCEPT !.transform = t] :
              t \in {{"flip_h", "rotate"}, {"flip_h", "flip_v"}}}

MCDamage == {<<>>, <<Left, Foot>>, <<<<0, 0, 1, 1>>, <<2, 1, 5, 2>>>>, <<<<3, 0, 4, 2>>>>}

\* Three spots where two parts are the most.
MCScattered == {<<<<0, 0, 1, 1>>, <<2, 0, 3, 1>>, <<1, 0, 2, 2>>>>}

AllPasses == {"keep", "load", "cover", "cover_keep", "replace"}
MCPasses == {AllPasses, AllPasses \ {"keep"}, AllPasses \ {"load"}, AllPasses \ {"replace"}, AllPasses \ {"cover_keep"}}

CONSTANTS
    MaxLayers,      \* GpuDraw's bound on the layers of a drawing
    DamageLists     \* the places that changed since its target was drawn

VARIABLES call, canvas, done
drawVars == <<call, canvas, done>>
Drawing == INSTANCE GpuDraw WITH
    TargetWidth <- 3, TargetHeight <- 2, LayerSet <- MCLayers, PassSets <- MCPasses

VARIABLE part

-----------------------------------------------------------------------------
SeatInit ==
    /\ part \in Moving /\ Init
    /\ IF part = "drawing" THEN Drawing!Init
       ELSE call = <<>> /\ canvas = <<>> /\ done = FALSE

SeatNext ==
    /\ UNCHANGED part
    /\ \/ part = "seat" /\ Next /\ UNCHANGED drawVars
       \/ part = "drawing" /\ Drawing!Next /\ UNCHANGED vars

SeatSpec == SeatInit /\ [][SeatNext]_<<part, vars, drawVars>>

-----------------------------------------------------------------------------
\* The passes that do not clear, the layers written and the parts drawn on their
\* own are not seen in the target (GpuDraw: SavingsAreUnseen).
SavingsAreUnseen == Drawing!SavingsAreUnseen

\* "Parts that overlap are always one" (PartialRedraw.h; GpuDraw: PartsApart).
PartsApart == Drawing!PartsApart
=============================================================================
