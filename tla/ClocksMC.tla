------------------------------ MODULE ClocksMC ------------------------------
(***************************************************************************)
(* What reaches the viewer on its own clock, each part on its own: the     *)
(* blanks the framework is told of (VSyncWorker, two rates whose blanks    *)
(* fall apart) and the colour the panel wears (Colour).  They share no     *)
(* state; `part' is chosen at the start and says which one moves, while    *)
(* the other stays as it came.                                             *)
(***************************************************************************)
EXTENDS VSyncWorker, TLC

TwoPeriods == {2, 3}

\* A board with its colour unit, whose controller takes every matrix and whose
\* client draws in one; two without it, of which one takes no offset.
AllMatrices == {"plain", "offset", "negative"}
Boards ==
    {[cmu |-> TRUE, ctm |-> "DRM_OR_IGNORE", takes |-> AllMatrices, executor |-> TRUE],
     [cmu |-> FALSE, ctm |-> "", takes |-> AllMatrices, executor |-> FALSE],
     [cmu |-> FALSE, ctm |-> "", takes |-> {"plain"}, executor |-> FALSE]}

CONSTANTS
    ColourSetups,                               \* Colour's boards
    MaxAsks, MaxTaps, MaxFrames, MaxRefusals    \* and its bounds

VARIABLES board, asked, prop, cache, hue, invalid, plan, kept, watcher, refresh, shown, since,
          count
colourVars == <<board, asked, prop, cache, hue, invalid, plan, kept, watcher, refresh, shown,
                since, count>>
Col == INSTANCE Colour WITH panel <- shown

VARIABLE part

-----------------------------------------------------------------------------
ClocksInit ==
    /\ part \in {"vsync", "colour"}
    /\ Init /\ Col!Init
    /\ part # "colour" => board.cmu /\ prop.serial = 0

ClocksNext ==
    /\ UNCHANGED part
    /\ \/ part = "vsync" /\ Next /\ UNCHANGED colourVars
       \/ part = "colour" /\ Col!Next /\ UNCHANGED vars

\* Each part's own fairness, asked of it only where it is the part that moves.
ClocksFairness ==
    /\ WF_vars(part = "vsync" /\ Tick) /\ WF_vars(part = "vsync" /\ CallGoesOn)
    /\ WF_vars(part = "vsync" /\ ThreadNext)
    /\ SF_vars(part = "vsync" /\ (BlankSeen \/ TimedOut))
    /\ WF_colourVars(part = "colour" /\ Col!Watch) /\ WF_colourVars(part = "colour" /\ Col!Tell)
    /\ WF_colourVars(part = "colour" /\ refresh /\ Col!Validate)
    /\ WF_colourVars(part = "colour" /\ Col!PresentDisplay)

ClocksSpec == ClocksInit /\ [][ClocksNext]_<<part, vars, colourVars>> /\ ClocksFairness

-----------------------------------------------------------------------------
\* The client's transform is worn exactly once by every frame committed (Colour:
\* TintOnce).
TintOnce == Col!TintOnce

\* A saturation chosen on a still screen is worn at last (Colour: ProfileArrives).
ProfileArrives == Col!ProfileArrives
=============================================================================
