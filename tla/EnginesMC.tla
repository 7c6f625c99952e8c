------------------------------ MODULE EnginesMC ------------------------------
(***************************************************************************)
(* What the composer holds for the engines and the panel, each part on its *)
(* own: the Vulkan compositor's images (ImageCache), the image engine's     *)
(* session and zone (VicSession), the pipeline being brought up and taken   *)
(* down (BringUp), and the displays of a registration (Lifecycle).  They    *)
(* share no state; `part' is chosen at the start and says which one moves,  *)
(* while the others stay as they came.                                     *)
(***************************************************************************)
EXTENDS ImageCache, TLC

CONSTANTS
    Moving,             \* the parts that may be the one that moves
    h1, h2, h3, o1, o2  \* three handles of two layers

ThreeHandles == {h1, h2, h3}
TwoOwners == {o1, o2}
TwoAndOne == (h1 :> o1) @@ (h2 :> o1) @@ (h3 :> o2)

\* Two handles of one layer are alike.
Alike == Permutations({h1, h2})

-----------------------------------------------------------------------------
\* Jobs of the image engine: groups of up to one member too many, in parts, off
\* the panel, turned; sprites for the copier, one too large for its slot.
Box(left, top, right, bottom) ==
    [left |-> left, top |-> top, right |-> right, bottom |-> bottom]
Group(layers, bits, parts, ready) ==
    [kind |-> "merge", target |-> "slot", layers |-> layers, w |-> 3, h |-> 2, bits |-> bits,
     parts |-> parts, ready |-> ready]
Member(id, source, display, fence) ==
    [id |-> id, source |-> source, display |-> display, fence |-> fence]
Whole == Box(0, 0, 3, 2)
A == Member("a", Whole, Whole, 1)
B == Member("b", Box(5, 5, 6, 6), Box(1, 0, 3, 2), 2)
C == Member("c", Box(0, 0, 1, 1), Box(2, 1, 3, 2), 3)
T == Member("t", Box(0, 0, 2, 1), Box(0, 0, 1, 2), 1)
U == Member("u", Box(0, 0, 2, 2), Box(1, 0, 3, 2), -1)
VicJobs ==
    {Group(<<A, B>>, 0, <<Box(1, 0, 2, 2), Box(2, 1, 3, 2)>>, 2),
     Group(<<B, C>>, 0, <<Box(0, 0, 2, 1)>>, 0),
     Group(<<C>>, 0, <<Box(0, 0, 1, 1)>>, -1),
     Group(<<A, C, C, A>>, 0, <<>>, -1), Group(<<A, C>>, 0, <<Box(4, 0, 5, 1)>>, 4)}
    \cup {Group(<<T, U>>, bits, <<>>, -1) : bits \in {4, 5, 6, 7}}
    \cup {Group(<<U>>, 3, <<>>, -1), Group(<<T>>, 4, <<Box(0, 0, 1, 1)>>, -1)}
Sprite(w, h) ==
    [kind |-> "copy", target |-> "sprite", w |-> w, h |-> h, bits |-> 0, parts |-> <<>>, ready |-> -1,
     layers |-> <<Member("s", Box(0, 0, w, h), Box(0, 0, w, h), 2)>>]

VARIABLES session, holder, at, job, passes, config, waits, pictures, before, outcome, zone,
          calls, denials
vicVars == <<session, holder, at, job, passes, config, waits, pictures, before, outcome, zone,
             calls, denials>>
Vic == INSTANCE VicSession WITH
    EngineJobs <- VicJobs, CopyJobs <- {Sprite(1, 1), Sprite(2, 2), Sprite(3, 1)},
    Asks <- {<<0, 2, 256>>, <<65, 5, 256>>, <<32, 32, 4>>},
    BufferSize <- ("slot" :> <<4, 2>>) @@ ("sprite" :> <<2, 2>>),
    Points <- <<1, 2, 1, 65>> @@ (0 :> 0), kMostMembers <- 3, kSaneWaits <- 64,
    MaxCalls <- [worker |-> 1, copier |-> 2], MaxDenials <- 1

\* Two screens of each pool, two slots of the Vulkan compositor.
VARIABLES todo, down, made, lost, fate, busy
bringVars == <<todo, down, made, lost, fate, busy>>
Bring == INSTANCE BringUp WITH Buffers <- 2, GpuSlots <- 2

\* Two heads, as TegraDevice probes, and three registrations.
VARIABLES hold, hwc, pipes, callback, client, life_pc, count
lifeVars == <<hold, hwc, pipes, callback, client, life_pc, count>>
Life == INSTANCE Lifecycle WITH
    Heads <- {0, 1}, MaxHold <- 2, MaxInits <- 3, MaxQueued <- 2, pc <- life_pc

ASSUME HeadsAssumption == Life!LifecycleAssumption

VARIABLE part

-----------------------------------------------------------------------------
EnginesInit ==
    /\ part \in Moving
    /\ Init /\ Vic!Init /\ Bring!Init /\ Life!Init
    /\ part # "lifecycle" => hold = [h \in {0, 1} |-> 0]

EnginesNext ==
    /\ UNCHANGED part
    /\ \/ part = "cache" /\ Next /\ UNCHANGED <<vicVars, bringVars, lifeVars>>
       \/ part = "vic" /\ Vic!Next /\ UNCHANGED <<vars, bringVars, lifeVars>>
       \/ part = "bring_up" /\ Bring!Next /\ UNCHANGED <<vars, vicVars, lifeVars>>
       \/ part = "lifecycle" /\ Life!Next /\ UNCHANGED <<vars, vicVars, bringVars>>

EnginesSpec ==
    EnginesInit /\ [][EnginesNext]_<<part, vars, vicVars, bringVars, lifeVars>>

-----------------------------------------------------------------------------
\* The image engine draws what was asked of it and waits for everything it
\* reads (VicSession: DrawnIsAsked, WaitsCover).
EngineDrawsTrue == part = "vic" => Vic!DrawnIsAsked /\ Vic!WaitsCover

\* Nothing that was allocated is left behind, whichever step is refused: not by
\* the zone's allocation (VicSession: ZoneKeepsNothing), nor by a pipeline that
\* came up in part or is gone (BringUp: NothingLeft).
NothingKept ==
    /\ part = "vic" => Vic!ZoneKeepsNothing
    /\ part = "bring_up" => Bring!NothingLeft

\* Whatever is let go while a pipeline goes down, nothing standing borrows it and
\* the GPU is not at work in it (BringUp: DownInOrder).
DownInOrder == Bring!DownInOrder

\* The displays and what the client believes of them agree (Lifecycle:
\* ClientViewTrue, HeadOwnedOnce, DisplayIsConsistent).
DisplaysAreTrue ==
    part = "lifecycle" => Life!ClientViewTrue /\ Life!HeadOwnedOnce /\ Life!DisplayIsConsistent

\* A predecessor that holds the windows is waited out (Lifecycle: RetryHeals).
RetryHeals == part = "lifecycle" => Life!RetryHeals
=============================================================================
