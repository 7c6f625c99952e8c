------------------------------ MODULE Joining -------------------------------
(***************************************************************************)
(* compositor/LayerToPlaneJoiningPlan: which plane shows which layer, and  *)
(* HwcDisplay::CreateLayerToPlaneJoiningPlan, which hands it the stack.    *)
(* Pure.                                                                   *)
(*                                                                         *)
(* The composition is a sequence of layers, bottom first, each with what   *)
(* Planes asks of it and live, usable.  A seating is                       *)
(*   steering   how the merge was placed, or why it was not steered        *)
(*   stack      the composition, as it was left                            *)
(*   rank       the rank of each layer handed in, <<>> for the identity    *)
(*   seats      the plane of each rank, <<>> when there is none            *)
(*   runs, chosen   the runs weighed, and which was taken                  *)
(* A plan is a sequence of joinings [layer, plane, z_pos].                 *)
(***************************************************************************)
EXTENDS Planes

CONSTANTS kSteps
ASSUME StepsAssumption == kSteps \in Nat

SharesTurn(a, b) == a.turn = b.turn

-----------------------------------------------------------------------------
(* First fit.                                                               *)

FirstFrom(from, fit) ==
    LET left == {k \in fit : k >= from} IN
    IF left = {} THEN 0 ELSE Min(left)

\* The merge takes a member whatever its turn.
MutMergeAgrees(stack, planes, at, i) == TRUE

\* A merging plane takes only what turns with everything merged below.
MergeAgrees(stack, planes, at, i) ==
    \A j \in DOMAIN at : planes[at[j]].merging => SharesTurn(stack[i], stack[j])

FitsNext(stack, planes, at, i, p) ==
    IsValidForLayer(p, stack[i]) /\ (p.merging => MergeAgrees(stack, planes, at, i))

\* The i-th layer, the ones below it seated: a plane once passed is never
\* offered again.  at is <<0>> once one found no plane.
SeatNext(stack, planes, at, i) ==
    IF at = <<0>> THEN at
    ELSE LET k == FirstFrom(IF at = <<>> THEN 1 ELSE Last(at) + 1,
                            {p \in DOMAIN planes : FitsNext(stack, planes, at, i, planes[p])}) IN
         IF k = 0 THEN <<0>> ELSE Append(at, k)

PlaceFirstFit(stack, planes) ==
    FoldLeft(LAMBDA at, i : SeatNext(stack, planes, at, i), <<>>, [i \in DOMAIN stack |-> i])

-----------------------------------------------------------------------------
(* Steering.                                                                *)

Ranked(planes, merging) == Cardinality({k \in DOMAIN planes : planes[k].merging = merging})

\* The seats when the run of width layers from begin is merged and nothing
\* else is: each class of planes is walked once, in order.  at is as above,
\* of and om the next plane of each class.
SeatClass(stack, planes, begin, width, s, i) ==
    IF s.at = <<0>> THEN s
    ELSE LET merged == i \in begin..(begin + width - 1)
             k == FirstFrom(IF merged THEN s.om ELSE s.of,
                            {p \in DOMAIN planes : planes[p].merging = merged
                                                     /\ IsValidForLayer(planes[p], stack[i])})
         IN  IF k = 0 THEN [s EXCEPT !.at = <<0>>]
             ELSE [at |-> Append(s.at, k), of |-> IF merged THEN s.of ELSE k + 1,
                   om |-> IF merged THEN k + 1 ELSE s.om]

SeatedAround(stack, planes, begin, width) ==
    FoldLeft(LAMBDA s, i : SeatClass(stack, planes, begin, width, s, i),
             [at |-> <<>>, of |-> 1, om |-> 1], [i \in DOMAIN stack |-> i]).at

RunAt(stack, planes, begin, width, live, lowered) ==
    [begin |-> begin, live |-> live, lowered |-> lowered,
     seatable |-> SeatedAround(stack, planes, begin, width) # <<0>>]

\* The contiguous runs that share a turn, lowest first.
RunsOf(stack, planes, width) ==
    FoldLeft(LAMBDA runs, b :
               IF \A i \in b..(b + width - 1) : SharesTurn(stack[i], stack[b])
               THEN Append(runs, RunAt(stack, planes, b, width,
                                       LiveIn(stack, b..(b + width - 1)), 0))
               ELSE runs,
             <<>>, [b \in 1..(Len(stack) - width + 1) |-> b])

NoSeating(stack, steering) ==
    [steering |-> steering, stack |-> stack, rank |-> <<>>, seats |-> <<0>>, runs |-> <<>>, chosen |-> 0]

MembersOf(stack) == [i \in DOMAIN stack |-> [live |-> stack[i].live, frame |-> stack[i].frame, turn |-> stack[i].turn]]

\* Everything seated around a group: the stack is put in its order first,
\* and stays in it when the seating fails.
Around(stack, planes, width, runs, group) ==
    LET moved == [k \in DOMAIN stack |-> stack[group.order[k]]]
        seats == SeatedAround(moved, planes, group.begin, width)
    IN  [steering |-> IF seats = <<0>> THEN "seat refused" ELSE "steered",
         stack    |-> moved,
         rank     |-> IF group.lowered = 0 THEN <<>>
                      ELSE [i \in DOMAIN stack |-> CHOOSE k \in DOMAIN stack : group.order[k] = i],
         seats    |-> seats,
         runs     |-> IF group.lowered = 0 THEN runs
                      ELSE Append(runs, RunAt(moved, planes, group.begin, width, group.live, group.lowered)),
         chosen   |-> IF group.lowered # 0 THEN Len(runs) + 1
                      ELSE Max({0} \cup {r \in DOMAIN runs : runs[r].begin = group.begin})]

SteerTo(stack, planes, width, runs, group) ==
    IF group = NoGroup THEN [NoSeating(stack, "mixed turn") EXCEPT !.runs = runs]
    ELSE Around(stack, planes, width, runs, group)

PlaceRun(stack, planes, width) ==
    SteerTo(stack, planes, width, RunsOf(stack, planes, width),
            ChooseMergeGroup(MembersOf(stack), width, kSteps))

PlaceSteered(stack, planes, prefer_merge) ==
    LET ordinary == Ranked(planes, FALSE)
        merging  == Ranked(planes, TRUE)
        need     == IF prefer_merge THEN Min({Len(stack), merging}) ELSE Len(stack) - ordinary
    IN  IF merging = 0 \/ (~prefer_merge /\ Len(stack) <= ordinary) THEN NoSeating(stack, "fits ordinary")
        ELSE IF \A i, j \in DOMAIN stack : stack[i].live = stack[j].live THEN NoSeating(stack, "monotone")
        ELSE IF need > merging THEN NoSeating(stack, "run too long")
        ELSE PlaceRun(stack, planes, need)

-----------------------------------------------------------------------------
(* The plan.                                                                *)

NoJoining == [plan |-> <<>>, client_index |-> 0, steering |-> "none", stack |-> <<>>, moved |-> FALSE]

\* The planes as the seating takes them up.
Dealt(planes, prefer_merge) ==
    IF prefer_merge
    THEN SelectSeq(planes, LAMBDA p : p.merging) \o SelectSeq(planes, LAMBDA p : ~p.merging)
    ELSE planes

Joined(stack, planes, at) ==
    [i \in DOMAIN stack |-> [layer |-> stack[i], plane |-> planes[at[i]], z_pos |-> i - 1]]

WithCursor(joinings, cursor, plane) ==
    IF cursor = <<>> THEN joinings
    ELSE Append(joinings, [layer |-> cursor[1], plane |-> plane, z_pos |-> Len(joinings)])

\* Where the client entry went when the stack was reordered.
RankOf(seating, client) == IF seating.rank = <<>> \/ client = 0 THEN client ELSE seating.rank[client]

PlanFrom(seating, planes, at, cursor, cursor_plane, client) ==
    IF at = <<0>> THEN NoJoining
    ELSE [plan         |-> WithCursor(Joined(seating.stack, planes, at), cursor, cursor_plane),
          client_index |-> RankOf(seating, client),
          steering     |-> seating.steering,
          stack        |-> seating.stack,
          moved        |-> seating.rank # <<>>]

Completed(seating, planes, cursor, cursor_plane, client) ==
    PlanFrom(seating, planes,
             IF seating.steering = "steered" THEN seating.seats
             ELSE PlaceFirstFit(seating.stack, planes),
             cursor, cursor_plane, client)

CreatePlan(stack, cursor, prefer_merge, usable, client) ==
    IF cursor # <<>> /\ (usable.second = NoPlane \/ ~IsValidForLayer(usable.second, cursor[1]))
    THEN NoJoining
    ELSE Completed(PlaceSteered(stack, Dealt(usable.first, prefer_merge), prefer_merge),
                   Dealt(usable.first, prefer_merge), cursor, usable.second, client)

-----------------------------------------------------------------------------
(* The display's part: the stack from the layers by their types.  layers is *)
(* in z order; target is the client target.                                 *)

OfType(layers, types, t) == {z \in DOMAIN layers : types[z] = t}

\* The client target at the place of the lowest client layer, as live as
\* the liveliest of its range.
ClientEntry(layers, types, target) ==
    [target EXCEPT !.live = @ \/ \E z \in OfType(layers, types, "Client") : layers[z].live]

CursorZ(layers, types) ==
    LET all == OfType(layers, types, "Cursor") IN IF all = {} THEN 0 ELSE Min(all)

EntryAt(layers, types, target, z) ==
    IF types[z] = "Client" THEN ClientEntry(layers, types, target) ELSE layers[z]

Seated(layers, types, z) ==
    \/ types[z] = "Device"
    \/ types[z] = "Cursor" /\ z # CursorZ(layers, types)
    \/ types[z] = "Client" /\ z = Min(OfType(layers, types, "Client"))

SeatedZs(layers, types) == SelectSeq([z \in DOMAIN layers |-> z], LAMBDA z : Seated(layers, types, z))

\* The rank of the client entry, 0 when there is none.
ClientRank(layers, types, zs) ==
    LET c == OfType(layers, types, "Client") IN
    IF c = {} THEN 0 ELSE CHOOSE k \in DOMAIN zs : zs[k] = Min(c)

PlanOfStack(layers, types, zs, stack, still, usable) ==
    IF \E k \in DOMAIN stack : ~stack[k].usable THEN NoJoining
    ELSE CreatePlan(stack,
                    IF CursorZ(layers, types) = 0 THEN <<>> ELSE <<layers[CursorZ(layers, types)]>>,
                    still /\ Len(stack) > 1, usable, ClientRank(layers, types, zs))

StackOf(layers, types, target) ==
    LET zs == SeatedZs(layers, types) IN
    [k \in DOMAIN zs |-> EntryAt(layers, types, target, zs[k])]

CreateLayerToPlaneJoiningPlan(layers, types, target, still, usable) ==
    PlanOfStack(layers, types, SeatedZs(layers, types), StackOf(layers, types, target), still, usable)

\* The client target of the moment put in the plan's client entry.
UpdateClientTargetIfNeeded(joining, target) ==
    IF joining.client_index = 0 THEN joining
    ELSE [joining EXCEPT !.plan[joining.client_index].layer = target]
=============================================================================
