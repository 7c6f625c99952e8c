----------------------------- MODULE MergeGroup -----------------------------
(***************************************************************************)
(* compositor/MergeGroup: which layers of the stack the merging window     *)
(* takes.  Pure.                                                           *)
(*                                                                         *)
(* A member of the stack is [live, frame, turn]; the frame is a rectangle, *)
(* or NoRect for a layer whose place is not known.  Positions count from   *)
(* one, bottom first.  A search is [steps, best]: the budget left and the  *)
(* choice to beat.  A path of it is [begin, members, lowered, live].       *)
(***************************************************************************)
EXTENDS Occlusion

NoGroup == [order |-> <<>>, begin |-> 0, live |-> 0, lowered |-> 0]

\* A layer whose place is not known covers everything.
Overlaps(a, b) ==
    \/ a.frame = NoRect
    \/ b.frame = NoRect
    \/ ~EmptyRect(Intersect(a.frame, b.frame))

Count(b) == IF b THEN 1 ELSE 0
Foreign(stack, path, i) == stack[i].turn # stack[path.begin].turn
Spend(search) == [search EXCEPT !.steps = IF @ > 0 THEN @ - 1 ELSE 0]

\* A path as live as the best is given up, however little it moves.
MutCut(path, best) == best # NoGroup /\ path.live >= best.live

\* No better than what is already held, whatever lies above.
Cut(path, best) ==
    /\ best # NoGroup
    /\ \/ path.live > best.live
       \/ path.live = best.live /\ Len(path.lowered) >= best.lowered

Take(stack, path, i) ==
    [path EXCEPT !.members = Append(@, i), !.live = @ + Count(stack[i].live)]
Lower(path, i) == [path EXCEPT !.lowered = Append(@, i)]

\* Lowered past a member it covers.
MutMayLower(stack, width, path, i, steps) ==
    /\ stack[i].live \/ Foreign(stack, path, i)
    /\ steps > 0
    /\ Len(stack) - i >= width - Len(path.members)

MayLower(stack, width, path, i, steps) ==
    /\ stack[i].live \/ Foreign(stack, path, i)
    /\ steps > 0
    /\ Len(stack) - i >= width - Len(path.members)
    /\ \A m \in Range(path.members) : ~Overlaps(stack[m], stack[i])

\* The stack reordered around a full group, next being the first layer
\* above it.
Record(stack, path, next) ==
    [order   |-> [k \in 1..(path.begin - 1) |-> k] \o path.lowered \o path.members
                 \o [k \in 1..(Len(stack) - next + 1) |-> next + k - 1],
     begin   |-> path.begin + Len(path.lowered),
     live    |-> path.live,
     lowered |-> Len(path.lowered)]

RECURSIVE Walk(_, _, _, _, _), WalkLowered(_, _, _, _, _)
Walk(stack, width, path, i, search) ==
    IF Cut(path, search.best) THEN Spend(search)
    ELSE IF Len(path.members) = width
      THEN [Spend(search) EXCEPT !.best = Record(stack, path, i)]
    ELSE IF i > Len(stack) THEN Spend(search)
    ELSE WalkLowered(stack, width, path, i,
                     IF Foreign(stack, path, i) THEN Spend(search)
                     ELSE Walk(stack, width, Take(stack, path, i), i + 1, Spend(search)))

WalkLowered(stack, width, path, i, search) ==
    IF MayLower(stack, width, path, i, search.steps)
    THEN Walk(stack, width, Lower(path, i), i + 1, search)
    ELSE search

From(stack, width, begin, search) ==
    Walk(stack, width,
         [begin |-> begin, members |-> <<begin>>, lowered |-> <<>>, live |-> Count(stack[begin].live)],
         begin + 1, search)

ChooseMergeGroup(stack, width, budget) ==
    IF width = 0 \/ width > Len(stack) THEN NoGroup
    ELSE FoldLeft(LAMBDA search, begin : From(stack, width, begin, search),
                  [steps |-> budget, best |-> NoGroup],
                  [k \in 1..(Len(stack) - width + 1) |-> k]).best

-----------------------------------------------------------------------------
(* The reference: every group there is, and which is best.                  *)

Between(members, n) == {k \in 1..n : k > Min(members) /\ k < Max(members)} \ members

GroupsOf(stack, width) ==
    {members \in kSubset(width, DOMAIN stack) :
        /\ \A m, n \in members : stack[m].turn = stack[n].turn
        /\ \A k \in Between(members, Len(stack)) :
              /\ stack[k].live \/ stack[k].turn # stack[Min(members)].turn
              /\ \A m \in members : m < k => ~Overlaps(stack[m], stack[k])}

LiveIn(stack, members) == Cardinality({m \in members : stack[m].live})

\* The cost of a group as one number: live members first, then layers
\* moved, then how high it starts.  Each is less than the stack's size + 1.
Cost(stack, members) ==
    LET n == Len(stack) + 1 IN
    (LiveIn(stack, members) * n + Cardinality(Between(members, Len(stack)))) * n + Min(members)
ChoiceCost(stack, choice) ==
    LET n == Len(stack) + 1 IN (choice.live * n + choice.lowered) * n + choice.begin - choice.lowered

ContiguousRuns(stack, width) ==
    {members \in GroupsOf(stack, width) : Between(members, Len(stack)) = {}}
=============================================================================
