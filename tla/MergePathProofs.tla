--------------------------- MODULE MergePathProofs ---------------------------
(***************************************************************************)
(* What MergePath says of the group's way to the panel, proved for any     *)
(* number of slots above one, any groups, jobs, plans and frames.          *)
(*                                                                         *)
(* PoolInStep is not inductive: giving a turn back is right only where one *)
(* was taken and not yet given back.  Whether there is one is known from   *)
(* where the frame thread stands and what the worker answered it (Turns),  *)
(* over every path through Test, QueueMerge, Execute and the flip.         *)
(*                                                                         *)
(* Nor are MergeIsTrue and NeverWritesUnderScan: what the panel will show  *)
(* depends on drawings still in the engine's channel.  So the invariant    *)
(* (MergeInv) speaks of what a slot comes to hold: Holds(s, n, g), slot s  *)
(* holds g once drawing n has run, and Held(s, n, g), nothing anyone wants *)
(* is drawn over it after.  Every belief the code keeps is such a claim:   *)
(* SlotPictures (KnownPictures), the queued drawing (PendingPicture), the  *)
(* last group drawn (Current), each flip on its way (FlipsTrue), each      *)
(* drawing in part (Chained).  Each step of the frame, the worker, the     *)
(* engine and the panel keeps them all.                                    *)
(***************************************************************************)
EXTENDS MergePath, SequenceTheorems, WellFoundedInduction, TLAPS

\* The slot the rotation starts from: the one shown, or the first.
Base == IF showing_ = NoSlot THEN 0 ELSE showing_

PoolOK == at_ \in Slots /\ showing_ \in Slots \union {NoSlot}

\* Where a drawing is queued that has a turn of the pool: never past the
\* decision to draw or show something else, and always where the frame thread
\* goes by what the worker said of it.
Turns ==
    /\ pending_merge_ # NoPending => pending_merge_.target = at_
    /\ fpc \in {"queue", "flip"} => pending_merge_ = NoPending
    /\ fpc = "resolve" => pending_merge_ # NoPending
    /\ fpc \in {"decide", "draw"} /\ resolved # "none" => pending_merge_ # NoPending
    /\ fpc = "draw" /\ resolved = "none" => pending_merge_ = NoPending

PoolInv == PoolOK /\ Turns /\ PoolInStep

-----------------------------------------------------------------------------
\* ScratchPool's rotation.

\* The slot after one, and the slot before that, are slots again, and one undoes
\* the other.
LEMMA TurnBack ==
    ASSUME NEW s \in Slots
    PROVE  After(s) \in Slots /\ Before(s) \in Slots /\ Before(After(s)) = s
<1> USE NumSlotsAssumption DEF Slots, After, Before
<1>1. NumSlots \in Nat \ {0} /\ s \in 0..(NumSlots - 1)
  OBVIOUS
<1>2. CASE s + 1 < NumSlots
  <2>1. (s + 1) % NumSlots = s + 1
    BY <1>1, <1>2
  <2>2. (s + 1 + NumSlots - 1) % NumSlots = s
    BY <1>1
  <2>3. (s + NumSlots - 1) % NumSlots \in 0..(NumSlots - 1)
    BY <1>1
  <2> QED
    BY <1>1, <1>2, <2>1, <2>2, <2>3
<1>3. CASE s + 1 = NumSlots
  <2>1. (s + 1) % NumSlots = 0
    BY <1>1, <1>3
  <2>2. (0 + NumSlots - 1) % NumSlots = s
    BY <1>1, <1>3
  <2>3. (s + NumSlots - 1) % NumSlots \in 0..(NumSlots - 1)
    BY <1>1
  <2> QED
    BY <1>1, <1>3, <2>1, <2>2, <2>3
<1> QED
  BY <1>1, <1>2, <1>3

\* A queued drawing has a slot, and so is not no drawing.
LEMMA QueuedIsPending ==
    ASSUME NEW p, p.target \in Slots PROVE p # NoPending
BY NumSlotsAssumption DEF NoPending, NoSlot, Slots

\* DropPendingMerge gives back the turn taken, if one was.
LEMMA DropGivesBack ==
    ASSUME PoolInv, DropPendingMerge, fpc # "flip"
    PROVE  pending_merge_' = NoPending /\ at_' = Base /\ showing_' = showing_
<1>1. CASE pending_merge_ = NoPending
  BY <1>1 DEF PoolInv, PoolInStep, DropPendingMerge, poolVars, Base
<1>2. CASE pending_merge_ # NoPending
  <2>1. at_ = After(Base) /\ Base \in Slots
    BY <1>2, NumSlotsAssumption DEF PoolInv, PoolOK, PoolInStep, Base, Slots
  <2> QED
    BY <1>2, <2>1, TurnBack DEF DropPendingMerge, Rewind
<1> QED
  BY <1>1, <1>2

\* A step that leaves no drawing queued and the pool where it started.
LEMMA SettledInv ==
    ASSUME PoolInv, pending_merge_' = NoPending, at_' = Base, showing_' = showing_,
           fpc' \in {"idle", "queue", "draw", "flip"} /\ (fpc' = "flip" => how' # "drawn"),
           fpc' = "draw" => resolved' = "none"
    PROVE  PoolInv'
<1>1. Base \in Slots /\ Base' = Base
  BY NumSlotsAssumption DEF PoolInv, PoolOK, Base, Slots
<1> QED
  BY <1>1 DEF PoolInv, PoolOK, Turns, PoolInStep, Base

\* A step that leaves the pool and the queued drawing alone.
LEMMA AsideInv ==
    ASSUME PoolInv, UNCHANGED <<poolVars, pending_merge_>>, Turns',
           fpc \notin {"flip"} \/ how # "drawn" \/ UNCHANGED <<fpc, how>>,
           fpc' # "flip" \/ UNCHANGED <<fpc, how>>
    PROVE  PoolInv'
BY DEF PoolInv, PoolOK, PoolInStep, poolVars

\* The drawing whose turn it is: taken at validate, or by this frame.
LEMMA TargetIsNext ==
    ASSUME PoolInv, fpc = "draw"
    PROVE  Target = After(Base) /\ Target \in Slots /\ Base \in Slots
<1>1. Base \in Slots
  BY NumSlotsAssumption DEF PoolInv, PoolOK, Base, Slots
<1>2. CASE resolved = "none"
  BY <1>1, <1>2, TurnBack DEF PoolInv, Turns, PoolInStep, Base, Target
<1>3. CASE resolved # "none"
  BY <1>1, <1>3, TurnBack DEF PoolInv, Turns, PoolInStep, Base, Target
<1> QED
  BY <1>1, <1>2, <1>3

\* A frame drawn leaves the pool on its slot until the flip.
LEMMA DrawnInv ==
    ASSUME PoolInv, fpc = "draw", NEW op, DrawnInto(op)
    PROVE  PoolInv'
<1>1. /\ at_' = After(Base) /\ After(Base) \in Slots /\ pending_merge_' = NoPending
      /\ fpc' = "flip" /\ how' = "drawn" /\ showing_' = showing_
  BY TargetIsNext DEF DrawnInto
<1> QED
  BY <1>1 DEF PoolInv, PoolOK, Turns, PoolInStep, Base

\* A frame not drawn gives the turn back.
LEMMA NotDrawnInv ==
    ASSUME PoolInv, fpc = "draw", pending_merge_' = NoPending, at_' = Before(Target),
           showing_' = showing_, fpc' = "idle"
    PROVE  PoolInv'
BY TargetIsNext, TurnBack, SettledInv

-----------------------------------------------------------------------------
\* Nothing is shown or queued yet: the turn stands on the first slot.
LEMMA InitPool == Init => PoolInv
BY NumSlotsAssumption DEF Init, PoolInv, PoolOK, Turns, PoolInStep, NoPending, Slots, NoSlot

\* Every step keeps the turn.
LEMMA NextPool == PoolInv /\ [Next]_vars => PoolInv'
<1> SUFFICES ASSUME PoolInv, [Next]_vars PROVE PoolInv'
  OBVIOUS
<1>1. ASSUME NEW g \in Groups \union {NoGroup}, Test(g) PROVE PoolInv'
  BY <1>1, DropGivesBack, SettledInv DEF Test
<1>2. CASE QueueMerge
  <2>1. pending_merge_ = NoPending /\ at_ = Base /\ Base \in Slots
    BY <1>2, NumSlotsAssumption DEF QueueMerge, PoolInv, PoolOK, Turns, PoolInStep, Base, Slots
  <2>2. /\ at_' = After(Base) /\ After(Base) \in Slots /\ showing_' = showing_
        /\ pending_merge_'.target = at_' /\ fpc' = "idle"
    BY <1>2, <2>1, TurnBack DEF QueueMerge, Next_
  <2>3. pending_merge_' # NoPending
    BY <2>2, QueuedIsPending
  <2> QED
    BY <2>2, <2>3 DEF PoolInv, PoolOK, Turns, PoolInStep, Base
<1>3. CASE ExecuteWithoutGroup
  BY <1>3, DropGivesBack, SettledInv DEF ExecuteWithoutGroup
<1>4. ASSUME NEW g \in Groups, Execute(g) PROVE PoolInv'
  <2>1. /\ fpc = "idle" /\ UNCHANGED <<poolVars, pending_merge_>>
        /\ fpc' \in {"resolve", "decide"}
        /\ fpc' = "resolve" \/ resolved' # "none" => pending_merge_ # NoPending
    BY <1>4 DEF Execute
  <2>2. Turns'
    BY <2>1 DEF PoolInv, Turns, poolVars
  <2> QED
    BY <2>1, <2>2, AsideInv
<1>5. ASSUME NEW o, ResolveAnswers(o) PROVE PoolInv'
  <2>1. /\ fpc = "resolve" /\ fpc' = "decide" /\ UNCHANGED <<poolVars, pending_merge_>>
    BY <1>5 DEF ResolveAnswers
  <2>2. Turns'
    BY <2>1 DEF PoolInv, Turns, poolVars
  <2> QED
    BY <2>1, <2>2, AsideInv
<1>6. CASE DecideToReuse
  <2>1. CASE resolved = "dropped"
    <3>1. pending_merge_ # NoPending /\ at_ = After(Base) /\ Base \in Slots
      BY <1>6, <2>1, NumSlotsAssumption
      DEF DecideToReuse, PoolInv, PoolOK, Turns, PoolInStep, Base, Slots
    <3> QED
      BY <1>6, <2>1, <3>1, TurnBack, SettledInv DEF DecideToReuse, Rewind
  <2>2. CASE resolved # "dropped"
    BY <1>6, <2>2, DropGivesBack, SettledInv DEF DecideToReuse
  <2> QED
    BY <2>1, <2>2
<1>7. CASE DecideToDraw
  <2>1. CASE resolved = "none"
    BY <1>7, <2>1, DropGivesBack, SettledInv DEF DecideToDraw
  <2>2. CASE resolved # "none"
    <3>1. /\ fpc = "decide" /\ fpc' = "draw" /\ UNCHANGED <<poolVars, pending_merge_, resolved>>
      BY <1>7, <2>2 DEF DecideToDraw
    <3>2. Turns'
      BY <2>2, <3>1 DEF PoolInv, Turns, poolVars
    <3> QED
      BY <3>1, <3>2, AsideInv
  <2> QED
    BY <2>1, <2>2
<1>8. CASE DrawUntouched
  BY <1>8, DrawnInv DEF DrawUntouched
<1>9. CASE DrawQueued
  BY <1>9, DrawnInv, NotDrawnInv DEF DrawQueued, NotDrawn
<1>10. CASE DrawHere
  BY <1>10, DrawnInv, NotDrawnInv DEF DrawHere, NotDrawn
<1>11. CASE RefuseMixedTurn
  BY <1>11, NotDrawnInv DEF RefuseMixedTurn
<1>12. CASE FlipLands
  <2>1. pending_merge_' = NoPending /\ pending_merge_ = NoPending /\ fpc' = "idle" /\ fpc = "flip"
    BY <1>12 DEF FlipLands, PoolInv, Turns
  <2>2. CASE how = "drawn"
    <3>1. at_' = at_ /\ showing_' = at_ /\ at_ \in Slots
      BY <1>12, <2>2 DEF FlipLands, Presented, PoolInv, PoolOK
    <3>2. at_ # NoSlot
      BY <3>1, NumSlotsAssumption DEF Slots, NoSlot
    <3> QED
      BY <2>1, <3>1, <3>2 DEF PoolInv, PoolOK, Turns, PoolInStep
  <2>3. CASE how # "drawn"
    BY <1>12, <2>1, <2>3 DEF FlipLands, PoolInv, PoolOK, Turns, PoolInStep, poolVars
  <2> QED
    BY <2>2, <2>3
<1>13. CASE FlipFails
  <2>1. pending_merge_' = NoPending /\ pending_merge_ = NoPending /\ fpc' = "idle" /\ fpc = "flip"
    BY <1>13 DEF FlipFails, PoolInv, Turns
  <2>2. CASE how = "drawn"
    <3>1. at_ = After(Base) /\ Base \in Slots
      BY <2>1, <2>2, NumSlotsAssumption DEF PoolInv, PoolOK, PoolInStep, Base, Slots
    <3> QED
      BY <1>13, <2>1, <2>2, <3>1, TurnBack, SettledInv DEF FlipFails, Rewind
  <2>3. CASE how # "drawn"
    BY <1>13, <2>1, <2>3 DEF FlipFails, PoolInv, PoolOK, Turns, PoolInStep, poolVars
  <2> QED
    BY <2>2, <2>3
<1>14. CASE ResolveSleeps \/ NoteFrameUnjudged \/ WorkerNext \/ EngineDraws \/ PanelLatches
            \/ (\E g \in Groups : ClientFinishes(g)) \/ UNCHANGED vars
  <2>1. UNCHANGED <<poolVars, pending_merge_, fpc, how, resolved>>
    BY <1>14 DEF ResolveSleeps, NoteFrameUnjudged, WorkerNext, WorkerTakes, WorkerSleeps,
         WorkerComposes, WorkerDone, EngineDraws, PanelLatches, ClientFinishes, vars, frameVars
  <2>2. Turns'
    BY <2>1 DEF PoolInv, Turns, poolVars
  <2> QED
    BY <2>1, <2>2, AsideInv
<1> QED
  BY <1>1, <1>2, <1>3, <1>4, <1>5, <1>6, <1>7, <1>8, <1>9, <1>10, <1>11, <1>12, <1>13, <1>14
  DEF Next, ResolveNext, ExecuteNext

-----------------------------------------------------------------------------
\* A turn of the pool is taken where and only where a drawing stands that has
\* not been shown or given up (ScratchPool's Next and Rewind against
\* pending_merge_).
THEOREM TurnsAreTaken == Spec => []PoolInv
BY InitPool, NextPool, PTL DEF Spec

\* The pool stands on the slot shown, one further while a drawing is pending:
\* the rotation never walks onto the slot the display is reading.
THEOREM PoolStaysInStep == Spec => []PoolInStep
<1>1. PoolInv => PoolInStep
  BY DEF PoolInv
<1> QED
  BY TurnsAreTaken, <1>1, PTL

-----------------------------------------------------------------------------
\* The engine's channel: what a slot comes to hold.

\* What may be remembered of a picture.
Memories == {Nothing} \union {Remember(g) : g \in Groups}
MayBeGroup == Groups \union {NoGroup}
MayBeSlot == Slots \union {NoSlot}

\* A drawing in the channel.
Drawing == [slot : Slots, group : Groups, ready : Nat, base : Memories, orphan : BOOLEAN]

\* The picture a memory is of.
Pic(m) == [size |-> m.size, members |-> m.members]

\* In a channel O that has run d drawings and left c, x behind: slot s comes to
\* hold picture g with drawing n, or was spoiled by a drawing given up.
HoldsIn(O, d, c, x, s, n, g) ==
    /\ \A k \in (d + 1)..n : O[k].slot = s /\ (\A j \in (k + 1)..n : O[j].slot # s)
           => O[k].group = g \/ O[k].orphan
    /\ (\A k \in (d + 1)..n : O[k].slot # s) => c[s] = g \/ s \in x

\* And no drawing anyone still wants comes after it.
HeldIn(O, d, c, x, s, n, g) ==
    /\ n \in 0..Len(O) /\ HoldsIn(O, d, c, x, s, n, g)
    /\ \A j \in 1..Len(O) : j > n /\ j > d /\ O[j].slot = s => O[j].orphan

\* A drawing in part is over the picture it was planned against.
BaseIn(O, d, c, x, k) ==
    ~O[k].orphan /\ O[k].base # Nothing => HoldsIn(O, d, c, x, O[k].slot, k - 1, Pic(O[k].base))

\* What a slot holds and no one draws over it holds to the end of the channel.
LEMMA HeldLasts ==
    ASSUME NEW O \in Seq(Drawing), NEW d \in 0..Len(O), NEW c, NEW x, NEW s, NEW n, NEW g,
           HeldIn(O, d, c, x, s, n, g)
    PROVE  HoldsIn(O, d, c, x, s, Len(O), g)
<1>1. Len(O) \in Nat /\ d \in Nat /\ n \in 0..Len(O)
  BY DEF HeldIn
<1>2. ASSUME NEW k \in (d + 1)..Len(O), O[k].slot = s,
             \A j \in (k + 1)..Len(O) : O[j].slot # s
      PROVE  O[k].group = g \/ O[k].orphan
  <2>1. CASE k > n
    BY <1>1, <1>2, <2>1 DEF HeldIn
  <2>2. CASE k <= n
    BY <1>1, <1>2, <2>2 DEF HeldIn, HoldsIn
  <2> QED
    BY <1>1, <2>1, <2>2
<1>3. ASSUME \A k \in (d + 1)..Len(O) : O[k].slot # s PROVE c[s] = g \/ s \in x
  BY <1>1, <1>3 DEF HeldIn, HoldsIn
<1> QED
  BY <1>2, <1>3 DEF HoldsIn

\* One more drawing in the channel changes nothing before it.
LEMMA HoldsBefore ==
    ASSUME NEW O \in Seq(Drawing), NEW e \in Drawing, NEW d \in Nat, NEW c, NEW x, NEW s,
           NEW n \in 0..Len(O), NEW g
    PROVE  HoldsIn(Append(O, e), d, c, x, s, n, g) <=> HoldsIn(O, d, c, x, s, n, g)
<1>1. \A k \in (d + 1)..n : Append(O, e)[k] = O[k]
  BY AppendProperties
<1>2. \A k \in (d + 1)..n : \A j \in (k + 1)..n : Append(O, e)[j] = O[j]
  BY AppendProperties
<1> QED
  BY <1>1, <1>2 DEF HoldsIn

\* Nor what a slot is known to hold, if it is into another or given up.
LEMMA HeldBefore ==
    ASSUME NEW O \in Seq(Drawing), NEW e \in Drawing, NEW d \in Nat, NEW c, NEW x, NEW s,
           NEW n, NEW g, HeldIn(O, d, c, x, s, n, g), e.slot # s \/ e.orphan
    PROVE  HeldIn(Append(O, e), d, c, x, s, n, g)
<1>1. n \in 0..Len(O) /\ Len(O) \in Nat /\ Len(Append(O, e)) = Len(O) + 1
  BY AppendProperties DEF HeldIn
<1>2. HoldsIn(Append(O, e), d, c, x, s, n, g)
  BY <1>1, HoldsBefore DEF HeldIn
<1>3. \A j \in 1..(Len(O) + 1) : Append(O, e)[j] = IF j = Len(O) + 1 THEN e ELSE O[j]
  BY <1>1, AppendProperties
<1> QED
  BY <1>1, <1>2, <1>3 DEF HeldIn

\* So does what it holds at the end of the channel.
LEMMA HoldsOnBefore ==
    ASSUME NEW O \in Seq(Drawing), NEW e \in Drawing, NEW d \in 0..Len(O), NEW c, NEW x, NEW s,
           NEW g, HoldsIn(O, d, c, x, s, Len(O), g), e.slot # s \/ e.orphan
    PROVE  HoldsIn(Append(O, e), d, c, x, s, Len(Append(O, e)), g)
<1>1. HeldIn(O, d, c, x, s, Len(O), g)
  BY DEF HeldIn
<1>2. HeldIn(Append(O, e), d, c, x, s, Len(O), g)
  BY <1>1, HeldBefore
<1>3. Append(O, e) \in Seq(Drawing) /\ d \in 0..Len(Append(O, e))
  BY AppendProperties
<1> QED
  BY <1>2, <1>3, HeldLasts

\* A drawing handed over brings its slot to hold its group.
LEMMA HeldAfter ==
    ASSUME NEW O \in Seq(Drawing), NEW e \in Drawing, NEW d \in 0..Len(O), NEW c, NEW x
    PROVE  HeldIn(Append(O, e), d, c, x, e.slot, Len(O) + 1, e.group)
<1>1. Len(O) \in Nat /\ Len(Append(O, e)) = Len(O) + 1 /\ Append(O, e)[Len(O) + 1] = e
  BY AppendProperties
<1> QED
  BY <1>1 DEF HeldIn, HoldsIn

\* The next drawing run.
RunsNext(O, d, c, x, c2, x2) ==
    LET op == O[d + 1]
    IN  /\ c2 = [c EXCEPT ![op.slot] = IF op.base = Nothing \/ c[op.slot] = Pic(op.base)
                                       THEN op.group ELSE Torn]
        /\ x2 = IF op.orphan THEN x \union {op.slot}
                ELSE IF op.base = Nothing THEN x \ {op.slot} ELSE x

\* The engine runs the next drawing: a claim stands unless that drawing is wanted
\* and comes after it into the same slot.
LEMMA HoldsWhenRun ==
    ASSUME NEW O \in Seq(Drawing), NEW d \in 0..Len(O), d < Len(O), NEW c, NEW x, NEW c2, NEW x2,
           DOMAIN c = Slots, RunsNext(O, d, c, x, c2, x2), BaseIn(O, d, c, x, d + 1),
           NEW s \in Slots, NEW n \in 0..Len(O), NEW g, HoldsIn(O, d, c, x, s, n, g),
           d + 1 > n /\ O[d + 1].slot = s => O[d + 1].orphan
    PROVE  HoldsIn(O, d + 1, c2, x2, s, n, g)
<1> DEFINE op == O[d + 1]
<1>1. /\ Len(O) \in Nat /\ d \in Nat /\ n \in Nat /\ d + 1 \in 1..Len(O) /\ op \in Drawing
  OBVIOUS
<1>2. /\ op.slot \in Slots /\ op.orphan \in BOOLEAN
  BY <1>1 DEF Drawing
<1>3. \A t \in Slots : c2[t] = IF t # op.slot THEN c[t]
                               ELSE IF op.base = Nothing \/ c[t] = Pic(op.base) THEN op.group ELSE Torn
  BY <1>2 DEF RunsNext
<1>4. x2 = IF op.orphan THEN x \union {op.slot} ELSE IF op.base = Nothing THEN x \ {op.slot} ELSE x
  BY DEF RunsNext
<1>5. ~op.orphan /\ op.base # Nothing => c[op.slot] = Pic(op.base) \/ op.slot \in x
  BY <1>1 DEF BaseIn, HoldsIn
<1>6. op.orphan \/ op.slot # s \/ n > d
  BY <1>1
<1> HIDE DEF op
<1>7. ASSUME NEW k \in (d + 2)..n, O[k].slot = s, \A j \in (k + 1)..n : O[j].slot # s
      PROVE  O[k].group = g \/ O[k].orphan
  BY <1>1, <1>7 DEF HoldsIn
<1>8. ASSUME \A k \in (d + 2)..n : O[k].slot # s PROVE c2[s] = g \/ s \in x2
  <2>1. CASE op.slot # s
    <3>1. \A k \in (d + 1)..n : O[k].slot # s
      BY <1>1, <1>8, <2>1 DEF op
    <3> QED
      BY <1>3, <1>4, <2>1, <3>1 DEF HoldsIn
  <2>2. CASE op.slot = s /\ op.orphan
    BY <1>4, <2>2
  <2>3. CASE op.slot = s /\ ~op.orphan
    <3>1. d + 1 \in (d + 1)..n /\ \A j \in (d + 1 + 1)..n : O[j].slot # s
      BY <1>1, <1>6, <1>8, <2>3
    <3>2. op.group = g
      BY <2>3, <3>1 DEF HoldsIn, op
    <3> QED
      BY <1>3, <1>4, <1>5, <2>3, <3>2
  <2> QED
    BY <1>2, <2>1, <2>2, <2>3
<1> QED
  <2>1. d + 1 + 1 = d + 2
    BY <1>1
  <2> QED
    BY <1>7, <1>8, <2>1 DEF HoldsIn

\* And what is held is held after it.
LEMMA HeldWhenRun ==
    ASSUME NEW O \in Seq(Drawing), NEW d \in 0..Len(O), d < Len(O), NEW c, NEW x, NEW c2, NEW x2,
           DOMAIN c = Slots, RunsNext(O, d, c, x, c2, x2), BaseIn(O, d, c, x, d + 1),
           NEW s \in Slots, NEW n, NEW g, HeldIn(O, d, c, x, s, n, g)
    PROVE  HeldIn(O, d + 1, c2, x2, s, n, g)
<1>1. n \in 0..Len(O) /\ Len(O) \in Nat /\ d \in Nat /\ d + 1 \in 1..Len(O)
  BY DEF HeldIn
<1>2. d + 1 > n /\ O[d + 1].slot = s => O[d + 1].orphan
  BY <1>1 DEF HeldIn
<1>3. HoldsIn(O, d + 1, c2, x2, s, n, g)
  BY <1>1, <1>2, HoldsWhenRun DEF HeldIn
<1> QED
  BY <1>1, <1>3 DEF HeldIn

-----------------------------------------------------------------------------
\* The invariant.

\* What the variables range over.
Flip ==
    [slot : MayBeSlot, pre : Nat, shows : MayBeGroup, want : MayBeGroup,
     how : {"empty", "same", "lag", "dropped", "drawn"}]

Job == [slot : MayBeSlot, group : MayBeGroup, ready : Nat, base : Memories, op : Nat]

Picture == [held : Memories, fence : Nat]

Pending ==
    [id : Nat, target : MayBeSlot, key : Memories, plan : {"whole", "part", "unchanged"},
     droppable : BOOLEAN]

Outcomes == States \ {"dropped"}

\* The same of the channel as it stands.
Holds(s, n, g) == HoldsIn(ops, done, content, spoiled, s, n, g)
Held(s, n, g) == HeldIn(ops, done, content, spoiled, s, n, g)

\* The queues of the engine and the panel.
Hardware ==
    /\ ops \in Seq(Drawing) /\ done \in 0..Len(ops)
    /\ flips \in Seq(Flip) /\ latched \in 0..Len(flips)
    /\ freed_when \in [Slots -> Nat]
    /\ DOMAIN content = Slots /\ spoiled \subseteq Slots

\* The frame thread's variables.
FrameSide ==
    /\ fpc \in {"idle", "queue", "resolve", "decide", "draw", "flip"}
    /\ group \in MayBeGroup /\ (fpc \in {"queue", "resolve", "decide", "draw"} => group \in Groups)
    /\ fpc = "flip" => how \in {"empty", "same", "lag", "dropped", "drawn"}
    /\ merge_memory_ \in Memories /\ last_merge_fence_ \in Nat
    /\ last_described \in [slot : MayBeSlot, group : MayBeGroup]
    /\ slot_pictures_ \in [Slots -> Picture]
    /\ pending_merge_ \in Pending /\ pending_merge_.id <= last_id_

\* What is queued is what is pending, and the worker has that or a drawing given up.
WorkSide ==
    /\ last_id_ \in 0..MaxJobs /\ ~stopped_
    /\ state \in [Ids -> Outcomes] /\ cancelled \in [Ids -> BOOLEAN]
    /\ jobs \in [Ids -> Job]
    /\ \A i \in 1..last_id_ : jobs[i].slot \in Slots /\ jobs[i].group \in Groups
    /\ wpc \in {"take", "compose", "done"}
    /\ wpc # "take" =>
        /\ wjob \in 1..last_id_
        /\ cancelled[wjob] \/ (wjob = pending_merge_.id /\ state[wjob] = "submitting")
    /\ \A i \in Ids :
        /\ state[i] = "queued" => i = pending_merge_.id
        /\ state[i] = "submitting" => wpc # "take" /\ i = wjob

\* A pending drawing is the job queued for it, not yet composed until the worker has.
PendingSide ==
    /\ pending_merge_.id # 0 =>
        LET id == pending_merge_.id
        IN  /\ ~cancelled[id] /\ pending_merge_.plan # "unchanged"
            /\ jobs[id].slot = pending_merge_.target
            /\ pending_merge_.key = Remember(jobs[id].group)
            /\ jobs[id].ready = freed_when[pending_merge_.target]
            /\ state[id] = "queued" \/ (wpc = "compose" /\ wjob = id) => jobs[id].op = 0
            /\ state[id] = "submitted" => jobs[id].op # 0
    /\ pending_merge_ # NoPending =>
        /\ pending_merge_.target \in Slots /\ pending_merge_.key # Nothing
        /\ Known(pending_merge_.target) = Nothing
        /\ pending_merge_.id = 0 => pending_merge_.plan = "unchanged"

\* The frame goes by an answer about the very group it carries.
Answered ==
    /\ fpc = "resolve" => pending_merge_.id # 0 /\ Judge(pending_merge_.key, group) = "same"
    /\ fpc \in {"decide", "draw"} /\ resolved # "none" => Judge(pending_merge_.key, group) = "same"
    /\ fpc \in {"decide", "draw"} /\ resolved = "untouched" => pending_merge_.id = 0
    /\ fpc \in {"decide", "draw"} /\ resolved \notin {"none", "untouched"} =>
        /\ pending_merge_.id # 0 /\ state[pending_merge_.id] = "none"
        /\ resolved = "submitted" => jobs[pending_merge_.id].op # 0
        /\ resolved = "dropped" => pending_merge_.droppable

Control == FrameSide /\ WorkSide /\ PendingSide /\ Answered

\* The pending drawing's slot holds what it was planned over, or the group once drawn.
PendingPicture ==
    LET id == pending_merge_.id
        s == pending_merge_.target
    IN  /\ pending_merge_ # NoPending /\ id = 0
             => Held(s, slot_pictures_[s].fence, Pic(pending_merge_.key))
        /\ id # 0 /\ jobs[id].op = 0 /\ jobs[id].base # Nothing
             => Holds(s, Len(ops), Pic(jobs[id].base))
        /\ id # 0 /\ jobs[id].op # 0 => Held(s, jobs[id].op, jobs[id].group)

\* A slot known to hold a picture does, once the drawing it was known by has run.
KnownPictures ==
    \A s \in Slots : Known(s) # Nothing => Held(s, slot_pictures_[s].fence, Pic(Known(s)))

\* The last group drawn may be shown again.
MayReuse == merge_memory_ # Nothing \/ pending_merge_.droppable \/ (fpc = "flip" /\ how # "empty")

ShownSlot == IF fpc = "flip" /\ how = "drawn" THEN at_ ELSE showing_

Current ==
    MayReuse =>
        /\ last_described.slot \in Slots /\ last_described.slot = ShownSlot
        /\ last_described.group \in Groups
        /\ Held(last_described.slot, last_merge_fence_, last_described.group)
        /\ merge_memory_ # Nothing => merge_memory_ = Remember(last_described.group)

\* A drawing in part finds in its slot what it was planned over.
Chained == \A k \in 1..Len(ops) : k > done => BaseIn(ops, done, content, spoiled, k)

\* What flip k shows is there when it lands, and stays while it is up.
FlipTrue(k) ==
    flips[k].slot # NoSlot =>
        /\ flips[k].pre \in 0..Len(ops)
        /\ Holds(flips[k].slot, flips[k].pre, flips[k].shows)
        /\ \A j \in 1..Len(ops) : j > flips[k].pre /\ j > done /\ ops[j].slot = flips[k].slot
             => ops[j].orphan \/ ops[j].ready > k

FlipsTrue == \A k \in 1..Len(flips) : k >= latched => FlipTrue(k)

\* What is on the panel is drawn.
LatchedDone == latched > 0 => flips[latched].pre <= done

\* A slot is free only after the last flip that shows it.
Freed ==
    \A k \in 1..Len(flips) : \A s \in Slots :
        flips[k].slot = s /\ s # showing_ => k < freed_when[s]

Panel == Chained /\ FlipsTrue /\ LatchedDone /\ Freed

Pictures == PendingPicture /\ KnownPictures /\ Current /\ Panel

\* The picture a frame is to show is the one it asked for.
Asked ==
    /\ fpc = "flip" => /\ how \in {"same", "drawn"} => last_described.group = group
                       /\ how = "lag" => SameButFrames(Remember(last_described.group), group)
    /\ ShownIsAsked

MergeInv == PoolInv /\ Hardware /\ Control /\ Pictures /\ Asked

engineVars == <<ops, done, content, spoiled>>

-----------------------------------------------------------------------------
\* Groups and what is remembered of them.

\* A group remembered is a memory, and its picture is the group.
LEMMA GroupFacts ==
    ASSUME NEW g \in Groups
    PROVE  /\ g \in [size : Nat, members : Seq(MemberShape)]
           /\ Remember(g) \in Memories /\ Remember(g).remembered /\ Remember(g) # Nothing
           /\ Remember(g).size = g.size /\ Remember(g).members = g.members
           /\ Pic(Remember(g)) = g
BY GroupsAssumption DEF Remember, Memories, Nothing, Pic

\* Only Nothing remembers nothing.
LEMMA MemoryFacts ==
    ASSUME NEW m \in Memories
    PROVE  m.remembered <=> m # Nothing
BY GroupFacts DEF Memories, Nothing

\* Two groups are not remembered alike.
LEMMA RememberedOnce ==
    ASSUME NEW g \in Groups, NEW h \in Groups, Remember(g) = Remember(h) PROVE g = h
BY GroupFacts

\* Of some places in a sequence there is a first.
LEMMA FirstOf ==
    ASSUME NEW n \in Nat, NEW S \in SUBSET (1..n), S # {}
    PROVE  (CHOOSE i \in S : \A j \in S : i <= j) \in S
<1>1. S \in SUBSET Nat
  OBVIOUS
<1>2. IsWellFoundedOn(OpToRel(<, Nat), Nat)
  BY NatLessThanWellFounded
<1>3. PICK m \in S : \A t \in S : <<t, m>> \notin OpToRel(<, Nat)
  BY <1>1, <1>2, WFMin
<1>4. \A t \in S : m <= t
  <2> SUFFICES ASSUME NEW t \in S PROVE ~(t < m)
    BY <1>1
  <2> QED
    BY <1>1, <1>3 DEF OpToRel
<1> QED
  BY <1>4

\* "same" is said only with no member found different.
LEMMA SameMeansNone ==
    ASSUME NEW m \in Memories, NEW g \in Groups, NEW aside \in BOOLEAN,
           Compare(m, g, aside) = "same"
    PROVE  /\ m # Nothing /\ Len(g.members) = Len(m.members) /\ g.size = m.size
           /\ \A i \in 1..Len(g.members) : MemberVerdict(g.members[i], m.members[i], aside) = "same"
<1> DEFINE verdict(i) == MemberVerdict(g.members[i], m.members[i], aside)
           differing == {i \in 1..Len(g.members) : verdict(i) # "same"}
<1>1. m.remembered /\ Len(g.members) = Len(m.members) /\ g.size = m.size
  BY DEF Compare
<1>2. differing # {} => verdict(CHOOSE i \in differing : \A j \in differing : i <= j) = "same"
  BY <1>1 DEF Compare
<1>3. Len(g.members) \in Nat
  BY GroupFacts
<1>4. differing = {}
  <2> SUFFICES ASSUME differing # {} PROVE FALSE
    OBVIOUS
  <2>1. (CHOOSE i \in differing : \A j \in differing : i <= j) \in differing
    BY <1>3, FirstOf
  <2> QED
    BY <1>2, <2>1
<1> QED
  BY <1>1, <1>4, MemoryFacts

\* A member is its six fields.
LEMMA MembersAlike ==
    ASSUME NEW m \in MemberShape, NEW n \in MemberShape,
           m.serial = n.serial, m.source = n.source, m.generation = n.generation,
           m.place = n.place, m.blend = n.blend, m.transform = n.transform
    PROVE  m = n
BY DEF MemberShape

\* PictureMemory::Judge answers "same" of the remembered group and of no other.
LEMMA SameIsEqual ==
    ASSUME NEW g \in Groups, NEW h \in Groups, Judge(Remember(h), g) = "same"
    PROVE  g = h
<1>1. /\ Len(g.members) = Len(h.members) /\ g.size = h.size
      /\ \A i \in 1..Len(g.members) : MemberVerdict(g.members[i], h.members[i], FALSE) = "same"
  <2> DEFINE m == Remember(h)
  <2>1. m \in Memories /\ m.size = h.size /\ m.members = h.members /\ Compare(m, g, FALSE) = "same"
    BY GroupFacts DEF Judge
  <2> HIDE DEF m
  <2> QED
    BY <2>1, SameMeansNone
<1>2. \A i \in 1..Len(g.members) : g.members[i] \in MemberShape /\ h.members[i] \in MemberShape
  BY <1>1, GroupFacts
<1>3. ASSUME NEW i \in 1..Len(g.members) PROVE g.members[i] = h.members[i]
  <2>1. /\ g.members[i].source = h.members[i].source /\ g.members[i].source # 0
        /\ g.members[i].generation = h.members[i].generation
        /\ g.members[i].place = h.members[i].place /\ g.members[i].blend = h.members[i].blend
        /\ g.members[i].transform = h.members[i].transform
    BY <1>1 DEF MemberVerdict
  <2>2. g.members[i].serial = h.members[i].serial
    <3>1. i \in 1..Len(h.members)
      BY <1>1
    <3> QED
      BY <2>1, <3>1, GroupsAssumption
  <2> QED
    BY <1>2, <2>1, <2>2, MembersAlike
<1>4. g.members = h.members
  BY <1>1, <1>3, GroupFacts
<1> QED
  BY <1>1, <1>4, GroupFacts

\* A slot that may stay as it is holds the group.
LEMMA UnchangedIsEqual ==
    ASSUME NEW s, NEW g \in Groups, Known(s) \in Memories, Plan(s, g) = "unchanged"
    PROVE  Known(s) = Remember(g)
<1>1. /\ Known(s).remembered /\ SameButFrames(Known(s), g) /\ FramesOf(g) = FramesOf(Known(s))
  BY Zenon DEF Plan
<1>2. PICK h \in Groups : Known(s) = Remember(h)
  BY <1>1, MemoryFacts DEF Memories
<1>3. /\ Len(g.members) = Len(h.members) /\ g.size = h.size
      /\ \A i \in 1..Len(g.members) : MemberVerdict(g.members[i], h.members[i], TRUE) = "same"
  <2> DEFINE m == Known(s)
  <2>1. m \in Memories /\ m.size = h.size /\ m.members = h.members /\ Compare(m, g, TRUE) = "same"
    BY <1>1, <1>2, GroupFacts DEF SameButFrames
  <2> HIDE DEF m
  <2>2. /\ Len(g.members) = Len(m.members) /\ g.size = m.size
        /\ \A i \in 1..Len(g.members) : MemberVerdict(g.members[i], m.members[i], TRUE) = "same"
    BY <2>1, SameMeansNone
  <2> QED
    BY <2>1, <2>2
<1>4. \A i \in 1..Len(g.members) : g.members[i] \in MemberShape /\ h.members[i] \in MemberShape
  BY <1>3, GroupFacts
<1>5. FramesOf(g) = FramesOf(h)
  BY <1>1, <1>2, GroupFacts DEF FramesOf
<1>6. ASSUME NEW i \in 1..Len(g.members) PROVE g.members[i] = h.members[i]
  <2>1. FramesOf(g)[i] = FramesOf(h)[i]
    BY <1>5
  <2>2. <<g.members[i].serial, g.members[i].generation>> = <<h.members[i].serial, h.members[i].generation>>
    BY <1>3, <2>1 DEF FramesOf
  <2>3. /\ g.members[i].serial = h.members[i].serial /\ g.members[i].serial # 0
        /\ g.members[i].generation = h.members[i].generation
        /\ g.members[i].place = h.members[i].place /\ g.members[i].blend = h.members[i].blend
        /\ g.members[i].transform = h.members[i].transform
    BY <1>3, <2>2 DEF MemberVerdict
  <2>4. g.members[i].source = h.members[i].source
    <3>1. i \in 1..Len(h.members)
      BY <1>3
    <3> QED
      BY <2>3, <3>1, GroupsAssumption
  <2> QED
    BY <1>4, <2>3, <2>4, MembersAlike
<1>7. g.members = h.members
  BY <1>3, <1>6, GroupFacts
<1>8. g = h
  BY <1>3, <1>7, GroupFacts
<1> QED
  BY <1>2, <1>8

-----------------------------------------------------------------------------
\* What a step leaves alone stays true.

\* The engine's and the panel's queues, left alone.
LEMMA HardwareStays ==
    ASSUME Hardware, UNCHANGED <<engineVars, flips, latched, freed_when>> PROVE Hardware'
BY DEF Hardware, engineVars

\* The flips on their way, left alone.
LEMMA PanelStays ==
    ASSUME Panel, UNCHANGED <<engineVars, flips, latched, freed_when, showing_>> PROVE Panel'
BY DEF Panel, Chained, FlipsTrue, FlipTrue, LatchedDone, Freed, Holds, engineVars

\* Slots' pictures forgotten are not mistaken.
LEMMA KnownStays ==
    ASSUME KnownPictures, UNCHANGED engineVars,
           \A s \in Slots : /\ slot_pictures_'[s].fence = slot_pictures_[s].fence
                            /\ slot_pictures_'[s].held \in {slot_pictures_[s].held, Nothing}
    PROVE  KnownPictures'
<1> SUFFICES ASSUME NEW s \in Slots, Known(s)' # Nothing
             PROVE  Held(s, slot_pictures_[s].fence, Pic(Known(s)))'
  BY DEF KnownPictures
<1>1. slot_pictures_'[s].held = slot_pictures_[s].held /\ slot_pictures_'[s].fence = slot_pictures_[s].fence
  BY DEF Known
<1>2. HeldIn(ops, done, content, spoiled, s, slot_pictures_[s].fence, Pic(slot_pictures_[s].held))
  BY <1>1 DEF KnownPictures, Known, Held
<1> QED
  BY <1>1, <1>2 DEF Held, Known, engineVars

\* The last group drawn, left alone or forgotten.
LEMMA CurrentStays ==
    ASSUME Current, UNCHANGED <<engineVars, last_described, last_merge_fence_>>,
           merge_memory_' \in {merge_memory_, Nothing},
           MayReuse' => MayReuse /\ ShownSlot' = ShownSlot
    PROVE  Current'
BY DEF Current, Held, engineVars

\* Nothing queued, nothing claimed of it.
LEMMA NothingPending ==
    ASSUME pending_merge_' = NoPending PROVE PendingSide' /\ PendingPicture'
BY DEF PendingSide, PendingPicture, NoPending

\* No flip more, none shown wrongly.
LEMMA AskedStays ==
    ASSUME Asked, UNCHANGED flips, fpc' # "flip" PROVE Asked'
BY DEF Asked, ShownIsAsked

\* No pending drawing is droppable.
LEMMA NoneDroppable ==
    /\ NoPending.droppable = FALSE /\ NoPending.id = 0 /\ NoPending.target = NoSlot
    /\ NoPending \in Pending
BY DEF NoPending, Pending, MayBeSlot, Memories

\* DropPendingMerge leaves nothing queued, and what the worker has given up.
LEMMA DropKeeps ==
    ASSUME MergeInv, DropPendingMerge, fpc # "flip",
           UNCHANGED <<engineVars, flips, latched, wpc, wjob, jobs>>
    PROVE  /\ Hardware' /\ WorkSide' /\ PendingSide' /\ PendingPicture' /\ KnownPictures' /\ Panel'
           /\ pending_merge_' = NoPending /\ last_id_' = last_id_ /\ showing_' = showing_
           /\ slot_pictures_' \in [Slots -> Picture]
<1> USE DEF MergeInv, Control, Pictures
<1>1. pending_merge_' = NoPending /\ showing_' = showing_
  BY DropGivesBack
<1>2. freed_when' = freed_when
  BY DEF DropPendingMerge, Rewind, poolVars
<1>3. Hardware' /\ Panel'
  BY <1>1, <1>2, HardwareStays, PanelStays
<1>4. /\ slot_pictures_' \in [Slots -> Picture]
      /\ \A s \in Slots : /\ slot_pictures_'[s].fence = slot_pictures_[s].fence
                          /\ slot_pictures_'[s].held \in {slot_pictures_[s].held, Nothing}
  <2>1. slot_pictures_ \in [Slots -> Picture] /\ Nothing \in Memories
    BY DEF FrameSide, Memories
  <2>2. slot_pictures_' = slot_pictures_ \/ slot_pictures_' = LostAt(pending_merge_.target)
    BY DEF DropPendingMerge
  <2> QED
    BY <2>1, <2>2 DEF LostAt, Picture
<1>5. KnownPictures'
  BY <1>4, KnownStays
<1>6. WorkSide' /\ last_id_' = last_id_
  <2> DEFINE id == pending_merge_.id
  <2>0. id \in Nat /\ id <= last_id_ /\ last_id_ \in Nat /\ last_id_ <= MaxJobs
    BY MaxJobsAssumption DEF FrameSide, Pending, WorkSide
  <2>1. UNCHANGED <<last_id_, stopped_>>
    BY DEF DropPendingMerge, queueVars, Cancel
  <2>2. CASE UNCHANGED <<state, cancelled>> /\ id = 0
    BY <1>1, <2>1, <2>2, NoneDroppable DEF WorkSide, Ids
  <2>3. CASE id # 0 /\ Cancel(id)
    <3>1. id \in Ids
      BY <2>0, <2>3, MaxJobsAssumption DEF Ids
    <3>2. CASE state[id] = "submitting"
      <4>1. state' = state /\ cancelled' = [cancelled EXCEPT ![id] = TRUE]
        BY <2>3, <3>2 DEF Cancel
      <4> QED
        BY <1>1, <2>1, <3>1, <3>2, <4>1, NoneDroppable DEF WorkSide, Ids
    <3>3. CASE state[id] # "submitting"
      <4>1. state' = [state EXCEPT ![id] = "none"] /\ cancelled' = cancelled
        BY <2>3, <3>3 DEF Cancel, Forget
      <4>2. "none" \in Outcomes
        BY DEF Outcomes, States
      <4> QED
        BY <1>1, <2>1, <3>1, <3>3, <4>1, <4>2, NoneDroppable DEF WorkSide, Ids
    <3> QED
      BY <3>2, <3>3
  <2>4. (UNCHANGED <<state, cancelled>> /\ id = 0) \/ (id # 0 /\ Cancel(id))
    BY NoneDroppable DEF DropPendingMerge, queueVars
  <2> QED
    BY <2>1, <2>2, <2>3, <2>4
<1> QED
  BY <1>1, <1>3, <1>4, <1>5, <1>6, NothingPending

-----------------------------------------------------------------------------
\* Nothing is drawn, queued, shown or remembered yet.
LEMMA InitMerge == Init => MergeInv
<1> SUFFICES ASSUME Init PROVE MergeInv
  OBVIOUS
<1> USE NumSlotsAssumption, MaxJobsAssumption
<1>0. Nothing \in Memories /\ NoGroup \in MayBeGroup /\ NoSlot \in MayBeSlot
  BY DEF Memories, MayBeGroup, MayBeSlot
<1>1. PoolInv
  BY InitPool
<1>2. Hardware
  BY DEF Init, Hardware
<1>3. FrameSide
  BY <1>0, NoneDroppable DEF Init, FrameSide, Picture, NoPending, QueueInit
<1>4. WorkSide
  <2>1. /\ last_id_ = 0 /\ state = [i \in Ids |-> "none"] /\ cancelled = [i \in Ids |-> FALSE]
        /\ stopped_ = FALSE /\ jobs = [i \in Ids |-> NoJob] /\ wpc = "take"
    BY DEF Init, QueueInit
  <2>2. NoJob \in Job /\ "none" \in Outcomes
    BY <1>0 DEF NoJob, Job, Outcomes, States
  <2> QED
    BY <2>1, <2>2 DEF WorkSide
<1>5. pending_merge_ = NoPending /\ fpc = "idle" /\ merge_memory_ = Nothing /\ flips = <<>>
      /\ ops = <<>> /\ latched = 0
  BY DEF Init
<1>6. PendingSide /\ PendingPicture
  BY <1>5 DEF PendingSide, PendingPicture, NoPending
<1>7. Answered /\ Asked
  BY <1>5 DEF Answered, Asked, ShownIsAsked
<1>8. KnownPictures
  BY DEF Init, KnownPictures, Known
<1>9. Current
  BY <1>5, NoneDroppable DEF Current, MayReuse
<1>10. Panel
  BY <1>5 DEF Panel, Chained, FlipsTrue, LatchedDone, Freed
<1> QED
  BY <1>1, <1>2, <1>3, <1>4, <1>6, <1>7, <1>8, <1>9, <1>10 DEF MergeInv, Control, Pictures

MergeRest == Hardware /\ Control /\ Pictures /\ Asked

-----------------------------------------------------------------------------
\* The frame's steps.

\* Test (validate): what an earlier validate queued is given up.
LEMMA TestKeeps ==
    ASSUME MergeInv, NEW g \in Groups \union {NoGroup}, Test(g) PROVE MergeRest'
<1>1. /\ fpc = "idle" /\ DropPendingMerge /\ group' = g
      /\ fpc' \in {"idle", "queue"} /\ (fpc' = "queue" => g # NoGroup)
      /\ UNCHANGED <<engineVars, flips, latched, wpc, wjob, jobs, memoryVars>>
  BY DEF Test, workerVars, hwVars, engineVars
<1>2. /\ Hardware' /\ WorkSide' /\ PendingSide' /\ PendingPicture' /\ KnownPictures' /\ Panel'
      /\ pending_merge_' = NoPending /\ last_id_' = last_id_ /\ showing_' = showing_
      /\ slot_pictures_' \in [Slots -> Picture]
  BY <1>1, DropKeeps
<1>3. FrameSide'
  BY <1>1, <1>2, NoneDroppable
  DEF MergeInv, Control, FrameSide, WorkSide, MayBeGroup, memoryVars
<1>4. Answered' /\ Asked'
  BY <1>1, AskedStays DEF MergeInv, Answered
<1>5. Current'
  BY <1>1, <1>2, NoneDroppable, CurrentStays
  DEF MergeInv, Pictures, MayReuse, ShownSlot, memoryVars
<1> QED
  BY <1>2, <1>3, <1>4, <1>5 DEF MergeRest, Control, Pictures

\* A present without a group: the same, and the last group is forgotten.
LEMMA ExecuteWithoutGroupKeeps ==
    ASSUME MergeInv, ExecuteWithoutGroup PROVE MergeRest'
<1>1. /\ fpc = "idle" /\ DropPendingMerge /\ group' = NoGroup
      /\ fpc' = "flip" /\ how' = "empty" /\ merge_memory_' = Nothing
      /\ UNCHANGED <<engineVars, flips, latched, wpc, wjob, jobs, last_described,
                     last_merge_fence_>>
  BY DEF ExecuteWithoutGroup, ForgetMerge, workerVars, hwVars, engineVars
<1>2. /\ Hardware' /\ WorkSide' /\ PendingSide' /\ PendingPicture' /\ KnownPictures' /\ Panel'
      /\ pending_merge_' = NoPending /\ last_id_' = last_id_ /\ showing_' = showing_
      /\ slot_pictures_' \in [Slots -> Picture]
  BY <1>1, DropKeeps
<1>3. FrameSide'
  BY <1>1, <1>2, NoneDroppable
  DEF MergeInv, Control, FrameSide, WorkSide, MayBeGroup, memoryVars, Memories
<1>4. Answered' /\ Asked'
  BY <1>1 DEF MergeInv, Answered, Asked, ShownIsAsked
<1>5. Current'
  BY <1>1, <1>2, NoneDroppable, CurrentStays DEF MergeInv, Pictures, MayReuse
<1> QED
  BY <1>2, <1>3, <1>4, <1>5 DEF MergeRest, Control, Pictures

\* A step that touches neither the queue, the pool nor what is remembered.
LEMMA FrameOnly ==
    ASSUME MergeInv, UNCHANGED <<queueVars, poolVars, pending_merge_, slot_pictures_, workerVars,
                                 ops, flips, hwVars, last_described, last_merge_fence_>>
    PROVE  Hardware' /\ WorkSide' /\ PendingSide' /\ PendingPicture' /\ KnownPictures' /\ Panel'
<1>1. UNCHANGED <<engineVars, latched, flips, freed_when, showing_>>
  BY DEF poolVars, hwVars, engineVars
<1>2. Hardware' /\ Panel' /\ KnownPictures'
  BY <1>1, HardwareStays, PanelStays, KnownStays DEF MergeInv, Pictures
<1>3. WorkSide'
  BY DEF MergeInv, Control, WorkSide, queueVars, workerVars
<1>4. PendingSide'
  BY DEF MergeInv, Control, PendingSide, queueVars, workerVars, poolVars, Known
<1>5. PendingPicture'
  BY <1>1 DEF MergeInv, Pictures, PendingPicture, Holds, Held, engineVars, workerVars
<1> QED
  BY <1>2, <1>3, <1>4, <1>5

\* Execute: the frame's group is recognised, or not.
LEMMA ExecuteKeeps ==
    ASSUME MergeInv, NEW g \in Groups, Execute(g) PROVE MergeRest'
<1>1. /\ fpc = "idle" /\ fpc' \in {"resolve", "decide"} /\ group' = g /\ memoryVars' = memoryVars
      /\ resolved' \in {"none", "untouched"}
      /\ resolved' = "untouched" => Judge(pending_merge_.key, g) = "same"
      /\ fpc' = "resolve" <=> pending_merge_.id # 0 /\ resolved' = "untouched"
      /\ UNCHANGED <<queueVars, poolVars, pending_merge_, slot_pictures_, workerVars, ops,
                     flips, hwVars>>
  BY DEF Execute
<1>2. Hardware' /\ WorkSide' /\ PendingSide' /\ PendingPicture' /\ KnownPictures' /\ Panel'
  BY <1>1, FrameOnly DEF memoryVars
<1>3. FrameSide'
  BY <1>1 DEF MergeInv, Control, FrameSide, WorkSide, MayBeGroup, memoryVars, queueVars
<1>4. Answered' /\ Asked'
  BY <1>1, AskedStays DEF MergeInv, Answered
<1>5. Current'
  BY <1>1, CurrentStays
  DEF MergeInv, Pictures, MayReuse, ShownSlot, memoryVars, poolVars, hwVars, engineVars
<1> QED
  BY <1>2, <1>3, <1>4, <1>5 DEF MergeRest, Control, Pictures

\* NoteFrameUnjudged: the last group is forgotten.
LEMMA NoteFrameUnjudgedKeeps ==
    ASSUME MergeInv, NoteFrameUnjudged PROVE MergeRest'
<1>1. /\ fpc = "idle" /\ merge_memory_' = Nothing
      /\ UNCHANGED <<queueVars, poolVars, pending_merge_, slot_pictures_, workerVars, ops,
                     flips,
                     hwVars, last_described, last_merge_fence_, frameVars>>
  BY DEF NoteFrameUnjudged, ForgetMerge
<1>2. Hardware' /\ WorkSide' /\ PendingSide' /\ PendingPicture' /\ KnownPictures' /\ Panel'
  BY <1>1, FrameOnly
<1>3. FrameSide'
  BY <1>1 DEF MergeInv, Control, FrameSide, WorkSide, Memories, queueVars, frameVars
<1>4. Answered' /\ Asked'
  BY <1>1, AskedStays DEF MergeInv, Answered, frameVars
<1>5. Current'
  BY <1>1, CurrentStays
  DEF MergeInv, Pictures, MayReuse, ShownSlot, poolVars, hwVars, engineVars, frameVars
<1> QED
  BY <1>2, <1>3, <1>4, <1>5 DEF MergeRest, Control, Pictures

\* Resolve waits.
LEMMA ResolveSleepsKeeps ==
    ASSUME MergeInv, ResolveSleeps PROVE MergeRest'
<1>1. UNCHANGED <<last_id_, state, cancelled, stopped_, poolVars, memoryVars, pending_merge_,
                  slot_pictures_, frameVars, workerVars, ops, flips, hwVars>>
  BY DEF ResolveSleeps, ResolveWaits
<1>2. UNCHANGED <<engineVars, latched, freed_when, showing_>>
  BY <1>1 DEF poolVars, hwVars, engineVars
<1>3. Hardware' /\ Panel' /\ KnownPictures'
  BY <1>1, <1>2, HardwareStays, PanelStays, KnownStays DEF MergeInv, Pictures
<1>4. Control'
  BY <1>1 DEF MergeInv, Control, FrameSide, WorkSide, PendingSide, Answered, workerVars,
              frameVars, memoryVars, poolVars, Known
<1>5. PendingPicture'
  BY <1>1, <1>2 DEF MergeInv, Pictures, PendingPicture, Holds, Held, engineVars, workerVars
<1>6. Current'
  BY <1>1, <1>2, CurrentStays
  DEF MergeInv, Pictures, MayReuse, ShownSlot, memoryVars, poolVars, frameVars
<1>7. Asked'
  BY <1>1 DEF MergeInv, Asked, ShownIsAsked, frameVars, memoryVars
<1> QED
  BY <1>3, <1>4, <1>5, <1>6, <1>7 DEF MergeRest, Pictures

\* Resolve answers of the job queued.
LEMMA ResolveAnswersKeeps ==
    ASSUME MergeInv, NEW o, ResolveAnswers(o) PROVE MergeRest'
<1> DEFINE id == pending_merge_.id
<1>1. /\ fpc = "resolve" /\ fpc' = "decide" /\ resolved' = o
      /\ UNCHANGED <<last_id_, cancelled, stopped_, poolVars, memoryVars, pending_merge_,
                     slot_pictures_, group, how, workerVars, ops, flips, hwVars>>
      /\ state' = [state EXCEPT ![id] = "none"]
      /\ ResolveReturns(id, ~pending_merge_.droppable, o)
  BY DEF ResolveAnswers, ResolveReturns, Forget
<1>2. UNCHANGED <<engineVars, latched, freed_when, showing_>>
  BY <1>1 DEF poolVars, hwVars, engineVars
<1>3. Hardware' /\ Panel' /\ KnownPictures'
  BY <1>1, <1>2, HardwareStays, PanelStays, KnownStays DEF MergeInv, Pictures
<1>4. id \in Ids /\ state[id] \in Outcomes /\ id # 0
  BY <1>1, MaxJobsAssumption DEF MergeInv, Control, Answered, FrameSide, WorkSide, Pending, Ids
<1>5. /\ state[id] # "submitting" /\ o # "untouched"
      /\ o = "submitted" => state[id] = "submitted"
      /\ o = "dropped" => pending_merge_.droppable
  <2>1. ~stopped_ /\ state[id] \notin {"dropped", "untouched"}
    BY <1>4 DEF MergeInv, Control, WorkSide, Outcomes, States
  <2> QED
    BY <1>1, <2>1 DEF ResolveReturns, DropsNow
<1>6. FrameSide'
  BY <1>1 DEF MergeInv, Control, FrameSide, memoryVars
<1>7. WorkSide'
  <2>1. "none" \in Outcomes
    BY DEF Outcomes, States
  <2> QED
    BY <1>1, <1>4, <1>5, <2>1 DEF MergeInv, Control, WorkSide, workerVars
<1>8. PendingSide'
  BY <1>1, <1>4 DEF MergeInv, Control, WorkSide, PendingSide, workerVars, poolVars, Known
<1>9. Answered'
  BY <1>1, <1>4, <1>5 DEF MergeInv, Control, WorkSide, Answered, PendingSide, workerVars
<1>10. PendingPicture'
  BY <1>1, <1>2 DEF MergeInv, Pictures, PendingPicture, Holds, Held, engineVars, workerVars
<1>11. Current'
  BY <1>1, <1>2, CurrentStays DEF MergeInv, Pictures, MayReuse, ShownSlot, memoryVars, poolVars
<1>12. Asked'
  BY <1>1, AskedStays DEF MergeInv
<1> QED
  BY <1>3, <1>6, <1>7, <1>8, <1>9, <1>10, <1>11, <1>12 DEF MergeRest, Control, Pictures

\* The last group is shown again: it is the frame's, or so but for late frames, or
\* its successor's drawing was dropped for it.
LEMMA DecideToReuseKeeps ==
    ASSUME MergeInv, DecideToReuse PROVE MergeRest'
<1>1. /\ fpc = "decide" /\ fpc' = "flip" /\ group \in Groups
      /\ how' \in {"same", "lag", "dropped"}
      /\ how' = "same" => Judge(merge_memory_, group) = "same"
      /\ how' = "lag" => SameButFrames(merge_memory_, group)
      /\ how' = "dropped" => resolved = "dropped"
      /\ UNCHANGED <<merge_memory_, last_described, last_merge_fence_, group, resolved,
                     workerVars, ops, flips, hwVars>>
  BY DEF DecideToReuse, Lag, MergeInv, Control, FrameSide
<1>2. UNCHANGED <<engineVars, latched, wpc, wjob, jobs>>
  BY <1>1 DEF hwVars, engineVars, workerVars
<1>3. /\ Hardware' /\ WorkSide' /\ PendingSide' /\ PendingPicture' /\ KnownPictures' /\ Panel'
      /\ pending_merge_' = NoPending /\ last_id_' = last_id_ /\ showing_' = showing_
      /\ slot_pictures_' \in [Slots -> Picture]
  <2>1. CASE resolved = "dropped"
    <3>1. /\ pending_merge_' = NoPending
          /\ UNCHANGED <<queueVars, slot_pictures_, showing_, freed_when>>
      BY <2>1 DEF DecideToReuse, Rewind
    <3>2. Hardware' /\ Panel' /\ KnownPictures'
      BY <1>1, <1>2, <3>1, HardwareStays, PanelStays, KnownStays DEF MergeInv, Pictures
    <3>3. pending_merge_.id # 0 /\ state[pending_merge_.id] = "none"
      BY <1>1, <2>1 DEF MergeInv, Control, Answered
    <3>4. WorkSide'
      BY <1>2, <3>1, <3>3, NoneDroppable DEF MergeInv, Control, WorkSide, queueVars
    <3> QED
      BY <3>1, <3>2, <3>4, NothingPending DEF MergeInv, Control, FrameSide, queueVars
  <2>2. CASE resolved # "dropped"
    <3>1. DropPendingMerge
      BY <2>2 DEF DecideToReuse
    <3> QED
      BY <1>1, <1>2, <3>1, DropKeeps
  <2> QED
    BY <2>1, <2>2
<1>4. FrameSide'
  BY <1>1, <1>3, NoneDroppable DEF MergeInv, Control, FrameSide, WorkSide
<1>5. MayReuse
  <2>1. CASE how' \in {"same", "lag"}
    BY <1>1, <2>1, SameMeansNone
    DEF Judge, SameButFrames, MayReuse, MergeInv, Control, FrameSide
  <2>2. CASE how' = "dropped"
    BY <1>1, <2>2 DEF MayReuse, MergeInv, Control, Answered
  <2> QED
    BY <1>1, <2>1, <2>2
<1>6. Current'
  BY <1>1, <1>2, <1>3, <1>5, CurrentStays DEF MergeInv, Pictures, ShownSlot
<1>7. Answered'
  BY <1>1 DEF Answered
<1>8. Asked'
  <2>1. how' \in {"same", "lag"} => merge_memory_ = Remember(last_described.group)
                                    /\ last_described.group \in Groups
    BY <1>1, <1>5, SameMeansNone
    DEF Judge, SameButFrames, MergeInv, Control, FrameSide, Pictures, Current
  <2>2. how' = "same" => last_described.group = group
    BY <1>1, <2>1, SameIsEqual
  <2> QED
    BY <1>1, <2>1, <2>2 DEF MergeInv, Asked, ShownIsAsked
<1> QED
  BY <1>3, <1>4, <1>6, <1>7, <1>8 DEF MergeRest, Control, Pictures

\* The group is to be drawn.
LEMMA DecideToDrawKeeps ==
    ASSUME MergeInv, DecideToDraw PROVE MergeRest'
<1>1. /\ fpc = "decide" /\ fpc' = "draw"
      /\ UNCHANGED <<merge_memory_, last_described, last_merge_fence_, group, resolved, how,
                     workerVars, ops, flips, hwVars>>
  BY DEF DecideToDraw
<1>2. UNCHANGED <<engineVars, latched, wpc, wjob, jobs>>
  BY <1>1 DEF hwVars, engineVars, workerVars
<1>3. CASE resolved = "none"
  <2>1. DropPendingMerge
    BY <1>3 DEF DecideToDraw
  <2>2. /\ Hardware' /\ WorkSide' /\ PendingSide' /\ PendingPicture' /\ KnownPictures' /\ Panel'
        /\ pending_merge_' = NoPending /\ last_id_' = last_id_ /\ showing_' = showing_
        /\ slot_pictures_' \in [Slots -> Picture]
    BY <1>1, <1>2, <2>1, DropKeeps
  <2>3. FrameSide'
    BY <1>1, <2>2, NoneDroppable DEF MergeInv, Control, FrameSide, WorkSide
  <2>4. Answered' /\ Asked'
    BY <1>1, <1>3, AskedStays DEF MergeInv, Answered
  <2>5. Current'
    BY <1>1, <1>2, <2>2, NoneDroppable, CurrentStays DEF MergeInv, Pictures, MayReuse, ShownSlot
  <2> QED
    BY <2>2, <2>3, <2>4, <2>5 DEF MergeRest, Control, Pictures
<1>4. CASE resolved # "none"
  <2>1. UNCHANGED <<queueVars, poolVars, slot_pictures_, pending_merge_>>
    BY <1>4 DEF DecideToDraw
  <2>2. Hardware' /\ WorkSide' /\ PendingSide' /\ PendingPicture' /\ KnownPictures' /\ Panel'
    BY <1>1, <2>1, FrameOnly
  <2>3. FrameSide'
    BY <1>1, <2>1 DEF MergeInv, Control, FrameSide, WorkSide, queueVars
  <2>4. Answered' /\ Asked'
    BY <1>1, <2>1, AskedStays DEF MergeInv, Control, Answered, queueVars, workerVars
  <2>5. Current'
    BY <1>1, <1>2, <2>1, CurrentStays DEF MergeInv, Pictures, MayReuse, ShownSlot, poolVars
  <2> QED
    BY <2>2, <2>3, <2>4, <2>5 DEF MergeRest, Control, Pictures
<1> QED
  BY <1>3, <1>4

-----------------------------------------------------------------------------
\* The worker's steps.

\* The slot whose turn it is is not the one shown.
LEMMA TurnIsElsewhere ==
    ASSUME NEW s \in Slots PROVE After(s) # s
<1> USE NumSlotsAssumption DEF Slots, After
<1>1. NumSlots \in Nat /\ NumSlots > 1 /\ s \in 0..(NumSlots - 1)
  OBVIOUS
<1>2. CASE s + 1 < NumSlots
  BY <1>1, <1>2
<1>3. CASE s + 1 = NumSlots
  BY <1>1, <1>3
<1> QED
  BY <1>1, <1>2, <1>3

\* A drawing more in the channel: given up, or into a slot that is not shown,
\* behind the fence that frees it, and over what it was planned against.
LEMMA ChannelGrows ==
    ASSUME Hardware, Panel, NEW e \in Drawing, ops' = Append(ops, e),
           UNCHANGED <<done, content, spoiled, flips, latched, freed_when, showing_>>,
           e.orphan \/ (/\ e.slot # showing_ /\ e.ready = freed_when[e.slot]
                        /\ e.base # Nothing => Holds(e.slot, Len(ops), Pic(e.base)))
    PROVE  Hardware' /\ Panel'
<1>1. /\ ops \in Seq(Drawing) /\ done \in 0..Len(ops) /\ Len(ops) \in Nat /\ done \in Nat
      /\ latched \in 0..Len(flips) /\ Len(flips) \in Nat /\ e.slot \in Slots
  BY DEF Hardware, Drawing
<1>2. /\ Len(ops') = Len(ops) + 1 /\ ops' \in Seq(Drawing)
      /\ ops'[Len(ops) + 1] = e /\ \A j \in 1..Len(ops) : ops'[j] = ops[j]
  BY <1>1, AppendProperties
<1>3. Hardware'
  BY <1>1, <1>2 DEF Hardware
<1>4. \A s, g : \A n \in 0..Len(ops) :
        Holds(s, n, g) => HoldsIn(ops', done, content, spoiled, s, n, g)
  BY <1>1, HoldsBefore DEF Holds
<1>5. ASSUME NEW k \in 1..(Len(ops) + 1), k > done
      PROVE  BaseIn(ops', done, content, spoiled, k)
  <2>1. CASE k \in 1..Len(ops)
    <3>1. BaseIn(ops, done, content, spoiled, k) /\ k - 1 \in 0..Len(ops)
      BY <1>1, <1>5, <2>1 DEF Panel, Chained
    <3> QED
      BY <1>2, <1>4, <2>1, <3>1 DEF BaseIn, Holds
  <2>2. CASE k = Len(ops) + 1
    <3>1. k - 1 = Len(ops) /\ Len(ops) \in 0..Len(ops)
      BY <1>1, <2>2
    <3> QED
      BY <1>2, <1>4, <2>2, <3>1 DEF BaseIn
  <2> QED
    BY <1>1, <1>5, <2>1, <2>2
<1>6. ASSUME NEW k \in 1..Len(flips), k >= latched, flips[k].slot # NoSlot
      PROVE  /\ flips[k].pre \in 0..Len(ops')
             /\ HoldsIn(ops', done, content, spoiled, flips[k].slot, flips[k].pre, flips[k].shows)
             /\ \A j \in 1..Len(ops') : j > flips[k].pre /\ j > done /\ ops'[j].slot = flips[k].slot
                  => ops'[j].orphan \/ ops'[j].ready > k
  <2>1. FlipTrue(k)
    BY <1>6 DEF Panel, FlipsTrue
  <2>2. flips[k].pre \in 0..Len(ops) /\ flips[k].pre \in 0..Len(ops')
    BY <1>1, <1>2, <1>6, <2>1 DEF FlipTrue
  <2>3. HoldsIn(ops', done, content, spoiled, flips[k].slot, flips[k].pre, flips[k].shows)
    BY <1>4, <1>6, <2>1, <2>2 DEF FlipTrue
  <2>4. e.slot = flips[k].slot => e.orphan \/ e.ready > k
    <3>1. e.slot = flips[k].slot /\ e.slot # showing_ => k < freed_when[e.slot]
      BY <1>1 DEF Panel, Freed
    <3>2. freed_when[e.slot] \in Nat
      BY <1>1 DEF Hardware
    <3> QED
      BY <1>1, <3>1, <3>2
  <2>5. ASSUME NEW j \in 1..Len(ops'), j > flips[k].pre, j > done, ops'[j].slot = flips[k].slot
        PROVE  ops'[j].orphan \/ ops'[j].ready > k
    <3>1. CASE j \in 1..Len(ops)
      BY <1>2, <1>6, <2>1, <2>5, <3>1 DEF FlipTrue
    <3>2. CASE j = Len(ops) + 1
      BY <1>2, <2>4, <2>5, <3>2
    <3> QED
      BY <1>1, <1>2, <3>1, <3>2
  <2> QED
    BY <2>2, <2>3, <2>5
<1>7. Panel'
  <2>1. Chained'
    BY <1>2, <1>5 DEF Chained
  <2>2. FlipsTrue'
    BY <1>6 DEF FlipsTrue, FlipTrue, Holds
  <2> QED
    BY <2>1, <2>2 DEF Panel, LatchedDone, Freed
<1> QED
  BY <1>3, <1>7

\* What a worker's step leaves of the frame's.
LEMMA FrameStays ==
    ASSUME MergeInv, UNCHANGED <<poolVars, memoryVars, pending_merge_, slot_pictures_, frameVars,
                                 last_id_>>
    PROVE  FrameSide' /\ (flips' = flips => Asked')
BY DEF MergeInv, Control, FrameSide, Asked, ShownIsAsked, memoryVars, frameVars

\* Nor does it disturb what is claimed of the slots, if it draws nothing.
LEMMA ClaimsStay ==
    ASSUME MergeInv, UNCHANGED <<poolVars, memoryVars, pending_merge_, slot_pictures_, frameVars,
                                 jobs, engineVars>>
    PROVE  PendingPicture' /\ KnownPictures' /\ Current'
<1>1. PendingPicture'
  BY DEF MergeInv, Pictures, PendingPicture, Holds, Held, engineVars
<1>2. KnownPictures'
  BY DEF MergeInv, Pictures, KnownPictures, Held, Known, engineVars
<1>3. Current'
  BY CurrentStays DEF MergeInv, Pictures, MayReuse, ShownSlot, memoryVars, poolVars, frameVars
<1> QED
  BY <1>1, <1>2, <1>3

\* Take: the one job queued is the pending one.
LEMMA WorkerTakesKeeps ==
    ASSUME MergeInv, NEW id \in Ids, WorkerTakes(id) PROVE MergeRest'
<1>1. /\ wpc = "take" /\ wpc' = "compose" /\ wjob' = id /\ state[id] = "queued"
      /\ state' = [state EXCEPT ![id] = "submitting"]
      /\ UNCHANGED <<last_id_, cancelled, stopped_>>
      /\ UNCHANGED <<poolVars, memoryVars, pending_merge_, slot_pictures_, frameVars, wlast,
                     jobs, ops, flips, hwVars>>
  BY DEF WorkerTakes, TakeJob, OldestQueued
<1>2. UNCHANGED <<engineVars, latched, freed_when, showing_>>
  BY <1>1 DEF poolVars, hwVars, engineVars
<1>3. Hardware' /\ Panel'
  BY <1>1, <1>2, HardwareStays, PanelStays DEF MergeInv, Pictures
<1>4. FrameSide' /\ Asked' /\ PendingPicture' /\ KnownPictures' /\ Current'
  BY <1>1, <1>2, FrameStays, ClaimsStay
<1>5. id = pending_merge_.id /\ id # 0 /\ id \in 1..last_id_ /\ ~cancelled[id] /\ jobs[id].op = 0
  <2>1. id = pending_merge_.id /\ id # 0
    BY <1>1, MaxJobsAssumption DEF MergeInv, Control, WorkSide, Ids
  <2> QED
    BY <1>1, <2>1, MaxJobsAssumption
    DEF MergeInv, Control, FrameSide, WorkSide, PendingSide, Pending, Ids
<1>6. WorkSide'
  <2>1. "submitting" \in Outcomes
    BY DEF Outcomes, States
  <2> QED
    BY <1>1, <1>5, <2>1 DEF MergeInv, Control, WorkSide
<1>7. PendingSide'
  BY <1>1, <1>5 DEF MergeInv, Control, WorkSide, PendingSide, poolVars, Known
<1>8. Answered'
  BY <1>1, <1>5 DEF MergeInv, Control, Answered, frameVars
<1> QED
  BY <1>3, <1>4, <1>6, <1>7, <1>8 DEF MergeRest, Control, Pictures

\* Take waits.
LEMMA WorkerSleepsKeeps ==
    ASSUME MergeInv, WorkerSleeps PROVE MergeRest'
<1>1. UNCHANGED <<last_id_, state, cancelled, stopped_, poolVars, memoryVars, pending_merge_,
                  slot_pictures_, frameVars, workerVars, ops, flips, hwVars>>
  BY DEF WorkerSleeps, TakeWait
<1>2. UNCHANGED <<engineVars, latched, freed_when, showing_, jobs>>
  BY <1>1 DEF poolVars, hwVars, engineVars, workerVars
<1>3. Hardware' /\ Panel'
  BY <1>1, <1>2, HardwareStays, PanelStays DEF MergeInv, Pictures
<1>4. FrameSide' /\ Asked' /\ PendingPicture' /\ KnownPictures' /\ Current'
  BY <1>1, <1>2, FrameStays, ClaimsStay
<1>5. WorkSide' /\ PendingSide' /\ Answered'
  BY <1>1
  DEF MergeInv, Control, WorkSide, PendingSide, Answered, workerVars, frameVars, poolVars, Known
<1> QED
  BY <1>3, <1>4, <1>5 DEF MergeRest, Control, Pictures

\* Done: the outcome is kept, or the job was given up.
LEMMA WorkerDoneKeeps ==
    ASSUME MergeInv, WorkerDone PROVE MergeRest'
<1>1. /\ wpc = "done" /\ wpc' = "take" /\ wjob' = 0 /\ Done(wjob, jobs[wjob].op # 0)
      /\ UNCHANGED <<poolVars, memoryVars, pending_merge_, slot_pictures_, frameVars, wlast,
                     jobs, ops, flips, hwVars>>
  BY DEF WorkerDone
<1>2. wjob \in 1..last_id_ /\ wjob \in Ids
  BY <1>1, MaxJobsAssumption DEF MergeInv, Control, WorkSide, Ids
<1>3. /\ UNCHANGED <<last_id_, cancelled, stopped_>>
      /\ \/ state' = state /\ state[wjob] = "none"
         \/ cancelled[wjob] /\ state' = [state EXCEPT ![wjob] = "none"]
         \/ state' = [state EXCEPT ![wjob] = IF jobs[wjob].op # 0 THEN "submitted" ELSE "refused"]
            /\ state[wjob] # "none"
  BY <1>1 DEF Done, Forget, queueVars
<1>4. UNCHANGED <<engineVars, latched, freed_when, showing_>>
  BY <1>1 DEF poolVars, hwVars, engineVars
<1>5. Hardware' /\ Panel'
  BY <1>1, <1>4, HardwareStays, PanelStays DEF MergeInv, Pictures
<1>6. FrameSide' /\ Asked' /\ PendingPicture' /\ KnownPictures' /\ Current'
  BY <1>1, <1>3, <1>4, FrameStays, ClaimsStay
<1>7. /\ state' \in [Ids -> Outcomes]
      /\ \A i \in Ids : i # wjob => state'[i] = state[i]
      /\ state'[wjob] \in {"none", "submitted", "refused"}
      /\ state'[wjob] = "submitted" => jobs[wjob].op # 0
      /\ state[wjob] = "none" => state'[wjob] = "none"
  <2>1. state \in [Ids -> Outcomes] /\ {"none", "submitted", "refused"} \subseteq Outcomes
    BY DEF MergeInv, Control, WorkSide, Outcomes, States
  <2> QED
    BY <1>2, <1>3, <2>1
<1>8. WorkSide'
  BY <1>1, <1>2, <1>3, <1>7 DEF MergeInv, Control, WorkSide
<1>9. pending_merge_.id # 0 => pending_merge_.id \in Ids
  BY MaxJobsAssumption DEF MergeInv, Control, FrameSide, WorkSide, Pending, Ids
<1>10. PendingSide'
  BY <1>1, <1>3, <1>7, <1>9 DEF MergeInv, Control, WorkSide, PendingSide, poolVars, Known
<1>11. Answered'
  BY <1>1, <1>7, <1>9 DEF MergeInv, Control, Answered, frameVars
<1> QED
  BY <1>5, <1>6, <1>8, <1>10, <1>11 DEF MergeRest, Control, Pictures

\* Compose: the pending job is drawn into its slot, or one given up is.
LEMMA WorkerComposesKeeps ==
    ASSUME MergeInv, NEW taken \in BOOLEAN, WorkerComposes(taken) PROVE MergeRest'
<1> DEFINE op == IF taken THEN Len(ops) + 1 ELSE 0
           e == [slot |-> jobs[wjob].slot, group |-> jobs[wjob].group, ready |-> jobs[wjob].ready,
                 base |-> jobs[wjob].base, orphan |-> cancelled[wjob]]
           id == pending_merge_.id
<1>1. /\ wpc = "compose" /\ wpc' = "done" /\ wjob' = wjob
      /\ jobs' = [jobs EXCEPT ![wjob].op = op]
      /\ taken => ops' = Append(ops, e)
      /\ ~taken => ops' = ops
      /\ UNCHANGED <<queueVars, poolVars, memoryVars, pending_merge_, slot_pictures_, frameVars,
                     flips, hwVars>>
  BY DEF WorkerComposes, Compose
<1>2. /\ UNCHANGED <<last_id_, state, cancelled, stopped_>>
      /\ UNCHANGED <<done, content, spoiled, latched, freed_when, showing_, at_>>
  BY <1>1 DEF queueVars, poolVars, hwVars
<1>3. /\ ops \in Seq(Drawing) /\ done \in 0..Len(ops) /\ Len(ops) \in Nat /\ done \in Nat
      /\ Len(ops) + 1 # 0
  BY DEF MergeInv, Hardware
<1>4. /\ wjob \in 1..last_id_ /\ wjob \in Ids /\ jobs \in [Ids -> Job]
      /\ cancelled[wjob] \/ (wjob = id /\ state[wjob] = "submitting")
  BY <1>1, MaxJobsAssumption DEF MergeInv, Control, WorkSide, Ids
<1>5. e \in Drawing
  BY <1>4 DEF MergeInv, Control, WorkSide, Job, Drawing
<1>6. id # 0 => id \in Ids
  BY MaxJobsAssumption DEF MergeInv, Control, FrameSide, WorkSide, Pending, Ids
<1>7. ~e.orphan =>
        /\ wjob = id /\ id # 0 /\ e.slot = pending_merge_.target /\ jobs[id].op = 0
        /\ e.ready = freed_when[e.slot] /\ Known(e.slot) = Nothing
        /\ e.base # Nothing => Holds(e.slot, Len(ops), Pic(e.base))
        /\ pending_merge_ # NoPending
  <2>1. id # 0 => pending_merge_ # NoPending
    BY NoneDroppable
  <2>2. SUFFICES ASSUME ~cancelled[wjob]
                 PROVE  /\ wjob = id /\ id # 0 /\ jobs[wjob].slot = pending_merge_.target
                        /\ jobs[id].op = 0
                        /\ jobs[wjob].ready = freed_when[jobs[wjob].slot]
                        /\ Known(jobs[wjob].slot) = Nothing
                        /\ jobs[wjob].base # Nothing =>
                              Holds(jobs[wjob].slot, Len(ops), Pic(jobs[wjob].base))
    BY <2>1
  <2>3. wjob = id /\ id # 0
    BY <1>3, <1>4, <2>2, MaxJobsAssumption DEF Ids
  <2>4. /\ jobs[id].slot = pending_merge_.target /\ jobs[id].op = 0
        /\ jobs[id].ready = freed_when[pending_merge_.target]
    BY <1>1, <2>3 DEF MergeInv, Control, PendingSide
  <2>5. Known(pending_merge_.target) = Nothing
    BY <2>1, <2>3 DEF MergeInv, Control, PendingSide
  <2>6. jobs[id].base # Nothing => Holds(pending_merge_.target, Len(ops), Pic(jobs[id].base))
    BY <2>3, <2>4 DEF MergeInv, Pictures, PendingPicture
  <2> QED
    BY <2>3, <2>4, <2>5, <2>6
<1>8. ~e.orphan => e.slot # showing_
  <2> SUFFICES ASSUME ~e.orphan, showing_ # NoSlot PROVE e.slot # showing_
    BY <1>5, NumSlotsAssumption DEF Drawing, Slots, NoSlot
  <2>1. e.slot = at_ /\ at_ = After(showing_) /\ showing_ \in Slots
    BY <1>7 DEF MergeInv, PoolInv, PoolOK, Turns, PoolInStep
  <2> QED
    BY <2>1, TurnIsElsewhere
<1> HIDE DEF e
<1>9. Hardware' /\ Panel'
  <2>1. CASE taken
    BY <1>1, <1>2, <1>5, <1>7, <1>8, <2>1, ChannelGrows DEF MergeInv, Pictures
  <2>2. CASE ~taken
    BY <1>1, <1>2, <2>2, HardwareStays, PanelStays DEF MergeInv, Pictures, engineVars
  <2> QED
    BY <2>1, <2>2
<1>10. FrameSide' /\ Asked'
  BY <1>1, <1>2, FrameStays
<1>11. /\ jobs' \in [Ids -> Job]
       /\ \A i \in Ids : /\ jobs'[i].slot = jobs[i].slot /\ jobs'[i].group = jobs[i].group
                         /\ jobs'[i].ready = jobs[i].ready /\ jobs'[i].base = jobs[i].base
                         /\ jobs'[i].op = IF i = wjob THEN op ELSE jobs[i].op
  <2>1. op \in Nat
    BY <1>3
  <2> QED
    BY <1>1, <1>4, <2>1 DEF Job
<1>12. WorkSide'
  <2>1. 1..last_id_ \subseteq Ids
    BY MaxJobsAssumption DEF MergeInv, Control, WorkSide, Ids
  <2> QED
    BY <1>1, <1>2, <1>4, <1>11, <2>1 DEF MergeInv, Control, WorkSide
<1>13. state[wjob] = "submitting" \/ wjob # id
  <2>1. id # 0 => ~cancelled[id]
    BY DEF MergeInv, Control, PendingSide
  <2>2. wjob # 0
    BY <1>4, MaxJobsAssumption DEF Ids
  <2> QED
    BY <1>4, <2>1, <2>2
<1>14. PendingSide'
  BY <1>1, <1>2, <1>6, <1>11, <1>13 DEF MergeInv, Control, PendingSide, Known
<1>15. Answered'
  BY <1>1, <1>2, <1>6, <1>11, <1>13 DEF MergeInv, Control, Answered, frameVars
\* What was held is held still.
<1>16. ASSUME NEW s, NEW n, NEW g, Held(s, n, g), e.slot # s \/ e.orphan PROVE Held(s, n, g)'
  <2>1. CASE taken
    BY <1>1, <1>2, <1>3, <1>5, <1>16, <2>1, HeldBefore DEF Held
  <2>2. CASE ~taken
    BY <1>1, <1>2, <1>16, <2>2 DEF Held
  <2> QED
    BY <2>1, <2>2
<1>17. KnownPictures'
  <2> SUFFICES ASSUME NEW s \in Slots, Known(s) # Nothing
               PROVE  Held(s, slot_pictures_[s].fence, Pic(Known(s)))'
    BY <1>1 DEF KnownPictures, Known
  <2>1. Held(s, slot_pictures_[s].fence, Pic(Known(s)))
    BY DEF MergeInv, Pictures, KnownPictures
  <2>2. e.slot # s \/ e.orphan
    BY <1>7
  <2>3. HeldIn(ops', done', content', spoiled', s, slot_pictures_[s].fence, Pic(Known(s)))
    BY <1>16, <2>1, <2>2 DEF Held
  <2> QED
    BY <1>1, <2>3 DEF Held, Known
<1>18. Current'
  <2> SUFFICES ASSUME MayReuse PROVE Current'
    BY <1>1 DEF Current, MayReuse, memoryVars, frameVars
  <2>1. /\ last_described.slot \in Slots /\ last_described.slot = ShownSlot
        /\ last_described.group \in Groups
        /\ Held(last_described.slot, last_merge_fence_, last_described.group)
        /\ merge_memory_ # Nothing => merge_memory_ = Remember(last_described.group)
    BY DEF MergeInv, Pictures, Current
  <2>2. e.slot # last_described.slot \/ e.orphan
    <3>1. ~e.orphan => fpc # "flip"
      BY <1>7 DEF MergeInv, PoolInv, Turns
    <3> QED
      BY <1>8, <2>1, <3>1 DEF ShownSlot
  <2>3. HeldIn(ops', done', content', spoiled', last_described.slot, last_merge_fence_,
               last_described.group)
    BY <1>16, <2>1, <2>2 DEF Held
  <2> QED
    BY <1>1, <1>2, <2>1, <2>3 DEF Current, Held, ShownSlot, memoryVars, frameVars
<1>19. PendingPicture'
  <2> DEFINE t == pending_merge_.target
  <2>1. ASSUME pending_merge_ # NoPending, id = 0
        PROVE  HeldIn(ops', done', content', spoiled', t, slot_pictures_[t].fence,
                      Pic(pending_merge_.key))
    <3>1. Held(t, slot_pictures_[t].fence, Pic(pending_merge_.key)) /\ e.orphan
      BY <1>7, <2>1 DEF MergeInv, Pictures, PendingPicture
    <3> QED
      BY <1>16, <3>1 DEF Held
  <2>2. ASSUME id # 0, jobs'[id].op = 0, jobs'[id].base # Nothing
        PROVE  HoldsIn(ops', done', content', spoiled', t, Len(ops'), Pic(jobs'[id].base))
    <3>1. jobs[id].base = jobs'[id].base
      BY <1>6, <1>11, <2>2
    <3>2. CASE taken
      <4>1. id # wjob /\ jobs[id].op = 0
        BY <1>3, <1>6, <1>11, <2>2, <3>2
      <4>2. Holds(t, Len(ops), Pic(jobs[id].base)) /\ e.orphan
        BY <1>7, <2>2, <3>1, <4>1 DEF MergeInv, Pictures, PendingPicture
      <4> QED
        BY <1>1, <1>2, <1>3, <1>5, <3>1, <3>2, <4>2, HoldsOnBefore DEF Holds
    <3>3. CASE ~taken
      <4>1. jobs[id].op = 0
        <5>1. id = wjob => jobs[id].op = 0
          BY <1>1, <2>2 DEF MergeInv, Control, PendingSide
        <5> QED
          BY <1>6, <1>11, <2>2, <5>1
      <4>2. Holds(t, Len(ops), Pic(jobs[id].base))
        BY <2>2, <3>1, <4>1 DEF MergeInv, Pictures, PendingPicture
      <4> QED
        BY <1>1, <1>2, <3>1, <3>3, <4>2 DEF Holds
    <3> QED
      BY <3>2, <3>3
  <2>3. ASSUME id # 0, jobs'[id].op # 0
        PROVE  HeldIn(ops', done', content', spoiled', t, jobs'[id].op, jobs'[id].group)
    <3>1. jobs[id].group = jobs'[id].group /\ jobs[id].slot = t
      BY <1>6, <1>11, <2>3 DEF MergeInv, Control, PendingSide
    <3>2. CASE id = wjob
      <4>1. taken /\ jobs'[id].op = Len(ops) + 1
        BY <1>6, <1>11, <2>3, <3>2
      <4>2. e.slot = t /\ e.group = jobs'[id].group
        BY <3>1, <3>2 DEF e
      <4> QED
        BY <1>1, <1>2, <1>3, <1>5, <4>1, <4>2, HeldAfter
    <3>3. CASE id # wjob
      <4>1. jobs[id].op = jobs'[id].op /\ e.orphan
        BY <1>6, <1>7, <1>11, <2>3, <3>3
      <4>2. Held(t, jobs[id].op, jobs[id].group)
        BY <2>3, <4>1 DEF MergeInv, Pictures, PendingPicture
      <4> QED
        BY <1>16, <3>1, <4>1, <4>2 DEF Held
    <3> QED
      BY <3>2, <3>3
  <2> QED
    BY <1>1, <2>1, <2>2, <2>3 DEF PendingPicture, Held, Holds
<1> QED
  BY <1>9, <1>10, <1>12, <1>14, <1>15, <1>17, <1>18, <1>19 DEF MergeRest, Control, Pictures

-----------------------------------------------------------------------------
\* The engine, the panel and the clients.

\* The channel runs its next drawing.
LEMMA EngineDrawsKeeps ==
    ASSUME MergeInv, EngineDraws PROVE MergeRest'
<1> DEFINE o == ops[done + 1]
<1>1. /\ done < Len(ops) /\ done' = done + 1 /\ o.ready <= latched
      /\ RunsNext(ops, done, content, spoiled, content', spoiled')
      /\ UNCHANGED <<queueVars, poolVars, memoryVars, pending_merge_, slot_pictures_, frameVars,
                     workerVars, ops, flips, latched>>
  BY DEF EngineDraws, RunsNext, Pic
<1>2. /\ ops \in Seq(Drawing) /\ done \in 0..Len(ops) /\ Len(ops) \in Nat /\ done \in Nat
      /\ done + 1 \in 1..Len(ops) /\ DOMAIN content = Slots /\ spoiled \subseteq Slots
      /\ latched \in 0..Len(flips) /\ Len(flips) \in Nat /\ latched \in Nat
  BY <1>1 DEF MergeInv, Hardware
<1>3. /\ \A j \in 1..Len(ops) : ops[j] \in Drawing /\ ops[j].slot \in Slots
      /\ o \in Drawing /\ o.slot \in Slots /\ o.ready \in Nat /\ o.orphan \in BOOLEAN
  <2>1. \A j \in 1..Len(ops) : ops[j] \in Drawing
    BY <1>2, ElementOfSeq
  <2> QED
    BY <1>2, <2>1 DEF Drawing
<1>4. BaseIn(ops, done, content, spoiled, done + 1)
  BY <1>2 DEF MergeInv, Pictures, Panel, Chained
<1>5. Hardware'
  <2>1. DOMAIN content' = Slots /\ spoiled' \subseteq Slots
    BY <1>1, <1>2, <1>3 DEF RunsNext
  <2> QED
    BY <1>1, <1>2, <2>1 DEF MergeInv, Hardware, poolVars
<1> HIDE DEF o
<1>6. ASSUME NEW s \in Slots, NEW n \in 0..Len(ops), NEW g, Holds(s, n, g),
             done + 1 > n /\ ops[done + 1].slot = s => ops[done + 1].orphan
      PROVE  HoldsIn(ops, done + 1, content', spoiled', s, n, g)
  BY <1>1, <1>2, <1>4, <1>6, HoldsWhenRun DEF Holds
<1>7. ASSUME NEW s \in Slots, NEW n, NEW g, Held(s, n, g)
      PROVE  HeldIn(ops, done + 1, content', spoiled', s, n, g)
  BY <1>1, <1>2, <1>4, <1>7, HeldWhenRun DEF Held
<1>8. FrameSide' /\ Asked'
  BY <1>1, FrameStays DEF queueVars
<1>9. WorkSide' /\ PendingSide' /\ Answered'
  BY <1>1
  DEF MergeInv, Control, WorkSide, PendingSide, Answered, workerVars, frameVars, poolVars,
              Known, queueVars
<1>10. KnownPictures'
  BY <1>1, <1>7 DEF MergeInv, Pictures, KnownPictures, Known, Held
<1>11. Current'
  <2> SUFFICES ASSUME MayReuse PROVE Current'
    BY <1>1 DEF Current, MayReuse, memoryVars, frameVars
  <2>1. last_described.slot \in Slots /\ Held(last_described.slot, last_merge_fence_, last_described.group)
    BY DEF MergeInv, Pictures, Current
  <2>2. HeldIn(ops, done + 1, content', spoiled', last_described.slot, last_merge_fence_,
               last_described.group)
    BY <1>7, <2>1
  <2> QED
    BY <1>1, <2>2
    DEF MergeInv, Pictures, Current, Held, ShownSlot, memoryVars, frameVars, poolVars
<1>12. PendingPicture'
  <2> DEFINE id == pending_merge_.id
             t == pending_merge_.target
  <2>1. id # 0 \/ pending_merge_ # NoPending => t \in Slots
    BY NoneDroppable DEF MergeInv, Control, PendingSide
  <2>2. pending_merge_ # NoPending /\ id = 0
          => HeldIn(ops, done + 1, content', spoiled', t, slot_pictures_[t].fence, Pic(pending_merge_.key))
    BY <1>7, <2>1 DEF MergeInv, Pictures, PendingPicture
  <2>3. id # 0 /\ jobs[id].op = 0 /\ jobs[id].base # Nothing
          => HoldsIn(ops, done + 1, content', spoiled', t, Len(ops), Pic(jobs[id].base))
    <3>1. Len(ops) \in 0..Len(ops) /\ ~(done + 1 > Len(ops))
      BY <1>2
    <3> QED
      BY <1>6, <2>1, <3>1 DEF MergeInv, Pictures, PendingPicture
  <2>4. id # 0 /\ jobs[id].op # 0
          => HeldIn(ops, done + 1, content', spoiled', t, jobs[id].op, jobs[id].group)
    BY <1>7, <2>1 DEF MergeInv, Pictures, PendingPicture
  <2> QED
    BY <1>1, <2>2, <2>3, <2>4 DEF PendingPicture, Held, Holds, workerVars
<1>13. Chained'
  <2> SUFFICES ASSUME NEW k \in 1..Len(ops), k > done + 1
               PROVE  BaseIn(ops, done + 1, content', spoiled', k)
    BY <1>1 DEF Chained
  <2>1. BaseIn(ops, done, content, spoiled, k) /\ k - 1 \in 0..Len(ops) /\ ~(done + 1 > k - 1)
    BY <1>2 DEF MergeInv, Pictures, Panel, Chained
  <2>2. ops[k].slot \in Slots
    BY <1>3
  <2> QED
    BY <1>6, <2>1, <2>2 DEF BaseIn, Holds
<1>14. FlipsTrue'
  <2> SUFFICES ASSUME NEW k \in 1..Len(flips), k >= latched, flips[k].slot # NoSlot
               PROVE  FlipTrue(k)'
    BY <1>1 DEF FlipsTrue, FlipTrue
  <2>1. /\ flips[k].pre \in 0..Len(ops) /\ Holds(flips[k].slot, flips[k].pre, flips[k].shows)
        /\ \A j \in 1..Len(ops) : j > flips[k].pre /\ j > done /\ ops[j].slot = flips[k].slot
             => ops[j].orphan \/ ops[j].ready > k
    BY DEF MergeInv, Pictures, Panel, FlipsTrue, FlipTrue
  <2>2. flips[k].slot \in Slots
    <3>1. flips[k] \in Flip
      BY ElementOfSeq DEF MergeInv, Hardware
    <3> QED
      BY <3>1 DEF Flip, MayBeSlot
  <2>3. done + 1 > flips[k].pre /\ o.slot = flips[k].slot => o.orphan
    <3>1. done + 1 > done /\ ~(o.ready > k)
      BY <1>1, <1>2, <1>3
    <3> QED
      BY <1>2, <2>1, <3>1 DEF o
  <2>4. HoldsIn(ops, done + 1, content', spoiled', flips[k].slot, flips[k].pre, flips[k].shows)
    BY <1>6, <2>1, <2>2, <2>3 DEF o
  <2> QED
    BY <1>1, <1>2, <2>1, <2>4 DEF FlipTrue, Holds
<1>15. LatchedDone' /\ Freed'
  <2>1. latched > 0 => flips[latched].pre \in Nat
    <3>1. latched > 0 => flips[latched] \in Flip
      BY <1>2, ElementOfSeq DEF MergeInv, Hardware
    <3> QED
      BY <3>1 DEF Flip
  <2> QED
    BY <1>1, <1>2, <2>1 DEF MergeInv, Pictures, Panel, LatchedDone, Freed, poolVars
<1> QED
  BY <1>5, <1>8, <1>9, <1>10, <1>11, <1>12, <1>13, <1>14, <1>15
  DEF MergeRest, Control, Pictures, Panel

\* A step of the panel's or a client's.
LEMMA OthersKeep ==
    ASSUME MergeInv,
           PanelLatches \/ (\E g \in Groups : ClientFinishes(g)) \/ UNCHANGED vars
    PROVE  MergeRest'
<1>1. UNCHANGED <<queueVars, poolVars, memoryVars, pending_merge_, slot_pictures_, frameVars,
                  workerVars, ops, flips, done, content, spoiled>>
  BY DEF PanelLatches, ClientFinishes, vars, hwVars
<1>2. \/ latched' = latched
      \/ latched < Len(flips) /\ flips[latched + 1].pre <= done /\ latched' = latched + 1
  BY DEF PanelLatches, ClientFinishes, vars, hwVars
<1>3. UNCHANGED <<last_id_, engineVars, jobs, freed_when, showing_>>
  BY <1>1 DEF queueVars, engineVars, workerVars, poolVars
<1>4. FrameSide' /\ Asked' /\ PendingPicture' /\ KnownPictures' /\ Current'
  BY <1>1, <1>3, FrameStays, ClaimsStay
<1>5. WorkSide' /\ PendingSide' /\ Answered'
  BY <1>1
  DEF MergeInv, Control, WorkSide, PendingSide, Answered, workerVars, frameVars, poolVars,
              Known, queueVars
<1>6. latched \in 0..Len(flips) /\ Len(flips) \in Nat
  BY DEF MergeInv, Hardware
<1>7. Hardware'
  BY <1>1, <1>2, <1>3, <1>6 DEF MergeInv, Hardware
<1>8. Panel'
  <2>1. Chained' /\ Freed'
    BY <1>1, <1>3 DEF MergeInv, Pictures, Panel, Chained, Freed
  <2>2. FlipsTrue'
    BY <1>1, <1>2, <1>6 DEF MergeInv, Pictures, Panel, FlipsTrue, FlipTrue, Holds
  <2>3. LatchedDone'
    BY <1>1, <1>2, <1>6 DEF MergeInv, Pictures, Panel, LatchedDone
  <2> QED
    BY <2>1, <2>2, <2>3 DEF Panel
<1> QED
  BY <1>4, <1>5, <1>7, <1>8 DEF MergeRest, Control, Pictures

-----------------------------------------------------------------------------
\* The frame's drawing, from validate to the flip.

\* QueueMerge: the slot's picture is what the drawing is planned over, or is the
\* group itself and stays.
LEMMA QueueMergeKeeps ==
    ASSUME MergeInv, QueueMerge PROVE MergeRest'
<1> DEFINE s == After(at_)
           plan == Plan(s, group)
           id == last_id_ + 1
<1>1. /\ fpc = "queue" /\ fpc' = "idle" /\ at_' = s /\ UNCHANGED <<showing_, freed_when>>
      /\ slot_pictures_' = LostAt(s)
      /\ UNCHANGED <<memoryVars, group, resolved, how, tests, frames, wpc, wjob, wlast, ops,
                     flips, hwVars>>
  BY DEF QueueMerge, Next_
<1>2. /\ plan = "unchanged" =>
            /\ pending_merge_' = [id |-> 0, target |-> s, key |-> Remember(group),
                                  plan |-> plan, droppable |-> Droppable(group)]
            /\ UNCHANGED <<queueVars, jobs>>
      /\ plan # "unchanged" =>
            /\ Queue(id, Droppable(group))
            /\ jobs' = [jobs EXCEPT ![id] = JobFor(s, group, freed_when[s], plan)]
            /\ pending_merge_' = [id |-> id, target |-> s, key |-> Remember(group),
                                  plan |-> plan, droppable |-> Droppable(group)]
  BY DEF QueueMerge
<1>3. /\ pending_merge_ = NoPending /\ at_ \in Slots /\ s \in Slots
      /\ group \in Groups
  BY <1>1, TurnBack DEF MergeInv, PoolInv, PoolOK, Turns, Control, FrameSide
<1>4. /\ Remember(group) \in Memories /\ Remember(group) # Nothing /\ Pic(Remember(group)) = group
      /\ Nothing \in Memories /\ group \in MayBeGroup /\ s \in MayBeSlot
  BY <1>3, GroupFacts DEF Memories, MayBeGroup, MayBeSlot
<1>5. /\ plan \in {"whole", "part", "unchanged"}
      /\ Known(s) \in Memories
      /\ plan = "part" => Known(s) # Nothing
  <2>1. slot_pictures_[s] \in Picture
    BY <1>3 DEF MergeInv, Control, FrameSide
  <2>2. Known(s) \in Memories
    BY <2>1 DEF Known, Picture
  <2>3. ~Known(s).remembered => plan # "part"
    BY DEF Plan
  <2> QED
    BY <2>2, <2>3, MemoryFacts DEF Plan
<1>6. Droppable(group) \in BOOLEAN /\ (Droppable(group) => merge_memory_ # Nothing)
  <2>1. merge_memory_ = Nothing => Judge(merge_memory_, group) = "first_sight"
    BY DEF Judge, Compare, Nothing
  <2>2. Droppable(group) => Judge(merge_memory_, group) # "first_sight"
    BY DEF Droppable
  <2>3. Droppable(group) \in BOOLEAN
    BY DEF Droppable
  <2> QED
    BY <2>1, <2>2, <2>3
<1> HIDE DEF s, plan
<1>7. UNCHANGED <<engineVars, latched>>
  BY <1>1 DEF hwVars, engineVars
<1>8. Hardware' /\ Panel'
  BY <1>1, <1>7, HardwareStays, PanelStays DEF MergeInv, Pictures
<1>9. /\ slot_pictures_' \in [Slots -> Picture]
      /\ \A t \in Slots : /\ slot_pictures_'[t].fence = slot_pictures_[t].fence
                          /\ slot_pictures_'[t].held \in {slot_pictures_[t].held, Nothing}
      /\ slot_pictures_'[s].held = Nothing
  <2>1. slot_pictures_ \in [Slots -> Picture] /\ Nothing \in Memories
    BY <1>4 DEF MergeInv, Control, FrameSide
  <2> QED
    BY <1>1, <1>3, <2>1 DEF LostAt, Picture
<1>10. KnownPictures'
  BY <1>7, <1>9, KnownStays DEF MergeInv, Pictures
<1>11. last_id_ \in Nat /\ last_id_ <= MaxJobs /\ id \notin 1..last_id_ /\ id # 0
  BY MaxJobsAssumption DEF MergeInv, Control, WorkSide
<1>12. \A i \in Ids : state[i] # "queued"
  BY <1>3, NoneDroppable, MaxJobsAssumption DEF MergeInv, Control, WorkSide, Ids
<1>13. wpc # "take" => wjob \in 1..last_id_ /\ cancelled[wjob]
  <2>1. 0 \notin 1..last_id_
    BY <1>11
  <2> QED
    BY <1>3, <2>1, NoneDroppable DEF MergeInv, Control, WorkSide
<1>14. plan # "unchanged" =>
        /\ id \in Ids /\ last_id_' = id /\ stopped_' = stopped_
        /\ state' = [i \in Ids |-> IF i = id THEN "queued" ELSE state[i]]
        /\ cancelled' = [cancelled EXCEPT ![id] = FALSE]
  <2>1. Superseded = {}
    BY <1>12 DEF Superseded
  <2> QED
    BY <1>2, <2>1 DEF Queue
<1>15. JobFor(s, group, freed_when[s], plan) \in Job
  <2>1. freed_when[s] \in Nat
    BY <1>3 DEF MergeInv, Hardware
  <2> QED
    BY <1>4, <1>5, <2>1 DEF JobFor, Job
<1>16. FrameSide'
  <2>1. pending_merge_' \in Pending /\ pending_merge_'.id <= last_id_'
    BY <1>2, <1>4, <1>5, <1>6, <1>11, <1>14 DEF Pending, queueVars
  <2> QED
    BY <1>1, <1>9, <2>1 DEF MergeInv, Control, FrameSide, memoryVars
<1>17. WorkSide'
  <2>1. CASE plan = "unchanged"
    BY <1>1, <1>2, <1>12, <1>13, <2>1 DEF MergeInv, Control, WorkSide, queueVars
  <2>2. CASE plan # "unchanged"
    <3>1. /\ last_id_' \in 0..MaxJobs /\ ~stopped_' /\ 1..last_id_' = 1..last_id_ \union {id}
          /\ id \in Ids /\ pending_merge_'.id = id
      BY <1>2, <1>11, <1>14, <2>2 DEF MergeInv, Control, WorkSide, Ids
    <3>2. "queued" \in Outcomes
      BY DEF Outcomes, States
    <3>3. /\ state' \in [Ids -> Outcomes] /\ cancelled' \in [Ids -> BOOLEAN] /\ jobs' \in [Ids -> Job]
      BY <1>2, <1>14, <1>15, <2>2, <3>2 DEF MergeInv, Control, WorkSide
    <3>4. \A i \in 1..last_id_' : jobs'[i].slot \in Slots /\ jobs'[i].group \in Groups
      <4>1. /\ jobs'[id].slot = s /\ jobs'[id].group = group
            /\ \A i \in Ids : i # id => jobs'[i] = jobs[i]
        BY <1>2, <2>2, <3>1 DEF MergeInv, Control, WorkSide, JobFor
      <4>2. 1..last_id_ \subseteq Ids
        BY <1>11, MaxJobsAssumption DEF Ids
      <4> QED
        BY <1>3, <3>1, <4>1, <4>2 DEF MergeInv, Control, WorkSide
    <3>5. wpc' # "take" => wjob' \in 1..last_id_' /\ cancelled'[wjob']
      <4>1. 1..last_id_ \subseteq Ids
        BY <1>11, MaxJobsAssumption DEF Ids
      <4> QED
        BY <1>1, <1>11, <1>13, <1>14, <2>2, <3>1, <4>1 DEF MergeInv, Control, WorkSide
    <3>6. \A i \in Ids : /\ state'[i] = "queued" => i = id
                         /\ state'[i] = "submitting" => wpc' # "take" /\ i = wjob'
      BY <1>1, <1>12, <1>14, <2>2 DEF MergeInv, Control, WorkSide
    <3> QED
      BY <1>1, <3>1, <3>3, <3>4, <3>5, <3>6 DEF MergeInv, Control, WorkSide
  <2> QED
    BY <2>1, <2>2
<1>18. /\ pending_merge_'.target = s /\ pending_merge_'.key = Remember(group)
       /\ pending_merge_'.plan = plan /\ pending_merge_'.droppable = Droppable(group)
       /\ pending_merge_'.id # 0 => plan # "unchanged" /\ pending_merge_'.id = id
       /\ pending_merge_'.id = 0 => plan = "unchanged"
  BY <1>2, <1>11
<1>19. pending_merge_'.id # 0 =>
        /\ id \in Ids /\ ~cancelled'[id] /\ state'[id] = "queued"
        /\ jobs'[id] = JobFor(s, group, freed_when[s], plan)
  BY <1>2, <1>14, <1>18 DEF MergeInv, Control, WorkSide
<1>20. PendingSide'
  BY <1>1, <1>3, <1>4, <1>9, <1>18, <1>19 DEF PendingSide, JobFor, Known
<1>21. PendingPicture'
  <2>1. ASSUME pending_merge_'.id = 0
        PROVE  HeldIn(ops, done, content, spoiled, s, slot_pictures_'[s].fence, Pic(Remember(group)))
    <3>1. Known(s) = Remember(group)
      BY <1>3, <1>5, <1>18, <2>1, UnchangedIsEqual DEF plan
    <3> QED
      BY <1>3, <1>4, <1>9, <3>1 DEF MergeInv, Pictures, KnownPictures, Held
  <2>2. ASSUME pending_merge_'.id # 0, jobs'[id].base # Nothing
        PROVE  HoldsIn(ops, done, content, spoiled, s, Len(ops), Pic(jobs'[id].base))
    <3>1. plan = "part" /\ jobs'[id].base = Known(s)
      BY <1>19, <2>2 DEF JobFor
    <3>2. Held(s, slot_pictures_[s].fence, Pic(Known(s)))
      BY <1>3, <1>5, <3>1 DEF MergeInv, Pictures, KnownPictures
    <3> QED
      BY <3>1, <3>2, HeldLasts DEF Held, MergeInv, Hardware
  <2>3. pending_merge_'.id # 0 => jobs'[id].op = 0
    BY <1>19 DEF JobFor
  <2> QED
    BY <1>1, <1>7, <1>18, <2>1, <2>2, <2>3 DEF PendingPicture, Held, Holds, engineVars
<1>22. Current'
  <2>1. MayReuse' => MayReuse /\ ShownSlot' = ShownSlot
    BY <1>1, <1>6, <1>18 DEF MayReuse, ShownSlot, memoryVars
  <2> QED
    BY <1>1, <1>7, <2>1, CurrentStays DEF MergeInv, Pictures, memoryVars
<1>23. Answered' /\ Asked'
  BY <1>1, AskedStays DEF MergeInv, Answered
<1> QED
  BY <1>8, <1>10, <1>16, <1>17, <1>20, <1>21, <1>22, <1>23 DEF MergeRest, Control, Pictures

\* Nothing is queued any more: what the worker may still have was given up.
LEMMA NoneQueued ==
    ASSUME MergeInv, pending_merge_' = NoPending,
           pending_merge_.id = 0 \/ state[pending_merge_.id] = "none",
           UNCHANGED <<queueVars, workerVars>>
    PROVE  WorkSide' /\ PendingSide' /\ PendingPicture'
<1>1. WorkSide'
  BY NoneDroppable, MaxJobsAssumption
  DEF MergeInv, Control, WorkSide, queueVars, workerVars, Ids
<1> QED
  BY <1>1, NothingPending

\* A frame about to be drawn: where, and what is still queued for it.
LEMMA AboutToDraw ==
    ASSUME MergeInv, fpc = "draw"
    PROVE  /\ Target \in Slots /\ group \in Groups /\ Target # showing_
           /\ pending_merge_.id = 0 \/ state[pending_merge_.id] = "none"
           /\ pending_merge_ # NoPending => resolved # "none"
           /\ resolved # "none" => pending_merge_ # NoPending
<1>1. Target = After(Base) /\ Target \in Slots /\ Base \in Slots
  BY TargetIsNext DEF MergeInv
<1>2. Target # showing_
  <2>1. CASE showing_ = NoSlot
    BY <1>1, <2>1, NumSlotsAssumption DEF Slots, NoSlot
  <2>2. CASE showing_ # NoSlot
    BY <1>1, <2>2, TurnIsElsewhere DEF Base
  <2> QED
    BY <2>1, <2>2
<1>3. group \in Groups
  BY DEF MergeInv, Control, FrameSide
<1>4. (pending_merge_ # NoPending => resolved # "none") /\ (resolved # "none" => pending_merge_ # NoPending)
  BY DEF MergeInv, PoolInv, Turns
<1>5. pending_merge_.id = 0 \/ state[pending_merge_.id] = "none"
  BY <1>4, NoneDroppable DEF MergeInv, Control, Answered
<1> QED
  BY <1>1, <1>2, <1>3, <1>4, <1>5

\* What is queued under a name the frame's group answers to is that group.
LEMMA AnsweredGroup ==
    ASSUME MergeInv, fpc = "draw", resolved # "none"
    PROVE  pending_merge_.key = Remember(group)
<1>1. Judge(pending_merge_.key, group) = "same" /\ group \in Groups
  BY DEF MergeInv, Control, Answered, FrameSide
<1>2. pending_merge_.key \in Memories
  BY DEF MergeInv, Control, FrameSide, Pending
<1>3. pending_merge_.key # Nothing
  BY <1>1, <1>2, SameMeansNone DEF Judge
<1>4. PICK h \in Groups : pending_merge_.key = Remember(h)
  BY <1>2, <1>3 DEF Memories
<1> QED
  BY <1>1, <1>4, SameIsEqual

\* The slot drawn holds the group, and every other what it was known to.
LEMMA DrawnKeeps ==
    ASSUME MergeInv, fpc = "draw", NEW op \in Nat, DrawnInto(op),
           UNCHANGED <<queueVars, workerVars, flips>>, Hardware', Panel',
           HeldIn(ops', done', content', spoiled', Target, op, group),
           \A s \in Slots : \A n, g :
               s # Target /\ Held(s, n, g) => HeldIn(ops', done', content', spoiled', s, n, g)
    PROVE  MergeRest'
<1>1. /\ slot_pictures_' = [slot_pictures_ EXCEPT ![Target] = [held |-> Remember(group), fence |-> op]]
      /\ merge_memory_' = Remember(group)
      /\ last_described' = [slot |-> Target, group |-> group] /\ last_merge_fence_' = op
      /\ pending_merge_' = NoPending /\ at_' = Target /\ how' = "drawn" /\ fpc' = "flip"
      /\ UNCHANGED <<showing_, freed_when, group>>
  BY DEF DrawnInto
<1>2. /\ Target \in Slots /\ group \in Groups
      /\ pending_merge_.id = 0 \/ state[pending_merge_.id] = "none"
  BY AboutToDraw
<1>3. /\ Remember(group) \in Memories /\ Remember(group) # Nothing /\ Pic(Remember(group)) = group
      /\ group \in MayBeGroup /\ Target \in MayBeSlot
  BY <1>2, GroupFacts DEF MayBeGroup, MayBeSlot
<1> DEFINE t == Target
<1>4. HeldIn(ops', done', content', spoiled', t, op, group)
  OBVIOUS
<1>5. \A s \in Slots : \A n, g : s # t /\ Held(s, n, g) => HeldIn(ops', done', content', spoiled', s, n, g)
  OBVIOUS
<1>6. t \in Slots /\ t \in MayBeSlot
  BY <1>2, <1>3
<1>7. /\ slot_pictures_' = [slot_pictures_ EXCEPT ![t] = [held |-> Remember(group), fence |-> op]]
      /\ last_described' = [slot |-> t, group |-> group] /\ at_' = t
  BY <1>1
<1> HIDE DEF t
<1>8. slot_pictures_' \in [Slots -> Picture] /\ slot_pictures_ \in [Slots -> Picture]
  BY <1>3, <1>6, <1>7 DEF MergeInv, Control, FrameSide, Picture
<1>9. FrameSide'
  BY <1>1, <1>3, <1>6, <1>7, <1>8, NoneDroppable
  DEF MergeInv, Control, FrameSide, WorkSide, queueVars
<1>10. WorkSide' /\ PendingSide' /\ PendingPicture'
  BY <1>1, <1>2, NoneQueued
<1>11. Answered' /\ Asked'
  BY <1>1, <1>7 DEF MergeInv, Answered, Asked, ShownIsAsked
<1>12. KnownPictures'
  <2> SUFFICES ASSUME NEW s \in Slots, slot_pictures_'[s].held # Nothing
               PROVE  HeldIn(ops', done', content', spoiled', s, slot_pictures_'[s].fence,
                             Pic(slot_pictures_'[s].held))
    BY DEF KnownPictures, Known, Held
  <2>1. CASE s = t
    BY <1>3, <1>4, <1>6, <1>7, <1>8, <2>1
  <2>2. CASE s # t
    <3>1. slot_pictures_'[s] = slot_pictures_[s]
      BY <1>7, <1>8, <2>2
    <3>2. Held(s, slot_pictures_[s].fence, Pic(slot_pictures_[s].held))
      BY <3>1 DEF MergeInv, Pictures, KnownPictures, Known
    <3> QED
      BY <1>5, <2>2, <3>1, <3>2
  <2> QED
    BY <2>1, <2>2
<1>13. Current'
  BY <1>1, <1>2, <1>4, <1>6, <1>7 DEF Current, ShownSlot, Held
<1> QED
  BY <1>9, <1>10, <1>11, <1>12, <1>13 DEF MergeRest, Control, Pictures

\* Nothing drawn, nothing remembered.
LEMMA UndrawnKeeps ==
    ASSUME MergeInv, fpc = "draw", pending_merge_' = NoPending, ForgetMerge, fpc' = "idle",
           slot_pictures_' = LostAt(Target) \/ slot_pictures_' = slot_pictures_,
           UNCHANGED <<queueVars, workerVars, flips, ops, hwVars, showing_, freed_when, group>>
    PROVE  MergeRest'
<1>1. UNCHANGED <<engineVars, latched>> /\ merge_memory_' = Nothing
      /\ UNCHANGED <<last_described, last_merge_fence_>>
  BY DEF hwVars, engineVars, ForgetMerge
<1>2. pending_merge_.id = 0 \/ state[pending_merge_.id] = "none"
  BY AboutToDraw
<1>3. Hardware' /\ Panel'
  BY <1>1, HardwareStays, PanelStays DEF MergeInv, Pictures
<1>4. /\ slot_pictures_' \in [Slots -> Picture]
      /\ \A s \in Slots : /\ slot_pictures_'[s].fence = slot_pictures_[s].fence
                          /\ slot_pictures_'[s].held \in {slot_pictures_[s].held, Nothing}
  <2>1. slot_pictures_ \in [Slots -> Picture] /\ Nothing \in Memories
    BY DEF MergeInv, Control, FrameSide, Memories
  <2> QED
    BY <2>1 DEF LostAt, Picture
<1>5. KnownPictures'
  BY <1>1, <1>4, KnownStays DEF MergeInv, Pictures
<1>6. WorkSide' /\ PendingSide' /\ PendingPicture'
  BY <1>2, NoneQueued
<1>7. FrameSide'
  BY <1>1, <1>4, NoneDroppable DEF MergeInv, Control, FrameSide, WorkSide, queueVars, Memories
<1>8. Answered' /\ Asked'
  BY AskedStays DEF MergeInv, Answered
<1>9. Current'
  BY <1>1, NoneDroppable DEF Current, MayReuse
<1> QED
  BY <1>3, <1>5, <1>6, <1>7, <1>8, <1>9 DEF MergeRest, Control, Pictures

\* A slot that already holds the group.
LEMMA DrawUntouchedKeeps ==
    ASSUME MergeInv, DrawUntouched PROVE MergeRest'
<1> DEFINE t == Target
           n == slot_pictures_[t].fence
<1>1. /\ fpc = "draw" /\ TargetPlan = "unchanged" /\ DrawnInto(n)
      /\ UNCHANGED <<queueVars, workerVars, ops, flips, hwVars>>
  BY DEF DrawUntouched
<1>2. UNCHANGED <<engineVars, done, content, spoiled, latched, showing_, freed_when>>
  BY <1>1 DEF hwVars, engineVars, DrawnInto
<1>3. t \in Slots /\ group \in Groups /\ Pic(Remember(group)) = group /\ Remember(group) # Nothing
  BY <1>1, AboutToDraw, GroupFacts
<1>4. n \in Nat /\ Known(t) \in Memories
  BY <1>3 DEF MergeInv, Control, FrameSide, Picture, Known
<1>5. Held(t, n, group)
  <2>1. CASE resolved = "none"
    <3>1. Plan(t, group) = "unchanged"
      BY <1>1, <2>1 DEF TargetPlan
    <3>2. Known(t) = Remember(group)
      BY <1>3, <1>4, <3>1, UnchangedIsEqual
    <3> QED
      BY <1>3, <3>2 DEF MergeInv, Pictures, KnownPictures
  <2>2. CASE resolved # "none"
    <3>1. t = pending_merge_.target /\ pending_merge_.plan = "unchanged"
      BY <1>1, <2>2 DEF TargetPlan, Target
    <3>2. pending_merge_ # NoPending /\ pending_merge_.id = 0
      BY <1>1, <2>2, <3>1, AboutToDraw DEF MergeInv, Control, PendingSide
    <3>3. Held(t, n, Pic(pending_merge_.key))
      BY <3>1, <3>2 DEF MergeInv, Pictures, PendingPicture
    <3> QED
      BY <1>1, <1>3, <2>2, <3>3, AnsweredGroup
  <2> QED
    BY <2>1, <2>2
<1>6. Hardware' /\ Panel'
  BY <1>1, <1>2, HardwareStays, PanelStays DEF MergeInv, Pictures
<1> QED
  BY <1>1, <1>2, <1>4, <1>5, <1>6, DrawnKeeps DEF Held

\* The worker drew it, or did not.
LEMMA DrawQueuedKeeps ==
    ASSUME MergeInv, DrawQueued PROVE MergeRest'
<1> DEFINE n == jobs[pending_merge_.id].op
<1>1. /\ fpc = "draw" /\ resolved \in {"submitted", "refused", "cancelled"}
      /\ UNCHANGED <<queueVars, workerVars, ops, flips, hwVars>>
      /\ resolved = "submitted" => DrawnInto(n)
      /\ resolved # "submitted" => NotDrawn
  BY DEF DrawQueued
<1>2. CASE resolved # "submitted"
  BY <1>1, <1>2, UndrawnKeeps DEF NotDrawn
<1>3. CASE resolved = "submitted"
  <2>1. UNCHANGED <<engineVars, done, content, spoiled, latched, showing_, freed_when>>
    BY <1>1, <1>3 DEF hwVars, engineVars, DrawnInto
  <2>2. pending_merge_.id # 0 /\ n # 0 /\ Target = pending_merge_.target
    BY <1>1, <1>3 DEF MergeInv, Control, Answered, Target
  <2>3. /\ pending_merge_.id \in 1..last_id_ /\ pending_merge_.id \in Ids
    BY <2>2, MaxJobsAssumption DEF MergeInv, Control, FrameSide, WorkSide, Pending, Ids
  <2>4. n \in Nat /\ jobs[pending_merge_.id].group \in Groups /\ group \in Groups
    BY <1>1, <2>3 DEF MergeInv, Control, FrameSide, WorkSide, Job
  <2>5. jobs[pending_merge_.id].group = group
    <3>1. pending_merge_.key = Remember(group)
      BY <1>1, AnsweredGroup
    <3>2. pending_merge_.key = Remember(jobs[pending_merge_.id].group)
      BY <2>2 DEF MergeInv, Control, PendingSide
    <3> QED
      BY <2>4, <3>1, <3>2, RememberedOnce
  <2>6. Held(Target, n, group)
    BY <2>2, <2>5 DEF MergeInv, Pictures, PendingPicture
  <2>7. Hardware' /\ Panel'
    BY <1>1, <2>1, HardwareStays, PanelStays DEF MergeInv, Pictures
  <2>8. DrawnInto(n)
    BY <1>1, <1>3
  <2> HIDE DEF n
  <2> QED
    BY <1>1, <2>1, <2>4, <2>6, <2>7, <2>8, DrawnKeeps DEF Held
<1> QED
  BY <1>2, <1>3

\* The binder thread draws it, or the engine refuses.
LEMMA DrawHereKeeps ==
    ASSUME MergeInv, DrawHere PROVE MergeRest'
<1> DEFINE t == Target
           drawing == JobFor(t, group, freed_when[t], TargetPlan)
           e == [slot |-> drawing.slot, group |-> drawing.group, ready |-> drawing.ready, base |-> drawing.base,
                 orphan |-> FALSE]
<1>1. /\ fpc = "draw" /\ resolved = "none" /\ UNCHANGED <<queueVars, workerVars, flips, hwVars>>
      /\ \/ ops' = Append(ops, e) /\ DrawnInto(Len(ops) + 1)
         \/ NotDrawn /\ UNCHANGED ops
  BY DEF DrawHere, Compose
<1>2. CASE NotDrawn /\ UNCHANGED ops
  BY <1>1, <1>2, UndrawnKeeps DEF NotDrawn
<1>3. CASE ops' = Append(ops, e) /\ DrawnInto(Len(ops) + 1)
  <2>1. UNCHANGED <<done, content, spoiled, latched, showing_, freed_when>>
    BY <1>1, <1>3 DEF hwVars, DrawnInto
  <2>2. t \in Slots /\ group \in Groups /\ t # showing_
    BY <1>1, AboutToDraw
  <2>3. Known(t) \in Memories /\ freed_when[t] \in Nat /\ Nothing \in Memories
    BY <2>2 DEF MergeInv, Hardware, Control, FrameSide, Picture, Known, Memories
  <2>4. /\ e.slot = t /\ e.group = group /\ e.ready = freed_when[t] /\ e.orphan = FALSE
        /\ e.base \in {Known(t), Nothing}
    BY DEF JobFor
  <2>5. e \in Drawing
    <3>1. e.base \in Memories
      BY <2>3, <2>4
    <3> QED
      BY <2>2, <2>3, <3>1 DEF Drawing, JobFor
  <2> HIDE DEF e, t
  <2>6. /\ ops \in Seq(Drawing) /\ done \in 0..Len(ops) /\ Len(ops) \in Nat
    BY DEF MergeInv, Hardware
  <2>7. e.base # Nothing => Holds(e.slot, Len(ops), Pic(e.base))
    <3> SUFFICES ASSUME e.base # Nothing PROVE Holds(t, Len(ops), Pic(Known(t)))
      BY <2>4
    <3>1. Held(t, slot_pictures_[t].fence, Pic(Known(t)))
      BY <2>2, <2>4 DEF MergeInv, Pictures, KnownPictures
    <3> QED
      BY <2>6, <3>1, HeldLasts DEF Held, Holds
  <2>8. Hardware' /\ Panel'
    BY <1>1, <1>3, <2>1, <2>2, <2>4, <2>5, <2>7, ChannelGrows DEF MergeInv, Pictures
  <2>9. HeldIn(ops', done', content', spoiled', t, Len(ops) + 1, group)
    BY <1>3, <2>1, <2>4, <2>5, <2>6, HeldAfter
  <2>10. \A s \in Slots : \A n, g :
            s # t /\ Held(s, n, g) => HeldIn(ops', done', content', spoiled', s, n, g)
    BY <1>3, <2>1, <2>4, <2>5, <2>6, HeldBefore DEF Held
  <2>11. Len(ops) + 1 \in Nat
    BY <2>6
  <2> QED
    BY <1>1, <1>3, <2>8, <2>9, <2>10, <2>11, DrawnKeeps DEF t
<1> QED
  BY <1>1, <1>2, <1>3

\* A mixed seating is not drawn.
LEMMA RefuseMixedTurnKeeps ==
    ASSUME MergeInv, RefuseMixedTurn PROVE MergeRest'
BY UndrawnKeeps DEF RefuseMixedTurn

\* The flip shows a slot that holds, or is coming to hold, what it says.
LEMMA FlipLandsKeeps ==
    ASSUME MergeInv, FlipLands PROVE MergeRest'
<1> DEFINE n == Len(flips) + 1
           f == FlipOf
<1>1. /\ fpc = "flip" /\ fpc' = "idle" /\ flips' = Append(flips, f)
      /\ UNCHANGED <<queueVars, memoryVars, pending_merge_, slot_pictures_, group, resolved,
                     how, tests, frames, workerVars, ops, hwVars>>
      /\ IF how = "drawn" THEN Presented(n) ELSE UNCHANGED poolVars
  BY DEF FlipLands
<1>2. UNCHANGED <<engineVars, done, latched>>
  BY <1>1 DEF hwVars, engineVars
<1>3. /\ pending_merge_ = NoPending /\ pending_merge_' = NoPending
      /\ how \in {"empty", "same", "lag", "dropped", "drawn"} /\ at_ \in Slots
  BY <1>1 DEF MergeInv, PoolInv, PoolOK, Turns, Control, FrameSide
<1>4. /\ f.want = group /\ f.how = how
      /\ how = "empty" => f.slot = NoSlot /\ f.pre = 0 /\ f.shows = NoGroup
      /\ how # "empty" => /\ f.slot = last_described.slot /\ f.pre = last_merge_fence_
                          /\ f.shows = last_described.group
  BY DEF FlipOf
<1>5. f \in Flip
  <2>1. f = [slot |-> f.slot, pre |-> f.pre, shows |-> f.shows, want |-> f.want, how |-> f.how]
    BY DEF FlipOf
  <2>2. /\ f.slot \in MayBeSlot /\ f.pre \in Nat /\ f.shows \in MayBeGroup
        /\ f.want \in MayBeGroup /\ f.how \in {"empty", "same", "lag", "dropped", "drawn"}
    BY <1>3, <1>4 DEF MergeInv, Control, FrameSide, MayBeSlot, MayBeGroup
  <2> HIDE DEF f
  <2> QED
    BY <2>1, <2>2 DEF Flip
<1> HIDE DEF f
<1>6. how # "empty" => /\ last_described.slot = ShownSlot
                       /\ Held(last_described.slot, last_merge_fence_, last_described.group)
  BY <1>1 DEF MergeInv, Pictures, Current, MayReuse
<1>7. /\ flips \in Seq(Flip) /\ Len(flips) \in Nat /\ latched \in 0..Len(flips) /\ latched \in Nat
      /\ freed_when \in [Slots -> Nat]
  BY DEF MergeInv, Hardware
<1>8. /\ Len(flips') = n /\ flips' \in Seq(Flip) /\ flips'[n] = f
      /\ \A k \in 1..Len(flips) : flips'[k] = flips[k]
  BY <1>1, <1>5, <1>7, AppendProperties
<1>9. /\ freed_when' \in [Slots -> Nat]
      /\ how = "drawn" => /\ showing_' = at_ /\ at_' = at_
                          /\ \A s \in Slots : freed_when'[s] = IF s = at_ THEN 0
                                              ELSE IF s = showing_ THEN n ELSE freed_when[s]
      /\ how # "drawn" => UNCHANGED <<at_, showing_, freed_when>>
  BY <1>1, <1>7 DEF Presented, poolVars
<1>10. Hardware'
  BY <1>1, <1>2, <1>7, <1>8, <1>9 DEF MergeInv, Hardware, engineVars
<1>11. FrameSide'
  BY <1>1, <1>3 DEF MergeInv, Control, FrameSide, memoryVars, queueVars
<1>12. WorkSide'
  BY <1>1 DEF MergeInv, Control, WorkSide, queueVars, workerVars
<1>13. PendingSide' /\ PendingPicture'
  BY <1>3, NothingPending
<1>14. Answered'
  BY <1>1 DEF Answered
<1>15. KnownPictures'
  BY <1>1, <1>2, KnownStays DEF MergeInv, Pictures
<1>16. Current'
  <2>1. MayReuse' => MayReuse
    BY <1>1, <1>3 DEF MayReuse, memoryVars
  <2>2. ShownSlot' = ShownSlot
    BY <1>1, <1>9 DEF ShownSlot
  <2> QED
    BY <1>1, <1>2, <2>1, <2>2, CurrentStays DEF MergeInv, Pictures, memoryVars
<1>17. Asked'
  <2>1. /\ f.how \in {"same", "drawn"} => f.shows = f.want
        /\ f.how = "lag" => SameButFrames(Remember(f.shows), f.want)
    BY <1>1, <1>3, <1>4 DEF MergeInv, Asked
  <2>2. ShownIsAsked'
    BY <1>7, <1>8, <2>1 DEF MergeInv, Asked, ShownIsAsked
  <2> QED
    BY <1>1, <2>2 DEF Asked
<1>18. FlipsTrue'
  <2> SUFFICES ASSUME NEW k \in 1..n, k >= latched PROVE FlipTrue(k)'
    BY <1>2, <1>8 DEF FlipsTrue
  <2>1. CASE k \in 1..Len(flips)
    BY <1>2, <1>8, <2>1 DEF MergeInv, Pictures, Panel, FlipsTrue, FlipTrue, Holds, engineVars
  <2>2. CASE k = n
    <3>1. how # "empty" => HeldIn(ops, done, content, spoiled, f.slot, f.pre, f.shows)
      BY <1>4, <1>6 DEF Held
    <3>2. f.slot # NoSlot => how # "empty"
      BY <1>4
    <3> QED
      BY <1>2, <1>8, <2>2, <3>1, <3>2 DEF FlipTrue, HeldIn, Holds, engineVars
  <2> QED
    BY <1>7, <2>1, <2>2
<1>19. LatchedDone'
  BY <1>2, <1>7, <1>8 DEF MergeInv, Pictures, Panel, LatchedDone
<1>20. Freed'
  <2> SUFFICES ASSUME NEW k \in 1..n, NEW s \in Slots, flips'[k].slot = s, s # showing_'
               PROVE  k < freed_when'[s]
    BY <1>8 DEF Freed
  <2>1. CASE k \in 1..Len(flips)
    <3>1. flips[k].slot = s /\ (s # showing_ => k < freed_when[s])
      BY <1>8, <2>1 DEF MergeInv, Pictures, Panel, Freed
    <3> QED
      BY <1>7, <1>9, <2>1, <3>1
  <2>2. CASE k = n
    <3>1. s # NoSlot
      BY NumSlotsAssumption DEF Slots, NoSlot
    <3>2. s = ShownSlot
      BY <1>4, <1>6, <1>8, <2>2, <3>1
    <3> QED
      BY <1>1, <1>9, <3>2 DEF ShownSlot
  <2> QED
    BY <1>7, <2>1, <2>2
<1>21. Chained'
  BY <1>2 DEF MergeInv, Pictures, Panel, Chained, engineVars
<1> QED
  BY <1>10, <1>11, <1>12, <1>13, <1>14, <1>15, <1>16, <1>17, <1>18, <1>19, <1>20, <1>21
  DEF MergeRest, Control, Pictures, Panel

\* The controller refuses the flip: the slot and the group are forgotten.
LEMMA FlipFailsKeeps ==
    ASSUME MergeInv, FlipFails PROVE MergeRest'
<1>1. /\ fpc = "flip" /\ fpc' = "idle" /\ merge_memory_' = Nothing
      /\ slot_pictures_' = LostAt(at_) \/ slot_pictures_' = slot_pictures_
      /\ UNCHANGED <<showing_, freed_when, last_described, last_merge_fence_>>
      /\ UNCHANGED <<queueVars, lagged_last_, pending_merge_, group, resolved, how, tests,
                     frames, workerVars, ops, flips, hwVars>>
  BY DEF FlipFails, Rewind, ForgetMerge, poolVars
<1>2. UNCHANGED <<engineVars, latched>>
  BY <1>1 DEF hwVars, engineVars
<1>3. pending_merge_ = NoPending /\ pending_merge_' = NoPending
  BY <1>1 DEF MergeInv, PoolInv, Turns
<1>4. Hardware' /\ Panel'
  BY <1>1, <1>2, HardwareStays, PanelStays DEF MergeInv, Pictures
<1>5. /\ slot_pictures_' \in [Slots -> Picture]
      /\ \A s \in Slots : /\ slot_pictures_'[s].fence = slot_pictures_[s].fence
                          /\ slot_pictures_'[s].held \in {slot_pictures_[s].held, Nothing}
  <2>1. slot_pictures_ \in [Slots -> Picture] /\ Nothing \in Memories
    BY DEF MergeInv, Control, FrameSide, Memories
  <2> QED
    BY <1>1, <2>1 DEF LostAt, Picture
<1>6. KnownPictures'
  BY <1>2, <1>5, KnownStays DEF MergeInv, Pictures
<1>7. FrameSide'
  BY <1>1, <1>5 DEF MergeInv, Control, FrameSide, queueVars, Memories
<1>8. WorkSide'
  BY <1>1 DEF MergeInv, Control, WorkSide, queueVars, workerVars
<1>9. PendingSide' /\ PendingPicture'
  BY <1>3, NothingPending
<1>10. Answered' /\ Asked'
  BY <1>1, AskedStays DEF MergeInv, Answered
<1>11. Current'
  BY <1>1, <1>3, NoneDroppable DEF Current, MayReuse
<1> QED
  BY <1>4, <1>6, <1>7, <1>8, <1>9, <1>10, <1>11 DEF MergeRest, Control, Pictures

-----------------------------------------------------------------------------
\* Every step keeps the invariant.
LEMMA NextMerge == MergeInv /\ [Next]_vars => MergeInv'
<1> SUFFICES ASSUME MergeInv, [Next]_vars PROVE MergeInv'
  OBVIOUS
<1>1. PoolInv'
  BY NextPool DEF MergeInv
<1>2. MergeRest'
  <2>1. ASSUME NEW g \in Groups \union {NoGroup}, Test(g) PROVE MergeRest'
    BY <2>1, TestKeeps
  <2>2. CASE QueueMerge
    BY <2>2, QueueMergeKeeps
  <2>3. CASE ExecuteWithoutGroup
    BY <2>3, ExecuteWithoutGroupKeeps
  <2>4. ASSUME NEW g \in Groups, Execute(g) PROVE MergeRest'
    BY <2>4, ExecuteKeeps
  <2>5. CASE ResolveNext
    BY <2>5, ResolveAnswersKeeps, ResolveSleepsKeeps DEF ResolveNext
  <2>6. CASE ExecuteNext
    BY <2>6, DecideToReuseKeeps, DecideToDrawKeeps, DrawUntouchedKeeps, DrawQueuedKeeps,
       DrawHereKeeps, RefuseMixedTurnKeeps, FlipLandsKeeps, FlipFailsKeeps DEF ExecuteNext
  <2>7. CASE NoteFrameUnjudged
    BY <2>7, NoteFrameUnjudgedKeeps
  <2>8. CASE WorkerNext
    BY <2>8, WorkerTakesKeeps, WorkerSleepsKeeps, WorkerComposesKeeps, WorkerDoneKeeps
    DEF WorkerNext
  <2>9. CASE EngineDraws
    BY <2>9, EngineDrawsKeeps
  <2>10. CASE PanelLatches \/ (\E g \in Groups : ClientFinishes(g)) \/ UNCHANGED vars
    BY <2>10, OthersKeep
  <2> QED
    BY <2>1, <2>2, <2>3, <2>4, <2>5, <2>6, <2>7, <2>8, <2>9, <2>10 DEF Next
<1> QED
  BY <1>1, <1>2 DEF MergeInv, MergeRest

-----------------------------------------------------------------------------
\* Whatever the code believes of a slot -- that it holds the last group drawn, the
\* picture its next drawing is planned over, the frame a flip is about -- the slot
\* holds or comes to hold, unless a given-up drawing (DropPendingMerge) spoils it.
THEOREM EverySlotIsKnown == Spec => []MergeInv
BY InitMerge, NextMerge, PTL DEF Spec

\* MergeIsTrue: the panel's slot holds the picture its flip was about (spoiled slots
\* apart), and that picture is the one the frame asked for, or a late client's last.
THEOREM PanelShowsWhatWasMeant == Spec => []MergeIsTrue
<1>1. MergeInv => MergeIsTrue
  <2> SUFFICES ASSUME MergeInv PROVE ShownIsTrue
    BY DEF MergeInv, Asked, MergeIsTrue
  <2> SUFFICES ASSUME latched > 0, flips[latched].slot # NoSlot, flips[latched].slot \notin spoiled
               PROVE  content[flips[latched].slot] = flips[latched].shows
    BY DEF ShownIsTrue, OnPanel
  <2>1. latched \in 1..Len(flips) /\ done \in Nat
    BY DEF MergeInv, Hardware
  <2>2. Holds(flips[latched].slot, flips[latched].pre, flips[latched].shows) /\ flips[latched].pre \in Nat
    BY <2>1 DEF MergeInv, Pictures, Panel, FlipsTrue, FlipTrue
  <2>3. (done + 1)..flips[latched].pre = {}
    BY <2>1, <2>2 DEF MergeInv, Pictures, Panel, LatchedDone
  <2> QED
    BY <2>2, <2>3 DEF Holds, HoldsIn
<1> QED
  BY EverySlotIsKnown, <1>1, PTL

\* NeverWritesUnderScan: the engine never runs a drawing still wanted into the slot
\* on the panel; ScratchPool's turn and the fence it hands out keep it away.
THEOREM ScanoutIsLeftAlone == Spec => NeverWritesUnderScan
<1>1. ASSUME MergeInv, [Next]_vars
      PROVE  [done' # done /\ latched > 0 /\ ~ops[done + 1].orphan
                => ops[done + 1].slot # OnPanel.slot]_vars
  <2> SUFFICES ASSUME done' # done, latched > 0, ~ops[done + 1].orphan,
                      ops[done + 1].slot = flips[latched].slot
               PROVE  FALSE
    BY DEF OnPanel
  <2>1. EngineDraws
    BY <1>1
    DEF Next, Test, QueueMerge, ExecuteWithoutGroup, Execute, ResolveNext, ResolveAnswers,
         ResolveSleeps, ExecuteNext, DecideToReuse, DecideToDraw, DrawUntouched, DrawQueued,
         DrawHere, RefuseMixedTurn, FlipLands, FlipFails, NoteFrameUnjudged, WorkerNext,
         WorkerTakes, WorkerSleeps, WorkerComposes, WorkerDone, PanelLatches, ClientFinishes,
         vars, hwVars
  <2>2. /\ done \in Nat /\ done + 1 \in 1..Len(ops) /\ ops[done + 1].ready <= latched
        /\ latched \in 1..Len(flips)
    BY <1>1, <2>1 DEF EngineDraws, MergeInv, Hardware
  <2>3. ops[done + 1].slot \in Slots /\ ops[done + 1].ready \in Nat
    <3>1. ops[done + 1] \in Drawing
      BY <1>1, <2>2, ElementOfSeq DEF MergeInv, Hardware
    <3> QED
      BY <3>1 DEF Drawing
  <2>4. flips[latched].slot # NoSlot
    BY <2>3, NumSlotsAssumption DEF Slots, NoSlot
  <2>5. FlipTrue(latched) /\ flips[latched].pre <= done
    BY <1>1, <2>2 DEF MergeInv, Pictures, Panel, FlipsTrue, LatchedDone
  <2>6. ops[done + 1].ready > latched
    <3>1. flips[latched].pre \in Nat /\ done + 1 > flips[latched].pre /\ done + 1 > done
      BY <2>2, <2>4, <2>5 DEF FlipTrue
    <3> QED
      BY <2>2, <2>4, <2>5, <3>1 DEF FlipTrue
  <2> QED
    BY <2>2, <2>3, <2>6
<1> QED
  BY EverySlotIsKnown, <1>1, PTL DEF Spec, NeverWritesUnderScan
=============================================================================
