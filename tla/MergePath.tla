----------------------------- MODULE MergePath -----------------------------
(***************************************************************************)
(* The merged group's way to the panel (tegra/TegraAtomicStateManager.cpp):*)
(* at validate (Test) the group's drawing is queued for the image engine's *)
(* worker; at present (Execute) its outcome is collected, or the group is  *)
(* drawn on the binder thread, or the last group drawn is shown again, and *)
(* the window is flipped to the slot.                                      *)
(*                                                                         *)
(*   frame thread   one at a time, under the composer's lock: fpc          *)
(*   worker         VicWorkerLoop: wait for its last drawing, Take,        *)
(*                  Compose, Done                                          *)
(*   engine         the image engine's channel, in order; a drawing waits  *)
(*                  in the stream for its slot to be free and its members' *)
(*                  clients to finish                                      *)
(*   panel          latches flips in order, each once its drawing is done  *)
(*                                                                         *)
(* The pool of slots is ScratchPool, the comparison PictureMemory, what a  *)
(* slot is known to hold SlotPictures (compositor/PartialRedraw).  Where a *)
(* part of a group sits inside its slot is not modelled here: a drawing in *)
(* part comes out right exactly if the slot held the picture it was        *)
(* planned against, and torn otherwise.                                    *)
(***************************************************************************)
EXTENDS JobQueue, PictureMemory, FiniteSets

CONSTANTS
    Groups,         \* groups a frame may carry: records of size, members
    NumSlots,       \* ScratchPool's kSlots
    MaxTests,       \* bound: plans tested
    MaxFrames,      \* bound: frames executed
    MaxCalls,       \* bound: the two together
    FrameThread, VicThread

\* kScratchBuffers is three; one would be drawn into while it is shown.
ASSUME NumSlotsAssumption == NumSlots \in Nat \ {0, 1}

MemberShape ==
    [serial : Nat, source : Nat, generation : Nat, place : Nat, blend : Nat, transform : Nat]

\* A layer's hand-overs are counted and each brings one buffer; a buffer and the
\* count "already say who drew it", where there is a buffer and a layer at all.
ASSUME GroupsAssumption ==
    /\ \A g \in Groups : g \in [size : Nat, members : Seq(MemberShape)]
    /\ \A g, h \in Groups :
        \A i \in 1..Len(g.members) : \A j \in 1..Len(h.members) :
            LET m == g.members[i]
                n == h.members[j]
            IN  m.generation = n.generation =>
                    /\ m.source = n.source /\ m.source # 0 => m.serial = n.serial
                    /\ m.serial = n.serial /\ m.serial # 0 => m.source = n.source

NoGroup == [size |-> 0, members |-> <<>>]
Torn == [size |-> -1, members |-> <<>>]

Slots == 0..(NumSlots - 1)
NoSlot == -1

VARIABLES
    \* ScratchPool
    at_, showing_,      \* slots; NoSlot until something is shown
    freed_when,         \* per slot, the flip whose fence frees it, 0 if none
    \* what the state manager remembers
    merge_memory_,      \* PictureMemory of the last group drawn
    last_described,     \* last_merge_described_: a slot and the group in it
    last_merge_fence_,  \* its drawing, 0 if none
    lagged_last_,
    pending_merge_,     \* the queued drawing, or NoPending
    slot_pictures_,     \* per slot: what it is known to hold, and the drawing
    \* the frame thread
    fpc, group,
    resolved,           \* what Resolve answered; "none" if nothing was queued
    how,                \* how the frame's group gets to the window
    tests, frames,      \* counted against the bounds
    \* the worker
    wpc, wjob, wlast,
    jobs,               \* what each queued job draws
    \* the engine, the panel, the clients
    ops, done, content, flips, latched, late,
    spoiled             \* history: slots a given-up drawing wrote last

poolVars == <<at_, showing_, freed_when>>
memoryVars == <<merge_memory_, last_described, last_merge_fence_, lagged_last_>>
frameVars == <<fpc, group, resolved, how, tests, frames>>
workerVars == <<wpc, wjob, wlast, jobs>>
hwVars == <<done, content, latched, late, spoiled>>
vars == <<queueVars, poolVars, memoryVars, pending_merge_, slot_pictures_,
          frameVars, workerVars, ops, flips, hwVars>>

NoPending == [id |-> 0, target |-> NoSlot, key |-> Nothing, plan |-> "whole",
              droppable |-> FALSE]
NoJob == [slot |-> NoSlot, group |-> NoGroup, ready |-> 0, base |-> Nothing,
          op |-> 0]

Init ==
    /\ QueueInit
    /\ at_ = 0 /\ showing_ = NoSlot /\ freed_when = [s \in Slots |-> 0]
    /\ merge_memory_ = Nothing
    /\ last_described = [slot |-> NoSlot, group |-> NoGroup]
    /\ last_merge_fence_ = 0 /\ lagged_last_ = FALSE
    /\ pending_merge_ = NoPending
    /\ slot_pictures_ = [s \in Slots |-> [held |-> Nothing, fence |-> 0]]
    /\ fpc = "idle" /\ group = NoGroup /\ resolved = "none" /\ how = "none"
    /\ tests = 0 /\ frames = 0
    /\ wpc = "take" /\ wjob = 0 /\ wlast = 0
    /\ jobs = [i \in Ids |-> NoJob]
    /\ ops = <<>> /\ done = 0 /\ content = [s \in Slots |-> NoGroup]
    /\ flips = <<>> /\ latched = 0 /\ spoiled = {}
    /\ late \in SUBSET Groups

Bounded == tests + frames < MaxCalls

-----------------------------------------------------------------------------
\* ScratchPool: strictly in turn over every slot.

After(s) == (s + 1) % NumSlots

Before(s) == (s + NumSlots - 1) % NumSlots

\* Next(&ready): the slot whose turn it is, and the fence that frees it.
Next_ == at_' = After(at_) /\ UNCHANGED <<showing_, freed_when>>

\* A drawing given up keeps its turn.
MutRewind == UNCHANGED poolVars

Rewind == at_' = Before(at_) /\ UNCHANGED <<showing_, freed_when>>

\* Gives the slot just shown the fence of the frame it belongs to.
MutPresented(fence) ==
    /\ freed_when' = [freed_when EXCEPT ![at_] = fence]
    /\ showing_' = at_
    /\ UNCHANGED at_

\* Presented(fence): the slot this frame replaces is free once it is up.
Presented(fence) ==
    /\ freed_when' = [s \in Slots |-> IF s = at_ THEN 0
                                      ELSE IF s = showing_ THEN fence
                                      ELSE freed_when[s]]
    /\ showing_' = at_
    /\ UNCHANGED at_

-----------------------------------------------------------------------------
\* SlotPictures: what each slot is known to hold.

Known(s) == slot_pictures_[s].held

\* The slot's picture forgotten; its last drawing's fence stays.
LostAt(s) == [slot_pictures_ EXCEPT ![s].held = Nothing]

FramesOf(g) == [i \in 1..Len(g.members) |-> <<g.members[i].serial, g.members[i].generation>>]

\* Decide: "whole" if nothing is known of the slot, it held another size, or
\* the group is turned (then Decide is not asked); "unchanged" if the slot
\* holds this very frame of every member, and the fence of that drawing is
\* known; else "part": drawn where the held picture and this one may differ,
\* in full or for the damage only, and the rest of the slot left as it was.
Plan(s, g) ==
    IF \/ \E i \in 1..Len(g.members) : g.members[i].transform # 0
       \/ ~Known(s).remembered \/ Known(s).size # g.size
    THEN "whole"
    ELSE IF ~SameButFrames(Known(s), g) \/ FramesOf(g) # FramesOf(Known(s)) THEN "part"
    ELSE IF slot_pictures_[s].fence = 0 THEN "whole" ELSE "unchanged"

\* UniformTurn: one transform for the whole group.
UniformTurn(g) ==
    \A i, j \in 1..Len(g.members) : g.members[i].transform = g.members[j].transform

-----------------------------------------------------------------------------
\* The image engine's channel, as VicSession::Compose submits to it.

\* A drawing handed to the engine, or refused by it.
Compose(j, orphan) ==
    ops' = Append(ops, [slot |-> j.slot, group |-> j.group, ready |-> j.ready,
                        base |-> j.base, orphan |-> orphan])

\* Drawing of a group planned `plan' into slot s, once `ready' signals.
JobFor(s, g, ready, plan) ==
    [slot |-> s, group |-> g, ready |-> ready,
     base |-> IF plan = "part" THEN Known(s) ELSE Nothing, op |-> 0]

-----------------------------------------------------------------------------
\* Validate: Test, then QueueMerge.

\* DropPendingMerge: cancel the queued drawing, forget its slot, give its turn
\* back.  An untouched group has no job.
DropPendingMerge ==
    IF pending_merge_ = NoPending
    THEN UNCHANGED <<queueVars, poolVars, slot_pictures_, pending_merge_>>
    ELSE /\ IF pending_merge_.id = 0 THEN UNCHANGED queueVars
                                     ELSE Cancel(pending_merge_.id)
         /\ slot_pictures_' = LostAt(pending_merge_.target)
         /\ Rewind
         /\ pending_merge_' = NoPending

\* Test of a plan carrying group g, which the controller accepts; QueueMerge
\* first gives up what an earlier validate queued.
Test(g) ==
    /\ fpc = "idle" /\ tests < MaxTests /\ Bounded
    /\ DropPendingMerge
    /\ group' = g /\ tests' = tests + 1
    /\ fpc' = IF g = NoGroup \/ Judge(merge_memory_, g) = "same" \/ ~UniformTurn(g)
              THEN "idle" ELSE "queue"
    /\ UNCHANGED <<memoryVars, resolved, how, frames, workerVars, ops, flips, hwVars>>

\* The last group may stand in for this one.
Droppable(g) ==
    /\ last_merge_fence_ # 0
    /\ Judge(merge_memory_, g) \in {"frame", "geometry", "blend"}

\* The rest of QueueMerge: a slot, what of it to draw, and the job.
QueueMerge ==
    /\ fpc = "queue"
    /\ LET s == After(at_)
           plan == Plan(s, group)
           d == Droppable(group)
           id == last_id_ + 1
       IN  /\ slot_pictures_' = LostAt(s)
           /\ IF plan = "unchanged"
              THEN /\ pending_merge_' = [id |-> 0, target |-> s, key |-> Remember(group),
                                         plan |-> plan, droppable |-> d]
                   /\ UNCHANGED <<queueVars, jobs>>
              ELSE /\ Queue(id, d)
                   /\ jobs' = [jobs EXCEPT ![id] = JobFor(s, group, freed_when[s], plan)]
                   /\ pending_merge_' = [id |-> id, target |-> s, key |-> Remember(group),
                                         plan |-> plan, droppable |-> d]
    /\ Next_
    /\ fpc' = "idle"
    /\ UNCHANGED <<memoryVars, group, resolved, how, tests, frames, wpc, wjob, wlast,
                   ops, flips, hwVars>>

-----------------------------------------------------------------------------
\* Present: Execute, from the group's recognition to the flip.

ForgetMerge == merge_memory_' = Nothing /\ UNCHANGED <<last_described, last_merge_fence_>>

\* No group this frame: what was queued is given up, what was remembered too.
ExecuteWithoutGroup ==
    /\ fpc = "idle" /\ frames < MaxFrames /\ Bounded
    /\ DropPendingMerge
    /\ ForgetMerge
    /\ fpc' = "flip" /\ how' = "empty" /\ group' = NoGroup /\ frames' = frames + 1
    /\ UNCHANGED <<lagged_last_, resolved, tests, workerVars, ops, flips, hwVars>>

\* RecognisesMerge, and whether validate queued this very group.
Execute(g) ==
    /\ fpc = "idle" /\ frames < MaxFrames /\ Bounded
    /\ LET same == Judge(merge_memory_, g) = "same"
           queued == /\ ~same /\ pending_merge_ # NoPending
                     /\ Judge(pending_merge_.key, g) = "same"
       IN  /\ fpc' = IF queued /\ pending_merge_.id # 0 THEN "resolve" ELSE "decide"
           /\ resolved' = IF queued THEN "untouched" ELSE "none"
    /\ group' = g /\ frames' = frames + 1
    /\ UNCHANGED <<queueVars, poolVars, memoryVars, pending_merge_, slot_pictures_,
                   how, tests, workerVars, ops, flips, hwVars>>

\* vic_jobs_.Resolve(id, !droppable).
ResolveAnswers(outcome) ==
    /\ fpc = "resolve" /\ FrameThread \notin sleeping
    /\ ResolveReturns(pending_merge_.id, ~pending_merge_.droppable, outcome)
    /\ resolved' = outcome /\ fpc' = "decide"
    /\ UNCHANGED <<poolVars, memoryVars, pending_merge_, slot_pictures_, group, how,
                   tests, frames, workerVars, ops, flips, hwVars>>

ResolveSleeps ==
    /\ fpc = "resolve" /\ FrameThread \notin sleeping
    /\ ResolveWaits(FrameThread, pending_merge_.id, ~pending_merge_.droppable)
    /\ UNCHANGED <<poolVars, memoryVars, pending_merge_, slot_pictures_, frameVars,
                   workerVars, ops, flips, hwVars>>

\* The group as last drawn but for a frame some client is still drawing.
Lag ==
    /\ Judge(merge_memory_, group) # "same" /\ ~lagged_last_ /\ last_merge_fence_ # 0
    /\ SameButFrames(merge_memory_, group)
    /\ group \in late

\* The last group drawn is shown again: the same, or a frame behind.
DecideToReuse ==
    /\ fpc = "decide"
    /\ \/ Judge(merge_memory_, group) = "same" \/ Lag \/ resolved = "dropped"
    /\ lagged_last_' = Lag
    /\ IF resolved = "dropped"
       THEN /\ pending_merge_' = NoPending
            /\ Rewind
            /\ UNCHANGED <<queueVars, slot_pictures_>>
       ELSE DropPendingMerge
    /\ how' = IF Judge(merge_memory_, group) = "same" THEN "same"
              ELSE IF Lag THEN "lag" ELSE "dropped"
    /\ fpc' = "flip"
    /\ UNCHANGED <<merge_memory_, last_described, last_merge_fence_, group, resolved,
                   tests, frames, workerVars, ops, flips, hwVars>>

\* It is drawn; what validate queued for another group is given up first.
DecideToDraw ==
    /\ fpc = "decide"
    /\ Judge(merge_memory_, group) # "same" /\ ~Lag /\ resolved # "dropped"
    /\ lagged_last_' = FALSE
    /\ IF resolved = "none" THEN DropPendingMerge
       ELSE UNCHANGED <<queueVars, poolVars, slot_pictures_, pending_merge_>>
    /\ fpc' = "draw"
    /\ UNCHANGED <<merge_memory_, last_described, last_merge_fence_, group, resolved, how,
                   tests, frames, workerVars, ops, flips, hwVars>>

\* The slot the group goes into, and how it is drawn there.
Target == IF resolved = "none" THEN After(at_) ELSE pending_merge_.target
TargetPlan == IF resolved = "none" THEN Plan(Target, group) ELSE pending_merge_.plan

\* The drawing is in slot Target, behind fence op: SlotPictures::Drawn and
\* RememberMerge.
DrawnInto(op) ==
    /\ slot_pictures_' = [slot_pictures_ EXCEPT ![Target] = [held |-> Remember(group), fence |-> op]]
    /\ merge_memory_' = Remember(group)
    /\ last_described' = [slot |-> Target, group |-> group]
    /\ last_merge_fence_' = op
    /\ pending_merge_' = NoPending
    /\ at_' = Target
    /\ how' = "drawn" /\ fpc' = "flip"
    /\ UNCHANGED <<showing_, freed_when, lagged_last_, group, resolved, tests, frames>>

\* Nothing was drawn: the turn is given back and the frame dropped.
NotDrawn ==
    /\ pending_merge_' = NoPending
    /\ slot_pictures_' = LostAt(Target)
    /\ at_' = Before(Target)
    /\ ForgetMerge
    /\ fpc' = "idle"
    /\ UNCHANGED <<showing_, freed_when, lagged_last_, group, resolved, how, tests, frames>>

\* A slot that already holds the picture is shown as it stands.
DrawUntouched ==
    /\ fpc = "draw" /\ UniformTurn(group)
    /\ TargetPlan = "unchanged"
    /\ DrawnInto(slot_pictures_[Target].fence)
    /\ UNCHANGED <<queueVars, workerVars, ops, flips, hwVars>>

\* The queued job's own outcome.
DrawQueued ==
    /\ fpc = "draw" /\ UniformTurn(group)
    /\ resolved \in {"submitted", "refused", "cancelled"}
    /\ IF resolved = "submitted" THEN DrawnInto(jobs[pending_merge_.id].op) ELSE NotDrawn
    /\ UNCHANGED <<queueVars, workerVars, ops, flips, hwVars>>

\* Nothing was queued: the binder thread hands the drawing to the engine.
DrawHere ==
    /\ fpc = "draw" /\ UniformTurn(group)
    /\ resolved = "none" /\ TargetPlan # "unchanged"
    /\ \/ /\ Compose(JobFor(Target, group, freed_when[Target], TargetPlan), FALSE)
          /\ DrawnInto(Len(ops) + 1)
       \/ NotDrawn /\ UNCHANGED ops
    /\ UNCHANGED <<queueVars, workerVars, flips, hwVars>>

\* A mixed seating is refused.
RefuseMixedTurn ==
    /\ fpc = "draw" /\ ~UniformTurn(group)
    /\ pending_merge_' = NoPending
    /\ at_' = Before(Target)
    /\ ForgetMerge
    /\ fpc' = "idle"
    /\ UNCHANGED <<queueVars, showing_, freed_when, slot_pictures_, lagged_last_, group,
                   resolved, how, tests, frames, workerVars, ops, flips, hwVars>>

\* head_.flip: the window shows the drawn slot, or the remembered one, or
\* nothing.
FlipOf ==
    [slot |-> IF how = "empty" THEN NoSlot ELSE last_described.slot,
     pre |-> IF how = "empty" THEN 0 ELSE last_merge_fence_,
     shows |-> IF how = "empty" THEN NoGroup ELSE last_described.group,
     want |-> group, how |-> how]

FlipLands ==
    /\ fpc = "flip"
    /\ flips' = Append(flips, FlipOf)
    /\ IF how = "drawn" THEN Presented(Len(flips) + 1) ELSE UNCHANGED poolVars
    /\ fpc' = "idle"
    /\ UNCHANGED <<queueVars, memoryVars, pending_merge_, slot_pictures_, group, resolved,
                   how, tests, frames, workerVars, ops, hwVars>>

\* The picture of a frame the controller refused stays remembered.
MutFlipFails ==
    /\ fpc = "flip"
    /\ IF how = "drawn" THEN Rewind /\ slot_pictures_' = LostAt(at_)
       ELSE UNCHANGED <<poolVars, slot_pictures_>>
    /\ fpc' = "idle"
    /\ UNCHANGED <<queueVars, memoryVars, pending_merge_, group, resolved, how, tests,
                   frames, workerVars, ops, flips, hwVars>>

\* The controller refuses the frame: a slot drawn for it is drawn again, and
\* the display's present forgets whatever was remembered (NoteFrameUnjudged).
FlipFails ==
    /\ fpc = "flip"
    /\ IF how = "drawn" THEN Rewind /\ slot_pictures_' = LostAt(at_)
       ELSE UNCHANGED <<poolVars, slot_pictures_>>
    /\ ForgetMerge
    /\ fpc' = "idle"
    /\ UNCHANGED <<queueVars, lagged_last_, pending_merge_, group, resolved, how, tests,
                   frames, workerVars, ops, flips, hwVars>>

\* A frame nobody judged: no layers, no composition, or the light refused.
NoteFrameUnjudged ==
    /\ fpc = "idle" /\ merge_memory_ # Nothing
    /\ ForgetMerge
    /\ UNCHANGED <<queueVars, poolVars, lagged_last_, pending_merge_, slot_pictures_,
                   frameVars, workerVars, ops, flips, hwVars>>

-----------------------------------------------------------------------------
\* VicWorkerLoop.  A job is taken only once the engine is done with the last.

WorkerTakes(id) ==
    /\ wpc = "take" /\ wlast <= done /\ VicThread \notin sleeping
    /\ TakeJob(id)
    /\ wpc' = "compose" /\ wjob' = id
    /\ UNCHANGED <<poolVars, memoryVars, pending_merge_, slot_pictures_, frameVars, wlast,
                   jobs, ops, flips, hwVars>>

WorkerSleeps ==
    /\ wpc = "take" /\ wlast <= done /\ VicThread \notin sleeping
    /\ TakeWait(VicThread)
    /\ UNCHANGED <<poolVars, memoryVars, pending_merge_, slot_pictures_, frameVars,
                   workerVars, ops, flips, hwVars>>

\* DrawMergeJob on the worker: the engine takes it or refuses it.
WorkerComposes(taken) ==
    /\ wpc = "compose"
    /\ LET op == IF taken THEN Len(ops) + 1 ELSE 0
       IN  jobs' = [jobs EXCEPT ![wjob].op = op] /\ wlast' = op
    /\ IF taken THEN Compose(jobs[wjob], cancelled[wjob]) ELSE UNCHANGED ops
    /\ wpc' = "done"
    /\ UNCHANGED <<queueVars, poolVars, memoryVars, pending_merge_, slot_pictures_,
                   frameVars, wjob, flips, hwVars>>

WorkerDone ==
    /\ wpc = "done"
    /\ Done(wjob, jobs[wjob].op # 0)
    /\ wpc' = "take" /\ wjob' = 0
    /\ UNCHANGED <<poolVars, memoryVars, pending_merge_, slot_pictures_, frameVars, wlast,
                   jobs, ops, flips, hwVars>>

-----------------------------------------------------------------------------
\* The hardware and the clients.

\* The engine's channel runs its drawings in order, each after its fences.
EngineDraws ==
    /\ done < Len(ops)
    /\ LET op == ops[done + 1]
           base == op.base
       IN  /\ op.ready <= latched /\ op.group \notin late
           /\ content' = [content EXCEPT ![op.slot] =
                  IF base = Nothing \/ content[op.slot] = [size |-> base.size,
                                                           members |-> base.members]
                  THEN op.group ELSE Torn]
           /\ spoiled' = IF op.orphan THEN spoiled \union {op.slot}
                         ELSE IF base = Nothing THEN spoiled \ {op.slot} ELSE spoiled
    /\ done' = done + 1
    /\ UNCHANGED <<queueVars, poolVars, memoryVars, pending_merge_, slot_pictures_,
                   frameVars, workerVars, ops, flips, latched, late>>

\* The panel takes the next flip once its window's drawing is done; the flip's
\* fence signals then.
PanelLatches ==
    /\ latched < Len(flips)
    /\ flips[latched + 1].pre <= done
    /\ latched' = latched + 1
    /\ UNCHANGED <<queueVars, poolVars, memoryVars, pending_merge_, slot_pictures_,
                   frameVars, workerVars, ops, flips, done, content, late, spoiled>>

ClientFinishes(g) ==
    /\ g \in late
    /\ late' = late \ {g}
    /\ UNCHANGED <<queueVars, poolVars, memoryVars, pending_merge_, slot_pictures_,
                   frameVars, workerVars, ops, flips, done, content, latched, spoiled>>

ResolveNext == (\E o \in States \union {"cancelled"} : ResolveAnswers(o)) \/ ResolveSleeps

ExecuteNext ==
    \/ DecideToReuse \/ DecideToDraw
    \/ DrawUntouched \/ DrawQueued \/ DrawHere \/ RefuseMixedTurn
    \/ FlipLands \/ FlipFails

WorkerNext ==
    \/ \E id \in Ids : WorkerTakes(id)
    \/ WorkerSleeps
    \/ \E taken \in BOOLEAN : WorkerComposes(taken)
    \/ WorkerDone

Next ==
    \/ \E g \in Groups \union {NoGroup} : Test(g)
    \/ QueueMerge
    \/ ExecuteWithoutGroup
    \/ \E g \in Groups : Execute(g)
    \/ ResolveNext
    \/ ExecuteNext
    \/ NoteFrameUnjudged
    \/ WorkerNext
    \/ EngineDraws
    \/ PanelLatches
    \/ \E g \in Groups : ClientFinishes(g)

Spec == Init /\ [][Next]_vars

\* The worker and the frame thread are scheduled, the engine and the panel run,
\* and a client that began a frame finishes it.
FairSpec ==
    /\ Spec
    /\ WF_vars(WorkerNext) /\ WF_vars(ResolveNext) /\ WF_vars(ExecuteNext)
    /\ WF_vars(QueueMerge) /\ WF_vars(EngineDraws) /\ WF_vars(PanelLatches)
    /\ \A g \in Groups : WF_vars(ClientFinishes(g))

-----------------------------------------------------------------------------
TypeOK ==
    /\ QueueTypeOK
    /\ at_ \in Slots /\ showing_ \in Slots \union {NoSlot}
    /\ freed_when \in [Slots -> 0..MaxFrames]
    /\ last_merge_fence_ \in 0..Len(ops) /\ lagged_last_ \in BOOLEAN
    /\ pending_merge_.id \in 0..last_id_
    /\ fpc \in {"idle", "queue", "resolve", "decide", "draw", "flip"}
    /\ wpc \in {"take", "compose", "done"} /\ wjob \in 0..last_id_
    /\ done \in 0..Len(ops) /\ latched \in 0..Len(flips)
    /\ late \subseteq Groups /\ spoiled \subseteq Slots

\* The flip on the panel.
OnPanel == flips[latched]

\* What the panel shows is the picture the frame meant, for as long as it is up
\* and however the worker, the binder thread, the engine and the panel
\* interleave: the slot holds what the flip's description says -- unless a
\* given-up drawing was let loose on it: DropPendingMerge says that one under way
\* "runs to its end into a slot that is then never shown", but gives the slot's
\* turn back, and the very next drawing is put into it.
ShownIsTrue ==
    latched > 0 /\ OnPanel.slot # NoSlot /\ OnPanel.slot \notin spoiled
        => content[OnPanel.slot] = OnPanel.shows

\* What a flip shows is the frame's own group; or, a frame behind while a
\* client is late, the same members in the same places.  A group remembered
\* past a frame that drew something else, or past a refusal, would break it.
ShownIsAsked ==
    \A k \in 1..Len(flips) :
        /\ flips[k].how \in {"same", "drawn"} => flips[k].shows = flips[k].want
        /\ flips[k].how = "lag" => SameButFrames(Remember(flips[k].shows), flips[k].want)

\* The panel shows the picture meant, and the picture meant is the one asked for.
MergeIsTrue == ShownIsTrue /\ ShownIsAsked

\* The pool's turn moves once for each drawing shown and not otherwise: it
\* stands on the slot on the panel, one further while a drawing is pending.
\* A turn lost or given back twice walks the rotation onto the slot the
\* display is reading.
PoolInStep ==
    LET base == IF showing_ = NoSlot THEN 0 ELSE showing_
        ahead == pending_merge_ # NoPending \/ (fpc = "flip" /\ how = "drawn")
    IN  at_ = IF ahead THEN After(base) ELSE base

\* No drawing that anyone still wants is written into the slot the panel is
\* scanning out.
NeverWritesUnderScan ==
    [][done' # done /\ latched > 0 /\ ~ops[done + 1].orphan
        => ops[done + 1].slot # OnPanel.slot]_vars

\* Every frame the controller took reaches the panel: the engine's wait for a
\* slot to be free and the panel's wait for the engine never close a circle.
EveryFlipLands == \A k \in 1..MaxFrames : Len(flips) >= k ~> latched >= k

\* A present always comes back from the worker.
ExecuteReturns == fpc # "idle" ~> fpc = "idle"
=============================================================================
