------------------------------ MODULE GpuSeat ------------------------------
(***************************************************************************)
(* The composer's own GPU in place of the client: HwcDisplay's             *)
(* BeginClientOnGpu and DrawClientOnGpu, the executor and its three        *)
(* buffers (tegra/GpuExecutor), what each buffer holds (PartialRedraw) and *)
(* the memory of the last picture (PictureMemory).                         *)
(*                                                                         *)
(* The scene is a row of Size pixels.  A pixel of a picture is the         *)
(* sequence, bottom first, of the layers that land on it: which layer,     *)
(* the hand-overs its texels were last changed by, and its turn.  The      *)
(* buffers hold such pixels, so a stale part of a buffer is told from a    *)
(* fresh one.                                                              *)
(*                                                                         *)
(* The library's thread takes a drawing when the GPU is done with the one  *)
(* before (VkThread), or at once if that one was refused, which leaves no  *)
(* fence to look at; the GPU draws what it is given in turn, each drawing  *)
(* once its target's fence is due.  The panel scans one buffer, at most    *)
(* one flip is in the air (WaitLastFrame before a post), and it lands once *)
(* its drawing is done.                                                    *)
(***************************************************************************)
EXTENDS PartialRedraw, PictureMemory

CONSTANTS Layers,         \* serials of the layers, bottom first in order
          Size,           \* the width of the screen
          Texels,         \* the width of a layer's buffer
          Places,         \* the [src, dst] a layer may have; dst empty: not in the range
          Turns,          \* the turns by an angle a layer may have, 0 for none
          Damages,        \* the damage a client may send with a buffer
          MaxEdits,       \* bound: what the client changes in a behaviour
          MaxFrames,      \* bound: frames validated
          MaxUpsets       \* bound: those changes, and the drawings and commits refused

ASSUME SeatAssumption ==
    /\ Layers \subseteq Nat \ {0} /\ Size \in Nat \ {0} /\ Texels \in Nat \ {0}
    /\ 0 \in Turns /\ MaxEdits \in Nat /\ MaxFrames \in Nat /\ MaxUpsets \in Nat

VARIABLES scene,      \* [serial -> its content, place, damage]
          phase,      \* "client" or "validated": whose move it is
          draws,      \* validated_composition_->gpu_draws_client
          begun, reuse, keep,          \* gpu_begun_, gpu_reuse_, gpu_keep_
          plan, pending, next_bounds,  \* gpu_plan_, gpu_pending_, gpu_next_bounds_
          shown_bounds, fenced,        \* gpu_shown_bounds_, gpu_drawn_fence_ is set
          history, held, memory,       \* gpu_slots_ and gpu_memory_
          at, showing, freed, begun_at,\* GpuExecutor: at_, showing_, freed_when, begun_at_
          job,        \* the drawing queued or the verdict on the one begun
          running,    \* the drawings submitted to the GPU, in order
          pixels, drawn_once,          \* what the buffers hold; Image::drawn
          seat,       \* client_layer_: the buffer in the client target's place
          panel, air, \* what is scanned, and the flip posted
          last,       \* the picture last drawn, kept or reused
          edits, frames, refusals,
          commits_refused \* since the panel took up the buffer Presented was told of

displayVars == <<draws, begun, reuse, keep, plan, pending, next_bounds,
                 shown_bounds, fenced, history, held, memory>>
executorVars == <<at, showing, freed, begun_at>>
gpuVars == <<job, running, pixels, drawn_once>>
panelVars == <<seat, panel, air, last>>
counters == <<edits, frames, refusals, commits_refused>>
vars == <<scene, phase, displayVars, executorVars, gpuVars, panelVars, counters>>

Slots == 0..2
Screen == 0..(Size - 1)
NoJob == [state |-> "none"]
NoSeat == [slot |-> -1, bounds |-> <<0, 0>>, picture |-> <<>>]
Engine == [draws_scaled_in_part |-> TRUE, draws_many_parts |-> TRUE,
           draws_empty_part |-> TRUE]

(***************************************************************************)
(* The scene and its picture.                                              *)
(***************************************************************************)
\* The layers of the client range, bottom first.
RangeOf(sc) == SetToSortSeq({s \in Layers : ~Empty(sc[s].place.dst)}, <)

\* The texels a bilinear read of pixel p takes.
Reads(m, p) ==
    LET dw == Width(m.dst)
        n == 2 * dw * m.src[1] + (2 * (p - m.dst[1]) + 1) * Width(m.src) - dw
        clamp(t) == Least(Most(t, m.src[1]), m.src[2] - 1)
    IN  {clamp(n \div (2 * dw)),
         clamp(IF n % (2 * dw) = 0 THEN n \div (2 * dw) ELSE n \div (2 * dw) + 1)}

Picture(sc) ==
    LET range == RangeOf(sc)
    IN  [p \in Screen |->
            LET on == SelectSeq(range, LAMBDA s : p \in Pixels(sc[s].place.dst))
            IN  [k \in DOMAIN on |->
                    <<on[k], {sc[on[k]].content[t] : t \in Reads(sc[on[k]].place, p)},
                      sc[on[k]].turned>>]]

\* GpuMember() of ToVkLayer(): a layer as the memories take it.
Member(sc, s) ==
    [serial |-> s, source |-> s, generation |-> sc[s].generation,
     src |-> sc[s].place.src, dst |-> sc[s].place.dst, blend |-> 0,
     transform |-> 0, turned |-> sc[s].turned]
Members(sc) == LET range == RangeOf(sc) IN [k \in DOMAIN range |-> Member(sc, range[k])]

\* The members as PictureMemory compares them.
AsGroup(members) ==
    [size |-> Size,
     members |-> [k \in DOMAIN members |->
        [serial |-> members[k].serial, source |-> members[k].source,
         generation |-> members[k].generation,
         place |-> <<members[k].src, members[k].dst>>, blend |-> members[k].blend,
         transform |-> <<members[k].transform, members[k].turned>>]]]

(***************************************************************************)
(* The client.                                                             *)
(***************************************************************************)
Touch ==
    /\ phase = "client" /\ edits < MaxEdits /\ edits + refusals < MaxUpsets
    /\ edits' = edits + 1

Changed(s, damage) ==
    IF damage = <<>> THEN 0..(Texels - 1) ELSE UNION {Pixels(r) : r \in Range(damage)}

\* A buffer handed over, with the damage to the one before it, told truly.
HandOver(s, damage) ==
    /\ Touch
    /\ scene' = [scene EXCEPT ![s].generation = @ + 1, ![s].damage = damage,
                    ![s].content = [t \in DOMAIN @ |->
                        IF t \in Changed(s, damage) THEN scene[s].generation + 1 ELSE @[t]]]
    /\ UNCHANGED <<phase, displayVars, executorVars, gpuVars, panelVars,
                   frames, refusals, commits_refused>>

\* A layer moved, resized, put in or taken out of the range, or turned.
Arrange(s, place, turned) ==
    /\ Touch
    /\ <<place, turned>> # <<scene[s].place, scene[s].turned>>
    /\ scene' = [scene EXCEPT ![s].place = place, ![s].turned = turned]
    /\ UNCHANGED <<phase, displayVars, executorVars, gpuVars, panelVars,
                   frames, refusals, commits_refused>>

(***************************************************************************)
(* BeginClientOnGpu(), called by the validation.                           *)
(***************************************************************************)
NextSlot == (at + 1) % 3

BoundsOf(members) ==
    LET on == SelectSeq([k \in DOMAIN members |-> members[k].dst],
                        LAMBDA d : ~Empty(d))
    IN  IF on = <<>> THEN <<0, 0>>
        ELSE <<Most(Bounds(on)[1], 0), Least(Bounds(on)[2], Size)>>

\* The parts the executor is given: the plan's, or the range's own part of a
\* buffer nothing is known of.
PartsFor(p, bounds) ==
    IF p.parts # <<>> THEN p.parts ELSE IF ~Empty(bounds) THEN <<bounds>> ELSE <<>>

\* Lost() for the buffer of a drawing begun and not finished.
ForgetPending(h) == IF begun_at # -1 THEN [h EXCEPT ![NextSlot] = Lost(@)] ELSE h

\* A job taken is the last the GPU was given, if it still draws it.
GiveUp(runs) ==
    IF runs = <<>> THEN runs ELSE [runs EXCEPT ![Len(runs)].given_up = TRUE]

\* GpuExecutor::Begin drops the drawing begun before: still queued, it is taken
\* back; taken by the thread, it runs to its end into a buffer not shown.
BeginClientOnGpu(members, hist) ==
    LET same == Judge(memory, AsGroup(members)) = "same"
        known == ForgetPending(held)
        decided == Decide(known[NextSlot], Size, members, hist, Engine)
    IN  /\ history' = hist
        /\ next_bounds' = BoundsOf(members)
        /\ IF same
           THEN /\ reuse' = TRUE /\ keep' = FALSE /\ begun' = FALSE
                /\ UNCHANGED <<held, plan, pending, job, running, begun_at>>
           ELSE /\ held' = known /\ plan' = decided /\ pending' = members
                /\ reuse' = FALSE
                /\ IF decided.kind = "unchanged"
                   THEN /\ keep' = TRUE /\ begun' = FALSE
                        /\ UNCHANGED <<job, running, begun_at>>
                   ELSE /\ keep' = FALSE /\ begun' = TRUE /\ begun_at' = NextSlot
                        /\ running' = IF job.state = "taken" THEN GiveUp(running) ELSE running
                        /\ job' = [state |-> "queued", slot |-> NextSlot,
                                   parts |-> PartsFor(decided, next_bounds'),
                                   picture |-> Picture(scene), ready |-> freed[NextSlot],
                                   droppable |-> fenced]

\* Every member's frame and its damage, recorded before deciding.
Recorded(members) ==
    FoldLeft(LAMBDA h, m : Record(h, m.serial, m.generation, scene[m.serial].damage),
             history, members)

\* ValidateStagedComposition(): what was begun for a frame never presented is
\* this one's no more; the plan leaves layers for the GPU to draw, or none.
ValidateForGpu ==
    /\ phase = "client" /\ frames < MaxFrames /\ Members(scene) # <<>>
    /\ phase' = "validated" /\ draws' = TRUE /\ frames' = frames + 1
    /\ BeginClientOnGpu(Members(scene), Recorded(Members(scene)))
    /\ UNCHANGED <<scene, shown_bounds, fenced, memory, at, showing, freed,
                   pixels, drawn_once, panelVars, edits, refusals, commits_refused>>

ValidateWithout ==
    /\ phase = "client" /\ frames < MaxFrames
    /\ phase' = "validated" /\ draws' = FALSE /\ begun' = FALSE /\ reuse' = FALSE
    /\ frames' = frames + 1
    /\ UNCHANGED <<scene, keep, plan, pending, next_bounds, shown_bounds, fenced, history,
                   held, memory, executorVars, gpuVars, panelVars, edits, refusals,
                   commits_refused>>

\* The client validates again without having presented.
ValidatedInVain ==
    /\ phase = "validated" /\ phase' = "client"
    /\ UNCHANGED <<scene, displayVars, executorVars, gpuVars, panelVars, counters>>

(***************************************************************************)
(* The library's thread and the GPU.                                       *)
(***************************************************************************)
\* What the GPU is given of a job.  Nobody waits for one the library refused.
Run(j, refused) ==
    [slot |-> j.slot, parts |-> j.parts, picture |-> j.picture, ready |-> j.ready,
     given_up |-> refused, refused |-> refused]

\* RunJob() takes a job when last_drawn_ is due or is none: the drawing before is
\* done, or it was refused.
MayTake == job.state = "queued" /\ (running # <<>> => running[Len(running)].refused)

Take ==
    /\ MayTake
    /\ running' = Append(running, Run(job, FALSE))
    /\ job' = [state |-> "taken"]
    /\ UNCHANGED <<scene, phase, displayVars, executorVars, pixels, drawn_once, panelVars,
                   counters>>

\* Refused: before anything was submitted, or after.
Refuse(written) ==
    /\ MayTake /\ edits + refusals < MaxUpsets
    /\ running' = IF written THEN Append(running, Run(job, TRUE)) ELSE running
    /\ job' = [state |-> "refused"]
    /\ refusals' = refusals + 1
    /\ UNCHANGED <<scene, phase, displayVars, executorVars, pixels, drawn_once, panelVars,
                   edits, frames, commits_refused>>

Written(r) ==
    IF drawn_once[r.slot] /\ r.parts # <<>>
    THEN UNION {Pixels(part) : part \in Range(r.parts)} ELSE Screen

\* The GPU draws in the order of its queue, each drawing once its target is free.
Draw ==
    /\ running # <<>> /\ ~Head(running).ready
    /\ LET r == Head(running)
       IN  /\ pixels' = [pixels EXCEPT ![r.slot] =
                            [p \in Screen |-> IF p \in Written(r) THEN r.picture[p] ELSE @[p]]]
           /\ drawn_once' = [drawn_once EXCEPT ![r.slot] = TRUE]
    /\ running' = Tail(running)
    /\ UNCHANGED <<scene, phase, displayVars, executorVars, job, panelVars, counters>>

(***************************************************************************)
(* DrawClientOnGpu() and the commit.                                       *)
(***************************************************************************)
Seat(slot, bounds, picture) ==
    [slot |-> slot, bounds |-> IF Empty(bounds) THEN <<0, Size>> ELSE bounds,
     picture |-> picture]

\* A refused commit forgets the picture last drawn.
Memory(taken, picture) == memory' = IF taken THEN picture ELSE Nothing

\* The picture the executor last drew, wanted again.
DrawReused(taken) ==
    /\ draws /\ reuse
    /\ reuse' = FALSE /\ begun' = FALSE /\ shown_bounds' = next_bounds
    /\ Memory(taken, memory)
    /\ seat' = Seat(at, next_bounds, Picture(scene)) /\ last' = Picture(scene)
    /\ UNCHANGED <<draws, keep, plan, pending, next_bounds, fenced, history, held,
                   at, begun_at, job>>

\* Keep(): the next buffer takes its turn undrawn.  Finish(): the fence of the
\* drawing, and the buffer's turn is taken.
DrawNew(taken) ==
    /\ draws /\ ~reuse /\ (keep \/ (begun /\ job.state = "taken"))
    /\ begun' = FALSE /\ keep' = FALSE
    /\ at' = NextSlot /\ begun_at' = -1
    /\ job' = NoJob
    /\ held' = [held EXCEPT ![NextSlot] = Drawn(@, Size, pending, plan, TRUE)]
    /\ Memory(taken, Remember(AsGroup(pending))) /\ pending' = <<>>
    /\ fenced' = TRUE /\ shown_bounds' = next_bounds
    /\ seat' = Seat(NextSlot, next_bounds, Picture(scene)) /\ last' = Picture(scene)
    /\ UNCHANGED <<draws, reuse, plan, next_bounds, history>>

\* Still queued when its frame goes up: dropped, the last picture goes up again.
DrawDropped(taken) ==
    /\ draws /\ ~reuse /\ ~keep /\ begun /\ job.state = "queued" /\ job.droppable
    /\ begun' = FALSE /\ begun_at' = -1 /\ job' = NoJob /\ pending' = <<>>
    /\ Memory(taken, memory)
    /\ seat' = Seat(at, shown_bounds, last)
    /\ UNCHANGED <<draws, reuse, keep, plan, next_bounds, shown_bounds, fenced, history,
                   held, at, last>>

\* Refused: what the buffer holds is not known, what was seated stays.
DrawRefused(taken) ==
    /\ draws /\ ~reuse /\ ~keep /\ begun /\ job.state = "refused"
    /\ begun' = FALSE /\ begun_at' = -1 /\ job' = NoJob
    /\ memory' = Nothing /\ held' = [held EXCEPT ![NextSlot] = Lost(@)]
    /\ UNCHANGED <<draws, reuse, keep, plan, pending, next_bounds, shown_bounds, fenced,
                   history, at, seat, last>>

\* The client composed: its own target is seated.
DrawNothing(taken) ==
    /\ ~draws /\ begun' = FALSE /\ memory' = Nothing /\ seat' = NoSeat
    /\ UNCHANGED <<draws, reuse, keep, plan, pending, next_bounds, shown_bounds, fenced,
                   history, held, at, begun_at, job, last>>

\* The buffer on screen is not marked as freed by the frame that replaces it.
MutPresented(slot) == [freed EXCEPT ![slot] = FALSE]

\* GpuExecutor::Presented(): the buffer on screen is free when this frame's
\* flip lands; this frame's own buffer is answered by the frame after it.
Presented(slot) ==
    [s \in Slots |-> IF s = slot THEN FALSE ELSE IF s = showing THEN TRUE ELSE freed[s]]

\* A present is a drawing collected and a commit, taken or refused, once the
\* flip before has landed (WaitLastFrame).
Post(drew) ==
    /\ air' = <<seat'>> /\ UNCHANGED <<refusals, commits_refused>>
    /\ IF drew THEN freed' = Presented(at') /\ showing' = at'
               ELSE UNCHANGED <<freed, showing>>

CommitRefused ==
    /\ edits + refusals < MaxUpsets /\ refusals' = refusals + 1
    /\ commits_refused' = commits_refused + 1
    /\ UNCHANGED <<air, freed, showing>>

Present ==
    /\ phase = "validated" /\ air = <<>>
    /\ phase' = "client"
    /\ UNCHANGED <<scene, running, pixels, drawn_once, panel, edits, frames>>

PresentTaken ==
    /\ Present
    /\ \/ (DrawReused(TRUE) \/ DrawNew(TRUE) \/ DrawDropped(TRUE)) /\ Post(TRUE)
       \/ (DrawRefused(TRUE) \/ DrawNothing(TRUE)) /\ Post(FALSE)

\* A commit refused: nothing turns the buffers back.
PresentRefused ==
    /\ Present /\ CommitRefused
    /\ \/ DrawReused(FALSE) \/ DrawNew(FALSE) \/ DrawDropped(FALSE)
       \/ DrawRefused(FALSE) \/ DrawNothing(FALSE)

\* The flip lands once the drawing it waits for is done, and what it replaced
\* is free.
Land ==
    /\ air # <<>>
    /\ ~\E k \in DOMAIN running : ~running[k].given_up /\ running[k].slot = air[1].slot
    /\ panel' = air[1] /\ air' = <<>>
    /\ freed' = [s \in Slots |-> FALSE]
    /\ running' = [k \in DOMAIN running |-> [running[k] EXCEPT !.ready = FALSE]]
    /\ job' = IF job.state = "queued" THEN [job EXCEPT !.ready = FALSE] ELSE job
    /\ commits_refused' = IF air[1].slot = showing THEN 0 ELSE commits_refused
    /\ UNCHANGED <<scene, phase, displayVars, at, showing, begun_at, pixels, drawn_once,
                   seat, last, edits, frames, refusals>>

(***************************************************************************)
(* The specification.                                                      *)
(***************************************************************************)
Init ==
    /\ scene = [s \in Layers |->
                  [generation |-> 1, damage |-> <<>>, turned |-> 0,
                   place |-> CHOOSE p \in Places : ~Empty(p.dst),
                   content |-> [t \in 0..(Texels - 1) |-> 1]]]
    /\ phase = "client" /\ draws = FALSE
    /\ begun = FALSE /\ reuse = FALSE /\ keep = FALSE
    /\ plan = Plan("full", <<>>) /\ pending = <<>>
    /\ next_bounds = <<0, 0>> /\ shown_bounds = <<0, 0>> /\ fenced = FALSE
    /\ history = NoHistory /\ held = [s \in Slots |-> NothingHeld] /\ memory = Nothing
    /\ at = 0 /\ showing = -1 /\ freed = [s \in Slots |-> FALSE] /\ begun_at = -1
    /\ job = NoJob /\ running = <<>>
    /\ pixels = [s \in Slots |-> [p \in Screen |-> <<>>]]
    /\ drawn_once = [s \in Slots |-> FALSE]
    /\ seat = NoSeat /\ panel = NoSeat /\ air = <<>>
    /\ last = [p \in Screen |-> <<>>]
    /\ edits = 0 /\ frames = 0 /\ refusals = 0 /\ commits_refused = 0

Next ==
    \/ \E s \in Layers, d \in Damages : HandOver(s, d)
    \/ \E s \in Layers, p \in Places, t \in Turns : Arrange(s, p, t)
    \/ ValidateForGpu \/ ValidateWithout \/ ValidatedInVain
    \/ Take \/ (\E w \in BOOLEAN : Refuse(w)) \/ Draw
    \/ PresentTaken \/ PresentRefused \/ Land

Spec == Init /\ [][Next]_vars

(***************************************************************************)
(* Properties.                                                             *)
(***************************************************************************)
\* The ring fell behind: two commits were refused since the panel took up the
\* buffer Presented was told of, and nothing turns at_ back.
RingIsBehind == commits_refused >= 2

\* The GPU writes the buffer the panel scans only while the ring is behind, so
\* never after the panel took up again what Presented was told of, however many
\* commits were refused before; and it writes the buffer a posted flip is about to
\* show only if the flip waits for that drawing, or for one that follows it.  The
\* rotation of GpuExecutor::Begin and Keep against the fences of Presented.
NeverDrawnUnderScan ==
    [][\A s \in Slots : pixels'[s] # pixels[s] =>
          /\ panel.slot = s => RingIsBehind
          /\ air # <<>> /\ air[1].slot = s =>
                \E k \in DOMAIN running : ~running[k].given_up /\ running[k].slot = s]_vars

\* Wherever a layer of the picture asked for lands, the panel shows it as it
\* was handed over -- whether the buffer was drawn whole, in part, kept, or
\* shown once more -- unless the ring is behind.
PanelIsTrue ==
    panel.slot # -1 /\ ~RingIsBehind =>
        \A p \in Pixels(panel.bounds) :
            panel.picture[p] # <<>> => pixels[panel.slot][p] = panel.picture[p]
=============================================================================
