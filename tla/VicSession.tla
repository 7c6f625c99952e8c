----------------------------- MODULE VicSession -----------------------------
(***************************************************************************)
(* tegra/VicSession: the image engine's session, called from two threads.  *)
(* The worker draws a merge group, whole or part by part (DrawMergeJob);   *)
(* the copier stages a sprite or warms the engine (CopyLayer) and cuts     *)
(* buffers from the zone (AllocateZoneTarget).                             *)
(*                                                                         *)
(* A job is [kind, target, layers, w, h, bits, parts, ready]; a member     *)
(* [id, source, display, fence].  parts is empty for a whole drawing; a    *)
(* fence is -1 for none.  A pixel of a buffer is the sequence of what was  *)
(* blended into it, bottom first.                                          *)
(***************************************************************************)
EXTENDS Occlusion

CONSTANTS
    EngineJobs,      \* job -> record, of the worker
    CopyJobs,        \* of the copier
    Asks,            \* what is asked of the zone: <<width, height, grain>>
    BufferSize,      \* target -> <<width, height>>
    Points,          \* fence -> how many points it names
    kMostMembers,    \* VicSession::kMaxLayers
    kSaneWaits,
    MaxCalls,        \* bound, thread -> its jobs and asks
    MaxDenials       \* bound: calls the libraries and the kernel refuse

VARIABLES
    session,   \* "closed", "device", "open", "gone": what Open got to
    holder,    \* the thread in library_mutex_, "none"
    at,        \* thread -> where it is in its call
    job,       \* thread -> the job, NoJob
    passes,    \* thread -> the parts still to draw, NoRect for the whole
    config,    \* config_: what the library was told, shared
    waits,     \* thread -> the fences handed to the engine with this call
    pictures,  \* target -> pixel -> what it holds
    before,    \* thread -> the target as its job found it
    outcome,   \* thread -> of its last job: "none", "fence", "refused"
    zone,      \* [nvmap, handles, fds, maps, ask, buffers]
    calls, denials

vicVars == <<session, holder, at, job, passes, config, waits, pictures, before, outcome, zone,
             calls, denials>>

Threads == {"worker", "copier"}
NoJob == [kind |-> "none"]
NoConfig == [rect |-> NoRect, extent |-> <<0, 0>>, seats |-> <<>>, code |-> 0, target |-> "none"]
PixelsOf(b) == Covers(Rect(0, 0, BufferSize[b][1], BufferSize[b][2]))

Init ==
    /\ session = "closed" /\ holder = "none"
    /\ at = [t \in Threads |-> "idle"]
    /\ job = [t \in Threads |-> NoJob] /\ passes = [t \in Threads |-> <<>>]
    /\ config = NoConfig /\ waits = [t \in Threads |-> {}]
    /\ pictures = [b \in DOMAIN BufferSize |-> [p \in PixelsOf(b) |-> <<<<"old", {}>>>>]]
    /\ before = [t \in Threads |-> <<>>]
    /\ outcome = [t \in Threads |-> "none"]
    /\ zone = [nvmap |-> FALSE, handles |-> 0, fds |-> 0, maps |-> 0, ask |-> <<>>, buffers |-> <<>>]
    /\ calls = [t \in Threads |-> 0] /\ denials = 0

Denied == denials < MaxDenials /\ denials' = denials + 1

-----------------------------------------------------------------------------
(* The session.                                                             *)

\* The libraries are opened, the entry points resolved and the device
\* opened, or the object goes with what it has.
OpenDevice ==
    /\ session = "closed"
    /\ \/ session' = "device" /\ UNCHANGED denials
       \/ session' = "gone" /\ Denied
    /\ UNCHANGED <<holder, at, job, passes, config, waits, pictures, before, outcome, zone, calls>>

CreateSession ==
    /\ session = "device"
    /\ \/ session' = "open" /\ UNCHANGED denials
       \/ session' = "gone" /\ Denied
    /\ UNCHANGED <<holder, at, job, passes, config, waits, pictures, before, outcome, zone, calls>>

\* The destructor, once both threads have stopped: the session, then the
\* device, then nvmap.
Destroy ==
    /\ session = "open" /\ \A t \in Threads : at[t] = "idle"
    /\ session' = "gone"
    /\ zone' = [zone EXCEPT !.nvmap = FALSE]
    /\ UNCHANGED <<holder, at, job, passes, config, waits, pictures, before, outcome, calls, denials>>

-----------------------------------------------------------------------------
(* What a call describes.                                                   *)

VicTransformFor(bits) == LET rows == <<0, 1, 2, 3, 6, 7, 4, 5>> IN rows[bits + 1]
Bit(code, b) == (code \div b) % 2 = 1

MirrorRectWithin(r, x, y, w, h) ==
    Rect(IF x THEN w - r.right ELSE r.left, IF y THEN h - r.bottom ELSE r.top,
         IF x THEN w - r.left ELSE r.right, IF y THEN h - r.top ELSE r.bottom)

\* The engine mirrors where a member lands by its own bits, so the place is
\* mirrored beforehand, within the group's extents.
Placed(r, code, w, h) == MirrorRectWithin(r, Bit(code, 2), Bit(code, 1), w, h)

\* The region asked for, clamped to the buffer.
Clamped(asked, most) == IF asked = 0 \/ asked > most THEN most ELSE asked
W(j) == Clamped(j.w, BufferSize[j.target][1])
H(j) == Clamped(j.h, BufferSize[j.target][2])
Code(j) == VicTransformFor(j.bits)
Bounded(j, part) == part # NoRect /\ Code(j) = 0
Bound(j, part) ==
    IF Bounded(j, part) THEN Intersect(part, Rect(0, 0, W(j), H(j))) ELSE Rect(0, 0, W(j), H(j))

ScaledMember(l) == WidthOf(l.source) # WidthOf(l.display) \/ HeightOf(l.source) # HeightOf(l.display)

ClipTo(bound, read, lands) ==
    LET in == Intersect(lands, bound) IN
    [lands |-> in,
     read  |-> Rect(read.left + in.left - lands.left, read.top + in.top - lands.top,
                    read.right - (lands.right - in.right), read.bottom - (lands.bottom - in.bottom))]

\* Only a member read at its own size is cut to the part.
CutToPart(l) == ~ScaledMember(l)

Meets(j, part, l) ==
    Bounded(j, part) => ~EmptyRect(Intersect(Placed(l.display, Code(j), W(j), H(j)), Bound(j, part)))
Described(j, part, l) ==
    LET lands == Placed(l.display, Code(j), W(j), H(j)) IN
    [id |-> l.id] @@
    (IF Bounded(j, part) /\ CutToPart(l) THEN ClipTo(Bound(j, part), l.source, lands)
     ELSE [read |-> l.source, lands |-> lands])

-----------------------------------------------------------------------------
(* One call, under the lock.                                                *)

PassEnds(t, end) ==
    /\ holder' = "none"
    /\ waits' = [waits EXCEPT ![t] = {}]
    /\ at' = [at EXCEPT ![t] = IF end = "more" THEN "next" ELSE "idle"]
    /\ outcome' = [outcome EXCEPT ![t] = IF end = "more" THEN "none" ELSE end]

\* A pass is refused: a part of a group is drawn whole instead, and
\* anything else is given up.
Refuse(t) ==
    /\ IF job[t].kind = "merge" /\ Head(passes[t]) # NoRect
       THEN passes' = [passes EXCEPT ![t] = <<NoRect>>] /\ PassEnds(t, "more")
       ELSE passes' = [passes EXCEPT ![t] = <<>>] /\ PassEnds(t, "refused")
    /\ UNCHANGED <<session, job, config, pictures, before, zone, calls>>

Begin(t, j) ==
    /\ session = "open" /\ at[t] = "idle" /\ calls[t] < MaxCalls[t]
    /\ calls' = [calls EXCEPT ![t] = @ + 1]
    /\ job' = [job EXCEPT ![t] = j]
    /\ passes' = [passes EXCEPT ![t] = IF j.parts = <<>> THEN <<NoRect>> ELSE j.parts]
    /\ before' = [before EXCEPT ![t] = pictures[j.target]]
    /\ outcome' = [outcome EXCEPT ![t] = "none"]
    /\ at' = [at EXCEPT ![t] = "next"]
    /\ UNCHANGED <<session, holder, config, waits, pictures, zone, denials>>

\* What a call is refused for before the engine is asked anything.
UnfitCopy(j) == j.w = 0 \/ j.h = 0 \/ j.w > BufferSize[j.target][1] \/ j.h > BufferSize[j.target][2]
Unfit(j, part) ==
    IF j.kind = "merge"
    THEN Len(j.layers) = 0 \/ Len(j.layers) > kMostMembers \/ EmptyRect(Bound(j, part))
    ELSE UnfitCopy(j)

MayEnter(t) == holder = "none"

Enter(t) ==
    /\ at[t] = "next" /\ MayEnter(t)
    /\ holder' = t
    /\ at' = [at EXCEPT ![t] = IF Unfit(job[t], Head(passes[t])) THEN "unfit" ELSE "target"]
    /\ UNCHANGED <<session, job, passes, config, waits, pictures, before, outcome, zone, calls, denials>>

TurnedAway(t) == at[t] = "unfit" /\ Refuse(t) /\ UNCHANGED denials

\* The settings go back to zero before they are described again.
Zeroed(c) == NoConfig

\* A fence is read in two calls: what it names, then each of its points.
Unreadable(f) == f # -1 /\ Points[f] > kSaneWaits
WithWait(t, f) == [waits EXCEPT ![t] = IF f = -1 \/ Points[f] = 0 THEN @ ELSE @ \cup {f}]

ConfigureTarget(t) ==
    /\ at[t] = "target"
    /\ \/ /\ ~Unreadable(job[t].ready)
          /\ config' = [Zeroed(config) EXCEPT !.rect = Bound(job[t], Head(passes[t])), !.target = job[t].target,
                                              !.extent = <<W(job[t]), H(job[t])>>, !.code = Code(job[t])]
          /\ waits' = WithWait(t, job[t].ready)
          /\ at' = [at EXCEPT ![t] = "source1"]
          /\ UNCHANGED <<session, holder, job, passes, pictures, before, outcome, zone, calls, denials>>
       \/ Unreadable(job[t].ready) /\ Refuse(t) /\ UNCHANGED denials
       \/ Denied /\ Refuse(t)

\* The i-th member takes the next slot unless the part misses it.
SourceAt(i) == <<"source1", "source2", "source3", "submit">>[i]
Index(t) == CHOOSE i \in 1..3 : SourceAt(i) = at[t]

MutWaitFor(t, l) == waits
\* The engine waits for every member it will read.
WaitFor(t, l) == WithWait(t, l.fence)

Seat(t, i, l) ==
    IF Meets(job[t], Head(passes[t]), l)
    THEN /\ config' = [config EXCEPT !.seats = Append(@, Described(job[t], Head(passes[t]), l))]
         /\ waits' = WaitFor(t, l)
    ELSE UNCHANGED <<config, waits>>

ConfigureSource(t) ==
    /\ at[t] \in {"source1", "source2", "source3"}
    /\ \E i \in {Index(t)} :
         IF i > Len(job[t].layers)
         THEN /\ at' = [at EXCEPT ![t] = "submit"]
              /\ UNCHANGED <<session, holder, job, passes, config, waits, pictures, before, outcome,
                             zone, calls, denials>>
         ELSE \/ /\ ~(Unreadable(job[t].layers[i].fence) /\ Meets(job[t], Head(passes[t]), job[t].layers[i]))
                 /\ Seat(t, i, job[t].layers[i])
                 /\ at' = [at EXCEPT ![t] = SourceAt(i + 1)]
                 /\ UNCHANGED <<session, holder, job, passes, pictures, before, outcome, zone, calls, denials>>
              \/ /\ Unreadable(job[t].layers[i].fence) /\ Meets(job[t], Head(passes[t]), job[t].layers[i])
                 /\ Refuse(t) /\ UNCHANGED denials
              \/ Denied /\ Refuse(t)

-----------------------------------------------------------------------------
(* The engine, as the session uses it.                                      *)

\* Where a pixel of a crop of s lands: the low bit mirrors along the crop's
\* first axis, the next along its second, the third swaps them.
EngineLands(q, s, code) ==
    LET x == IF Bit(code, 1) THEN s[1] - 1 - q[1] ELSE q[1]
        y == IF Bit(code, 2) THEN s[2] - 1 - q[2] ELSE q[2]
    IN  IF Bit(code, 4) THEN <<y, x>> ELSE <<x, y>>

\* What is read for offset o of a place of size d: one pixel, or, resized, a
\* position between pixels and the edges the filter stops at.
SizeOf(r) == <<WidthOf(r), HeightOf(r)>>
CropOf(r) == Covers(Rect(0, 0, WidthOf(r), HeightOf(r)))
ReadAt(read, d, o, hit) ==
    LET s == SizeOf(read)
    IN  IF s = d \/ s = <<d[2], d[1]>>
        THEN {<<read.left + q[1], read.top + q[2]>> : q \in hit}
        ELSE {<<(read.left * d[1]) + o[1] * s[1], (read.top * d[2]) + o[2] * s[2], d, read>>}

\* The engine mirrors a place within the extents as well: along the width by
\* the second bit, along the height by the low one.
EngineMirrors(r, c) == MirrorRectWithin(r, Bit(c.code, 2), Bit(c.code, 1), c.extent[1], c.extent[2])

Blended(seat, c, p) ==
    LET place == EngineMirrors(seat.lands, c)
        o == <<p[1] - place.left, p[2] - place.top>>
    IN  <<seat.id, ReadAt(seat.read, SizeOf(place), o,
            {q \in CropOf(seat.read) : EngineLands(q, SizeOf(seat.read), c.code) = o})>>

EngineDraws(picture, c) ==
    [p \in DOMAIN picture |->
        IF p \notin Covers(c.rect) THEN picture[p]
        ELSE LET over == SelectSeq(c.seats, LAMBDA s : p \in Covers(EngineMirrors(s.lands, c)))
             IN  [k \in DOMAIN over |-> Blended(over[k], c, p)]]

\* Configured, executed and its fence made a descriptor; any may be refused,
\* the last when the drawing already runs.
Submit(t) ==
    /\ at[t] = "submit"
    /\ \/ /\ config.seats # <<>>
          /\ pictures' = [pictures EXCEPT ![config.target] = EngineDraws(@, config)]
          /\ passes' = [passes EXCEPT ![t] = Tail(@)]
          /\ PassEnds(t, IF Len(passes[t]) > 1 THEN "more" ELSE "fence")
          /\ UNCHANGED <<session, job, config, before, zone, calls, denials>>
       \/ config.seats = <<>> /\ Refuse(t) /\ UNCHANGED denials
       \/ Denied /\ Refuse(t)

SubmitUnfenced(t) ==
    /\ at[t] = "submit" /\ config.seats # <<>> /\ Denied
    /\ pictures' = [pictures EXCEPT ![config.target] = EngineDraws(@, config)]
    /\ IF job[t].kind = "merge" /\ Head(passes[t]) # NoRect
       THEN passes' = [passes EXCEPT ![t] = <<NoRect>>] /\ PassEnds(t, "more")
       ELSE passes' = [passes EXCEPT ![t] = <<>>] /\ PassEnds(t, "refused")
    /\ UNCHANGED <<session, job, config, before, zone, calls>>

-----------------------------------------------------------------------------
(* The zone.                                                                *)

kZonePitchGrain == 256
RoundUp(v, grain) == ((v + grain - 1) \div grain) * grain
ZonePitchBytes(width) == RoundUp(width * 4, kZonePitchGrain)
PitchFor(ask) == IF ask[3] = kZonePitchGrain THEN ZonePitchBytes(ask[1]) ELSE RoundUp(ask[1] * 4, ask[3])
SizeFor(ask) == RoundUp(PitchFor(ask) * RoundUp(ask[2], 4), 131072)

ZoneOnly == <<session, job, passes, config, waits, pictures, before, outcome>>
ZoneStep(from, to, z) ==
    /\ at["copier"] = from
    /\ at' = [at EXCEPT !["copier"] = to]
    /\ zone' = z
    /\ UNCHANGED ZoneOnly /\ UNCHANGED calls
ZoneGoesOn == UNCHANGED <<holder, denials>>
ZoneRefuses == holder' = "none" /\ Denied

AskZone(ask) ==
    /\ session = "open" /\ at["copier"] = "idle" /\ holder = "none" /\ calls["copier"] < MaxCalls["copier"]
    /\ calls' = [calls EXCEPT !["copier"] = @ + 1]
    /\ IF ask[1] = 0 \/ ask[2] = 0 \/ ask[3] = 0
       THEN UNCHANGED <<holder, at, zone, denials>>
       ELSE \/ /\ zone' = [zone EXCEPT !.ask = ask, !.nvmap = TRUE]
               /\ holder' = "copier" /\ at' = [at EXCEPT !["copier"] = "create"] /\ UNCHANGED denials
            \/ ~zone.nvmap /\ Denied /\ UNCHANGED <<holder, at, zone>>
    /\ UNCHANGED ZoneOnly

ZoneCreate ==
    \/ ZoneStep("create", "alloc", [zone EXCEPT !.handles = @ + 1]) /\ ZoneGoesOn
    \/ ZoneStep("create", "idle", zone) /\ ZoneRefuses

ZoneAlloc ==
    \/ ZoneStep("alloc", "export", zone) /\ ZoneGoesOn
    \/ ZoneStep("alloc", "idle", [zone EXCEPT !.handles = @ - 1]) /\ ZoneRefuses

Unexported(z) == [z EXCEPT !.handles = @ - 1]

\* The descriptor holds the block from here on; the handle is done.
ZoneExport ==
    \/ ZoneStep("export", "map", [zone EXCEPT !.handles = @ - 1, !.fds = @ + 1]) /\ ZoneGoesOn
    \/ ZoneStep("export", "idle", Unexported(zone)) /\ ZoneRefuses

ZoneMap ==
    \/ /\ ZoneStep("map", "idle", [zone EXCEPT !.maps = @ + 1,
                     !.buffers = Append(@, [ask |-> zone.ask, pitch |-> PitchFor(zone.ask), size |-> SizeFor(zone.ask)])])
       /\ holder' = "none" /\ UNCHANGED denials
    \/ ZoneStep("map", "idle", [zone EXCEPT !.fds = @ - 1]) /\ ZoneRefuses

\* VendorBuffer's destructor.
ReleaseBuffer ==
    /\ at["copier"] = "idle" /\ zone.buffers # <<>>
    /\ zone' = [zone EXCEPT !.maps = @ - 1, !.fds = @ - 1, !.buffers = Tail(@)]
    /\ UNCHANGED ZoneOnly /\ UNCHANGED <<holder, at, calls, denials>>

Next ==
    \/ OpenDevice \/ CreateSession \/ Destroy
    \/ \E j \in EngineJobs : Begin("worker", j)
    \/ \E j \in CopyJobs : Begin("copier", j)
    \/ \E t \in Threads : Enter(t) \/ TurnedAway(t) \/ ConfigureTarget(t) \/ ConfigureSource(t)
                          \/ Submit(t) \/ SubmitUnfenced(t)
    \/ \E ask \in Asks : AskZone(ask)
    \/ ZoneCreate \/ ZoneAlloc \/ ZoneExport \/ ZoneMap \/ ReleaseBuffer

Spec == Init /\ [][Next]_vicVars

-----------------------------------------------------------------------------
(* The picture asked for: each member at its place, standing as asked.      *)

\* The flips first, then the quarter turn, clockwise.
AskedLands(q, s, bits) ==
    LET x == IF Bit(bits, 1) THEN s[1] - 1 - q[1] ELSE q[1]
        y == IF Bit(bits, 2) THEN s[2] - 1 - q[2] ELSE q[2]
    IN  IF Bit(bits, 4) THEN <<s[2] - 1 - y, x>> ELSE <<x, y>>

AskedAt(j, p) ==
    LET over == SelectSeq(j.layers, LAMBDA l : p \in Covers(l.display)) IN
    [k \in DOMAIN over |->
        LET l == over[k]
            o == <<p[1] - l.display.left, p[2] - l.display.top>>
        IN  <<l.id, ReadAt(l.source, SizeOf(l.display), o,
                {q \in CropOf(l.source) : AskedLands(q, SizeOf(l.source), j.bits) = o})>>]

GroupArea(j) == Covers(Rect(0, 0, W(j), H(j)))
PartsArea(j) == IF j.parts = <<>> THEN GroupArea(j)
                ELSE UNION {Covers(part) : part \in Range(j.parts)} \cap GroupArea(j)

\* A job that ends with a fence has drawn exactly what was asked where it was
\* asked -- every member in its place and standing as asked, each part as the
\* whole would have drawn it, whatever was refused on the way -- and left the
\* rest of the buffer as it was or as the whole job would have it
\* (VicSession::ComposeInto, CopyLayer, DrawMergeJob).
DrawnIsAsked ==
    \A t \in Threads :
        (at[t] = "idle" /\ outcome[t] = "fence") =>
            \A p \in DOMAIN pictures[job[t].target] :
                LET now == pictures[job[t].target][p] IN
                /\ p \in PartsArea(job[t]) => now = AskedAt(job[t], p)
                /\ p \notin GroupArea(job[t]) => now = before[t][p]
                /\ now \in {before[t][p], AskedAt(job[t], p)}

\* The engine is never sent a drawing without the fences of the target it
\* writes and of every member it will read (AppendWaits, ComposeInto).
WaitsCover ==
    \A t \in Threads :
        (at[t] = "submit" /\ holder = t) =>
            \A f \in {job[t].ready} \cup
                     {job[t].layers[i].fence : i \in {k \in DOMAIN job[t].layers :
                                                        \E s \in Range(config.seats) : s.id = job[t].layers[k].id}} :
                (f # -1 /\ Points[f] > 0) => f \in waits[t]

\* However many steps of an allocation are refused, no handle outlives it and
\* every descriptor and mapping belongs to a buffer that was given out, large
\* enough for its rows (AllocateZoneTarget, VendorBuffer).
ZoneKeepsNothing ==
    /\ at["copier"] \notin {"create", "alloc", "export", "map"} =>
          /\ zone.handles = 0
          /\ zone.fds = Len(zone.buffers) /\ zone.maps = Len(zone.buffers)
    /\ \A b \in Range(zone.buffers) :
          /\ b.pitch >= 4 * b.ask[1] /\ b.pitch % b.ask[3] = 0
          /\ b.size >= b.pitch * b.ask[2]
    /\ session = "gone" => ~zone.nvmap

\* "an empty one if the engine would not take this set ... Nothing has been
\* written to `target` in that case" (VicSession.h).
RefusedIsUntouched ==
    \A t \in Threads : (at[t] = "idle" /\ outcome[t] = "refused") => pictures[job[t].target] = before[t]
=============================================================================
