----------------------------- MODULE ImageCache -----------------------------
(***************************************************************************)
(* vk/ImageCache and the slots of vk/Compositor: client buffers kept as    *)
(* Vulkan images.  An image the cache lets go of -- found stale, pushed    *)
(* out by the budget, its layer gone -- may still be read by a frame in    *)
(* flight, so it is set aside with the last frame that used it and         *)
(* destroyed once a slot of that frame or a later one was seen done.       *)
(*                                                                         *)
(* All of it runs on the executor's one thread (VkThread); beside it the   *)
(* GPU finishes frames in order, and clients put other allocations behind  *)
(* a handle's pointer.  A drawing reads a set of handles, asked for one    *)
(* after the other; the target is one more image of the frame and is not   *)
(* told apart from a source.  The budget is counted in images, each the    *)
(* same size.                                                              *)
(***************************************************************************)
EXTENDS Integers, FiniteSets

CONSTANTS
    Handles,        \* the pointers buffers arrive under
    Owners,         \* composer layers; each handle comes with one
    OwnerOf,        \* [Handles -> Owners]
    MostEntries,    \* the budget: CacheBudget::most_entries
    NumSlots,       \* kSlots
    MaxFrames,      \* bound: drawings submitted
    MaxAllocations, \* bound: allocations, counted per handle; none once one is there
    MaxAsks         \* bound: images asked for

ASSUME CacheAssumption ==
    /\ IsFiniteSet(Handles) /\ OwnerOf \in [Handles -> Owners]
    /\ MostEntries \in Nat \ {0} /\ NumSlots \in Nat \ {0}
    /\ MaxFrames \in Nat /\ MaxAllocations \in Nat /\ MaxAsks \in Nat

VARIABLES
    entries_,       \* per handle: the image kept for it, or NoEntry
    set_aside_,     \* images let go and not yet destroyed
    tick_, frame_start_,
    slots_,         \* per slot: busy, and the frame it last drew
    next_slot_, frame_, retired_,
    pc,             \* "idle", or "compose" while a drawing is put together
    wanted,         \* handles it has yet to ask for
    got,            \* images it holds pointers to
    alloc,          \* the allocation behind each handle
    images,         \* images made so far
    destroyed,      \* images destroyed
    uses,           \* history: what each submitted frame reads: handle, image, alloc
    gpu_done        \* the last frame the GPU is done with

cacheVars == <<entries_, set_aside_, tick_, frame_start_>>
drawVars == <<slots_, next_slot_, frame_, retired_>>
vars == <<cacheVars, drawVars, pc, wanted, got, alloc, images, destroyed, uses, gpu_done>>

NoEntry == [image |-> 0, alloc |-> 0, last_frame |-> 0, last_use |-> 0, owner |-> "none"]
Slots == 0..(NumSlots - 1)
Cached == {h \in Handles : entries_[h] # NoEntry}

Init ==
    /\ entries_ = [h \in Handles |-> NoEntry] /\ set_aside_ = {}
    /\ tick_ = 0 /\ frame_start_ = 0
    /\ slots_ = [s \in Slots |-> [busy |-> FALSE, frame |-> 0]]
    /\ next_slot_ = 0 /\ frame_ = 0 /\ retired_ = 0
    /\ pc = "idle" /\ wanted = {} /\ got = {}
    /\ alloc = [h \in Handles |-> 1]
    /\ images = 0 /\ destroyed = {} /\ uses = [f \in 1..MaxFrames |-> {}] /\ gpu_done = 0

-----------------------------------------------------------------------------
\* ImageCache.

\* "the ones the frame being put together has asked for are in its hands"
Protected(h, start) == entries_[h].last_use >= start

\* PickVictim chooses among these, the least recently asked for.
Victims(keep, start) == {h \in keep : ~Protected(h, start)}

\* MakeRoom(): what stays of `keep' once images were let go, least recently
\* asked for first, until one more fits or all that is left is protected.
MakeRoom(keep, start) ==
    LET over == Cardinality(keep) + 1 - MostEntries
        Older(h) == {v \in Victims(keep, start) : entries_[v].last_use < entries_[h].last_use}
    IN  {h \in keep : Protected(h, start) \/ Cardinality(Older(h)) >= over}

\* The hash and the inode are not looked at: the pointer is enough.
MutHit(h) == entries_[h] # NoEntry

\* A hit is the same allocation, not merely the same pointer.
Hit(h) == entries_[h] # NoEntry /\ entries_[h].alloc = alloc[h]

\* An import ahead of any frame takes the frame's claim away.
MutClaim(h, frame) == frame

\* Never lowered: an import ahead does not undo a frame's claim.
Claim(h, frame) == IF entries_[h].last_frame > frame THEN entries_[h].last_frame ELSE frame

\* Get(handle, frame) when the buffer is known: asked for once more.
GetHit(h, frame) ==
    /\ Hit(h) /\ tick_ < MaxAsks
    /\ entries_' = [entries_ EXCEPT ![h].last_frame = Claim(h, frame),
                                    ![h].last_use = tick_ + 1]
    /\ tick_' = tick_ + 1
    /\ UNCHANGED images

\* Get() when it is not: a stale image is let go, room is made as for a drawing
\* that began at `start', and the buffer imported -- unless the driver turns it
\* down, which undoes none of that.
Stays(h, start) == MakeRoom(Cached \ {h}, start)

LetGo(h, start) == {entries_[k] : k \in Cached \ Stays(h, start)}

GetMiss(h, frame, start, imported) ==
    /\ ~Hit(h) /\ tick_ < MaxAsks
    /\ entries_' = [k \in Handles |->
            IF k = h /\ imported
            THEN [image |-> images + 1, alloc |-> alloc[h], last_frame |-> frame,
                  last_use |-> tick_ + 1, owner |-> OwnerOf[h]]
            ELSE IF k \in Stays(h, start) THEN entries_[k] ELSE NoEntry]
    /\ tick_' = tick_ + 1
    /\ images' = IF imported THEN images + 1 ELSE images

\* What Retire(frame) destroys.
Due(aside, frame) == {e \in aside : e.last_frame <= frame}

ImagesOf(es) == {e.image : e \in es}

-----------------------------------------------------------------------------
\* The drawing thread.

\* ComposeNow begins: the next slot, if its last work is seen done.
ComposeBegins(hs) ==
    /\ pc = "idle" /\ frame_ < MaxFrames
    /\ LET slot == slots_[next_slot_]
       IN  /\ slot.busy => slot.frame <= gpu_done
           /\ slots_' = [slots_ EXCEPT ![next_slot_].busy = FALSE]
           /\ retired_' = IF slot.busy /\ slot.frame > retired_ THEN slot.frame ELSE retired_
    /\ frame_start_' = tick_ + 1
    /\ pc' = "compose" /\ wanted' = hs /\ got' = {}
    /\ UNCHANGED <<entries_, set_aside_, tick_, next_slot_, frame_, alloc, images,
                   destroyed, uses, gpu_done>>

\* One of its images, known or imported.
ComposeGets(h) ==
    /\ pc = "compose" /\ h \in wanted
    /\ \/ GetHit(h, frame_ + 1) /\ UNCHANGED set_aside_
       \/ /\ GetMiss(h, frame_ + 1, frame_start_, TRUE)
          /\ set_aside_' = set_aside_ \union LetGo(h, frame_start_)
    /\ got' = got \union {[handle |-> h, image |-> entries_'[h].image, alloc |-> alloc[h]]}
    /\ wanted' = wanted \ {h}
    /\ UNCHANGED <<frame_start_, drawVars, pc, alloc, destroyed, uses, gpu_done>>

\* The driver turns the import down, and the drawing is refused.
ComposeRefused(h) ==
    /\ pc = "compose" /\ h \in wanted
    /\ GetMiss(h, frame_ + 1, frame_start_, FALSE)
    /\ set_aside_' = set_aside_ \union LetGo(h, frame_start_)
    /\ pc' = "idle" /\ wanted' = {} /\ got' = {}
    /\ UNCHANGED <<frame_start_, drawVars, alloc, destroyed, uses, gpu_done>>

\* A format it does not read, or the submit fails: the images keep the claim of
\* a frame that was never drawn.
ComposeFails ==
    /\ pc = "compose"
    /\ pc' = "idle" /\ wanted' = {} /\ got' = {}
    /\ UNCHANGED <<cacheVars, drawVars, alloc, images, destroyed, uses, gpu_done>>

\* QueueSubmit.
Submit ==
    /\ pc = "compose" /\ wanted = {}
    /\ frame_' = frame_ + 1
    /\ slots_' = [slots_ EXCEPT ![next_slot_] = [busy |-> TRUE, frame |-> frame_ + 1]]
    /\ next_slot_' = (next_slot_ + 1) % NumSlots
    /\ uses' = [uses EXCEPT ![frame_ + 1] = got]
    /\ pc' = "idle" /\ got' = {}
    /\ UNCHANGED <<cacheVars, retired_, wanted, alloc, images, destroyed, gpu_done>>

\* cache_->Retire(retired_), posted behind every drawing.
Retire ==
    /\ pc = "idle"
    /\ Due(set_aside_, retired_) # {}
    /\ destroyed' = destroyed \union ImagesOf(Due(set_aside_, retired_))
    /\ set_aside_' = set_aside_ \ Due(set_aside_, retired_)
    /\ UNCHANGED <<entries_, tick_, frame_start_, drawVars, pc, wanted, got, alloc, images,
                   uses, gpu_done>>

\* PrepareNow: imported ahead of any frame, with no frame of its own to
\* protect; and Retire.
PrepareNow(h, imported) ==
    /\ pc = "idle"
    /\ frame_start_' = tick_ + 1
    /\ LET aside == IF Hit(h) THEN set_aside_ ELSE set_aside_ \union LetGo(h, tick_ + 1)
       IN  /\ GetHit(h, 0) \/ GetMiss(h, 0, tick_ + 1, imported)
           /\ set_aside_' = aside \ Due(aside, retired_)
           /\ destroyed' = destroyed \union ImagesOf(Due(aside, retired_))
    /\ UNCHANGED <<drawVars, pc, wanted, got, alloc, uses, gpu_done>>

\* Forget(owner): every image that last came with it is set aside; and Retire.
Forget(o) ==
    /\ pc = "idle"
    /\ LET gone == {h \in Cached : entries_[h].owner = o}
           aside == set_aside_ \union {entries_[h] : h \in gone}
       IN  /\ gone # {}
           /\ entries_' = [h \in Handles |-> IF h \in gone THEN NoEntry ELSE entries_[h]]
           /\ set_aside_' = aside \ Due(aside, retired_)
           /\ destroyed' = destroyed \union ImagesOf(Due(aside, retired_))
    /\ UNCHANGED <<tick_, frame_start_, drawVars, pc, wanted, got, alloc, images, uses, gpu_done>>

\* The GPU is done with the next frame.
GpuFinishes ==
    /\ gpu_done < frame_
    /\ gpu_done' = gpu_done + 1
    /\ UNCHANGED <<cacheVars, drawVars, pc, wanted, got, alloc, images, destroyed, uses>>

\* A client's handle pointer comes to stand for another allocation.
Reallocate(h) ==
    /\ \A k \in Handles : alloc[k] < MaxAllocations
    /\ alloc' = [alloc EXCEPT ![h] = @ + 1]
    /\ UNCHANGED <<cacheVars, drawVars, pc, wanted, got, images, destroyed, uses, gpu_done>>

Next ==
    \/ \E hs \in SUBSET Handles \ {{}} : ComposeBegins(hs)
    \/ \E h \in Handles : ComposeGets(h) \/ ComposeRefused(h) \/ Reallocate(h)
    \/ \E h \in Handles, imported \in BOOLEAN : PrepareNow(h, imported)
    \/ ComposeFails \/ Submit \/ Retire \/ GpuFinishes
    \/ \E o \in Owners : Forget(o)

Spec == Init /\ [][Next]_vars

-----------------------------------------------------------------------------
TypeOK ==
    /\ \A h \in Cached : entries_[h].image \in 1..images /\ entries_[h].last_use \in 1..tick_
    /\ frame_ \in 0..MaxFrames /\ retired_ \in 0..frame_ /\ gpu_done \in 0..frame_
    /\ pc \in {"idle", "compose"} /\ wanted \subseteq Handles
    /\ destroyed \subseteq 1..images

\* No image is destroyed that a frame the GPU has not finished still reads,
\* though the cache let it go long before -- recycled under the same pointer,
\* pushed out, or its layer gone.
NoneDestroyedInFlight ==
    \A f \in (gpu_done + 1)..frame_ : \A u \in uses[f] : u.image \notin destroyed

\* A drawing's pointers stay good while it is put together: what it was given
\* is neither let go nor destroyed by what it asks for afterwards.
FrameKeepsItsImages ==
    \A u \in got : entries_[u.handle].image = u.image /\ u.image \notin destroyed

\* No drawing reads an image of an allocation the handle no longer stood for
\* when it was asked for.
NoStaleImage ==
    \A u \in got' \ got : \E h \in Handles :
        entries_'[h].image = u.image /\ entries_'[h].alloc = alloc[u.handle]

\* An import leaves the cache within its budget, or with nothing in it but what
\* the drawing being put together has asked for: "over for a frame", however
\* far over the frames before had left it.
BudgetKept ==
    images' # images /\ Cardinality(Cached') > MostEntries
        => \A h \in Cached' : entries_'[h].last_use >= frame_start_'

\* The images a drawing holds are there until the GPU is done with them.
ImagesHold == NoneDestroyedInFlight /\ FrameKeepsItsImages

\* No step hands out a stale image or leaves the cache over its budget for more
\* than the frame that needs it.
CacheIsHonest == [][NoStaleImage /\ BudgetKept]_vars
=============================================================================
