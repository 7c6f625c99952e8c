# TLA+ verification of the Tegra hardware composer

The repository is an Android HWC2 composer for the Tegra K1. For each frame it
decides which layers the display controller's windows scan out, which the image
engine (VIC) merges into one buffer and which the GPU draws, and hands the
result to the display controller. Most of what can go wrong in it happens
between threads and between frames: the binder thread that carries the frame,
the image engine's worker, the Vulkan compositor's thread, the vsync thread, the
frequency governor's thread, the flattening thread, the protection thread, the
profile watcher and the garbage collector, with an engine, a GPU and a panel
that take their own time; and a frame that reuses what the frame before it
planned, drew, merged, programmed or was refused.

Run everything from this directory: `tlc -config X.cfg M` for a run of
`PROJECT.json`, `tlapm JobQueueProofs.tla` for the proofs of a module (eight
modules end in `Proofs`, one for each component or group of components proved
about).

## 1. Inventory

| Part | State | Operations | Talks to |
|---|---|---|---|
| `hwc2_device/`, `hwc/Hwc` | displays and their handles, main lock, hotplug queue, profile watcher | entry points, register, bind, unbind, flush | the client |
| `hwc/HwcDisplay` | layers, the plan kept and the plan validated, staged config, power, colour, GPU seat | validate, accept, present, present without validation, set config, set power, set pipeline | everything below |
| `hwc/HwcLayer` | the client's properties, invalidators, liveness, the type told | setters, judgements | HwcDisplay, planners |
| planners (`compositor/GenericCompositionPlanner`, `LayerToPlaneJoiningPlan`, `MergeGroup`, `Occlusion`, `LayerEffects`) | none | which layers to windows, to the client, to the engine; which plane shows which | HwcDisplay, planes |
| `tegra/TegraPlane`, `WindowFeatures`, `TegraDisplayPipeline` | the planes of a head | IsValidForLayer; bring-up and teardown | planners, DcHead |
| `tegra/TegraAtomicStateManager` | `pending_merge_`, `merge_memory_`, `slot_pictures_`, `lagged_last_`, window, colour, porch and power caches | test, QueueMerge, DropPendingMerge, Execute, SetPowered, worker loop | JobQueue, ScratchPool, VicSession, CursorUnit, head, governor |
| `tegra/DcHead`, `TegraAtomicCommitSink` | windows owned, `mWindowsDiscovered` | claim, describe, test, flip | kernel |
| `tegra/CursorUnit` | two slots, image, place, shown | upload, point, show, hide, re-arm | head, VicSession |
| `tegra/VicSession` | the session, its settings, pinned handles | Compose, copy, allocate from the zone | kernel, worker, copier |
| `compositor/JobQueue.h` | `entries_`, `stopped_`, the streak of drops | Queue, Take, TryTake, Done, Resolve, Cancel, Stop | the frame's thread and an engine's worker |
| `tegra/ScratchPool` | the turn, the slot showing, when each is free | Next, Rewind, Presented | merge path |
| `compositor/PictureMemory`, `PartialRedraw` | what was drawn last, what each buffer holds, the damage since | Remember, Judge; Plan, Known, Lost, Shown | merge path, GPU seat |
| `tegra/GpuExecutor` | ring of buffers, the drawing begun | Begin, Finish, Keep, Presented | `vk/Compositor` |
| `vk/Compositor`, `vk/runtime` | deque of work, job queue, ring of slots, `retired_`; the device and its objects | Create, Queue, Resolve, Cancel, Compose, RunJob, Forget, Teardown | GpuExecutor, ImageCache, GPU |
| `vk/ImageCache` | imported images, the ones set aside, use ticks | Get, MakeRoom, Forget, Retire | compositor thread, garbage collector |
| `compositor/GarbageCollector.h` | deque, `running_`, `stopping_` | Post, Close, Flush, destructor | ImageCache |
| `display/VSyncWorker`, `tegra/TegraVSyncSource` | enabled, callback, tracking, period and expected period, last timestamp; the request for events | setters, queries, thread | HwcDisplay, kernel events, present fences |
| `governor/` | mailbox, per-engine lane (fences, hold, orphan timer, step owed), floors | FramePlanned, GpuPlanned, Submitted, PowerMode, Stop; thread rounds | merge path, sysfs |
| `compositor/FlatteningController` | `state_`, `sleep_until_` | NewFrame, SettledFrame, DisableFlattening, ShouldFlatten, destructor, thread | HwcDisplay, the client's refresh |
| `compositor/HdcpController` | `hdcp_state_`, `was_retry_`, deadline | desire, commit, query, terminate, thread | HwcDisplay, connector, client |
| backends, buffers, backlight, utilities, statistics, tools | descriptors, tables, two values | lookups, files | - |

Hard behaviours: a drawing is queued at validate and may be wanted, replaced or
dropped at present, while the worker has it; a buffer is reused while the panel
reads it; a plan outlives the layers it was made of; a commit is refused in part
and remembered in whole; blanks are waited for without the lock and reported
under it; a report to the governor may come before, with or after its plan, with
a fence already done, never done or not copied; callbacks into the client come
from threads that the client's own calls stop and join; a pipeline fails
half-way up. `PROJECT.json` lists each at its line under "hazards".

What makes each part correct, in a word: the queue tells a frame what became of
its job; the merge path, the GPU seat and the frame show the picture that was
asked and write no buffer under the scan; the planes keep every layer once and
in order; the head wears what it was given; the threads answer and end; what is
held goes, and goes in order; what the client is told is so.

## 2. Modules

### The frame

* **DisplayContract** - the abstract display: the panel takes nothing but whole
  pictures of the scene as it is at that moment.
* **HwcFrame** - HwcDisplay and hwc2_device for a frame, over **HwcLayer** (a
  layer as a value) and **Planner** (which layers go where). A picture is, for
  each pixel, what is blended there from the top down. `Contract ==
  INSTANCE DisplayContract` with the scene of the client's layers and what the
  panel holds; `ContractKept` is the refinement. Every entry point holds the
  main lock, so one call is one action; what interleaves are the calls a client
  may make in any order and the kernel's refusals.
* **Seating** - from a plan to what the controller is told: **Planes** (the
  feature table and what a plane takes), **MergeGroup** and **Joining** (which
  layers are merged, which plane shows what), **Request** (windows and the merge
  described), **Occlusion**. Pure modules over a scene built layer by layer.
* **GpuSeat** - the client range drawn by the composer's own GPU: GpuExecutor's
  ring, what each buffer holds (**PartialRedraw**), the memory of the last
  picture (**PictureMemory**), the thread, the GPU and the panel. The thread
  waits for the drawing before unless that one was refused and left no fence; the
  GPU then has several in flight and draws them in turn. A pixel is the
  layers laid on it with the hand-over each came from, so a stale piece is told
  from a fresh one.
* **GpuDraw** - one drawing of the Vulkan compositor: parts, passes, clears and
  writes against the same layers simply blended.
* **Head** - the display head and the state manager that drives it: windows,
  rate, light, colour, the pointer; blanks, refusals and frames planned before a
  move.
* **Colour** - whose share of the colour is applied by whom, and the watcher.

### Engines and threads

* **JobQueue** - one action per critical section of `JobQueue.h`; `sleeping` is
  the set of threads on `changed_`, which every notify empties and from which a
  thread may wake of itself. **JobQueueThreads** adds the worker's loop, the
  frames and Stop; **JobQueueProofs** has the theorems.
* **MergePath** - composes JobQueue and PictureMemory with the scratch pool, what
  each slot is known to hold, the binder thread's test and commit (`fpc`), the
  worker, and an external engine, panel and clients.
* **VkThread** - composes JobQueue with the Vulkan compositor's deque.
* **VicSession** - the image engine's session under its two callers, with the
  engine's own mirrors and cuts, and the zone's allocation.
* **ImageCache** - the cache, the budget, the drawings put together over a ring
  of slots; `alloc` is the allocation a handle stands for now.
* **GarbageCollector**, **Governor**, **Flattening**, **Hdcp**, **VSyncWorker** -
  one each; a thread's program counter steps from one critical section to the
  next, callbacks and blocking calls outside the mutex being steps of their own.
* **BringUp** - a pipeline made step by step, each step refused or not, and let
  go in the order of the destructors.
* **Lifecycle** - registration, binding, the retries of a first mode set, the
  headless stand-in and the queue of hotplug events.

Modules that share no state with each other are checked together, one at a
time: in **ThreadsMC**, **EnginesMC**, **NoticesMC**, **ClocksMC** and
**GpuSeatMC** a variable `part`, chosen at the start and never changed, says
which of them moves while the others keep their initial state. The state space is
the sum of theirs, fairness is asked of a part only where it is the one that
moves (`WF_vars(part = "queue" /\ WorkerNext)`), and a property that mentions no
part holds in the others because nothing moves. `Moving` restricts the choice.
**MergePathMC**, **HwcFrameMC**, **HeadMC** and **SeatingMC** hold one each, and
Governor is checked as it is. EnginesMC holds VicSession, BringUp, Lifecycle and
the image cache.

The theorems about a component stand in a module of their own that extends it:
**JobQueueProofs** (the queue under its worker and under VkThread),
**MergePathProofs**, **GovernorProofs**, **ImageCacheProofs**, **HeadProofs**,
**GpuSeatProofs**, **ClocksProofs** (VSyncWorker and Colour) and **NoticesProofs**
(GarbageCollector, Hdcp, Flattening, and the three put together).

Operators named `Mut...` stand next to what they are a plausible mistake in; no
specification uses them, the mutants of `PROJECT.json` do.

### What the model leaves out inside a modelled part

* MergePath: a target without a descriptor, a pool that refuses a turn, the
  throttle to one frame, the retry of a partial drawing as a whole one and the
  two switches that turn the memory off.
* HwcFrame: an executor that is there always draws (its refusals are in GpuSeat); data spaces stay as hwc2 leaves them, so the two early reasons to
  flatten are reached only by their own tests; the client keeps to the protocol
  (layers left alone between validate and present, no two at one depth, the
  pointer on top, true visible regions, a buffer handed over once a frame, a
  present turned away followed by a validation).
* GpuSeat: a row of pixels for the panel; a layer does not turn on the spot by a
  free angle.
* GpuDraw: a target of three by two pixels; texels are not sampled.
* Seating: a client range drawn where it was when the plan was made (see the
  disagreements); sources in units in which the code's divisions are exact.
* VSyncWorker: a failing `clock_nanosleep`, and a display without a source (it
  behaves as one whose source always fails).
* Governor: the estimates, which are a free choice of step.
* Flattening: whether the plan really consolidates, a free choice among made,
  given up and kept.
* BringUp: a driver that lacks the entry to destroy an instance or a device; what
  it leaves behind is counted as `lost`.
* Colour: boards whose setting leaves the client's transform to nobody by
  configuration (see the disagreements).

## 3. Runs

| Run | Instances and bounds | Shows |
|---|---|---|
| `threads` | JobQueueThreads: 1 frame, its worker, 2 jobs; VkThread: 2 jobs, 1 synchronous compose; MergePath: 2 slots, 2 jobs, 1 test, 2 frames; Governor: the image engine, 2 frames, 2 fences, 1 change of power | the queue tells a present the truth and loses nothing, a run for each drawing, drawings in order; everybody waited for answers; a floor stands as long as its work and goes at last |
| `merge_path` | 2 slots, 2 jobs, 2 tests, 3 frames, 4 calls in all, groups turned alike and unlike | the panel shows the picture meant and asked, the pool's turn is in step, nothing wanted is written under the scan |
| `governor` | both engines, 2 frames, or a frame and a change of power (`MaxCalls`), 2 fences, floors that may be refused | a floor is always waited out; fences are closed once |
| `engines` | VicSession: 1 drawing and 2 copies, groups of up to four where three are the most, 1 refusal; BringUp: 2 scratch buffers, 2 GPU slots; Lifecycle: 2 heads, 3 registrations, a predecessor for up to 2 sleeps, 2 queued configs; ImageCache: 3 handles of 2 layers, 2 slots, 3 frames, 2 allocations a handle, 3 asks, a budget of one | images outlive their readers, the cache is honest, the engine draws and waits for what was asked, nothing is kept after a refusal or an end, nothing is let go under a borrower, the client's view of displays is true |
| `notices` | Flattening: 2 frames, 1 profile change, 2 displays, both kinds of client; GarbageCollector: 3 jobs, 2 flushers; Hdcp: 2 frames, 1 refusal, 1 link lost | no callback past its display, jobs collected, a flush means run, the level told is the level asked, everything begun ends |
| `clocks` | VSyncWorker: clock to 6, periods 2 and 3, a blank stale past 3, 3 calls; Colour: three boards, 2 transforms, 1 tap, 2 frames, 1 refusal | timestamps in phase, a time-out paid once, only the last rate asked is taken up, an enable is answered; a tint worn once, a profile arrives |
| `gpu_seat` | GpuSeat: 2 layers on 6 pixels, 3 places, 2 edits, 4 frames, 3 edits and refusals (drawings and commits) together (`MaxUpsets`); GpuDraw: up to 3 of 14 layers, five sets of passes, four lists of damage | the panel is true, no buffer drawn under the scan unless two refused commits left the ring behind; what is saved is not seen |
| `display_frame` | panel of 2 pixels, 3 windows of which 2 are real, a cursor, 2 scenes of 3 layers, one kind of change a behaviour out of 14, up to 3 hand-overs, 1 refusal | the contract is kept, buffers go back on the right fence, a skip is honoured |
| `head` | 2 windows, 3 plans, 2 sprites, places inside and past 16 bits, 4 matrices, one of three aspects a behaviour with 1 or 2 refusals, 2 moves | windows, rate, light, colour and sprite are as last given |
| `planes` | up to 3 layers on 4 by 2 pixels, the controller's table with 3 windows, budgets of 0, 2 and 40 steps | the picture is kept, what a plane accepts is shown, the searches are exact |
| `gpu_parts_overlap`, `lifecycle_retry` | as small as shows it | expected to be violated: see below |

Why the bounds are enough. Every hazard between a frame and a thread needs at
most one drawing under the worker, one queued behind it and one that replaces
it; a rotation that comes round (one frame more than slots); a frame that lags
before one that does not; two periods of which neither divides the other. A plan
outlives its layers in two frames, and in three the change can be undone. A
buffer of the ring is stale for two frames, so four show it drawn, kept and
partial. A merge needs a member below, one above and one that does not belong. A
refused call needs one call after it. Each bound lets those happen - the mutants
are all caught within them - and each is named as a constant. For the queue, the
Vulkan thread, the merge path, the image cache, the governor, the head, the
collector, the flattening and protection controllers, the vsync worker, the
colour and what the GPU seat writes the proofs lift the bounds on what the
properties say. Symmetry is used in `engines` only, between two handles of one layer, where there is no
liveness property.

Deadlock is checked in `head` (where something can always happen); elsewhere the system may really stop, everyone idle and the bounds used up, so it
is off, and waiting in a circle is caught by the liveness properties.

### Disagreements between the code and what it says

Two are runs expected to be violated, with their findings in `PROJECT.json`:

* `gpu_parts_overlap` - "Parts that overlap are always one"
  (`PartialRedraw.h:127`), but the last loop of Gather (`PartialRedraw.cpp:163`)
  joins down to the most there may be without looking again, and translucent
  layers are blended twice where two boxes meet.
* `lifecycle_retry` - a head that had no windows at the first look keeps that
  answer (`DcHead.cpp:123`) through the retries that are to wait for them
  (`HwcDisplay.cpp:1466`).

The others were met while modelling and are recorded here. Unless it is said
otherwise the models contain the behaviour and the properties are stated so as
not to speak of it.

The merge path and the governor:

* *A drawing given up can reach the panel.* It "runs to its end into a slot that
  is then never shown" (`TegraAtomicStateManager.cpp:1155`), but its slot's turn
  is given back (`:1158`): the next drawing takes the same slot, and if the
  worker is late the given-up one is written over it or over the slot on screen.
* *A lagging frame may be followed by a dropped one.* A group shown a frame
  behind is "drawn on the next frame whether the member is ready by then or not"
  (`:1478`); the next drawing may be dropped at Resolve, and the drop clears
  `lagged_last_` (`:1490`), so that the one after may lag again.
* *The old group can stand in for a different one.* "Only if it is the same
  group" (`:1207`); `Judge` answers the first difference it meets, so a new
  frame of one member hides that a later member is another layer, and the
  drawing is marked droppable (`:1211`).
* *A refused floor keeps the thread awake.* A failed write zeroes the GPU's floor
  (`GpuClock.cpp:76`) and `release_due_ns_` stays set, so `NextDue` answers the
  past and the thread polls with no time-out until the display goes dark, against
  `FloorLane.h:107`.
* *A floor without an end.* A report turns the orphan timer off, and one whose
  fence could not be copied (`TegraAtomicStateManager.cpp:1770`) brings nothing
  in its place (`FloorLane.cpp:43` against `FenceWatch.h:37`). `CopyFails = TRUE`
  lets this happen in `Governor`.

The frame and the planes:

* *A plan weighed before the client's target has moved.* Validation weighs the
  plan with the target where the last drawing lay (`HwcDisplay.cpp:2107`) and the
  commit puts the new drawing's place into it (`:134`); a layer lowered because
  it passed the old place may be under the new one, for one frame, against
  `LayerToPlaneJoiningPlan.cpp:263`. `PictureKept` is stated for a target that
  has not moved.
* *A second validation.* A validation not presented is thrown away
  (`HwcDisplay.cpp:875`) with the invalidators it took; validating again may
  answer with the plan kept from before, while `CompositionPlanner.h:99` counts
  on one validation a frame. The client of HwcFrame presents what it validated.
* *The topmost cursor.* The layers are sorted with the cursor type on top whatever
  their z (`HwcDisplay.cpp:2622`), so the guard that is to see a layer above the
  cursor (`GenericCompositionPlanner.cpp:143`) cannot see one of another type.
* *A refused present leaves the told type* (`HwcLayer.cpp:94`) as if it had been
  shown; and `SetLayerBuffer` and `SetClientTarget` leak the acquire fence of a
  call turned away (`hwc2_device.cpp:1281`).
* *With `persist.vendor.hwc.merge=0` two planes of one window.* The copies of the
  narrow window stay ordinary planes (`TegraDisplayPipeline.cpp:242`, `308`), and
  the second overwrites the first (`TegraAtomicStateManager.cpp:870`); the
  setups of Seating have the merge on or no engine.
* *A destination unsaid* "means the whole panel"
  (`TegraAtomicStateManager.cpp:521`), but the buffer's size is used (`:541`).
* *A staged config survives* a headless SetConfig (`HwcDisplay.cpp:804`), and
  SetConfig resets it without ending the worker's tracking; SetActiveConfig on a
  dark display lights the panel.

The GPU:

* *A turn by a free angle is not compared* (`PartialRedraw.cpp:46` against
  `PartialRedraw.h:38`): a layer that turns on the spot keeps its old corners.
* *A refused flip is not taken back in the ring.* Finish and Keep move `at_`
  (`GpuExecutor.cpp:178`) and only Presented, called after a commit that went
  through with a drawing of its own (`HwcDisplay.cpp:2443`), says what is on
  screen. Two refused flips bring the ring to the buffer being scanned, against
  `GpuExecutor.h:44`: in a row, or with a frame between them whose drawing the
  library refused, which posts the buffer already seated (`HwcDisplay.cpp:580`)
  without a call of Presented. The run contains both: with
  `RingIsBehind == FALSE` TLC finds `NeverDrawnUnderScan` and `PanelIsTrue`
  violated. What the two say is how far it goes. `commits_refused` counts the
  commits refused since the panel took up the buffer Presented was told of; the
  ring is behind while it is two or more, and from the moment a flip of that
  buffer lands everything holds again.
* *A gap in the damage history after Lost()* is told by age alone
  (`PartialRedraw.h:41`).
* *A buffer in two layers is acquired once*, with the first layer's fence only
  (`vk/Compositor.cpp:940`).
* *A gone layer's images wait for a later frame.* They are to go "once the
  frames that read it are done" (`ImageCache.h:100`); `retired_` moves only when
  a later drawing waits for a slot (`ImageCache.cpp:138`).

The head and the pointer:

* *The pointer's place is always fresh.* `cursor.seq` is read when the request is
  built (`TegraAtomicStateManager.cpp:825`), after the moves it was to be
  compared with, so a frame planned before a move re-states the old place,
  against `.h:194` and `CursorUnit.h:85`. `SpriteIsTrue` leaves such a frame out.
* *A sprite forgotten while hidden.* A blank forgets it; SetPowered re-arms only
  a pointer that is shown (`:2549`), and Show skips the upload of the picture it
  believes is there (`CursorUnit.cpp:316`). A Show that is refused may leave the
  older sprite.
* *A colour write refused* is not tried again until the matrix changes; an error
  of `setActiveVfp` is ignored.

Clocks, colour and the client:

* *Timestamps of the vsync worker.* With tracking off the last one is still
  answered (`VSyncWorker.cpp:157` against `.h:70`); a blank seen before tracking
  was turned on and reported after counts as fresh (`:346` against `.h:71`); for
  a time more than a period before the last blank the prediction is the blank
  after the last (`:235` against `.h:83`); a missed blank makes two frames at the
  old rate look like one at half of it (`:357` against `.h:56`). The worker of
  a display initialised again has no callback though the client's wish stands,
  and the headless primary has none at all (`HwcDisplay.cpp:850`).
* *A frame the client draws alone.* With the colour unit off it goes without the
  profile (`HwcDisplay.cpp:2173`); with the unit off and the client's transform
  claimed from it, or with an executor drawing, nobody applies the transform.
  The boards of Colour leave those settings out. A profile noted by a frame that
  was refused is not asked for again.
* *Protection.* Terminate may overtake a notice already decided on
  (`HdcpController.cpp:130`, `141`); a refused frame leaves the second try
  waiting for the next one. `RequestsEnd` is stated without refusals.
* *A headless display* dereferences its pipe in SetLayerBuffer, SetClientTarget,
  SetCursorPosition and RequestHdcpNegotiation; the client of a stand-in does not
  make those calls in the models.
* *A join under the main lock.* `Deinit` joins the flattening thread inside an
  entry point that holds the main lock (`HwcDisplay.cpp:1518`). If the client's
  refresh path takes that lock, as `FlatteningController.cpp:109` says it does, a
  thread already in its callback never comes back to be joined. `Flattening`
  explores both kinds of client and takes the kind that locks never to
  unregister, which is the assumption `EntryReturns` rests on.
* *Backlight* (not modelled). A refused power-down leaves it lit and taken for
  dark, a refused power-up the other way round, and neither is tried again
  (`SysfsBacklightController.cpp`).

## 4. Fairness

Weak fairness is assumed of threads that can go on (they are scheduled, most at
`SCHED_FIFO`), of the engine, the GPU and the panel (they finish what they were
given), and of time. Strong fairness is used where a thread competes for a mutex
or an event that comes and goes: the blank against the time-out in VSyncWorker,
the locks in Flattening. Never assumed: that anyone queues, cancels, draws,
stops, changes a setting, that a call is granted, or that a condition variable
wakes of itself. In Flattening the client answers the refreshes it was asked
for, and in Colour it does so with a validation and a present; without that
nothing could be said of when they end. In Governor only the thread is scheduled:
darkness and stop must be seen with no timer's help, and `FloorGoesAtLast` alone
takes the passing of time as its hypothesis (`TimePasses`). `CallsReturn` and
`WorkerAnswers` speak of a moment when all is quiet; as the number of calls is
bounded there is one, and it is the thread's fairness that has to bring it about.

## 5. Proofs

A theorem holds for every value of the constants that the module's `ASSUME`
allows; the assumptions say only that bounds are natural numbers and that sets
are finite, unless named below. Each module has one inductive invariant (`IInv`,
`SidesAgree`, `MergeInv`) proved in three steps - the initial states satisfy it,
every action keeps it, it implies the property - and the last step of every
theorem puts them together. What has to be added to a property so that it
becomes inductive is where the argument is:

* **JobQueueProofs** (`ThreadsAssumption`): `QueueAgrees`, `TakesAreReal`,
  `EntriesDoNotLeak`, `QueueSound`, `OutcomesAreTrue`, `DrawingsInOrder`. The
  entry being submitted is the one in the worker's hands, every other belongs to
  exactly one frame, the only one that may ask for it or cancel it; ids not given
  out have left no trace; what is queued is younger than what was ever taken; a
  job that was answered for has no entry left. For the queue under the Vulkan
  thread, `VulkanDrawingsAreServed`: each job still to be taken has a run in the
  deque, in the thread's hands or about to be posted (`VkInv`). The jobs are
  counted against the runs, which takes lemmas on the cardinality of the places of
  a deque; the rest is the order of the destructor, one synchronous Compose at a
  time whose caller waits, and that a job submitting is in the thread's hands and
  one held has its entry.
* **MergePathProofs** (`NumSlotsAssumption`: more than one slot, the code has
  three; `GroupsAssumption`): `TurnsAreTaken`, `PoolStaysInStep`,
  `EverySlotIsKnown`, `PanelShowsWhatWasMeant`, `ScanoutIsLeftAlone`. Giving a
  turn back is right only where one was taken: where the frame thread stands and
  what the worker answered tell whether one is. What the panel will show depends
  on drawings still in the engine's channel, so the invariant `MergeInv` speaks of
  what a slot comes to hold: `Holds(s, n, g)`, slot `s` holds `g` once drawing `n`
  has run or was spoiled by a drawing given up; `Held(s, n, g)`, and nothing anyone
  wants is drawn over it after. Each belief of the code is one such claim:
  SlotPictures (`KnownPictures`), the queued drawing (`PendingPicture`), the last
  group drawn (`Current`), a drawing in part (`Chained`), a flip (`FlipsTrue`).
  The fence of a freed slot is later than every flip that shows it (`Freed`), which
  keeps the engine from the slot on the panel. `GroupsAssumption` is what
  PictureMemory.h:51-54 relies on: a buffer and its hand-over count say which layer
  drew it, and a layer's count which buffer. Given-up drawings are not in the
  promise: a slot one of them wrote last is `spoiled`, as in the property.
* **GovernorProofs** (`GovernorAssumption`): `GovernorAgrees`,
  `DescriptorsClosedOnce`, `FloorsAreWaitedOut`, `FloorsOutliveWork`. A
  descriptor is in one place at a time, the mailbox, one lane's watch, or closed;
  each lane by itself keeps a floor only with a fence or a timer to end it. The
  two about floors have their exceptions as hypotheses: a work whose fence could
  not be copied (`CopyFails`), a floor the kernel did not take (`WriteFails`).
* **ImageCacheProofs** (`CacheAssumption`): `ImagesAgree`, `ImagesAreHeld`,
  `CacheStaysHonest`. An image is in one place, whoever still refers to it
  remembers the last frame that reads it, nothing is retired before the GPU is
  done, and what a drawing holds is claimed and protected while it is put
  together. That MakeRoom leaves the cache within its budget needs a least
  recently used entry to exist, from well-foundedness.
* **HeadProofs**: `HeadAgrees`, `HeadWearsWhatItIsTold`, `SpriteIsThePointer`,
  `ScanIsNeverDrawnUnder`. A commit is one step of many calls on one record. The
  invariant is `Good(state)`, a conjunct each for windows, porch, colour, the
  unit's slots and the sprite; every call has a lemma on the part it makes and
  one on the parts it keeps, and the step's proof composes them in the order of
  Execute. What has to be added: which of the unit's two slots the panel scans and
  what the other holds; that the matrix remembered is the panel's unless the last
  write of it was refused; that the manager's porch is the active config's between
  commits.
* **GpuSeatProofs** (no hypothesis): `DrawnApartFromTheScan`, for any number of
  frames, layers, edits and refusals. `SeatInv` says where the panel can be in the
  rotation of three: at the buffer last seated or one behind it (`Scanned`), one
  behind only after a commit that was refused; a flip in the air may free the next
  buffer in turn, and then whatever is drawn in it waits for that flip's fence
  (`Begun`, `Waits`). All that is in flight is of one buffer, and all but the last
  of it was refused (`OneTarget`). Each of these is claimed only while fewer than
  two commits were refused, and nothing of the ring before is remembered: that the
  flip of what Presented was told of makes the claims true again when it lands,
  from any state the refusals led to, is the step of Land.
* **ClocksProofs** (`VSyncAssumption`): `TimeoutIsPaidOnce`, `OneCallbackLate`,
  `OnlyTheLastIsTold`, `NextVsyncIsInPhase`, `ClockStaysHonest` for the vsync
  worker; each promise has an invariant of its own, and the phase needs two lemmas on
  the truncating division of C++, for a moment after the last blank and for one
  before it. `TintIsWornOnce` for the colour: the matrix of
  the head, the executor's and the client's are functions of what was asked and
  chosen (`ColourInv`), and a frame's plan takes the colour there is. Its
  hypothesis `WearsOnce` is on the board: with the colour unit on, the unit's stage
  takes an offset; with it off, no executor draws and the client's transform is not
  claimed from it. The boards left out are those of the disagreements.
* **NoticesProofs** (`FlatteningAssumption`, `CollectorsAssumption`).
  `CollectorAgrees`, `AllIsCollected`, `FlushIsKept`: every job stands at the place
  it was posted in - run, under way or waiting behind that one - and the thread
  leaves its loop only with the queue empty and the owner gone from posting.
  `ControllerAgrees`, `LevelToldIsAsked`: the protection thread asks the connector
  and tells the client outside its mutex; a request once committed is replaced by
  nobody but the thread, so no frame slips in between the question, the decision
  and the telling. `FlatteningAgrees`, `LocksAreKept`, `NoTriggerIsLeft`,
  `StopIsNotMissed`: while the flattening thread is joined under the main lock it
  has the word to exit, is awake and wants no lock of the composer's. Then, for the
  three put together in NoticesMC, `NoticesCollect`, `NoticesFlush` and
  `NoticesTellTrue`: a part that does not move stutters, so each part's own
  argument carries over.

The runs check the properties these theorems name with TLC, on small instances.

Only model-checked, and why:

* every liveness property, fairness and ENABLED being beyond the prover:
  `CallsReturn`, `FloorGoesAtLast`, `WorkerAnswers`, `ProfileArrives`,
  `EverythingEnds`;
* what rests on the value of a recursive definition or a fold for every input,
  which needs induction over data: the pictures (`ContractKept`,
  `ReleasesAreTrue`, `SkipHonoured`, `PanelIsTrue`, `SavingsAreUnseen`) and the
  seating (`PictureKept`, `AcceptedIsShown`, `SearchesAreExact`), with the folds
  of Planner, Joining, Occlusion and PartialRedraw; the runs of calls that
  VicSession, BringUp and Lifecycle make by folds and by joining sequences
  (`EngineDrawsTrue`, `NothingKept`, `DownInOrder`, `DisplaysAreTrue`);
* `FloorOutlivesWork`: the theorem `FloorsOutliveWork` states it for Governor
  itself, the run where Governor is one of several parts.

## 6. How it was built

From the queue outwards: the queue and its threads, the merge path over it, the
display's frame and its abstract specification, the planes and the GPU seat, then
the head, the clocks and what is told to the client, and last the bring-up and
the displays' lives. Each module was checked before it was proved about. Modules
proved about are written without RECURSIVE operators. Open are the hazards `PROJECT.json` lists
without a property, each with the reason, and of the proofs those above.

## 7. Not modelled

* Register programming, ioctls, sysfs parsing, buffer layouts and the backends:
  translation tables whose errors a run of the device shows at once, and whose
  external half is not in the repository. A buffer is an identity.
* Arithmetic of colour, geometry and of the governor's estimates: floating point.
* HwcDisplayConfigs beyond what a stand-in and the active config need, writeback
  and virtual displays (this backend has none), HDR metadata, rate reports.
* The backlight: two values and a file.
* Statistics, dumps, bench tools, captures, vendored headers: they change no
  state the rest depends on.
