------------------------------ MODULE BringUp ------------------------------
(***************************************************************************)
(* A display's pipeline brought up and taken down: the head, the blank     *)
(* source, the image engine and its pool, the cursor unit, the governor,   *)
(* the GPU executor with all of Vulkan under it, and the state manager     *)
(* that borrows the others.  Each is asked for in turn and may be refused; *)
(* some are done without, others take back what was made for them.  What   *)
(* goes is let go one by one, in the order of the destructors.             *)
(*                                                                         *)
(* An object is a pair of its name and its place in an array, 0 for one of *)
(* a kind.                                                                 *)
(***************************************************************************)
EXTENDS Naturals, Sequences, SequencesExt

CONSTANTS
    Buffers,    \* screens of the pool and of the executor
    GpuSlots    \* Vulkan compositor: slots_

VARIABLES
    todo,       \* what is still to be asked for, in order
    down,       \* what is to be let go, in order
    made,       \* the objects standing
    lost,       \* objects whose destructor the driver does not offer
    fate,       \* "coming", "up", "going", "gone"
    busy        \* the GPU has work

bringVars == <<todo, down, made, lost, fate, busy>>

One(name) == <<name, 0>>
Each(name, n) == [i \in 1..n |-> <<name, i>>]

\* A step: what is asked for, of which part, whether the part can do without,
\* and whether it leaves an object or is only a question.
Ask(part, object, must, kind) == [part |-> part, object |-> object, must |-> must, kind |-> kind]
Makes(part, names) == [i \in DOMAIN names |-> Ask(part, names[i], TRUE, "object")]
Tries(part, names) == [i \in DOMAIN names |-> Ask(part, names[i], FALSE, "object")]
Checks(part, names) == [i \in DOMAIN names |-> Ask(part, One(names[i]), TRUE, "check")]

-----------------------------------------------------------------------------
(* The order things are asked for.                                         *)

\* createVulkanLoader: the module opened directly, else the system's.
LoaderUp == Makes("gpu", <<One("loader")>>)

\* VulkanDeviceState::init, up to the instance.
InstanceUp ==
    Makes("gpu", <<One("pfn"), One("instance")>>)
      \o Checks("gpu", <<"instance_entries", "physical_device">>)

\* And from the physical device to the logical one.
DeviceUp ==
    Checks("gpu", <<"glsl", "queue">>) \o Makes("gpu", <<One("device")>>)
      \o Checks("gpu", <<"device_entries">>)

StateUp == LoaderUp \o InstanceUp \o DeviceUp

\* InitPipeline: four passes and a pipeline it can do without.
PassesUp ==
    Makes("gpu", <<One("render_pass")>>)
      \o Tries("gpu", <<One("keep_pass"), One("cover_keep_pass"), One("cover_pass"), One("load_pass")>>)

PipelineUp ==
    Makes("gpu", <<One("sampler"), One("set_layout"), One("pipeline_layout"), One("vert"),
                   One("frag"), One("pipeline")>>)
      \o Tries("gpu", <<One("replace_pipeline")>>)

SlotUp(i) == Makes("gpu", <<<<"done", i>>, <<"pool", i>>, <<"acquired", i>>, <<"drawn", i>>>>)

SlotsUp ==
    Makes("gpu", <<One("command_pool")>>) \o FlattenSeq([i \in 1..GpuSlots |-> SlotUp(i)])

DummyUp ==
    Makes("gpu", <<One("dummy_image"), One("dummy_memory"), One("dummy_view")>>)
      \o Checks("gpu", <<"dummy_layout">>)

WarmUp ==
    Makes("gpu", <<One("warm_image"), One("warm_memory"), One("warm_view"), One("warm_fb"),
                   One("warm_pool"), One("warm_done")>>)
      \o Checks("gpu", <<"warm_commands">>)

\* VkCompositor::Init, on the thread.
VulkanUp ==
    StateUp \o Checks("gpu", <<"native_buffer">>) \o PassesUp \o PipelineUp \o SlotsUp
      \o DummyUp \o WarmUp \o Makes("gpu", <<One("cache")>>)

\* GpuExecutor::Open.
ExecutorUp ==
    Makes("gpu", <<One("library")>>) \o Checks("gpu", <<"entry_points", "version">>)
      \o Makes("gpu", <<One("thread")>>) \o VulkanUp
      \o Makes("gpu", <<One("gralloc")>>) \o Makes("gpu", Each("buffer", Buffers))

\* ScratchPool::Create: the whole pool or nothing.
PoolUp == Makes("pool", Each("slot", Buffers))

\* CompositionGovernor::Load.
GovernorUp ==
    Makes("governor", <<One("policy_library")>>) \o Checks("governor", <<"policy_entries">>)
      \o Tries("governor", <<One("warmer")>>) \o Makes("governor", <<One("governor")>>)

\* TegraDisplayPipeline::create and the constructor.
PipelineOfDisplayUp ==
    Makes("display", <<One("head"), One("vsync")>>)
      \o Tries("vic", <<One("vic")>>) \o PoolUp
      \o Tries("cursor", <<One("cursor")>>) \o GovernorUp \o ExecutorUp
      \o Makes("manager", <<One("manager")>>)

-----------------------------------------------------------------------------
(* The order things are let go.  "idle" is the wait for the GPU.           *)

StateDown == <<One("device"), One("instance"), One("pfn"), One("loader")>>

SlotDown(i) == <<<<"acquired", i>>, <<"drawn", i>>, <<"pool", i>>, <<"done", i>>>>

\* The wait is left out.
MutTeardown == <<One("cache")>> \o FlattenSeq([i \in 1..GpuSlots |-> SlotDown(i)])

\* VkCompositor::Teardown, on the thread.
Teardown ==
    <<One("idle"), One("cache")>> \o FlattenSeq([i \in 1..GpuSlots |-> SlotDown(i)])

WarmDown ==
    <<One("warm_done"), One("warm_pool"), One("warm_fb"), One("warm_view"), One("warm_image"),
      One("warm_memory"), One("command_pool")>>

\* The pipeline tried for last is forgotten.
MutPipelineDown ==
    <<One("dummy_view"), One("dummy_image"), One("dummy_memory"), One("pipeline"),
      One("vert"), One("frag"), One("pipeline_layout"),
      One("set_layout"), One("sampler"), One("keep_pass"), One("cover_pass"),
      One("cover_keep_pass"), One("load_pass"), One("render_pass")>>

PipelineDown ==
    <<One("dummy_view"), One("dummy_image"), One("dummy_memory"), One("pipeline"),
      One("replace_pipeline"), One("vert"), One("frag"), One("pipeline_layout"),
      One("set_layout"), One("sampler"), One("keep_pass"), One("cover_pass"),
      One("cover_keep_pass"), One("load_pass"), One("render_pass")>>

VulkanDown == Teardown \o WarmDown \o PipelineDown \o StateDown

\* ~GpuExecutor.
ExecutorDown ==
    VulkanDown \o <<One("thread")>> \o Each("buffer", Buffers)
      \o <<One("gralloc"), One("library")>>

\* ~CompositionGovernor: the library joins its thread first.
GovernorDown == <<One("governor"), One("warmer"), One("policy_library")>>

PoolDown == Each("slot", Buffers)

\* ~TegraDisplayPipeline.
PipelineOfDisplayDown ==
    <<One("vsync"), One("manager"), One("cursor")>> \o GovernorDown \o ExecutorDown
      \o <<One("vic")>> \o PoolDown \o <<One("head")>>

\* What a part takes with it when one of its steps is refused.
Unwind(part) ==
    CASE part = "gpu" -> ExecutorDown
      [] part = "governor" -> GovernorDown
      [] part = "pool" -> PoolDown \o <<One("vic")>>
      [] OTHER -> <<One("head")>>

-----------------------------------------------------------------------------
Init ==
    /\ todo = PipelineOfDisplayUp /\ down = <<>>
    /\ made = {} /\ lost = {} /\ fate = "coming"
    /\ busy = FALSE

\* The pool and the governor are asked for only where there is an engine.
Skipped(step) == step.part \in {"pool", "governor"} /\ One("vic") \notin made

OthersThan(part, steps) == SelectSeq(steps, LAMBDA s : s.part # part)

Asking == fate = "coming" /\ down = <<>> /\ todo # <<>>

Skip ==
    /\ Asking /\ Skipped(Head(todo))
    /\ todo' = OthersThan(Head(todo).part, todo)
    /\ UNCHANGED <<down, made, lost, fate, busy>>

\* Init's own warm-up drawing is waited for on the spot.
Grant ==
    /\ Asking /\ ~Skipped(Head(todo))
    /\ made' = IF Head(todo).kind = "object" THEN made \union {Head(todo).object} ELSE made
    /\ todo' = Tail(todo)
    /\ UNCHANGED <<down, lost, fate, busy>>

\* What is only made of memory is not refused.
OfMemory == {One("pfn"), One("thread"), One("cache"), One("manager")}

\* A step the part can do without is left out; another takes the part with
\* it, and the head or the blank source the whole display.  The driver that
\* lacks an entry point may lack the one that destroys.
Refuse ==
    /\ Asking /\ ~Skipped(Head(todo))
    /\ Head(todo).object \notin OfMemory
    /\ IF Head(todo).must
       THEN /\ down' = Unwind(Head(todo).part)
            /\ todo' = IF Head(todo).part = "display" THEN <<>>
                       ELSE OthersThan(Head(todo).part, todo)
            /\ fate' = IF Head(todo).part = "display" THEN "going" ELSE fate
       ELSE todo' = Tail(todo) /\ UNCHANGED <<down, fate>>
    /\ lost' \in CASE Head(todo).object = One("instance_entries") -> {{}, {One("instance")}}
                   [] Head(todo).object = One("device_entries") -> {{}, {One("device")}}
                   [] OTHER -> {lost}
    /\ UNCHANGED <<made, busy>>

Ready ==
    /\ fate = "coming" /\ todo = <<>> /\ down = <<>>
    /\ fate' = "up"
    /\ UNCHANGED <<todo, down, made, lost, busy>>

\* What is null is passed over, and what has no destructor is left.
Release ==
    /\ down # <<>>
    /\ Head(down) = One("idle") /\ One("device") \in made => ~busy
    /\ made' = IF Head(down) \in lost THEN made ELSE made \ {Head(down)}
    /\ down' = Tail(down)
    /\ UNCHANGED <<todo, lost, fate, busy>>

Close ==
    /\ fate = "up"
    /\ fate' = "going" /\ down' = PipelineOfDisplayDown
    /\ UNCHANGED <<todo, made, lost, busy>>

Gone ==
    /\ fate = "going" /\ down = <<>>
    /\ fate' = "gone"
    /\ UNCHANGED <<todo, down, made, lost, busy>>

\* WarmNow, on the thread: given up while the last one is drawing.
Warm ==
    /\ fate = "up" /\ One("cache") \in made
    /\ ~busy /\ busy' = TRUE
    /\ UNCHANGED <<todo, down, made, lost, fate>>

\* A frame's drawing.
Draw ==
    /\ fate = "up" /\ One("cache") \in made
    /\ busy' = TRUE
    /\ UNCHANGED <<todo, down, made, lost, fate>>

GpuFinishes ==
    /\ busy
    /\ busy' = FALSE
    /\ UNCHANGED <<todo, down, made, lost, fate>>

Next ==
    \/ Skip \/ Grant \/ Refuse \/ Ready \/ Release \/ Close \/ Gone
    \/ Warm \/ Draw \/ GpuFinishes

Spec == Init /\ [][Next]_bringVars

-----------------------------------------------------------------------------
(* Properties.                                                             *)

OfDevice ==
    {One(n) : n \in {"render_pass", "keep_pass", "cover_keep_pass", "cover_pass", "load_pass",
                     "sampler", "set_layout", "pipeline_layout", "vert", "frag", "pipeline",
                     "replace_pipeline", "command_pool", "dummy_image", "dummy_memory",
                     "dummy_view", "warm_image", "warm_memory", "warm_view", "warm_fb",
                     "warm_pool", "warm_done", "cache"}}
      \union {<<n, i>> : n \in {"done", "pool", "acquired", "drawn"}, i \in 1..GpuSlots}

\* What an object borrows, and must not outlive.
Borrows(o) ==
    (IF o \in OfDevice THEN {One("device")} ELSE {})
      \union CASE o[1] = "vsync" -> {One("head")}
               [] o[1] = "cursor" -> {One("head"), One("vic")}
               [] o[1] = "manager" -> {One("head"), One("vic"), One("cursor"), One("governor")}
                                        \union {<<"slot", i>> : i \in 1..Buffers}
               [] o[1] = "governor" -> {One("policy_library"), One("warmer"), One("vic")}
               [] o[1] = "thread" -> {One("library")}
               [] o[1] = "instance" -> {One("pfn"), One("loader")}
               [] o[1] = "device" -> {One("instance"), One("pfn"), One("loader"), One("thread")}
               [] o[1] = "buffer" -> {One("gralloc")}
               [] o[1] = "warm_fb" -> {One("warm_view"), One("render_pass")}
               [] o[1] = "warm_view" -> {One("warm_image")}
               [] o[1] = "dummy_view" -> {One("dummy_image")}
               [] o[1] = "cache" -> {One("render_pass")}
               [] OTHER -> {}

\* At whichever step bringing a display up is refused, and when it is taken
\* down: nothing is let go while something standing still borrows it, and
\* nothing of the GPU's, the screens it draws into and the library its thread
\* runs in included, while the GPU has work (~TegraDisplayPipeline,
\* ~GpuExecutor, VkCompositor::Teardown, VulkanDeviceState::destroy).  A
\* driver that offers no destructor is left out.
DownInOrder ==
    [][\A o \in made \ made' :
          /\ lost = {} => \A c \in made' : o \notin Borrows(c)
          /\ busy => o \notin OfDevice /\ o[1] \notin {"device", "buffer", "library"}]_bringVars

\* A part that was refused leaves nothing of itself behind, whichever of its
\* steps it was, and a display that is gone nothing at all: the executor is
\* whole or absent, and there is an engine only with its pool.
NothingLeft ==
    /\ fate = "gone" => made = lost
    /\ fate = "up" =>
         /\ One("vic") \in made <=> \A i \in 1..Buffers : <<"slot", i>> \in made
         /\ (\E o \in made : o \in OfDevice \/ o[1] \in {"library", "thread", "gralloc", "buffer"})
              => One("cache") \in made /\ \A i \in 1..Buffers : <<"buffer", i>> \in made
=============================================================================
