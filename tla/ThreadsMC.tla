------------------------------ MODULE ThreadsMC ------------------------------
(***************************************************************************)
(* The composer's engine threads and whoever waits for them, each on its    *)
(* own: the job queue between an engine and the frames (JobQueueThreads),   *)
(* the Vulkan compositor's thread over its own queue (VkThread), the merged *)
(* group's way to the panel (MergePath) and the governor (Governor), here   *)
(* with the image engine alone.  They share no state; `part' is chosen at   *)
(* the start and says which one moves, while the others stay as they came.  *)
(***************************************************************************)
EXTENDS JobQueueThreads, Sequences

CONSTANTS
    f1, w,
    MaxComposes     \* bound: synchronous Compose calls of the Vulkan compositor

\* One frame and one worker; MaxJobs and Threads are the same for all three queues.
OneFrame == {f1}
OneFrameThreads == {f1, w}

-----------------------------------------------------------------------------
\* Two drawings and a synchronous Compose.
VARIABLES vk_last_id_, vk_state, vk_droppable, vk_job, vk_cancelled, vk_dropped_in_a_row_,
          vk_stopped_, vk_sleeping, work_, stopping_, thread, taken, last_drawn, caller,
          vk_held, asked, waits, answers, composes
vkVars == <<vk_last_id_, vk_state, vk_droppable, vk_job, vk_cancelled, vk_dropped_in_a_row_,
            vk_stopped_, vk_sleeping, work_, stopping_, thread, taken, last_drawn, caller,
            vk_held, asked, waits, answers, composes>>
Vk == INSTANCE VkThread WITH
    Caller <- f1,
    last_id_ <- vk_last_id_, state <- vk_state, droppable <- vk_droppable, job <- vk_job,
    cancelled <- vk_cancelled, dropped_in_a_row_ <- vk_dropped_in_a_row_,
    stopped_ <- vk_stopped_, sleeping <- vk_sleeping, held <- vk_held

\* One layer over its first two frames in one buffer, two slots, one plan tested
\* and two frames shown.
OneLayer ==
    {[size |-> 1, members |-> << [serial |-> 1, source |-> 1, generation |-> n, place |-> 0,
                                  blend |-> 0, transform |-> 0] >>] : n \in 1..2}

VARIABLES merge_last_id_, merge_state, merge_droppable, merge_job, merge_cancelled,
          merge_dropped_in_a_row_, merge_stopped_, merge_sleeping, at_, showing_, freed_when,
          merge_memory_, last_described, last_merge_fence_, lagged_last_, pending_merge_,
          slot_pictures_, fpc, group, resolved, how, tests, frames, wpc, merge_wjob, wlast,
          jobs, ops, done, content, flips, latched, late, spoiled
mergeVars == <<merge_last_id_, merge_state, merge_droppable, merge_job, merge_cancelled,
               merge_dropped_in_a_row_, merge_stopped_, merge_sleeping, at_, showing_, freed_when,
               merge_memory_, last_described, last_merge_fence_, lagged_last_, pending_merge_,
               slot_pictures_, fpc, group, resolved, how, tests, frames, wpc, merge_wjob, wlast,
               jobs, ops, done, content, flips, latched, late, spoiled>>
Merge == INSTANCE MergePath WITH
    FrameThread <- f1, VicThread <- w, Groups <- OneLayer, NumSlots <- 2,
    MaxTests <- 1, MaxFrames <- 2, MaxCalls <- 3,
    last_id_ <- merge_last_id_, state <- merge_state, droppable <- merge_droppable,
    job <- merge_job, cancelled <- merge_cancelled,
    dropped_in_a_row_ <- merge_dropped_in_a_row_, stopped_ <- merge_stopped_,
    sleeping <- merge_sleeping, wjob <- merge_wjob

\* Two frames, two works, one change of power.
VARIABLES pending_, gpu_pending_, submitted_, power_, stop_, rung, seq, gpu_seq, reports,
          powers, ringing, destroyed, gov_thread, revents, lane, cpu_until_ns_, lifted_,
          last_frame_, dead_, signaled, closed
govVars == <<pending_, gpu_pending_, submitted_, power_, stop_, rung, seq, gpu_seq, reports,
             powers, ringing, destroyed, gov_thread, revents, lane, cpu_until_ns_, lifted_,
             last_frame_, dead_, signaled, closed>>
Gov == INSTANCE Governor WITH
    Engines <- {"vic"}, CopyFails <- FALSE, WriteFails <- FALSE, Levels <- 1, MaxSeq <- 2,
    MaxFences <- 2, MaxPower <- 1, MaxCalls <- 3, thread <- gov_thread

VARIABLE part

-----------------------------------------------------------------------------
ThreadsInit ==
    /\ part \in {"queue", "vk", "merge", "governor"}
    /\ Init /\ Vk!Init /\ Merge!Init /\ Gov!Init
    /\ part # "merge" => late = {}

ThreadsNext ==
    /\ UNCHANGED part
    /\ \/ part = "queue" /\ Next /\ UNCHANGED <<vkVars, mergeVars, govVars>>
       \/ part = "vk" /\ Vk!Next /\ UNCHANGED <<vars, mergeVars, govVars>>
       \/ part = "merge" /\ Merge!Next /\ UNCHANGED <<vars, vkVars, govVars>>
       \/ part = "governor" /\ Gov!Next /\ UNCHANGED <<vars, vkVars, mergeVars>>

\* Each part's own fairness, asked of it only where it is the part that moves.
ThreadsFairness ==
    /\ WF_vars(part = "queue" /\ WorkerNext)
    /\ \A f \in Frames : WF_vars(part = "queue" /\ ResolveNext(f))
    /\ WF_vkVars(part = "vk" /\ Vk!ThreadNext)
    /\ WF_vkVars(part = "vk" /\ Vk!CallerGoesOn)
    /\ WF_vkVars(part = "vk" /\ Vk!GpuFinishes)
    /\ WF_mergeVars(part = "merge" /\ Merge!WorkerNext)
    /\ WF_mergeVars(part = "merge" /\ Merge!ResolveNext)
    /\ WF_mergeVars(part = "merge" /\ Merge!ExecuteNext)
    /\ WF_mergeVars(part = "merge" /\ Merge!QueueMerge)
    /\ WF_mergeVars(part = "merge" /\ Merge!EngineDraws)
    /\ WF_mergeVars(part = "merge" /\ Merge!PanelLatches)
    /\ \A g \in OneLayer : WF_mergeVars(part = "merge" /\ Merge!ClientFinishes(g))
    /\ WF_govVars(part = "governor" /\ Gov!Ring)
    /\ WF_govVars(part = "governor" /\ Gov!ThreadNext)

ThreadsSpec ==
    /\ ThreadsInit /\ [][ThreadsNext]_<<part, vars, vkVars, mergeVars, govVars>>
    /\ ThreadsFairness

-----------------------------------------------------------------------------
\* No drawing queued for the Vulkan compositor is without a run on its way to it,
\* and none is left when the thread goes down (VkThread: RunForEachJob,
\* NothingLeftBehind).
DrawingsAreServed == part = "vk" => Vk!RunForEachJob /\ Vk!NothingLeftBehind

\* Somebody waits for a thread: a frame for its drawing, the owner for the
\* thread's end, the panel for what a flip shows, a dark display for the floors.
Waiting ==
    \/ part = "queue" /\ ((\E f \in Frames : asking[f] # 0) \/ (stopped_ /\ worker # "exited"))
    \/ part = "vk" /\ caller \notin {"idle", "gone"}
    \/ part = "merge" /\ (fpc # "idle" \/ Len(flips) > latched)
    \/ part = "governor" /\ \/ stop_ /\ gov_thread # "exited"
                            \/ power_ = "off" /\ (lifted_ \/ lane["vic"].floor # 0)

\* Whoever waits is let go.  No wake-up is lost between the queue's waits and
\* whoever ends them; a drawing is answered though the GPU be busy with another,
\* and a synchronous Compose behind runs that repost themselves; the engine's wait
\* for a slot and the panel's wait for the engine never close a circle; what is
\* left in the governor's mailbox reaches its thread, though the descriptor is
\* rung after the lock.  (Calls are bounded: all of it is quiet at one moment.)
CallsReturn == Waiting ~> ~Waiting

\* A floor is not let go under work that is neither done nor given up (Governor:
\* FloorOutlivesWork).
FloorOutlivesWork == Gov!FloorOutlivesWork

\* Every floor goes at last (Governor: FloorGoesAtLast).
FloorGoesAtLast == Gov!FloorGoesAtLast
=============================================================================
