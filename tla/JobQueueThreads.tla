-------------------------- MODULE JobQueueThreads --------------------------
(***************************************************************************)
(* The threads around a JobQueue: the engine's worker, whose loop is       *)
(* Take, draw, Done until Take answers nothing (VicWorkerLoop), and the    *)
(* frames, which queue jobs at validate and at present resolve or cancel   *)
(* the ones they still hold.  Whoever tears the engine down calls Stop at  *)
(* any moment.                                                             *)
(*                                                                         *)
(* A frame resolves or cancels only jobs it queued and has not yet given   *)
(* up or been answered for, as TegraAtomicStateManager does with           *)
(* pending_merge_ and GpuExecutor with begun_.                             *)
(***************************************************************************)
EXTENDS JobQueue, FiniteSets

CONSTANTS
    Frames,     \* threads that put frames together
    Worker      \* the engine's own thread

ASSUME ThreadsAssumption == Threads = Frames \union {Worker} /\ Worker \notin Frames

VARIABLES
    worker,     \* "take": in or about to call Take; "drawing"; "exited"
    wjob,       \* the job the worker has, 0 if none
    wempty,     \* the job it was handed had been let go already
    held,       \* the jobs each frame still has to resolve or cancel
    asking,     \* the job each frame is in Resolve for, 0 if none
    wait,       \* Resolve's second argument
    fate,       \* history: what the engine did with each job
    told        \* history: what Resolve answered for each job

threadVars == <<worker, wjob, wempty, held, asking, wait, fate, told>>
vars == <<queueVars, threadVars>>

Fates == {"untaken", "taken", "submitted", "refused"}
Outcomes == {"submitted", "refused", "dropped", "cancelled"}

TypeOK ==
    /\ QueueTypeOK
    /\ worker \in {"take", "drawing", "exited"}
    /\ wjob \in 0..MaxJobs
    /\ wempty \in BOOLEAN
    /\ held \in [Frames -> SUBSET Ids]
    /\ asking \in [Frames -> 0..MaxJobs]
    /\ wait \in [Frames -> BOOLEAN]
    /\ fate \in [Ids -> Fates]
    /\ told \in [Ids -> Outcomes \union {"nothing"}]

Init ==
    /\ QueueInit
    /\ worker = "take" /\ wjob = 0 /\ wempty = FALSE
    /\ held = [f \in Frames |-> {}]
    /\ asking = [f \in Frames |-> 0]
    /\ wait = [f \in Frames |-> FALSE]
    /\ fate = [i \in Ids |-> "untaken"]
    /\ told = [i \in Ids |-> "nothing"]

-----------------------------------------------------------------------------
\* The worker: VicWorkerLoop and its Take.

WorkerTakes(id) ==
    /\ worker = "take" /\ Worker \notin sleeping
    /\ TakeJob(id)
    /\ worker' = "drawing" /\ wjob' = id /\ wempty' = ~job[id]
    /\ fate' = [fate EXCEPT ![id] = "taken"]
    /\ UNCHANGED <<held, asking, wait, told>>

WorkerWaits ==
    /\ worker = "take" /\ Worker \notin sleeping
    /\ TakeWait(Worker)
    /\ UNCHANGED threadVars

WorkerExits ==
    /\ worker = "take" /\ Worker \notin sleeping
    /\ TakeStopped
    /\ worker' = "exited"
    /\ UNCHANGED <<wjob, wempty, held, asking, wait, fate, told>>

WorkerDone(submitted) ==
    /\ worker = "drawing"
    /\ Done(wjob, submitted)
    /\ worker' = "take" /\ wjob' = 0 /\ wempty' = FALSE
    /\ fate' = [fate EXCEPT ![wjob] = IF submitted THEN "submitted"
                                                   ELSE "refused"]
    /\ UNCHANGED <<held, asking, wait, told>>

-----------------------------------------------------------------------------
\* The frames.

FrameQueues(f, d) ==
    /\ asking[f] = 0
    /\ \E id \in Ids :
        /\ Queue(id, d)
        /\ held' = [held EXCEPT ![f] = @ \union {id}]
    /\ UNCHANGED <<worker, wjob, wempty, asking, wait, fate, told>>

FrameCallsResolve(f, id, w) ==
    /\ asking[f] = 0 /\ id \in held[f]
    /\ asking' = [asking EXCEPT ![f] = id]
    /\ wait' = [wait EXCEPT ![f] = w]
    /\ UNCHANGED <<queueVars, worker, wjob, wempty, held, fate, told>>

FrameIsAnswered(f, outcome) ==
    /\ asking[f] # 0 /\ f \notin sleeping
    /\ ResolveReturns(asking[f], wait[f], outcome)
    /\ told' = [told EXCEPT ![asking[f]] = outcome]
    /\ held' = [held EXCEPT ![f] = @ \ {asking[f]}]
    /\ asking' = [asking EXCEPT ![f] = 0]
    /\ UNCHANGED <<worker, wjob, wempty, wait, fate>>

FrameWaits(f) ==
    /\ asking[f] # 0 /\ f \notin sleeping
    /\ ResolveWaits(f, asking[f], wait[f])
    /\ UNCHANGED threadVars

FrameCancels(f, id) ==
    /\ asking[f] = 0 /\ id \in held[f]
    /\ Cancel(id)
    /\ held' = [held EXCEPT ![f] = @ \ {id}]
    /\ UNCHANGED <<worker, wjob, wempty, asking, wait, fate, told>>

Stops == ~stopped_ /\ Stop /\ UNCHANGED threadVars

Wakes(t) == SpuriousWakeup(t) /\ UNCHANGED threadVars

WorkerNext ==
    \/ \E id \in Ids : WorkerTakes(id)
    \/ WorkerWaits
    \/ WorkerExits
    \/ \E s \in BOOLEAN : WorkerDone(s)

\* A Resolve that was called goes on until it returns.
ResolveNext(f) == (\E o \in Outcomes : FrameIsAnswered(f, o)) \/ FrameWaits(f)

FrameNext(f) ==
    \/ \E d \in BOOLEAN : FrameQueues(f, d)
    \/ \E id \in Ids, w \in BOOLEAN : FrameCallsResolve(f, id, w)
    \/ ResolveNext(f)
    \/ \E id \in Ids : FrameCancels(f, id)

Next ==
    \/ WorkerNext
    \/ \E f \in Frames : FrameNext(f)
    \/ Stops
    \/ \E t \in Threads : Wakes(t)

Spec == Init /\ [][Next]_vars

\* The worker runs, a drawing comes to an end, and a frame inside Resolve is
\* scheduled; nobody is obliged to queue, to cancel or to stop.
FairSpec == Spec /\ WF_vars(WorkerNext) /\ \A f \in Frames : WF_vars(ResolveNext(f))

-----------------------------------------------------------------------------
\* Take dereferences the entry's optional without looking: the worker is
\* never handed a job that Stop, Queue or Resolve has already let go
\* (TakeLocked, `std::move(*e.job)').
NoEmptyTake == ~wempty

\* What a present is told is what happened: "submitted" and "refused" are the
\* engine's own answers, a job said to be dropped never reached the engine,
\* and a frame that still holds its job hears "cancelled" only of a stopped
\* queue.
OutcomeIsTrue ==
    \A i \in Ids :
        /\ told[i] \in {"submitted", "refused"} => fate[i] = told[i]
        /\ told[i] = "dropped" => fate[i] = "untaken"
        /\ told[i] = "cancelled" => stopped_

\* Nothing is left in entries_ that nobody will ever take out: every entry is
\* held by a frame, or is the cancelled one the worker is still drawing.
NoEntryLeaks ==
    \A i \in Ids :
        state[i] # "none" =>
            \/ \E f \in Frames : i \in held[f]
            \/ worker = "drawing" /\ wjob = i /\ cancelled[i]

\* How the two sides agree on every job: the strengthening that makes the
\* four invariants above inductive.
Unborn ==
    \A i \in Ids : i > last_id_ =>
        /\ state[i] = "none" /\ fate[i] = "untaken" /\ told[i] = "nothing"
        /\ \A f \in Frames : i \notin held[f]

WorkerSide ==
    /\ worker = "drawing" => wjob \in Ids
    /\ \A i \in Ids :
        /\ fate[i] = "taken" <=> (worker = "drawing" /\ wjob = i)
        /\ state[i] = "submitting" => fate[i] = "taken"
        /\ state[i] \in {"queued", "dropped"} => fate[i] = "untaken"
        /\ state[i] \in {"submitted", "refused"} => fate[i] = state[i]
        /\ cancelled[i] => state[i] \in {"none", "submitting"}
        /\ state[i] = "queued" /\ ~stopped_ => job[i]

FrameSide ==
    \A f \in Frames :
        /\ asking[f] # 0 => asking[f] \in held[f]
        /\ \A i \in held[f] :
            /\ state[i] # "none" /\ ~cancelled[i] /\ told[i] = "nothing"
            /\ \A g \in Frames : i \in held[g] => g = f

\* What is queued is younger than anything the worker has ever taken.
Younger ==
    \A i, j \in Ids : state[i] = "queued" /\ fate[j] # "untaken" => j < i

Answered == \A i \in Ids : told[i] # "nothing" => state[i] = "none"

\* Every entry of the queue is accounted for by exactly one frame or by the
\* worker, on both sides alike: the queue, the worker and the frames can never
\* come to disagree about a job, whatever order their calls take the mutex in.
SidesAgree == Unborn /\ WorkerSide /\ FrameSide /\ Younger /\ Answered

\* The queue, the worker and the frames never come to disagree about a job: what
\* is handed out is whole, and nothing in the queue is nobody's.
QueueIsSound == NoEmptyTake /\ NoEntryLeaks /\ SidesAgree

\* Drawings reach the engine in the order the frames queued them, drops and
\* cancels in between notwithstanding.
TakenInOrder ==
    [][\A i \in Ids : fate[i] = "untaken" /\ fate'[i] = "taken" =>
            \A j \in Ids : fate[j] # "untaken" => j < i]_vars

\* No wake-up is lost between the worker's Done, a newer job's Queue, Stop and
\* the waits in Resolve and Take: a present that asks for its job's outcome
\* always gets one, and once the queue is stopped the worker leaves its loop, so
\* that the join in the engine's teardown ends.
NoLostWakeUp ==
    /\ \A f \in Frames : asking[f] # 0 ~> asking[f] = 0
    /\ stopped_ ~> worker = "exited"
=============================================================================
