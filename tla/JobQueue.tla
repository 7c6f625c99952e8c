----------------------------- MODULE JobQueue -----------------------------
(***************************************************************************)
(* compositor/JobQueue.h: the monitor between an engine's worker thread    *)
(* and the frames that queue drawings for it.  Every public method is one  *)
(* critical section of mutex_, so each is one action; a wait on changed_   *)
(* ends the critical section with the caller in `sleeping', and only a     *)
(* notify_all (or a spurious wake-up) takes it out again.                  *)
(*                                                                         *)
(* entries_ is a deque that only grows at the back with ++last_id_, so it  *)
(* is modelled as functions over the ids 1..MaxJobs, "none" standing for   *)
(* an id with no entry, and deque order is the order of the ids.  A job's  *)
(* contents and its result are not looked into by the queue: `job' says    *)
(* whether the entry's optional still holds one.                           *)
(*                                                                         *)
(* The threads that call these methods are in JobQueueThreads; MergePath   *)
(* and VkThread use the same actions with callers of their own.            *)
(***************************************************************************)
EXTENDS Integers

CONSTANTS
    MaxJobs,        \* bound: how many jobs are ever queued
    Threads         \* the threads that may wait on changed_

ASSUME MaxJobsAssumption == MaxJobs \in Nat

VARIABLES
    last_id_,           \* the last id handed out
    state,              \* Entry::state, "none" when there is no entry
    droppable,          \* Entry::droppable
    job,                \* Entry::job.has_value()
    cancelled,          \* Entry::cancelled
    dropped_in_a_row_,
    stopped_,
    sleeping            \* threads waiting on changed_

queueVars == <<last_id_, state, droppable, job, cancelled,
               dropped_in_a_row_, stopped_, sleeping>>

Ids == 1..MaxJobs

States == {"none", "queued", "submitting", "submitted", "refused", "dropped"}

\* "After this many drops in a row the next superseded job is drawn anyway."
kMostDroppedInARow == 1

QueueInit ==
    /\ last_id_ = 0
    /\ state = [i \in Ids |-> "none"]
    /\ droppable = [i \in Ids |-> FALSE]
    /\ job = [i \in Ids |-> FALSE]
    /\ cancelled = [i \in Ids |-> FALSE]
    /\ dropped_in_a_row_ = 0
    /\ stopped_ = FALSE
    /\ sleeping = {}

-----------------------------------------------------------------------------
\* An operator named Mut... is a plausible mistake in the definition after it,
\* and no specification uses it.

\* The queued jobs a new one drops: the loop over entries_, oldest first,
\* which breaks once the bound is reached (after one, the bound being one).
Superseded ==
    {i \in Ids :
        /\ state[i] = "queued" /\ droppable[i]
        /\ dropped_in_a_row_ < kMostDroppedInARow
        /\ \A j \in 1..(i - 1) : ~(state[j] = "queued" /\ droppable[j])}

\* changed_.notify_all() forgotten.
MutNotifyAll == sleeping' = sleeping

NotifyAll == sleeping' = {}

\* Queue(job, droppable), which gives the job the id `id'.
Queue(id, d) ==
    /\ id = last_id_ + 1
    /\ id \in Ids
    /\ last_id_' = id
    /\ state' = [i \in Ids |-> IF i = id THEN "queued"
                               ELSE IF i \in Superseded THEN "dropped"
                               ELSE state[i]]
    /\ job' = [i \in Ids |-> i = id \/ (job[i] /\ i \notin Superseded)]
    /\ droppable' = [droppable EXCEPT ![id] = d]
    /\ cancelled' = [cancelled EXCEPT ![id] = FALSE]
    /\ dropped_in_a_row_' = IF Superseded = {} THEN dropped_in_a_row_
                                               ELSE dropped_in_a_row_ + 1
    /\ NotifyAll
    /\ UNCHANGED stopped_

\* Any queued job may be handed out, not only the oldest.
MutOldestQueued(id) == state[id] = "queued"

\* The first entry of the deque that is kQueued.
OldestQueued(id) ==
    /\ state[id] = "queued"
    /\ \A j \in 1..(id - 1) : state[j] # "queued"

NothingQueued == \A i \in Ids : state[i] # "queued"

\* Take() and TryTake() when they answer a job: TakeLocked moves it out.
TakeJob(id) ==
    /\ ~stopped_
    /\ OldestQueued(id)
    /\ state' = [state EXCEPT ![id] = "submitting"]
    /\ job' = [job EXCEPT ![id] = FALSE]
    /\ UNCHANGED <<last_id_, droppable, cancelled, dropped_in_a_row_,
                   stopped_, sleeping>>

\* Take() and TryTake() on a stopped queue: nullopt.
TakeStopped ==
    /\ stopped_
    /\ UNCHANGED queueVars

\* Take() with nothing queued: the caller waits on changed_.
TakeWait(t) ==
    /\ ~stopped_
    /\ NothingQueued
    /\ sleeping' = sleeping \union {t}
    /\ UNCHANGED <<last_id_, state, droppable, job, cancelled,
                   dropped_in_a_row_, stopped_>>

\* TryTake() with nothing queued: nullopt at once.
TryTakeNothing ==
    /\ ~stopped_
    /\ NothingQueued
    /\ UNCHANGED queueVars

Forget(id) ==
    /\ state' = [state EXCEPT ![id] = "none"]
    /\ job' = [job EXCEPT ![id] = FALSE]

\* Done() of a job the frame gave up keeps the outcome all the same.
MutDone(id, submitted) ==
    /\ dropped_in_a_row_' = IF submitted THEN 0 ELSE dropped_in_a_row_
    /\ state' = [state EXCEPT ![id] = IF submitted THEN "submitted"
                                                   ELSE "refused"]
    /\ NotifyAll
    /\ UNCHANGED <<last_id_, droppable, job, cancelled, stopped_>>

\* Done(id, submitted): the streak of drops ends before the entry is asked
\* whether anyone still wants it; a cancelled one goes without a notify.
Done(id, submitted) ==
    IF state[id] = "none" THEN UNCHANGED queueVars ELSE
    /\ dropped_in_a_row_' = IF submitted THEN 0 ELSE dropped_in_a_row_
    /\ IF cancelled[id]
       THEN Forget(id) /\ UNCHANGED sleeping
       ELSE /\ state' = [state EXCEPT ![id] = IF submitted THEN "submitted"
                                                           ELSE "refused"]
            /\ NotifyAll
            /\ UNCHANGED job
    /\ UNCHANGED <<last_id_, droppable, cancelled, stopped_>>

\* Drops a job the worker already has, as if it could be taken back.
MutDropsNow(id, wait) ==
    /\ state[id] \in {"queued", "submitting"} /\ ~wait /\ droppable[id]
    /\ dropped_in_a_row_ < kMostDroppedInARow

\* Resolve's drop at present time: the frame will not wait for the job.
DropsNow(id, wait) ==
    /\ state[id] = "queued" /\ ~wait /\ droppable[id]
    /\ dropped_in_a_row_ < kMostDroppedInARow

\* One pass of Resolve's loop that returns, with what it returns; "cancelled"
\* when there is no entry or the queue was stopped under it.
ResolveReturns(id, wait, outcome) ==
    \/ /\ DropsNow(id, wait)
       /\ outcome = "dropped"
       /\ dropped_in_a_row_' = dropped_in_a_row_ + 1
       /\ Forget(id)
       /\ UNCHANGED <<last_id_, droppable, cancelled, stopped_, sleeping>>
    \/ /\ state[id] \notin {"queued", "submitting"}
       /\ outcome = IF state[id] = "none" THEN "cancelled" ELSE state[id]
       /\ Forget(id)
       /\ UNCHANGED <<last_id_, droppable, cancelled, dropped_in_a_row_,
                      stopped_, sleeping>>
    \/ /\ state[id] \in {"queued", "submitting"} /\ ~DropsNow(id, wait)
       /\ stopped_
       /\ outcome = "cancelled"
       /\ Forget(id)
       /\ UNCHANGED <<last_id_, droppable, cancelled, dropped_in_a_row_,
                      stopped_, sleeping>>

\* One pass of Resolve's loop that ends in changed_.wait.
ResolveWaits(t, id, wait) ==
    /\ state[id] \in {"queued", "submitting"} /\ ~DropsNow(id, wait)
    /\ ~stopped_
    /\ sleeping' = sleeping \union {t}
    /\ UNCHANGED <<last_id_, state, droppable, job, cancelled,
                   dropped_in_a_row_, stopped_>>

\* Cancel(id): one the worker has is only marked, any other entry goes.
Cancel(id) ==
    /\ IF state[id] = "submitting"
       THEN cancelled' = [cancelled EXCEPT ![id] = TRUE]
            /\ UNCHANGED <<state, job>>
       ELSE Forget(id) /\ UNCHANGED cancelled
    /\ UNCHANGED <<last_id_, droppable, dropped_in_a_row_, stopped_, sleeping>>

\* Stop(): queued entries stay, with their jobs let go.
Stop ==
    /\ stopped_' = TRUE
    /\ job' = [i \in Ids |-> job[i] /\ state[i] # "queued"]
    /\ NotifyAll
    /\ UNCHANGED <<last_id_, state, droppable, cancelled, dropped_in_a_row_>>

\* A condition variable may wake a waiter for no reason.
SpuriousWakeup(t) ==
    /\ t \in sleeping
    /\ sleeping' = sleeping \ {t}
    /\ UNCHANGED <<last_id_, state, droppable, job, cancelled,
                   dropped_in_a_row_, stopped_>>

QueueTypeOK ==
    /\ last_id_ \in 0..MaxJobs
    /\ state \in [Ids -> States]
    /\ droppable \in [Ids -> BOOLEAN]
    /\ job \in [Ids -> BOOLEAN]
    /\ cancelled \in [Ids -> BOOLEAN]
    /\ dropped_in_a_row_ \in 0..kMostDroppedInARow
    /\ stopped_ \in BOOLEAN
    /\ sleeping \subseteq Threads
=============================================================================
