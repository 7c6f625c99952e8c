-------------------------- MODULE GarbageCollector --------------------------
(***************************************************************************)
(* The thread on which the composer's other threads leave what is theirs   *)
(* to let go.  It starts with the first job, runs the jobs in the order    *)
(* they were posted, and ends with the collector once every job has run.   *)
(* A job is its place in the order of posting.  A job may post another.    *)
(*                                                                         *)
(* The condition variables are what the threads asleep on them see: a      *)
(* notify wakes every sleeper, a sleeper may wake of itself, and one that  *)
(* wakes looks at its predicate again under mutex_.                        *)
(***************************************************************************)
EXTENDS Naturals, Sequences

CONSTANTS
    Flushers,   \* threads that call Flush
    MaxJobs     \* bound on jobs posted

CollectorAssumption == MaxJobs \in Nat

VARIABLES
    jobs_,      \* the deque
    running_, stopping_,
    thread,     \* "none", "loop" (holding mutex_), "asleep", "job", "exited"
    current,    \* the job under way, 0 if none
    flusher,    \* where each flusher is: "out", "in" or "asleep"
    owner,      \* whoever owns the collector: "using", "joining" or "gone"
    posted,     \* history: how many jobs were posted
    ran,        \* history: the jobs that have run
    since       \* history: jobs posted before each flusher called

vars == <<jobs_, running_, stopping_, thread, current, flusher, owner, posted,
          ran, since>>

\* The types; running_ is set exactly while a job is under way.
TypeOK ==
    /\ running_ = (thread = "job")
    /\ jobs_ \in Seq(1..MaxJobs) /\ ran \in Seq(1..MaxJobs)
    /\ running_ \in BOOLEAN /\ stopping_ \in BOOLEAN
    /\ thread \in {"none", "loop", "asleep", "job", "exited"}
    /\ current \in 0..MaxJobs /\ posted \in 0..MaxJobs
    /\ flusher \in [Flushers -> {"out", "in", "asleep"}]
    /\ since \in [Flushers -> 0..MaxJobs]
    /\ owner \in {"using", "joining", "gone"}

Init ==
    /\ jobs_ = <<>> /\ running_ = FALSE /\ stopping_ = FALSE
    /\ thread = "none" /\ current = 0
    /\ flusher = [f \in Flushers |-> "out"]
    /\ since = [f \in Flushers |-> 0]
    /\ owner = "using" /\ posted = 0 /\ ran = <<>>

\* changed_.notify_all and idle_.notify_all.
ChangedNotified == IF thread = "asleep" THEN "loop" ELSE thread
IdleNotified == [f \in Flushers |-> IF flusher[f] = "asleep" THEN "in" ELSE flusher[f]]

\* Whoever uses the collector posts, and so may the job under way.
Post ==
    /\ owner = "using" \/ thread = "job"
    /\ posted < MaxJobs /\ posted' = posted + 1
    /\ jobs_' = Append(jobs_, posted')
    /\ thread' = IF thread = "none" THEN "loop" ELSE ChangedNotified
    /\ UNCHANGED <<running_, stopping_, current, flusher, owner, ran, since>>

-----------------------------------------------------------------------------
\* Flush.

CallFlush(f) ==
    /\ owner = "using" /\ flusher[f] = "out"
    /\ flusher' = [flusher EXCEPT ![f] = "in"]
    /\ since' = [since EXCEPT ![f] = posted]
    /\ UNCHANGED <<jobs_, running_, stopping_, thread, current, owner, posted, ran>>

\* A mistake: the job under way is not waited for.
MutIdle == jobs_ = <<>>

Idle == jobs_ = <<>> /\ ~running_

FlushReturns(f) ==
    /\ flusher[f] = "in" /\ Idle
    /\ flusher' = [flusher EXCEPT ![f] = "out"]
    /\ UNCHANGED <<jobs_, running_, stopping_, thread, current, owner, posted,
                   ran, since>>

FlushWaits(f) ==
    /\ flusher[f] = "in" /\ ~Idle
    /\ flusher' = [flusher EXCEPT ![f] = "asleep"]
    /\ UNCHANGED <<jobs_, running_, stopping_, thread, current, owner, posted,
                   ran, since>>

-----------------------------------------------------------------------------
\* The destructor, called once nobody else is inside.

Destroy ==
    /\ owner = "using" /\ \A f \in Flushers : flusher[f] = "out"
    /\ stopping_' = TRUE
    /\ thread' = ChangedNotified
    /\ owner' = IF thread = "none" THEN "gone" ELSE "joining"
    /\ UNCHANGED <<jobs_, running_, current, flusher, posted, ran, since>>

Joined ==
    /\ owner = "joining" /\ thread = "exited"
    /\ owner' = "gone"
    /\ UNCHANGED <<jobs_, running_, stopping_, thread, current, flusher, posted,
                   ran, since>>

-----------------------------------------------------------------------------
\* Loop.

Sleeps ==
    /\ thread = "loop" /\ ~stopping_ /\ jobs_ = <<>>
    /\ thread' = "asleep"
    /\ UNCHANGED <<jobs_, running_, stopping_, current, flusher, owner, posted,
                   ran, since>>

Exits ==
    /\ thread = "loop" /\ stopping_ /\ jobs_ = <<>>
    /\ thread' = "exited" /\ flusher' = IdleNotified
    /\ UNCHANGED <<jobs_, running_, stopping_, current, owner, posted, ran, since>>

\* A mistake: the job last posted goes first.
MutTakesJob ==
    /\ thread = "loop" /\ jobs_ # <<>>
    /\ current' = jobs_[Len(jobs_)] /\ jobs_' = SubSeq(jobs_, 1, Len(jobs_) - 1)
    /\ running_' = TRUE /\ thread' = "job"
    /\ UNCHANGED <<stopping_, flusher, owner, posted, ran, since>>

TakesJob ==
    /\ thread = "loop" /\ jobs_ # <<>>
    /\ current' = Head(jobs_) /\ jobs_' = Tail(jobs_)
    /\ running_' = TRUE /\ thread' = "job"
    /\ UNCHANGED <<stopping_, flusher, owner, posted, ran, since>>

JobEnds ==
    /\ thread = "job"
    /\ ran' = Append(ran, current) /\ current' = 0
    /\ running_' = FALSE /\ thread' = "loop"
    /\ flusher' = IF jobs_ = <<>> THEN IdleNotified ELSE flusher
    /\ UNCHANGED <<jobs_, stopping_, owner, posted, since>>

\* Sleepers waking of themselves.
Wakes ==
    /\ \/ thread = "asleep" /\ thread' = "loop" /\ UNCHANGED flusher
       \/ \E f \in Flushers :
            /\ flusher[f] = "asleep"
            /\ flusher' = [flusher EXCEPT ![f] = "in"]
            /\ UNCHANGED thread
    /\ UNCHANGED <<jobs_, running_, stopping_, current, owner, posted, ran, since>>

ThreadNext == Sleeps \/ Exits \/ TakesJob \/ JobEnds
FlushNext(f) == FlushReturns(f) \/ FlushWaits(f)

Next ==
    \/ Post \/ Destroy \/ Joined
    \/ \E f \in Flushers : CallFlush(f) \/ FlushNext(f)
    \/ ThreadNext \/ Wakes

Spec == Init /\ [][Next]_vars

\* The collector's thread is niced, not idle: it runs, and its jobs end.  A
\* thread inside Flush or joining is scheduled.
FairSpec ==
    /\ Spec
    /\ WF_vars(ThreadNext) /\ WF_vars(Joined)
    /\ \A f \in Flushers : WF_vars(FlushNext(f))

-----------------------------------------------------------------------------
\* "Jobs run in the order posted", each one once, none lost: what has run,
\* what is under way and what waits are, in that order, the jobs posted.
EveryJobInOrder ==
    ran \o (IF current = 0 THEN <<>> ELSE <<current>>) \o jobs_
        = [i \in 1..posted |-> i]

\* "Waits until every job posted so far has run": a Flush that returns finds
\* the jobs posted before it was called among those that have run.
FlushMeansRun ==
    [][\A f \in Flushers :
         flusher[f] = "in" /\ flusher'[f] = "out" => Len(ran) >= since[f]]_vars

\* The collector "ends ... after every job posted has run", the ones posted
\* by its own jobs while it was stopping too.
GoneMeansDrained == owner = "gone" => jobs_ = <<>> /\ Len(ran) = posted

\* No job posted is lost, run twice or run out of its turn, and none is left
\* behind by the collector's end.
CollectsAll == EveryJobInOrder /\ GoneMeansDrained

\* Everyone who waits for the collector is let go: a Flush returns once
\* nobody posts any more, and the destructor's join ends.
WaitersReturn ==
    /\ \A f \in Flushers : flusher[f] # "out" ~> flusher[f] = "out"
    /\ owner = "joining" ~> owner = "gone"
=============================================================================
