------------------------------ MODULE VkThread ------------------------------
(***************************************************************************)
(* vk/Compositor: the GPU executor's thread.  Everything Vulkan runs on    *)
(* it, off a deque of work (work_); a queued drawing lies in a JobQueue    *)
(* beside it, and each Queue posts one RunJob that takes the oldest job,   *)
(* unless the GPU is still busy with the drawing before: then the run      *)
(* posts itself again.                                                     *)
(*                                                                         *)
(* One caller (the frame thread) calls in; the thread, the GPU and the     *)
(* caller interleave at every critical section of mutex_ and of the        *)
(* queue's own.  What a drawing draws is VkImages' matter: here the GPU    *)
(* takes it or refuses it.                                                 *)
(***************************************************************************)
EXTENDS JobQueue, Sequences, FiniteSets

CONSTANTS
    Caller,         \* the thread that puts frames together
    MaxComposes     \* bound: synchronous Compose calls

VARIABLES
    work_,          \* "run", "compose", or "retire" (Retire, Warm, Prepare, Forget)
    stopping_,
    thread,         \* the thread's place: "wait", "poll", "busy", "repost",
                    \* "take", "drawing", "compose", "down"
    taken,          \* the job it drew, 0 if none
    last_drawn,     \* last_drawn_: "none", "pending", "signalled"
    caller,         \* "idle", "post", "post_retire", "resolve", "composing",
                    \* "joining", "gone"
    held, asked, waits,     \* jobs still to resolve or cancel; Resolve's arguments
    answers,        \* history: what Resolve said of each job
    composes        \* counted against MaxComposes

threadVars == <<thread, taken>>
callerVars == <<caller, held, asked, waits, answers, composes>>
vars == <<queueVars, work_, stopping_, threadVars, last_drawn, callerVars>>

Works == {"run", "compose", "retire"}

Init ==
    /\ QueueInit
    /\ work_ = <<>> /\ stopping_ = FALSE
    /\ thread = "wait" /\ taken = 0 /\ last_drawn = "none"
    /\ caller = "idle" /\ held = {} /\ asked = 0 /\ waits = FALSE
    /\ answers = [i \in Ids |-> "nothing"] /\ composes = 0

\* Post(work): at the back, and the thread is woken.
Post(w) == work_' = Append(work_, w)

-----------------------------------------------------------------------------
\* The caller.

\* Queue(): the job first, then its run and a Retire, each a lock of its own.
CallQueue(d) ==
    /\ caller = "idle"
    /\ \E id \in Ids : Queue(id, d) /\ held' = held \union {id}
    /\ caller' = "post"
    /\ UNCHANGED <<work_, stopping_, threadVars, last_drawn, asked, waits, answers, composes>>

\* The run is not posted: left to the one still in the deque.
MutPostRun ==
    /\ caller = "post"
    /\ IF work_ = <<>> THEN Post("run") ELSE UNCHANGED work_
    /\ caller' = "post_retire"
    /\ UNCHANGED <<queueVars, stopping_, threadVars, last_drawn, held, asked, waits, answers, composes>>

PostRun ==
    /\ caller = "post"
    /\ Post("run")
    /\ caller' = "post_retire"
    /\ UNCHANGED <<queueVars, stopping_, threadVars, last_drawn, held, asked, waits, answers, composes>>

PostRetire ==
    /\ caller = "post_retire"
    /\ Post("retire")
    /\ caller' = "idle"
    /\ UNCHANGED <<queueVars, stopping_, threadVars, last_drawn, held, asked, waits, answers, composes>>

\* Resolve(id, wait).
CallResolve(id, w) ==
    /\ caller = "idle" /\ id \in held
    /\ caller' = "resolve" /\ asked' = id /\ waits' = w
    /\ UNCHANGED <<queueVars, work_, stopping_, threadVars, last_drawn, held, answers, composes>>

ResolveAnswered(outcome) ==
    /\ caller = "resolve" /\ Caller \notin sleeping
    /\ ResolveReturns(asked, waits, outcome)
    /\ caller' = "idle" /\ asked' = 0 /\ held' = held \ {asked}
    /\ answers' = [answers EXCEPT ![asked] = outcome]
    /\ UNCHANGED <<work_, stopping_, threadVars, last_drawn, waits, composes>>

ResolveSleeps ==
    /\ caller = "resolve" /\ Caller \notin sleeping
    /\ ResolveWaits(Caller, asked, waits)
    /\ UNCHANGED <<work_, stopping_, threadVars, last_drawn, callerVars>>

\* Cancel(id).
CallCancel(id) ==
    /\ caller = "idle" /\ id \in held
    /\ Cancel(id)
    /\ held' = held \ {id}
    /\ UNCHANGED <<work_, stopping_, threadVars, last_drawn, caller, asked, waits, answers, composes>>

\* Compose(): posted with a promise, a Retire behind it, and waited for.
CallCompose ==
    /\ caller = "idle" /\ composes < MaxComposes
    /\ work_' = work_ \o <<"compose", "retire">>
    /\ caller' = "composing" /\ composes' = composes + 1
    /\ UNCHANGED <<queueVars, stopping_, threadVars, last_drawn, held, asked, waits, answers>>

\* The destructor: stopping_, then the join.
Destroy ==
    /\ caller = "idle"
    /\ stopping_' = TRUE /\ caller' = "joining"
    /\ UNCHANGED <<queueVars, work_, threadVars, last_drawn, held, asked, waits, answers, composes>>

\* The thread is down: the queue is stopped.
Joined ==
    /\ caller = "joining" /\ thread = "down"
    /\ Stop
    /\ caller' = "gone"
    /\ UNCHANGED <<work_, stopping_, threadVars, last_drawn, held, asked, waits, answers, composes>>

-----------------------------------------------------------------------------
\* The thread: ThreadMain's loop.

TakeWork ==
    /\ thread = "wait" /\ work_ # <<>>
    /\ work_' = Tail(work_)
    /\ thread' = CASE Head(work_) = "run" -> "poll"
                   [] Head(work_) = "compose" -> "compose"
                   [] OTHER -> "wait"
    /\ UNCHANGED <<queueVars, stopping_, taken, last_drawn, callerVars>>

\* Stopping, and nothing left: Teardown waits for the device.
GoDown ==
    /\ thread = "wait" /\ stopping_ /\ work_ = <<>>
    /\ thread' = "down" /\ last_drawn' = "none"
    /\ UNCHANGED <<queueVars, work_, stopping_, taken, callerVars>>

\* ComposeNow for Compose: the promise is kept.
ComposeHere ==
    /\ thread = "compose"
    /\ thread' = "wait" /\ caller' = "idle"
    /\ UNCHANGED <<queueVars, work_, stopping_, taken, last_drawn, held, asked, waits, answers, composes>>

\* RunJob: the last drawing's fence is polled for a moment.
Poll ==
    /\ thread = "poll"
    /\ thread' = IF last_drawn = "pending" THEN "busy" ELSE "take"
    /\ UNCHANGED <<queueVars, work_, stopping_, taken, last_drawn, callerVars>>

\* Still drawing: jobs_.waiting() is asked, and
LookAgain ==
    /\ thread = "busy"
    /\ thread' = IF NothingQueued THEN "wait" ELSE "repost"
    /\ UNCHANGED <<queueVars, work_, stopping_, taken, last_drawn, callerVars>>

\* the run posted again, behind whatever else the thread has to do.
Repost ==
    /\ thread = "repost"
    /\ Post("run")
    /\ thread' = "wait"
    /\ UNCHANGED <<queueVars, stopping_, taken, last_drawn, callerVars>>

\* TryTake.
RunTakes(id) ==
    /\ thread = "take"
    /\ TakeJob(id)
    /\ thread' = "drawing" /\ taken' = id
    /\ UNCHANGED <<work_, stopping_, last_drawn, callerVars>>

RunFindsNothing ==
    /\ thread = "take"
    /\ TryTakeNothing
    /\ thread' = "wait"
    /\ UNCHANGED <<work_, stopping_, taken, last_drawn, callerVars>>

\* ComposeNow, its fence kept, and Done.
RunDraws(drawn) ==
    /\ thread = "drawing"
    /\ Done(taken, drawn)
    /\ last_drawn' = IF drawn THEN "pending" ELSE "none"
    /\ thread' = "wait" /\ taken' = 0
    /\ UNCHANGED <<work_, stopping_, callerVars>>

GpuFinishes ==
    /\ last_drawn = "pending"
    /\ last_drawn' = "signalled"
    /\ UNCHANGED <<queueVars, work_, stopping_, threadVars, callerVars>>

-----------------------------------------------------------------------------
ThreadNext ==
    \/ TakeWork \/ GoDown \/ ComposeHere
    \/ Poll \/ LookAgain \/ Repost
    \/ \E id \in Ids : RunTakes(id)
    \/ RunFindsNothing
    \/ \E drawn \in BOOLEAN : RunDraws(drawn)

\* What the caller has begun it goes on with.
CallerGoesOn ==
    \/ PostRun \/ PostRetire
    \/ \E o \in States \union {"cancelled"} : ResolveAnswered(o)
    \/ ResolveSleeps
    \/ Joined

CallerCalls ==
    \/ \E d \in BOOLEAN : CallQueue(d)
    \/ \E id \in Ids, w \in BOOLEAN : CallResolve(id, w)
    \/ \E id \in Ids : CallCancel(id)
    \/ CallCompose
    \/ Destroy

\* The composer is gone.
Gone == caller = "gone" /\ UNCHANGED vars

Next == ThreadNext \/ CallerGoesOn \/ CallerCalls \/ GpuFinishes \/ Gone

Spec == Init /\ [][Next]_vars

\* Both threads are scheduled, and the GPU comes to an end of what it draws.
FairSpec == Spec /\ WF_vars(ThreadNext) /\ WF_vars(CallerGoesOn) /\ WF_vars(GpuFinishes)

-----------------------------------------------------------------------------
TypeOK ==
    /\ QueueTypeOK
    /\ work_ \in Seq(Works) /\ stopping_ \in BOOLEAN
    /\ thread \in {"wait", "poll", "busy", "repost", "take", "drawing", "compose", "down"}
    /\ taken \in 0..MaxJobs /\ last_drawn \in {"none", "pending", "signalled"}
    /\ caller \in {"idle", "post", "post_retire", "resolve", "composing", "joining", "gone"}
    /\ held \subseteq Ids /\ asked \in 0..MaxJobs /\ waits \in BOOLEAN
    /\ composes \in 0..MaxComposes

\* "One run for each job queued": no drawing is queued without a run on its way
\* to it -- in the deque, in the thread's hands, or about to be posted.
Runs ==
    Cardinality({k \in DOMAIN work_ : work_[k] = "run"})
    + (IF thread \in {"poll", "busy", "repost", "take"} THEN 1 ELSE 0)
    + (IF caller = "post" THEN 1 ELSE 0)

RunForEachJob == Cardinality({i \in Ids : state[i] = "queued"}) <= Runs

\* The thread does not go down over a drawing that was queued, so that Stop has
\* nothing to let go and nobody is told "cancelled" of a job still held.
NothingLeftBehind ==
    /\ thread = "down" => \A i \in Ids : state[i] \notin {"queued", "submitting"}
    /\ \A i \in Ids : answers[i] # "cancelled"

\* A frame that resolves its drawing is answered, though the GPU be busy with
\* another when the run comes; so is a synchronous Compose, behind whatever
\* runs repost themselves meanwhile; and the destructor comes to its end.
CallReturns == caller \notin {"idle", "gone"} ~> caller \in {"idle", "gone"}
=============================================================================
