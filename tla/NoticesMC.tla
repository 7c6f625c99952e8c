------------------------------ MODULE NoticesMC ------------------------------
(***************************************************************************)
(* Threads that are told something and do it later, each on its own: the   *)
(* flattening controller under the composer's main lock (Flattening), the  *)
(* garbage collector (GarbageCollector) and the content protection         *)
(* controller (Hdcp).  They share no state; `part' is chosen at the start  *)
(* and says which one moves, while the others stay as they came.           *)
(***************************************************************************)
EXTENDS Flattening

CONSTANTS
    Flushers, MaxJobs,      \* GarbageCollector's
    HdcpFrames, MaxRefusals, MaxDrops   \* Hdcp's

VARIABLES jobs_, running_, stopping_, gc_thread, current, flusher, owner, posted, ran, since
gcVars == <<jobs_, running_, stopping_, gc_thread, current, flusher, owner, posted, ran, since>>
Gc == INSTANCE GarbageCollector WITH thread <- gc_thread

VARIABLES life, ctl, at, found, level, main, args, link, told, asks, owed, count
hdcpVars == <<life, ctl, at, found, level, main, args, link, told, asks, owed, count>>
Hd == INSTANCE Hdcp WITH MaxFrames <- HdcpFrames

ASSUME CollectorsAssumption == Gc!CollectorAssumption

VARIABLE part

-----------------------------------------------------------------------------
NoticesInit ==
    /\ part \in {"flattening", "collector", "hdcp"}
    /\ Init /\ Gc!Init /\ Hd!Init

NoticesNext ==
    /\ UNCHANGED part
    /\ \/ part = "flattening" /\ Next /\ UNCHANGED <<gcVars, hdcpVars>>
       \/ part = "collector" /\ Gc!Next /\ UNCHANGED <<vars, hdcpVars>>
       \/ part = "hdcp" /\ Hd!Next /\ UNCHANGED <<vars, gcVars>>

\* Each part's own fairness, asked of it only where it is the part that moves.
NoticesFairness ==
    /\ WF_vars(part = "flattening" /\ EntryGoesOn)
    /\ SF_vars(part = "flattening" /\ TellFrame) /\ SF_vars(part = "flattening" /\ MakePlan)
    /\ SF_vars(part = "flattening" /\ DestroyController)
    /\ SF_vars(part = "flattening" /\ asked /\ EnterValidate /\ frames' = frames)
    /\ SF_vars(part = "flattening" /\ LockMutex) /\ WF_vars(part = "flattening" /\ Decide)
    /\ SF_vars(part = "flattening" /\ Trigger)
    /\ WF_vars(part = "flattening" /\ TimeIsUp) /\ WF_vars(part = "flattening" /\ TimePasses)
    /\ WF_vars(part = "flattening" /\ WatcherReads)
    /\ SF_vars(part = "flattening" /\ WatcherRefreshes)
    /\ WF_gcVars(part = "collector" /\ Gc!ThreadNext) /\ WF_gcVars(part = "collector" /\ Gc!Joined)
    /\ \A f \in Flushers : WF_gcVars(part = "collector" /\ Gc!FlushNext(f))
    /\ WF_hdcpVars(part = "hdcp" /\ Hd!Thread) /\ WF_hdcpVars(part = "hdcp" /\ Hd!DeadlinePasses)
    /\ WF_hdcpVars(part = "hdcp" /\ Hd!AnswerRefresh)
    /\ WF_hdcpVars(part = "hdcp" /\ Hd!CommitFrame) /\ WF_hdcpVars(part = "hdcp" /\ Hd!Joined)

NoticesSpec ==
    NoticesInit /\ [][NoticesNext]_<<part, vars, gcVars, hdcpVars>> /\ NoticesFairness

-----------------------------------------------------------------------------
\* The collector runs every job posted, once and in order, and is gone only when
\* all have run (GarbageCollector: CollectsAll).
CollectsAll == Gc!CollectsAll

\* A Flush that returns finds the jobs posted before it run (GarbageCollector:
\* FlushMeansRun).
FlushMeansRun == Gc!FlushMeansRun

\* The level the client is told is the one asked for and answered (Hdcp:
\* ToldIsAsked).
ToldIsAsked == Hd!ToldIsAsked

\* What was begun ends: an entry point gives the main lock back, the refreshes of
\* a still screen come to an end, whoever waits for the collector is let go, and a
\* request for protection is answered or given up (Flattening: EntryReturns,
\* QuietAtLast; GarbageCollector: WaitersReturn; Hdcp: RequestsEnd).
EverythingEnds == EntryReturns /\ QuietAtLast /\ Gc!WaitersReturn /\ Hd!RequestsEnd
=============================================================================
