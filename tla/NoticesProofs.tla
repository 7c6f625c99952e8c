--------------------------- MODULE NoticesProofs ---------------------------
(***************************************************************************)
(* What the flattening controller says of a display taken apart, what the  *)
(* collector promises whoever posts, flushes or destroys it, and what the  *)
(* client is told of its protection, proved for any number of frames,      *)
(* jobs, flushing threads, refused commits and lost links; and that the    *)
(* three, put side by side in NoticesMC, keep it.                          *)
(*                                                                         *)
(* The flattening controller comes first.                                  *)
(* NoTriggerOutlivesDisplay is not inductive: that the thread is out of    *)
(* the way when the display goes rests on the join, the join on the thread *)
(* not being asleep once it was told to stop, and that on nobody but the   *)
(* entry point that stops it being inside the composer meanwhile.          *)
(***************************************************************************)
EXTENDS NoticesMC, Sequences, TLAPS

\* An entry point beyond its first line works on a display that stands.
InsideADisplay == entry # "none" => display

\* The stop is not missed and does not wait in a circle: while the destructor
\* joins, under the main lock, the controller's thread has the word to exit
\* before it and is not asleep, and the client's refresh path, which the
\* thread may yet be in, does not want the main lock.
JoinIsSafe ==
    /\ entry \in {"stop", "join"} => ~locks
    /\ entry = "join" => state_ = "exit" /\ thread \notin {"none", "wait", "wait_until"}

\* A display that stands has a thread.
Attended == display => thread # "none"

IInv ==
    /\ TypeOK
    /\ InsideADisplay
    /\ JoinIsSafe
    /\ Attended
    /\ NoTriggerOutlivesDisplay

-----------------------------------------------------------------------------
\* What TypeOK says of the switches, each by itself.
LEMMA Switches ==
    TypeOK => /\ due \in BOOLEAN /\ display \in BOOLEAN /\ many \in BOOLEAN
              /\ drawing \in BOOLEAN /\ consolidated \in BOOLEAN /\ stale \in BOOLEAN
              /\ asked \in BOOLEAN /\ locks \in BOOLEAN
BY DEF TypeOK

\* No device has a display yet, and nobody is inside.
LEMMA InitIInv == Init => IInv
<1> USE FlatteningAssumption
<1> SUFFICES ASSUME Init PROVE IInv
  OBVIOUS
<1>1. {due, display, many, drawing, consolidated, stale, asked, locks} \subseteq BOOLEAN
  BY Zenon DEF Init
<1> QED
  BY <1>1 DEF Init, IInv, TypeOK, States, InsideADisplay, JoinIsSafe, Attended,
              NoTriggerOutlivesDisplay

LEMMA SwitchesStay ==
    ASSUME TypeOK, BuildDisplay \/ EnterValidate \/ MakePlan
    PROVE  {due, display, many, drawing, consolidated, stale, asked, locks}' \subseteq BOOLEAN
<1>1. CASE BuildDisplay
  BY <1>1, Switches, Zenon DEF BuildDisplay, controller, scene, counts
<1>2. CASE EnterValidate
  BY <1>2, Switches, Zenon DEF EnterValidate, controller, scene, counts
<1>3. CASE MakePlan
  BY <1>3, Switches, Zenon DEF MakePlan, ShouldFlatten, controller, scene, counts
<1> QED
  BY <1>1, <1>2, <1>3

\* Every entry point, the controller's thread and the watcher keep the
\* invariant, one action at a time.
LEMMA NextIInv == IInv /\ [Next]_vars => IInv'
<1> SUFFICES ASSUME IInv, [Next]_vars PROVE IInv'
  OBVIOUS
<1> USE FlatteningAssumption
<1> USE DEF IInv, TypeOK, States, InsideADisplay, JoinIsSafe, Attended, NoTriggerOutlivesDisplay,
            controller, scene, counts
<1>1. CASE BuildDisplay
  <2>1. {due, display, many, drawing, consolidated, stale, asked, locks}' \subseteq BOOLEAN
    BY <1>1, SwitchesStay
  <2> QED
    BY <1>1, <2>1 DEF BuildDisplay
<1>2. CASE EnterValidate
  <2>1. {due, display, many, drawing, consolidated, stale, asked, locks}' \subseteq BOOLEAN
    BY <1>2, SwitchesStay
  <2>2. /\ main_lock_ = "none" /\ display
        /\ main_lock_' = "entry" /\ entry' = "validate"
        /\ UNCHANGED <<mutex_, state_, thread, display, watcher, locks, changes, displays>>
    BY <1>2, Zenon DEF EnterValidate
  <2>3. (frames < MaxFrames /\ frames' = frames + 1) \/ frames' = frames
    BY <1>2, Zenon DEF EnterValidate
  <2> QED
    BY <2>1, <2>2, <2>3
<1>3. CASE TellFrame
  <2>1. /\ state_' \in States /\ due' \in BOOLEAN
        /\ thread' \in {thread, Notified}
    BY <1>3 DEF TellFrame, DisableFlattening, SettledFrame, NewFrame
  <2> QED
    BY <1>3, <2>1 DEF TellFrame, Notified
<1>4. CASE MakePlan
  <2>1. {due, display, many, drawing, consolidated, stale, asked, locks}' \subseteq BOOLEAN
    BY <1>4, SwitchesStay
  <2> QED
    BY <1>4, <2>1 DEF MakePlan, ShouldFlatten
<1>5. CASE EnterDeinit
  BY <1>5 DEF EnterDeinit
<1>6. CASE DestroyController
  BY <1>6 DEF DestroyController, StopThread, Notified
<1>7. CASE JoinThread
  BY <1>7 DEF JoinThread
<1>8. CASE LockMutex
  BY <1>8 DEF LockMutex
<1>9. CASE Decide
  BY <1>9 DEF Decide
<1>10. CASE Trigger
  BY <1>10 DEF Trigger
<1>11. CASE WaitEnds
  BY <1>11 DEF WaitEnds
<1>12. CASE TimePasses
  BY <1>12 DEF TimePasses
<1>13. CASE ProfileChanges
  BY <1>13 DEF ProfileChanges
<1>14. CASE WatcherLocks
  BY <1>14 DEF WatcherLocks
<1>15. CASE WatcherReads
  BY <1>15 DEF WatcherReads
<1>16. CASE WatcherRefreshes
  BY <1>16 DEF WatcherRefreshes
<1>17. CASE UNCHANGED vars
  BY <1>17 DEF vars
<1> QED
  BY <1>1, <1>2, <1>3, <1>4, <1>5, <1>6, <1>7, <1>8, <1>9, <1>10, <1>11,
     <1>12, <1>13, <1>14, <1>15, <1>16, <1>17
  DEF Next, Entry, EntryGoesOn, ThreadNext, TimeIsUp, WatcherNext

-----------------------------------------------------------------------------
\* Locks are held by whoever took them, the stop is never missed, and a thread
\* belongs to a display (the main lock of Hwc, mutex_ and StopThread of
\* FlatteningController).
THEOREM FlatteningAgrees == Spec => []IInv
BY InitIInv, NextIInv, PTL DEF Spec

\* Both locks are held exactly by the thread that stands between taking and
\* giving up: no callback into the client is made under either of them.
THEOREM LocksAreKept == Spec => []TypeOK
<1>1. IInv => TypeOK
  BY DEF IInv
<1> QED
  BY FlatteningAgrees, <1>1, PTL

\* A display that was taken apart has no refresh of its controller under way
\* (HwcDisplay::Deinit destroys the controller before the display goes).
THEOREM NoTriggerIsLeft == Spec => []NoTriggerOutlivesDisplay
<1>1. IInv => NoTriggerOutlivesDisplay
  BY DEF IInv
<1> QED
  BY FlatteningAgrees, <1>1, PTL

\* While the controller is joined under the main lock, its thread has the word
\* to exit, is awake, and wants no lock of the composer's.
THEOREM StopIsNotMissed == Spec => []JoinIsSafe
<1>1. IInv => JoinIsSafe
  BY DEF IInv
<1> QED
  BY FlatteningAgrees, <1>1, PTL

-----------------------------------------------------------------------------
(* The collector.  The jobs are told apart by their place, so that the     *)
(* order is a fact about every place by itself (InTurn) and the sequence   *)
(* of all jobs need be put together once only, at the end (TurnsAreOrder). *)
(* That nothing is left behind rests on the thread leaving its loop only   *)
(* with the queue empty and the owner gone from posting (Ending).          *)

\* Jobs that are neither waiting nor yet run: the one under way.
UnderWay == IF current = 0 THEN 0 ELSE 1

\* Every job stands in its turn: run, under way, or waiting behind that one.
InTurn ==
    /\ Len(ran) + UnderWay + Len(jobs_) = posted
    /\ \A i \in 1..Len(ran) : ran[i] = i
    /\ current # 0 => current = Len(ran) + 1
    /\ \A i \in 1..Len(jobs_) : jobs_[i] = Len(ran) + UnderWay + i

\* A flusher counts no job that was not posted.
FlushersCount == \A f \in Flushers : since[f] <= posted

\* How the thread begins and ends: with the first job posted, and when it is
\* told to stop and finds nothing more to run.
Ending ==
    /\ (current # 0) <=> (gc_thread = "job")
    /\ stopping_ <=> (owner # "using")
    /\ gc_thread = "none" => posted = 0
    /\ gc_thread = "exited" => stopping_ /\ jobs_ = <<>>
    /\ owner = "gone" => gc_thread \in {"none", "exited"}

CollectorInv ==
    /\ Gc!TypeOK
    /\ InTurn
    /\ FlushersCount
    /\ Ending

-----------------------------------------------------------------------------
\* Nothing is posted yet.
LEMMA CollectorBegins == Gc!CollectorAssumption /\ Gc!Init => CollectorInv
<1> SUFFICES ASSUME Gc!CollectorAssumption, Gc!Init PROVE CollectorInv
  OBVIOUS
<1> USE DEF Gc!CollectorAssumption, Gc!Init
<1>1. running_ = (gc_thread = "job") /\ running_ \in BOOLEAN /\ stopping_ \in BOOLEAN
  BY Zenon
<1>2. Gc!TypeOK
  BY <1>1 DEF Gc!TypeOK
<1>3. InTurn /\ FlushersCount
  BY DEF InTurn, UnderWay, FlushersCount
<1>4. Ending
  BY DEF Ending
<1> QED
  BY <1>2, <1>3, <1>4 DEF CollectorInv

\* The three places a job may be, as numbers.
LEMMA JobPlaces ==
    ASSUME Gc!CollectorAssumption, CollectorInv
    PROVE  /\ Len(ran) \in Nat /\ Len(jobs_) \in Nat /\ posted \in Nat
           /\ UnderWay \in {0, 1} /\ (UnderWay = 0 <=> current = 0)
           /\ Len(ran) + UnderWay + Len(jobs_) = posted
           /\ \A i \in 1..Len(jobs_) : jobs_[i] = Len(ran) + UnderWay + i
BY DEF Gc!CollectorAssumption, CollectorInv, Gc!TypeOK, UnderWay, InTurn

\* A job posted takes the last place; it may start the thread.
LEMMA PostIInv ==
    ASSUME Gc!CollectorAssumption, CollectorInv, Gc!Post PROVE CollectorInv'
<1>a. /\ Len(ran) \in Nat /\ Len(jobs_) \in Nat /\ posted \in Nat
      /\ UnderWay \in {0, 1} /\ (UnderWay = 0 <=> current = 0)
      /\ Len(ran) + UnderWay + Len(jobs_) = posted
      /\ \A i \in 1..Len(jobs_) : jobs_[i] = Len(ran) + UnderWay + i
  BY JobPlaces
<1> USE DEF Gc!CollectorAssumption, CollectorInv, Gc!Post
<1>1. posted' = posted + 1 /\ posted' \in 1..MaxJobs
  BY DEF Gc!TypeOK
<1>2. /\ jobs_' \in Seq(1..MaxJobs) /\ Len(jobs_') = Len(jobs_) + 1
      /\ jobs_'[Len(jobs_) + 1] = posted'
      /\ \A i \in 1..Len(jobs_) : jobs_'[i] = jobs_[i]
  BY <1>1 DEF Gc!TypeOK
<1>3. gc_thread # "exited"
  BY DEF Gc!TypeOK, Ending
<1>4. /\ gc_thread' \in {gc_thread, "loop"}
      /\ (gc_thread' = "job" <=> gc_thread = "job") /\ gc_thread' # "none"
      /\ gc_thread' # "exited"
  BY <1>3 DEF Gc!ChangedNotified, Gc!TypeOK
<1>5. Gc!TypeOK'
  BY <1>1, <1>2, <1>4 DEF Gc!TypeOK
<1>6. InTurn'
  <2>1. UnderWay' = UnderWay /\ ran' = ran /\ current' = current
    BY DEF UnderWay
  <2>2. Len(ran) + UnderWay + (Len(jobs_) + 1) = posted'
    <3>1. posted' = posted + 1
      BY <1>1
    <3>2. /\ Len(ran) \in Nat /\ UnderWay \in Nat /\ Len(jobs_) \in Nat
          /\ Len(ran) + UnderWay + Len(jobs_) = posted
      BY <1>a
    <3> HIDE DEF CollectorInv, Gc!Post
    <3> QED
      BY <3>1, <3>2
  <2>3. ASSUME NEW i \in 1..Len(jobs_) + 1 PROVE jobs_'[i] = Len(ran) + UnderWay + i
    <3>1. CASE i \in 1..Len(jobs_)
      BY <3>1, <1>2, <1>a
    <3>2. CASE i = Len(jobs_) + 1
      BY <3>2, <1>2, <2>2, <1>a
    <3> QED
      BY <3>1, <3>2, <1>a
  <2> QED
    BY <1>2, <2>1, <2>2, <2>3 DEF InTurn
<1>7. FlushersCount'
  BY <1>1 DEF FlushersCount, Gc!TypeOK
<1>8. Ending'
  BY <1>4 DEF Ending, Gc!TypeOK
<1> QED
  BY <1>5, <1>6, <1>7, <1>8

\* The thread takes the job that waits first: it is the next in turn.
LEMMA TakesJobIInv ==
    ASSUME Gc!CollectorAssumption, CollectorInv, Gc!TakesJob PROVE CollectorInv'
<1>a. /\ Len(ran) \in Nat /\ Len(jobs_) \in Nat /\ posted \in Nat
      /\ UnderWay \in {0, 1} /\ (UnderWay = 0 <=> current = 0)
      /\ Len(ran) + UnderWay + Len(jobs_) = posted
      /\ \A i \in 1..Len(jobs_) : jobs_[i] = Len(ran) + UnderWay + i
  BY JobPlaces
<1> USE DEF Gc!CollectorAssumption, CollectorInv, Gc!TakesJob
<1>1. /\ Len(jobs_) \in Nat \ {0} /\ current' = jobs_[1] /\ current' \in 1..MaxJobs
      /\ jobs_' \in Seq(1..MaxJobs) /\ Len(jobs_') = Len(jobs_) - 1
      /\ \A i \in 1..Len(jobs_') : jobs_'[i] = jobs_[i + 1]
  BY DEF Gc!TypeOK
<1>2. current = 0 /\ current' = Len(ran) + 1
  BY <1>1 DEF InTurn, UnderWay, Ending, Gc!TypeOK
<1>3. Gc!TypeOK'
  <2>1. running_' = (gc_thread' = "job") /\ running_' \in BOOLEAN
    BY Zenon
  <2> QED
    BY <1>1, <2>1 DEF Gc!TypeOK
<1>4. InTurn'
  <2>1. UnderWay = 0 /\ UnderWay' = 1 /\ ran' = ran /\ posted' = posted
    BY <1>1, <1>2 DEF UnderWay
  <2>2. Len(ran) + 1 + Len(jobs_') = posted
    <3>1. Len(jobs_') = Len(jobs_) - 1
      BY <1>1
    <3> HIDE DEF CollectorInv, Gc!TakesJob
    <3> QED
      BY <2>1, <3>1, <1>a
  <2>3. ASSUME NEW i \in 1..Len(jobs_') PROVE jobs_'[i] = Len(ran) + 1 + i
    <3>1. i + 1 \in 1..Len(jobs_) /\ i \in Nat
      BY <1>1, <1>a
    <3>2. jobs_'[i] = jobs_[i + 1] /\ jobs_[i + 1] = Len(ran) + 0 + (i + 1)
      BY <1>1, <2>1, <3>1, <1>a
    <3> QED
      BY <3>1, <3>2, <1>a
  <2> QED
    BY <1>2, <2>1, <2>2, <2>3 DEF InTurn
<1>5. FlushersCount'
  BY DEF FlushersCount
<1>6. Ending'
  BY <1>1 DEF Ending, Gc!TypeOK
<1> QED
  BY <1>3, <1>4, <1>5, <1>6

\* The job under way ends: it has run, in its turn.
LEMMA JobEndsIInv ==
    ASSUME Gc!CollectorAssumption, CollectorInv, Gc!JobEnds PROVE CollectorInv'
<1>a. /\ Len(ran) \in Nat /\ Len(jobs_) \in Nat /\ posted \in Nat
      /\ UnderWay \in {0, 1} /\ (UnderWay = 0 <=> current = 0)
      /\ Len(ran) + UnderWay + Len(jobs_) = posted
      /\ \A i \in 1..Len(jobs_) : jobs_[i] = Len(ran) + UnderWay + i
  BY JobPlaces
<1> USE DEF Gc!CollectorAssumption, CollectorInv, Gc!JobEnds
<1>1. current \in 1..MaxJobs /\ current = Len(ran) + 1
  BY DEF Ending, InTurn, Gc!TypeOK
<1>2. /\ ran' \in Seq(1..MaxJobs) /\ Len(ran') = Len(ran) + 1
      /\ ran'[Len(ran) + 1] = current
      /\ \A i \in 1..Len(ran) : ran'[i] = ran[i]
  BY <1>1 DEF Gc!TypeOK
<1>3. flusher' \in [Flushers -> {"out", "in", "asleep"}]
  BY DEF Gc!IdleNotified, Gc!TypeOK
<1>4. Gc!TypeOK'
  <2>1. running_' = (gc_thread' = "job") /\ running_' \in BOOLEAN
    BY Zenon
  <2> QED
    BY <1>2, <1>3, <2>1 DEF Gc!TypeOK
<1>5. InTurn'
  <2>1. UnderWay = 1 /\ UnderWay' = 0 /\ jobs_' = jobs_ /\ posted' = posted /\ current' = 0
    BY <1>1 DEF UnderWay
  <2>2. ASSUME NEW i \in 1..Len(ran) + 1 PROVE ran'[i] = i
    <3>1. CASE i \in 1..Len(ran)
      BY <3>1, <1>2 DEF InTurn
    <3>2. CASE i = Len(ran) + 1
      BY <3>2, <1>1, <1>2
    <3> QED
      BY <3>1, <3>2, <1>a
  <2> QED
    BY <1>2, <2>1, <2>2, <1>a DEF InTurn
<1>6. FlushersCount'
  BY DEF FlushersCount
<1>7. Ending'
  BY DEF Ending, Gc!TypeOK
<1> QED
  BY <1>4, <1>5, <1>6, <1>7

\* A step that leaves the jobs alone and changes only who sleeps, waits or has
\* left.
LEMMA AsideIInv ==
    ASSUME CollectorInv, UNCHANGED <<jobs_, current, posted, ran>>,
           flusher' \in [Flushers -> {"out", "in", "asleep"}],
           since' \in [Flushers -> 0..MaxJobs],
           \A f \in Flushers : since'[f] <= posted,
           running_' = (gc_thread' = "job"), running_' \in BOOLEAN, stopping_' \in BOOLEAN,
           gc_thread' \in {"none", "loop", "asleep", "job", "exited"},
           owner' \in {"using", "joining", "gone"},
           Ending'
    PROVE  CollectorInv'
BY DEF CollectorInv, Gc!TypeOK, InTurn, UnderWay, FlushersCount

\* Every step keeps the invariant.
LEMMA CollectorSteps ==
    ASSUME Gc!CollectorAssumption, CollectorInv, [Gc!Next]_(Gc!vars) PROVE CollectorInv'
<1> USE DEF CollectorInv, Gc!TypeOK
<1>1. CASE Gc!Post
  BY <1>1, PostIInv
<1>2. CASE Gc!Destroy
  <2>1. gc_thread' \in {gc_thread, "loop"} /\ (gc_thread' = "job" <=> gc_thread = "job")
        /\ (gc_thread' = "none" <=> gc_thread = "none")
        /\ (gc_thread' = "exited" <=> gc_thread = "exited")
    BY <1>2 DEF Gc!Destroy, Gc!ChangedNotified
  <2>2. Ending'
    BY <1>2, <2>1 DEF Gc!Destroy, Ending
  <2> QED
    BY <1>2, <2>1, <2>2, AsideIInv DEF Gc!Destroy, FlushersCount
<1>3. CASE Gc!Joined
  <2>1. Ending'
    BY <1>3 DEF Gc!Joined, Ending
  <2> QED
    BY <1>3, <2>1, AsideIInv DEF Gc!Joined, FlushersCount
<1>4. ASSUME NEW f \in Flushers, Gc!CallFlush(f) PROVE CollectorInv'
  <2>1. Ending'
    BY <1>4 DEF Gc!CallFlush, Ending
  <2>2. since' \in [Flushers -> 0..MaxJobs] /\ \A g \in Flushers : since'[g] <= posted
    BY <1>4 DEF Gc!CallFlush, FlushersCount
  <2> QED
    BY <1>4, <2>1, <2>2, AsideIInv DEF Gc!CallFlush
<1>5. ASSUME NEW f \in Flushers, Gc!FlushNext(f) PROVE CollectorInv'
  <2>1. Ending'
    BY <1>5 DEF Gc!FlushNext, Gc!FlushReturns, Gc!FlushWaits, Ending
  <2> QED
    BY <1>5, <2>1, AsideIInv DEF Gc!FlushNext, Gc!FlushReturns, Gc!FlushWaits, FlushersCount
<1>6. CASE Gc!Sleeps
  <2>1. Ending'
    BY <1>6 DEF Gc!Sleeps, Ending
  <2> QED
    BY <1>6, <2>1, AsideIInv DEF Gc!Sleeps, FlushersCount
<1>7. CASE Gc!Exits
  <2>1. Ending'
    BY <1>7 DEF Gc!Exits, Ending
  <2>2. flusher' \in [Flushers -> {"out", "in", "asleep"}]
    BY <1>7 DEF Gc!Exits, Gc!IdleNotified
  <2> QED
    BY <1>7, <2>1, <2>2, AsideIInv DEF Gc!Exits, FlushersCount
<1>8. CASE Gc!TakesJob
  BY <1>8, TakesJobIInv
<1>9. CASE Gc!JobEnds
  BY <1>9, JobEndsIInv
<1>10. CASE Gc!Wakes
  <2>1. /\ gc_thread' \in {gc_thread, "loop"}
        /\ (gc_thread' = "job" <=> gc_thread = "job")
        /\ (gc_thread' = "none" <=> gc_thread = "none")
        /\ (gc_thread' = "exited" <=> gc_thread = "exited")
        /\ flusher' \in [Flushers -> {"out", "in", "asleep"}]
    BY <1>10 DEF Gc!Wakes
  <2>2. Ending'
    BY <1>10, <2>1 DEF Gc!Wakes, Ending
  <2> QED
    BY <1>10, <2>1, <2>2, AsideIInv DEF Gc!Wakes, FlushersCount
<1>11. CASE UNCHANGED (Gc!vars)
  BY <1>11 DEF Gc!vars, InTurn, UnderWay, FlushersCount, Ending
<1> QED
  BY <1>1, <1>2, <1>3, <1>4, <1>5, <1>6, <1>7, <1>8, <1>9, <1>10, <1>11
  DEF Gc!Next, Gc!ThreadNext

-----------------------------------------------------------------------------
\* Jobs that each stand in their turn make up, put one behind the other, the
\* jobs posted in the order posted.
LEMMA TurnsAreOrder == Gc!TypeOK /\ InTurn => Gc!EveryJobInOrder
<1> SUFFICES ASSUME Gc!TypeOK, InTurn PROVE Gc!EveryJobInOrder
  OBVIOUS
<1> DEFINE now == IF current = 0 THEN <<>> ELSE <<current>>
           all == ran \o now \o jobs_
<1>1. now \in Seq(1..MaxJobs) /\ Len(now) = UnderWay
      /\ \A i \in 1..Len(now) : now[i] = Len(ran) + i
  <2>1. CASE current = 0
    BY <2>1 DEF UnderWay
  <2>2. CASE current # 0
    <3>1. current \in 1..MaxJobs /\ current = Len(ran) + 1 /\ now = <<current>>
      BY <2>2 DEF Gc!TypeOK, InTurn
    <3> HIDE DEF now
    <3>2. now \in Seq(1..MaxJobs) /\ Len(now) = 1 /\ now[1] = current
      BY <3>1
    <3> QED
      BY <2>2, <3>1, <3>2 DEF UnderWay
  <2> QED
    BY <2>1, <2>2
<1>2. ran \o now \in Seq(1..MaxJobs) /\ Len(ran \o now) = Len(ran) + UnderWay
      /\ \A i \in 1..Len(ran \o now) :
            (ran \o now)[i] = IF i <= Len(ran) THEN ran[i] ELSE now[i - Len(ran)]
  <2> HIDE DEF now
  <2> QED
    BY <1>1 DEF Gc!TypeOK
<1>3. \A i \in 1..Len(ran \o now) : (ran \o now)[i] = i
  <2> HIDE DEF now
  <2> SUFFICES ASSUME NEW i \in 1..Len(ran \o now) PROVE (ran \o now)[i] = i
    OBVIOUS
  <2>1. Len(ran) \in Nat /\ Len(now) \in Nat
    BY <1>1 DEF Gc!TypeOK
  <2>2. CASE i <= Len(ran)
    BY <1>2, <2>1, <2>2 DEF InTurn
  <2>3. CASE ~(i <= Len(ran))
    <3>1. i - Len(ran) \in 1..Len(now)
      BY <1>1, <1>2, <2>1, <2>3
    <3> QED
      BY <1>1, <1>2, <2>1, <2>3, <3>1
  <2> QED
    BY <2>2, <2>3
<1> DEFINE first == ran \o now
<1>4. /\ all \in Seq(1..MaxJobs) /\ Len(all) = posted
      /\ \A i \in 1..Len(all) :
            all[i] = IF i <= Len(first) THEN first[i] ELSE jobs_[i - Len(first)]
  <2>1. first \in Seq(1..MaxJobs) /\ Len(first) = Len(ran) + UnderWay /\ all = first \o jobs_
    BY <1>2
  <2> HIDE DEF first, all
  <2> QED
    BY <2>1 DEF Gc!TypeOK, InTurn
<1>5. \A i \in 1..posted : all[i] = i
  <2>1. Len(first) = Len(ran) + UnderWay /\ \A i \in 1..Len(first) : first[i] = i
    BY <1>2, <1>3
  <2>2. Len(ran) \in Nat /\ UnderWay \in Nat /\ Len(jobs_) \in Nat
    BY DEF Gc!TypeOK, UnderWay
  <2> HIDE DEF first, all
  <2> SUFFICES ASSUME NEW i \in 1..posted PROVE all[i] = i
    OBVIOUS
  <2>3. CASE i <= Len(first)
    BY <1>4, <2>1, <2>2, <2>3
  <2>4. CASE ~(i <= Len(first))
    <3>1. /\ posted = Len(first) + Len(jobs_)
          /\ \A j \in 1..Len(jobs_) : jobs_[j] = Len(first) + j
      BY <2>1 DEF InTurn
    <3>2. i \in Nat /\ i - Len(first) \in 1..Len(jobs_)
      BY <2>1, <2>2, <2>4, <3>1
    <3>3. all[i] = jobs_[i - Len(first)]
      BY <1>4, <2>4
    <3>4. all[i] = Len(first) + (i - Len(first))
      BY <3>1, <3>2, <3>3
    <3> QED
      BY <2>1, <2>2, <3>2, <3>4
  <2> QED
    BY <2>3, <2>4
<1>6. all = [i \in 1..posted |-> i]
  <2> HIDE DEF all
  <2> QED
    BY <1>4, <1>5
<1> QED
  BY <1>6 DEF Gc!EveryJobInOrder

-----------------------------------------------------------------------------
\* Every job stands in its turn and the thread is where the owner thinks it is
\* (GarbageCollector's deque, its loop and its destructor).
THEOREM CollectorAgrees == Gc!Spec => []CollectorInv
<1>1. CollectorInv /\ [Gc!Next]_(Gc!vars) => CollectorInv'
  BY CollectorsAssumption, CollectorSteps
<1> QED
  BY CollectorsAssumption, CollectorBegins, <1>1, PTL DEF Gc!Spec

\* Jobs run in the order posted, each once and none lost, and the collector is
\* gone only when all have run (GarbageCollector::Post, Loop, the destructor).
THEOREM AllIsCollected == Gc!Spec => []Gc!CollectsAll
<1>1. CollectorInv => Gc!CollectsAll
  <2>1. CollectorInv => Gc!EveryJobInOrder
    BY TurnsAreOrder DEF CollectorInv
  <2>2. CollectorInv => Gc!GoneMeansDrained
    BY DEF CollectorInv, Gc!TypeOK, InTurn, UnderWay, Ending, Gc!GoneMeansDrained
  <2> QED
    BY <2>1, <2>2 DEF Gc!CollectsAll
<1> QED
  BY CollectorAgrees, <1>1, PTL

\* A Flush that returns finds the jobs posted before it was called among those
\* that have run, the one under way at the time too (GarbageCollector::Flush).
THEOREM FlushIsKept == Gc!Spec => Gc!FlushMeansRun
<1> DEFINE Kept ==
      \A f \in Flushers : flusher[f] = "in" /\ flusher'[f] = "out" => Len(ran) >= since[f]
<1>1. CollectorInv /\ [Gc!Next]_(Gc!vars) => [Kept]_(Gc!vars)
  <2> SUFFICES ASSUME CollectorInv, Gc!Next, NEW f \in Flushers, flusher[f] = "in",
                      flusher'[f] = "out"
               PROVE  Len(ran) >= since[f]
    OBVIOUS
  <2>1. CASE \E g \in Flushers : Gc!FlushReturns(g)
    <3>1. jobs_ = <<>> /\ ~running_ /\ CollectorInv /\ since[f] <= posted /\ since[f] \in Nat
      BY <2>1 DEF Gc!FlushReturns, Gc!Idle, CollectorInv, Gc!TypeOK, FlushersCount
    <3>2. current = 0
      BY <3>1 DEF CollectorInv, Gc!TypeOK, Ending
    <3> QED
      BY CollectorsAssumption, <3>1, <3>2, JobPlaces
  <2>2. CASE ~\E g \in Flushers : Gc!FlushReturns(g)
    BY <2>2 DEF Gc!Next, Gc!ThreadNext, Gc!FlushNext, Gc!FlushWaits, Gc!CallFlush,
         Gc!Post, Gc!Destroy, Gc!Joined, Gc!Sleeps, Gc!Exits, Gc!TakesJob, Gc!JobEnds, Gc!Wakes,
         Gc!IdleNotified, CollectorInv, Gc!TypeOK
  <2> QED
    BY <2>1, <2>2
<1> QED
  BY CollectorAgrees, <1>1, PTL DEF Gc!Spec, Gc!FlushMeansRun

-----------------------------------------------------------------------------
(* The protection controller.  The thread asks the connector and tells the *)
(* client outside its mutex.  That the answer is still about the request   *)
(* it was asked for rests on two things: a frame under way asks only while *)
(* the controller wants to be asked for, and a request once committed is   *)
(* replaced by nobody but the thread, so that no frame slips in between    *)
(* the question, the decision and the telling.                             *)

HdcpStates == {"undesired", "desired", "requested", "enabled", "retry", "exit"}
HdcpPlaces == {"none", "top", "asleep", "timed", "waked", "early", "query", "decide", "notify",
           "trigger", "gone"}

CtlShape == [state : HdcpStates, retried : BOOLEAN, due : BOOLEAN]
LinkShape == [type : Hd!Types \union {"none"}, on : BOOLEAN, seen : BOOLEAN]
CountShape == [frames : Nat, refusals : Nat, drops : Nat]

Shapes ==
    /\ life \in {"none", "bare", "live", "gone"} /\ main \in {"free", "frame", "joining"}
    /\ ctl \in CtlShape
    /\ at \in HdcpPlaces /\ found \in BOOLEAN
    /\ link \in LinkShape
    /\ level \in Hd!Types \union {"off"} /\ told \in Hd!Types \union {"off", "never"}
    /\ owed \in BOOLEAN /\ asks \in Nat
    /\ count \in CountShape

\* Nothing is known of a display before it is bound.
BeforeBind ==
    life = "none" => at = "none" /\ told = "never" /\ ctl.state = "undesired"

\* A frame asks for what the controller still wants when it is committed.
FrameAsks ==
    args # "none" => main = "frame" /\ ctl.state \in {"desired", "retry"}
                     /\ args = Hd!AskFor(ctl.state)

\* Where the thread may stand in each state.
Standing ==
    /\ at \in {"early", "query", "decide"} => ctl.state \in {"requested", "exit"}
    /\ at = "notify" => ctl.state \in {"enabled", "undesired", "exit"}
    /\ at = "notify" /\ level = "off" => ctl.state # "enabled"
    /\ ctl.state = "exit" => at \notin {"asleep", "timed"}

\* The type of the request under way.
TypeAsked == IF ctl.retried THEN "type0" ELSE "type1"

\* The link works at the request that is remembered, and what the thread was
\* answered and is about to tell was seen on that link.
Answered ==
    /\ link.on => link.seen
    /\ ctl.state = "requested" => link.type \in {"none", TypeAsked}
    /\ at = "decide" /\ found /\ ctl.state = "requested" => link.seen
    /\ at = "notify" /\ level \in Hd!Types => link.seen
    /\ at = "notify" /\ level \in Hd!Types /\ link.type # "none" => level = link.type

\* While no link was ever lost, what the client was told last is what holds,
\* or is about to be told.
NeverLost ==
    count.drops = 0 =>
        /\ ~owed
        /\ ctl.state \in {"requested", "enabled"} => link.type \in Hd!Types
        /\ told \in Hd!Types => ctl.state \in {"enabled", "exit"} /\ told = link.type
        /\ ctl.state = "enabled" => told \in Hd!Types \/ (at = "notify" /\ level \in Hd!Types)
        /\ at = "notify" /\ level \in Hd!Types =>
              ctl.state \in {"enabled", "exit"} /\ level = link.type

ControllerInv == Shapes /\ BeforeBind /\ FrameAsks /\ Standing /\ Answered /\ NeverLost

-----------------------------------------------------------------------------
\* Nothing is bound, asked or told yet.
LEMMA ControllerBegins == Hd!Init => ControllerInv
<1> SUFFICES ASSUME Hd!Init PROVE ControllerInv
  OBVIOUS
<1> USE DEF Hd!Init, Hd!Types
<1>1. Shapes
  BY DEF Shapes, CtlShape, LinkShape, CountShape, HdcpStates, HdcpPlaces
<1>2. BeforeBind /\ FrameAsks /\ Standing
  BY DEF BeforeBind, FrameAsks, Standing
<1>3. Answered
  BY DEF Answered
<1>4. NeverLost
  BY DEF NeverLost
<1> QED
  BY <1>1, <1>2, <1>3, <1>4 DEF ControllerInv

\* The controller's record, the link's and the counts after a change of theirs.
LEMMA CtlChanges ==
    ASSUME ctl \in CtlShape, NEW s \in HdcpStates
    PROVE  /\ [ctl EXCEPT !.state = s] \in CtlShape
           /\ [ctl EXCEPT !.state = s, !.retried = FALSE] \in CtlShape
           /\ [ctl EXCEPT !.due = TRUE] \in CtlShape
           /\ \A r \in BOOLEAN : [state |-> s, retried |-> r, due |-> FALSE] \in CtlShape
           /\ [ctl EXCEPT !.due = TRUE].state = ctl.state
           /\ [ctl EXCEPT !.due = TRUE].retried = ctl.retried
BY DEF CtlShape

LEMMA LinkChanges ==
    ASSUME link \in LinkShape, count \in CountShape
    PROVE  /\ [link EXCEPT !.on = TRUE, !.seen = TRUE] \in LinkShape
           /\ [link EXCEPT !.on = FALSE, !.type = "none"] \in LinkShape
           /\ \A t \in Hd!Types : [type |-> t, on |-> FALSE, seen |-> FALSE] \in LinkShape
           /\ [count EXCEPT !.drops = @ + 1] \in CountShape
<1>1. [link EXCEPT !.on = TRUE, !.seen = TRUE] \in LinkShape
  BY DEF LinkShape
<1>2. [link EXCEPT !.on = FALSE, !.type = "none"] \in LinkShape
  BY DEF LinkShape
<1>3. \A t \in Hd!Types : [type |-> t, on |-> FALSE, seen |-> FALSE] \in LinkShape
  BY DEF LinkShape
<1>4. [count EXCEPT !.drops = @ + 1] \in CountShape
  BY DEF CountShape
<1> QED
  BY <1>1, <1>2, <1>3, <1>4

\* A step of the thread that only moves it between its waits.
LEMMA MovesIInv ==
    ASSUME ControllerInv, Hd!Quiet, Hd!ThreadOnly,
           at' \in {"top", "asleep", "timed", "waked", "early", "query", "gone"},
           at' \in {"early", "query"} => ctl.state \in {"requested", "exit"},
           at' \in {"asleep", "timed"} => ctl.state # "exit",
           at # "none", at # "notify"
    PROVE  ControllerInv'
<1> USE DEF ControllerInv, Hd!Quiet, Hd!ThreadOnly
<1>1. Shapes'
  BY DEF Shapes, HdcpPlaces
<1>2. BeforeBind' /\ FrameAsks' /\ Standing'
  BY DEF BeforeBind, FrameAsks, Standing, Hd!AskFor
<1>3. Answered'
  BY DEF Answered, TypeAsked
<1>4. NeverLost'
  BY DEF NeverLost
<1> QED
  BY <1>1, <1>2, <1>3, <1>4

\* A frame that asks begins a request: of the older type where the controller
\* tries again.
LEMMA CommitAsks ==
    ASSUME Shapes, FrameAsks, Hd!ApplyCommitChanges, args # "none"
    PROVE  /\ ctl' \in CtlShape /\ link' \in LinkShape
           /\ ctl'.state = "requested" /\ link'.type = TypeAsked' /\ link'.type \in Hd!Types
           /\ ~link'.on /\ at' = Hd!Woken
<1>1. /\ ctl.state \in {"desired", "retry"}
      /\ ctl' = [state |-> "requested", retried |-> ctl.state = "retry", due |-> FALSE]
      /\ link' = [type |-> args, on |-> FALSE, seen |-> FALSE] /\ at' = Hd!Woken
  BY DEF FrameAsks, Hd!ApplyCommitChanges, Hd!Requested
<1>2. CASE ctl.state = "retry"
  <2>1. (ctl.state = "retry") = TRUE /\ args = "type0"
    BY <1>2, Zenon DEF FrameAsks, Hd!AskFor
  <2>2. ctl' = [state |-> "requested", retried |-> TRUE, due |-> FALSE]
    BY <1>1, <2>1, Zenon
  <2> QED
    BY <1>1, <2>1, <2>2 DEF CtlShape, LinkShape, HdcpStates, Hd!Types, TypeAsked
<1>3. CASE ctl.state = "desired"
  <2>1. (ctl.state = "retry") = FALSE /\ args = "type1"
    BY <1>3 DEF FrameAsks, Hd!AskFor
  <2>2. ctl' = [state |-> "requested", retried |-> FALSE, due |-> FALSE]
    BY <1>1, <2>1, Zenon
  <2> QED
    BY <1>1, <2>1, <2>2 DEF CtlShape, LinkShape, HdcpStates, Hd!Types, TypeAsked
<1> QED
  BY <1>1, <1>2, <1>3

\* The thread's decision, in each of its cases.
LEMMA Decisions ==
    ASSUME Shapes, Hd!Decide
    PROVE  /\ ctl' \in CtlShape /\ level' \in Hd!Types \union {"off"}
           /\ \/ /\ ctl.state # "requested" /\ at' = "top" /\ ctl' = ctl /\ level' = level
              \/ /\ ctl.state = "requested" /\ found /\ at' = "notify"
                 /\ ctl'.state = "enabled" /\ level' = TypeAsked
              \/ /\ ctl.state = "requested" /\ ~found /\ at' = "notify"
                 /\ ctl'.state = "undesired" /\ level' = "off"
              \/ /\ ctl.state = "requested" /\ ~found /\ at' = "trigger"
                 /\ ctl'.state = "retry" /\ level' = "off"
<1>1. CASE ctl.state # "requested"
  BY <1>1 DEF Hd!Decide, Shapes
<1>2. CASE ctl.state = "requested" /\ found
  <2>1. /\ ctl' = [ctl EXCEPT !.state = "enabled", !.retried = FALSE]
        /\ at' = "notify" /\ level' = TypeAsked
    BY <1>2 DEF Hd!Decide, Hd!Decided, Hd!LevelFor, TypeAsked, Shapes
  <2> QED
    BY <1>2, <2>1 DEF Shapes, CtlShape, HdcpStates, Hd!Types, TypeAsked
<1>3. CASE ctl.state = "requested" /\ ~found /\ ctl.retried
  <2>1. /\ ctl' = [ctl EXCEPT !.state = "undesired", !.retried = FALSE]
        /\ at' = "notify" /\ level' = "off"
    BY <1>3 DEF Hd!Decide, Hd!Decided, Hd!LevelFor, Shapes
  <2> QED
    BY <1>3, <2>1 DEF Shapes, CtlShape, HdcpStates
<1>4. CASE ctl.state = "requested" /\ ~found /\ ~ctl.retried
  <2>1. /\ ctl' = [ctl EXCEPT !.state = "retry"]
        /\ at' = "trigger" /\ level' = "off"
    BY <1>4 DEF Hd!Decide, Hd!Decided, Hd!LevelFor, Shapes
  <2> QED
    BY <1>4, <2>1 DEF Shapes, CtlShape, HdcpStates
<1> QED
  BY <1>1, <1>2, <1>3, <1>4

\* Every step keeps the invariant.
LEMMA ControllerSteps == ControllerInv /\ [Hd!Next]_(Hd!hdcpVars) => ControllerInv'
<1> SUFFICES ASSUME ControllerInv, [Hd!Next]_(Hd!hdcpVars) PROVE ControllerInv'
  OBVIOUS
<1>0. Shapes
  BY DEF ControllerInv
<1> USE DEF ControllerInv, Shapes, HdcpStates, HdcpPlaces, Hd!Types, CtlShape, LinkShape,
            CountShape, BeforeBind, FrameAsks, Standing, Answered,
            TypeAsked, NeverLost
<1>1. CASE Hd!Bind
  BY <1>1 DEF Hd!Bind, Hd!RequestHdcpNegotiation, Hd!Start
<1>2. CASE Hd!BuildFrame
  BY <1>2 DEF Hd!BuildFrame, Hd!AskFor
<1>3. CASE Hd!CommitFrame
  <2>1. CASE Hd!ApplyCommitChanges /\ UNCHANGED count
    <3>1. CASE args = "none"
      BY <1>3, <2>1, <3>1 DEF Hd!CommitFrame, Hd!ApplyCommitChanges
    <3>2. CASE args # "none"
      <4>a. /\ ctl' \in CtlShape /\ link' \in LinkShape
            /\ ctl'.state = "requested" /\ link'.type = TypeAsked' /\ link'.type \in Hd!Types
            /\ ~link'.on /\ at' = Hd!Woken
        BY <2>1, <3>2, CommitAsks
      <4>b. (at' \in HdcpPlaces /\ at' \notin {"none", "asleep", "timed"}) \/ at' = at
        BY <4>a DEF Hd!Woken
      <4>c. /\ main' = "free" /\ args' = "none"
            /\ UNCHANGED <<life, found, level, told, asks, owed, count>>
        BY <1>3, <2>1 DEF Hd!CommitFrame
      <4>1. Shapes'
        <5>1. at' \in HdcpPlaces
          BY <4>b
        <5> HIDE DEF LinkShape, CountShape, CtlShape
        <5> QED
          BY <4>a, <4>c, <5>1
      <4>2. BeforeBind'
        BY <3>2, <4>a, <4>b, <4>c DEF Hd!Woken
      <4>3. FrameAsks'
        BY <3>2, <4>a, <4>b, <4>c DEF Hd!Woken
      <4>4. Standing'
        BY <3>2, <4>a, <4>b, <4>c DEF Hd!Woken
      <4>5. Answered'
        BY <3>2, <4>a, <4>b, <4>c DEF Hd!Woken
      <4>6. NeverLost'
        BY <3>2, <4>a, <4>b, <4>c DEF Hd!Woken
      <4> QED
        BY <4>1, <4>2, <4>3, <4>4, <4>5, <4>6
    <3> QED
      BY <3>1, <3>2
  <2>2. CASE UNCHANGED <<ctl, at, link>> /\ count' = [count EXCEPT !.refusals = @ + 1]
    BY <1>3, <2>2 DEF Hd!CommitFrame
  <2> QED
    BY <1>3, <2>1, <2>2 DEF Hd!CommitFrame
<1>4. CASE Hd!NotifyHdcpTermination
  <2>1. Shapes'
    <3>1. ctl' \in CtlShape /\ at' \in HdcpPlaces /\ told' \in Hd!Types \union {"off", "never"}
      BY <1>0, <1>4, CtlChanges DEF Hd!NotifyHdcpTermination, Hd!StopHdcp, Hd!Woken
    <3> HIDE DEF LinkShape, CountShape, CtlShape
    <3> QED
      BY <1>4, <3>1 DEF Hd!NotifyHdcpTermination
  <2>2. BeforeBind'
    BY <1>4 DEF Hd!NotifyHdcpTermination, Hd!StopHdcp, Hd!Woken
  <2>3. FrameAsks'
    BY <1>4 DEF Hd!NotifyHdcpTermination, Hd!StopHdcp, Hd!Woken
  <2>4. Standing'
    BY <1>4 DEF Hd!NotifyHdcpTermination, Hd!StopHdcp, Hd!Woken
  <2>5. Answered'
    BY <1>4 DEF Hd!NotifyHdcpTermination, Hd!StopHdcp, Hd!Woken
  <2>6. NeverLost'
    BY <1>4 DEF Hd!NotifyHdcpTermination, Hd!StopHdcp, Hd!Woken
  <2> QED
    BY <2>1, <2>2, <2>3, <2>4, <2>5, <2>6
<1>5. CASE Hd!Unbind
  BY <1>5 DEF Hd!Unbind, Hd!Woken
<1>6. CASE Hd!Joined
  BY <1>6 DEF Hd!Joined
<1>7. CASE Hd!Top \/ Hd!WaitEnds \/ Hd!WakesForNothing \/ Hd!Waked \/ Hd!EarlyCheck
  <2>1. Hd!Quiet /\ Hd!ThreadOnly /\ at \in {"top", "timed", "asleep", "waked", "early"}
    BY <1>7 DEF Hd!Top, Hd!WaitEnds, Hd!WakesForNothing, Hd!Waked, Hd!EarlyCheck
  <2>2. /\ at' \in {"top", "asleep", "timed", "waked", "early", "query", "gone"}
        /\ at' \in {"early", "query"} => ctl.state \in {"requested", "exit"}
        /\ at' \in {"asleep", "timed"} => ctl.state # "exit"
    BY <1>7 DEF Hd!Top, Hd!TopGoes, Hd!WaitEnds, Hd!WakesForNothing, Hd!Waked, Hd!EarlyCheck
  <2> QED
    BY <2>1, <2>2, MovesIInv
<1>8. CASE Hd!Query
  BY <1>8 DEF Hd!Query, Hd!ThreadOnly
<1>9. CASE Hd!Decide
  <2>a. /\ ctl' \in CtlShape /\ level' \in Hd!Types \union {"off"}
        /\ \/ /\ ctl.state # "requested" /\ at' = "top" /\ ctl' = ctl /\ level' = level
           \/ /\ ctl.state = "requested" /\ found /\ at' = "notify"
              /\ ctl'.state = "enabled" /\ level' = TypeAsked
           \/ /\ ctl.state = "requested" /\ ~found /\ at' = "notify"
              /\ ctl'.state = "undesired" /\ level' = "off"
           \/ /\ ctl.state = "requested" /\ ~found /\ at' = "trigger"
              /\ ctl'.state = "retry" /\ level' = "off"
    BY <1>9, Decisions
  <2>b. at = "decide" /\ UNCHANGED <<found, told, asks, life, main, args, link, owed, count>>
    BY <1>9 DEF Hd!Decide, Hd!ThreadOnly
  <2>1. Shapes'
    <3>1. at' \in HdcpPlaces
      BY <2>a
    <3> HIDE DEF LinkShape, CountShape, CtlShape
    <3> QED
      BY <2>a, <2>b, <3>1
  <2>2. BeforeBind'
    BY <2>a, <2>b
  <2>3. FrameAsks'
    BY <2>a, <2>b
  <2>4. Standing'
    BY <2>a, <2>b
  <2>5. Answered'
    BY <2>a, <2>b
  <2>6. NeverLost'
    BY <2>a, <2>b
  <2> QED
    BY <2>1, <2>2, <2>3, <2>4, <2>5, <2>6
<1>10. CASE Hd!Notify
  <2>1. Shapes'
    BY <1>10 DEF Hd!Notify, Hd!ThreadOnly
  <2>2. BeforeBind'
    BY <1>10 DEF Hd!Notify, Hd!ThreadOnly
  <2>3. FrameAsks'
    BY <1>10 DEF Hd!Notify, Hd!ThreadOnly
  <2>4. Standing'
    BY <1>10 DEF Hd!Notify, Hd!ThreadOnly
  <2>5. Answered'
    BY <1>10 DEF Hd!Notify, Hd!ThreadOnly
  <2>6. NeverLost'
    BY <1>10 DEF Hd!Notify, Hd!ThreadOnly
  <2> QED
    BY <2>1, <2>2, <2>3, <2>4, <2>5, <2>6
<1>11. CASE Hd!Trigger
  BY <1>11 DEF Hd!Trigger, Hd!Asked, Hd!ThreadOnly
<1>12. CASE Hd!DeadlinePasses
  <2>1. Shapes'
    <3>1. ctl' \in CtlShape
      BY <1>0, <1>12, CtlChanges DEF Hd!DeadlinePasses
    <3> HIDE DEF LinkShape, CountShape, CtlShape
    <3> QED
      BY <1>12, <3>1 DEF Hd!DeadlinePasses
  <2>2. BeforeBind'
    BY <1>12 DEF Hd!DeadlinePasses
  <2>3. FrameAsks'
    BY <1>12 DEF Hd!DeadlinePasses
  <2>4. Standing'
    BY <1>12 DEF Hd!DeadlinePasses
  <2>5. Answered'
    BY <1>12 DEF Hd!DeadlinePasses
  <2>6. NeverLost'
    BY <1>12 DEF Hd!DeadlinePasses
  <2> QED
    BY <2>1, <2>2, <2>3, <2>4, <2>5, <2>6
<1>13. CASE Hd!LinkProtects
  <2>1. Shapes'
    <3>1. link' \in LinkShape
      BY <1>0, <1>13, LinkChanges DEF Hd!LinkProtects
    <3> HIDE DEF LinkShape, CountShape, CtlShape
    <3> QED
      BY <1>13, <3>1 DEF Hd!LinkProtects
  <2>2. BeforeBind'
    BY <1>13 DEF Hd!LinkProtects
  <2>3. FrameAsks'
    BY <1>13 DEF Hd!LinkProtects
  <2>4. Standing'
    BY <1>13 DEF Hd!LinkProtects
  <2>5. Answered'
    BY <1>13 DEF Hd!LinkProtects
  <2>6. NeverLost'
    BY <1>13 DEF Hd!LinkProtects
  <2> QED
    BY <2>1, <2>2, <2>3, <2>4, <2>5, <2>6
<1>14. CASE Hd!LinkDrops
  <2>1. Shapes'
    <3>1. link' \in LinkShape /\ count' \in CountShape
      BY <1>0, <1>14, LinkChanges DEF Hd!LinkDrops
    <3> HIDE DEF LinkShape, CountShape, CtlShape
    <3> QED
      BY <1>14, <3>1 DEF Hd!LinkDrops
  <2>2. BeforeBind'
    BY <1>14 DEF Hd!LinkDrops
  <2>3. FrameAsks'
    BY <1>14 DEF Hd!LinkDrops
  <2>4. Standing'
    BY <1>14 DEF Hd!LinkDrops
  <2>5. Answered'
    BY <1>14 DEF Hd!LinkDrops
  <2>6. NeverLost'
    BY <1>14 DEF Hd!LinkDrops
  <2> QED
    BY <2>1, <2>2, <2>3, <2>4, <2>5, <2>6
<1>15. CASE UNCHANGED (Hd!hdcpVars)
  BY <1>15 DEF Hd!hdcpVars, Hd!AskFor
<1> QED
  BY <1>1, <1>2, <1>3, <1>4, <1>5, <1>6, <1>7, <1>8, <1>9, <1>10, <1>11, <1>12, <1>13, <1>14,
     <1>15
  DEF Hd!Next, Hd!Thread

-----------------------------------------------------------------------------
\* A frame asks for what is still wanted, the thread stands where the state
\* allows, and the link's answer is about the request (HdcpController's
\* hdcp_state_ against CreateFrameUpdateCommit and ThreadFn).
THEOREM ControllerAgrees == Hd!Spec => []ControllerInv
BY ControllerBegins, ControllerSteps, PTL DEF Hd!Spec

\* A level told is the type asked for, told only after the link was seen
\* protected since that request; with no link lost, what was told last is what
\* the controller holds (SetContentProtectionStatus, NotifyClient, Terminate).
THEOREM LevelToldIsAsked == Hd!Spec => []Hd!ToldIsAsked
<1>1. ControllerInv => Hd!ToldIsAsked
  BY DEF ControllerInv, Shapes, Hd!Types, Standing, Answered, NeverLost, Hd!ToldIsAsked
<1> QED
  BY ControllerAgrees, <1>1, PTL

-----------------------------------------------------------------------------
(* Side by side.  A part that does not move stutters.                      *)

LEMMA CollectorIsItself == NoticesSpec => Gc!Spec
<1>1. NoticesInit => Gc!Init
  BY DEF NoticesInit
<1>2. [NoticesNext]_<<part, vars, gcVars, hdcpVars>> => [Gc!Next]_(Gc!vars)
  BY DEF NoticesNext, gcVars, Gc!vars
<1> QED
  BY <1>1, <1>2, PTL DEF NoticesSpec, Gc!Spec

LEMMA ProtectionIsItself == NoticesSpec => Hd!Spec
<1>1. NoticesInit => Hd!Init
  BY DEF NoticesInit
<1>2. [NoticesNext]_<<part, vars, gcVars, hdcpVars>> => [Hd!Next]_(Hd!hdcpVars)
  BY DEF NoticesNext, hdcpVars, Hd!hdcpVars
<1> QED
  BY <1>1, <1>2, PTL DEF NoticesSpec, Hd!Spec

\* Jobs run in the order posted, each once and none lost, and the collector is
\* gone only when all have run (GarbageCollector::Post, Loop, the destructor).
THEOREM NoticesCollect == NoticesSpec => []CollectsAll
BY CollectorIsItself, AllIsCollected, PTL DEF CollectsAll

\* A Flush that returns finds the jobs posted before it was called among those
\* that have run (GarbageCollector::Flush).
THEOREM NoticesFlush == NoticesSpec => FlushMeansRun
BY CollectorIsItself, FlushIsKept, PTL DEF FlushMeansRun

\* The level the client is told is the one asked for and answered
\* (HdcpController).
THEOREM NoticesTellTrue == NoticesSpec => []ToldIsAsked
BY ProtectionIsItself, LevelToldIsAsked, PTL DEF ToldIsAsked
=============================================================================
