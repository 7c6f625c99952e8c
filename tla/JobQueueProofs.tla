-------------------------- MODULE JobQueueProofs --------------------------
(***************************************************************************)
(* The safety of JobQueueThreads for any number of frames and of jobs.     *)
(* The invariants the runs check are not inductive one by one: what a      *)
(* Resolve answers depends on the entry agreeing with what the worker did, *)
(* and that on who holds the job.  SidesAgree is that agreement, and the   *)
(* conjunction IInv of it with the invariants is inductive.                *)
(*                                                                         *)
(* Then the same queue under the Vulkan compositor's thread (VkThread, a   *)
(* part of ThreadsMC): a run for each drawing and none left behind.  There *)
(* the invariant (VkInv) counts the drawings to be taken against the runs  *)
(* in the deque, in the thread's hands and about to be posted.             *)
(***************************************************************************)
EXTENDS ThreadsMC, FiniteSetTheorems, SequenceTheorems, TLAPS

IInv == TypeOK /\ SidesAgree /\ NoEmptyTake /\ OutcomeIsTrue /\ NoEntryLeaks

\* The initial state: an empty queue, the worker about to call Take.
LEMMA InitIInv == Init => IInv
<1> SUFFICES ASSUME Init PROVE IInv
  OBVIOUS
<1> USE MaxJobsAssumption DEF Init, QueueInit, Ids
<1>1. TypeOK
  <2>1. /\ last_id_ \in 0..MaxJobs /\ dropped_in_a_row_ \in 0..kMostDroppedInARow
        /\ state \in [Ids -> States] /\ sleeping \subseteq Threads
    BY DEF States, kMostDroppedInARow
  <2>2. /\ droppable \in [Ids -> BOOLEAN] /\ job \in [Ids -> BOOLEAN]
        /\ cancelled \in [Ids -> BOOLEAN] /\ stopped_ \in BOOLEAN
    OBVIOUS
  <2>3. /\ worker \in {"take", "drawing", "exited"} /\ wjob \in 0..MaxJobs
        /\ held \in [Frames -> SUBSET Ids] /\ asking \in [Frames -> 0..MaxJobs]
        /\ fate \in [Ids -> Fates] /\ told \in [Ids -> Outcomes \union {"nothing"}]
    BY DEF Fates
  <2>4. wempty \in BOOLEAN /\ wait \in [Frames -> BOOLEAN]
    OBVIOUS
  <2> QED
    BY <2>1, <2>2, <2>3, <2>4 DEF TypeOK, QueueTypeOK
<1>2. SidesAgree
  BY DEF SidesAgree, Unborn, WorkerSide, FrameSide, Younger, Answered
<1>3. NoEmptyTake /\ OutcomeIsTrue /\ NoEntryLeaks
  BY DEF NoEmptyTake, OutcomeIsTrue, NoEntryLeaks
<1> QED
  BY <1>1, <1>2, <1>3 DEF IInv

\* A worker's Take that answers a job keeps the agreement.
LEMMA WorkerTakesIInv ==
  ASSUME IInv, NEW id \in Ids, WorkerTakes(id)
  PROVE  IInv'
<1> USE MaxJobsAssumption DEF Ids
<1>0. /\ state[id] = "queued" /\ ~stopped_ /\ job[id] /\ worker = "take"
      /\ \A i \in Ids : i # id /\ state[i] = "queued" => i > id
  BY DEF IInv, SidesAgree, WorkerSide, WorkerTakes, TakeJob, OldestQueued,
         TypeOK, QueueTypeOK
<1>1. TypeOK'
  BY DEF IInv, TypeOK, QueueTypeOK, WorkerTakes, TakeJob, States, Fates
<1>2. Unborn' /\ FrameSide' /\ Answered'
  BY <1>0 DEF IInv, TypeOK, QueueTypeOK, WorkerTakes, TakeJob, SidesAgree,
              Unborn, FrameSide, Answered
<1>3. WorkerSide'
  BY <1>0 DEF IInv, TypeOK, QueueTypeOK, WorkerTakes, TakeJob, SidesAgree, WorkerSide
<1>4. Younger'
  BY <1>0 DEF IInv, TypeOK, QueueTypeOK, WorkerTakes, TakeJob, SidesAgree, Younger
<1>5. NoEmptyTake' /\ OutcomeIsTrue'
  BY <1>0 DEF IInv, TypeOK, QueueTypeOK, WorkerTakes, TakeJob, SidesAgree,
              Answered, OutcomeIsTrue, NoEmptyTake
<1>6. NoEntryLeaks'
  BY <1>0 DEF IInv, TypeOK, QueueTypeOK, WorkerTakes, TakeJob, NoEntryLeaks
<1> QED
  BY <1>1, <1>2, <1>3, <1>4, <1>5, <1>6 DEF IInv, SidesAgree

\* The worker's Done keeps it: the entry says what the engine did, or is gone
\* with the frame that gave it up.
LEMMA WorkerDoneIInv ==
  ASSUME IInv, NEW s \in BOOLEAN, WorkerDone(s)
  PROVE  IInv'
<1> USE MaxJobsAssumption DEF Ids
<1>a. /\ wjob \in Ids /\ worker = "drawing"
      /\ \A i \in Ids : fate[i] = "taken" <=> wjob = i
  BY DEF IInv, SidesAgree, WorkerSide, WorkerDone
<1>b. state[wjob] \in {"none", "submitting"}
  BY <1>a DEF IInv, SidesAgree, WorkerSide, TypeOK, QueueTypeOK, States
<1>0. /\ wjob \in Ids /\ fate[wjob] = "taken" /\ worker = "drawing"
      /\ \A i \in Ids : i # wjob => fate[i] # "taken"
      /\ state[wjob] \in {"none", "submitting"}
  BY <1>a, <1>b
<1>1. TypeOK'
  <2>1. /\ last_id_' \in 0..MaxJobs /\ dropped_in_a_row_' \in 0..kMostDroppedInARow
        /\ state' \in [Ids -> States] /\ sleeping' \subseteq Threads
    BY <1>0 DEF IInv, TypeOK, QueueTypeOK, WorkerDone, Done, Forget, NotifyAll,
                queueVars, States, kMostDroppedInARow
  <2>2. /\ droppable' \in [Ids -> BOOLEAN] /\ job' \in [Ids -> BOOLEAN]
        /\ cancelled' \in [Ids -> BOOLEAN] /\ stopped_' \in BOOLEAN
    BY <1>0 DEF IInv, TypeOK, QueueTypeOK, WorkerDone, Done, Forget, queueVars
  <2>3. /\ worker' \in {"take", "drawing", "exited"} /\ wjob' \in 0..MaxJobs
        /\ held' \in [Frames -> SUBSET Ids] /\ asking' \in [Frames -> 0..MaxJobs]
        /\ fate' \in [Ids -> Fates] /\ told' \in [Ids -> Outcomes \union {"nothing"}]
    BY <1>0 DEF IInv, TypeOK, WorkerDone, Fates
  <2>4. wempty' \in BOOLEAN /\ wait' \in [Frames -> BOOLEAN]
    BY DEF IInv, TypeOK, WorkerDone
  <2> QED
    BY <2>1, <2>2, <2>3, <2>4 DEF TypeOK, QueueTypeOK
<1>2. Unborn' /\ FrameSide' /\ Answered'
  BY <1>0 DEF IInv, TypeOK, QueueTypeOK, WorkerDone, Done, Forget, queueVars,
              SidesAgree, Unborn, FrameSide, Answered
<1>3. WorkerSide'
  BY <1>0 DEF IInv, TypeOK, QueueTypeOK, WorkerDone, Done, Forget, queueVars,
              SidesAgree, WorkerSide
<1>4. Younger'
  BY <1>0 DEF IInv, TypeOK, QueueTypeOK, WorkerDone, Done, Forget, queueVars,
              SidesAgree, Younger
<1>5. NoEmptyTake' /\ OutcomeIsTrue'
  BY <1>0 DEF IInv, TypeOK, QueueTypeOK, WorkerDone, Done, Forget, queueVars,
              OutcomeIsTrue, NoEmptyTake
<1>6. NoEntryLeaks'
  BY <1>0 DEF IInv, TypeOK, QueueTypeOK, WorkerDone, Done, Forget, queueVars,
              NoEntryLeaks
<1> QED
  BY <1>1, <1>2, <1>3, <1>4, <1>5, <1>6 DEF IInv, SidesAgree

\* A new job keeps it, the older ones it drops included.
LEMMA FrameQueuesIInv ==
  ASSUME IInv, NEW f \in Frames, NEW d \in BOOLEAN, FrameQueues(f, d)
  PROVE  IInv'
<1> USE MaxJobsAssumption DEF Ids
<1>p. PICK id \in Ids : /\ Queue(id, d)
                        /\ held' = [held EXCEPT ![f] = @ \union {id}]
  BY DEF FrameQueues
<1>0. /\ id = last_id_ + 1 /\ state[id] = "none" /\ fate[id] = "untaken"
      /\ told[id] = "nothing" /\ \A g \in Frames : id \notin held[g]
      /\ \A i \in Superseded : i \in Ids /\ state[i] = "queued" /\ i # id
      /\ \A j \in Ids : fate[j] # "untaken" => j < id
  BY <1>p DEF IInv, SidesAgree, Unborn, Queue, Superseded, TypeOK, QueueTypeOK
<1>1. TypeOK'
  <2>1. Superseded # {} => dropped_in_a_row_ + 1 \in 0..kMostDroppedInARow
    BY DEF Superseded, IInv, TypeOK, QueueTypeOK, kMostDroppedInARow
  <2> QED
    BY <1>p, <1>0, <2>1 DEF IInv, TypeOK, QueueTypeOK, FrameQueues, Queue, NotifyAll, States
<1>2. Unborn' /\ FrameSide' /\ Answered'
  BY <1>p, <1>0 DEF IInv, TypeOK, QueueTypeOK, FrameQueues, Queue, SidesAgree,
                    Unborn, FrameSide, Answered
<1>3. WorkerSide'
  <2> SUFFICES ASSUME NEW i \in Ids
               PROVE  /\ fate'[i] = "taken" <=> (worker' = "drawing" /\ wjob' = i)
                      /\ state'[i] = "submitting" => fate'[i] = "taken"
                      /\ state'[i] \in {"queued", "dropped"} => fate'[i] = "untaken"
                      /\ state'[i] \in {"submitted", "refused"} => fate'[i] = state'[i]
                      /\ cancelled'[i] => state'[i] \in {"none", "submitting"}
                      /\ state'[i] = "queued" /\ ~stopped_' => job'[i]
    BY <1>p DEF IInv, SidesAgree, WorkerSide, FrameQueues
  <2>1. /\ fate'[i] = fate[i] /\ worker' = worker /\ wjob' = wjob /\ stopped_' = stopped_
        /\ state'[i] = IF i = id THEN "queued"
                       ELSE IF i \in Superseded THEN "dropped" ELSE state[i]
        /\ cancelled'[i] = IF i = id THEN FALSE ELSE cancelled[i]
        /\ job'[i] = (i = id \/ (job[i] /\ i \notin Superseded))
    BY <1>p DEF IInv, TypeOK, QueueTypeOK, FrameQueues, Queue
  <2>2. CASE i = id
    BY <1>0, <2>1, <2>2 DEF IInv, SidesAgree, WorkerSide
  <2>3. CASE i # id /\ i \in Superseded
    BY <1>0, <2>1, <2>3 DEF IInv, SidesAgree, WorkerSide
  <2>4. CASE i # id /\ i \notin Superseded
    BY <1>0, <2>1, <2>4 DEF IInv, SidesAgree, WorkerSide
  <2> QED
    BY <2>2, <2>3, <2>4
<1>4. Younger'
  BY <1>p, <1>0 DEF IInv, TypeOK, QueueTypeOK, FrameQueues, Queue, SidesAgree, Younger
<1>5. NoEmptyTake' /\ OutcomeIsTrue'
  BY <1>p, <1>0 DEF IInv, TypeOK, QueueTypeOK, FrameQueues, Queue, OutcomeIsTrue, NoEmptyTake
<1>6. NoEntryLeaks'
  BY <1>p, <1>0 DEF IInv, TypeOK, QueueTypeOK, FrameQueues, Queue, NoEntryLeaks
<1> QED
  BY <1>1, <1>2, <1>3, <1>4, <1>5, <1>6 DEF IInv, SidesAgree

\* Steps that touch neither the entries nor what each side knows of them:
\* falling asleep, waking, the worker's exit.
LEMMA IdleIInv ==
  ASSUME IInv,
         \/ WorkerWaits \/ WorkerExits
         \/ \E f \in Frames : FrameWaits(f)
         \/ \E t \in Threads : Wakes(t)
  PROVE  IInv'
<1>1. /\ UNCHANGED <<last_id_, state, droppable, job, cancelled, dropped_in_a_row_, stopped_>>
      /\ UNCHANGED <<wjob, wempty, held, asking, wait, fate, told>>
      /\ sleeping' \subseteq Threads
      /\ worker' = worker \/ (worker = "take" /\ worker' = "exited")
  BY ThreadsAssumption
  DEF IInv, TypeOK, QueueTypeOK, WorkerWaits, TakeWait, WorkerExits, TakeStopped,
      FrameWaits, ResolveWaits, Wakes, SpuriousWakeup, queueVars, threadVars
<1>2. TypeOK'
  BY <1>1 DEF IInv, TypeOK, QueueTypeOK
<1>3. SidesAgree' /\ NoEntryLeaks' /\ OutcomeIsTrue' /\ NoEmptyTake'
  BY <1>1 DEF IInv, SidesAgree, Unborn, WorkerSide, FrameSide, Younger, Answered,
              NoEntryLeaks, OutcomeIsTrue, NoEmptyTake
<1> QED
  BY <1>2, <1>3 DEF IInv

\* Calling Resolve changes only who is asking.
LEMMA FrameCallsResolveIInv ==
  ASSUME IInv, NEW f \in Frames, NEW id \in Ids, NEW waiting \in BOOLEAN,
         FrameCallsResolve(f, id, waiting)
  PROVE  IInv'
<1> USE DEF FrameCallsResolve, queueVars
<1>1. TypeOK'
  BY MaxJobsAssumption DEF IInv, TypeOK, QueueTypeOK, Ids
<1>2. FrameSide'
  BY DEF IInv, TypeOK, SidesAgree, FrameSide
<1>3. Unborn' /\ WorkerSide' /\ Younger' /\ Answered'
  BY DEF IInv, SidesAgree, Unborn, WorkerSide, Younger, Answered
<1>4. NoEntryLeaks' /\ OutcomeIsTrue' /\ NoEmptyTake'
  BY DEF IInv, NoEntryLeaks, OutcomeIsTrue, NoEmptyTake
<1> QED
  BY <1>1, <1>2, <1>3, <1>4 DEF IInv, SidesAgree

\* A Resolve that returns tells the frame what happened and forgets the entry.
LEMMA FrameIsAnsweredIInv ==
  ASSUME IInv, NEW f \in Frames, NEW o \in Outcomes, FrameIsAnswered(f, o)
  PROVE  IInv'
<1> DEFINE id == asking[f]
<1> USE MaxJobsAssumption DEF Ids
<1>a. /\ id \in Ids /\ id \in held[f] /\ state[id] # "none" /\ ~cancelled[id]
      /\ \A g \in Frames : g # f => id \notin held[g]
  BY DEF FrameIsAnswered, IInv, SidesAgree, FrameSide, TypeOK, QueueTypeOK
<1>b. /\ o = "dropped" => state[id] \in {"queued", "dropped"}
      /\ o \in {"submitted", "refused"} => state[id] = o
      /\ o = "cancelled" => stopped_
  BY <1>a DEF FrameIsAnswered, ResolveReturns, DropsNow, IInv, TypeOK, QueueTypeOK,
              States, Outcomes
<1>c. /\ state' = [state EXCEPT ![id] = "none"] /\ job' = [job EXCEPT ![id] = FALSE]
      /\ told' = [told EXCEPT ![id] = o] /\ held' = [held EXCEPT ![f] = @ \ {id}]
      /\ asking' = [asking EXCEPT ![f] = 0]
      /\ UNCHANGED <<last_id_, droppable, cancelled, stopped_, sleeping,
                     worker, wjob, wempty, wait, fate>>
  BY DEF FrameIsAnswered, ResolveReturns, Forget
<1>d. dropped_in_a_row_' \in 0..kMostDroppedInARow
  BY DEF FrameIsAnswered, ResolveReturns, DropsNow, IInv, TypeOK, QueueTypeOK,
         kMostDroppedInARow
<1> HIDE DEF id
<1>1. TypeOK'
  <2>1. /\ last_id_' \in 0..MaxJobs /\ state' \in [Ids -> States]
        /\ sleeping' \subseteq Threads
    BY <1>a, <1>c DEF IInv, TypeOK, QueueTypeOK, States
  <2>2. /\ droppable' \in [Ids -> BOOLEAN] /\ job' \in [Ids -> BOOLEAN]
        /\ cancelled' \in [Ids -> BOOLEAN] /\ stopped_' \in BOOLEAN
    BY <1>a, <1>c DEF IInv, TypeOK, QueueTypeOK
  <2>3. /\ worker' \in {"take", "drawing", "exited"} /\ wjob' \in 0..MaxJobs
        /\ held' \in [Frames -> SUBSET Ids] /\ asking' \in [Frames -> 0..MaxJobs]
        /\ fate' \in [Ids -> Fates] /\ told' \in [Ids -> Outcomes \union {"nothing"}]
    BY <1>a, <1>c DEF IInv, TypeOK
  <2>4. wempty' \in BOOLEAN /\ wait' \in [Frames -> BOOLEAN]
    BY <1>c DEF IInv, TypeOK
  <2> QED
    BY <1>d, <2>1, <2>2, <2>3, <2>4 DEF TypeOK, QueueTypeOK
<1>2. Unborn' /\ Answered' /\ Younger'
  BY <1>a, <1>c DEF IInv, TypeOK, QueueTypeOK, SidesAgree, Unborn, Answered, Younger
<1>3. FrameSide'
  BY <1>a, <1>c DEF IInv, TypeOK, QueueTypeOK, SidesAgree, FrameSide
<1>4. WorkerSide'
  BY <1>a, <1>c DEF IInv, TypeOK, QueueTypeOK, SidesAgree, WorkerSide
<1>5. NoEmptyTake' /\ OutcomeIsTrue'
  BY <1>a, <1>b, <1>c DEF IInv, TypeOK, QueueTypeOK, SidesAgree, WorkerSide,
                          OutcomeIsTrue, NoEmptyTake
<1>6. NoEntryLeaks'
  BY <1>a, <1>c DEF IInv, TypeOK, QueueTypeOK, NoEntryLeaks
<1> QED
  BY <1>1, <1>2, <1>3, <1>4, <1>5, <1>6 DEF IInv, SidesAgree

\* A Cancel leaves the entry to the worker that has it, and to nobody else.
LEMMA FrameCancelsIInv ==
  ASSUME IInv, NEW f \in Frames, NEW id \in Ids, FrameCancels(f, id)
  PROVE  IInv'
<1> USE MaxJobsAssumption DEF Ids
<1>a. /\ id \in held[f] /\ asking[f] = 0 /\ \A g \in Frames : g # f => id \notin held[g]
      /\ \A g \in Frames : asking[g] # id
  BY DEF FrameCancels, IInv, SidesAgree, FrameSide, TypeOK
<1>b. /\ UNCHANGED <<last_id_, droppable, dropped_in_a_row_, stopped_, sleeping,
                     worker, wjob, wempty, asking, wait, fate, told>>
      /\ held' = [held EXCEPT ![f] = @ \ {id}]
  BY DEF FrameCancels, Cancel
<1>1. CASE state[id] = "submitting"
  <2>0. /\ cancelled' = [cancelled EXCEPT ![id] = TRUE] /\ UNCHANGED <<state, job>>
        /\ worker = "drawing" /\ wjob = id
    BY <1>1 DEF FrameCancels, Cancel, IInv, SidesAgree, WorkerSide
  <2>1. TypeOK'
    <3>1. cancelled' \in [Ids -> BOOLEAN]
      BY <2>0 DEF IInv, TypeOK, QueueTypeOK
    <3> QED
      BY <1>b, <2>0, <3>1 DEF IInv, TypeOK, QueueTypeOK
  <2>2. Unborn' /\ Answered' /\ Younger' /\ FrameSide'
    BY <1>a, <1>b, <2>0 DEF IInv, TypeOK, QueueTypeOK, SidesAgree, Unborn, Answered,
                            Younger, FrameSide
  <2>3. WorkerSide'
    BY <1>1, <1>b, <2>0 DEF IInv, TypeOK, QueueTypeOK, SidesAgree, WorkerSide
  <2>4. NoEmptyTake' /\ OutcomeIsTrue'
    BY <1>b, <2>0 DEF IInv, OutcomeIsTrue, NoEmptyTake
  <2>5. NoEntryLeaks'
    BY <1>a, <1>b, <2>0 DEF IInv, TypeOK, QueueTypeOK, NoEntryLeaks
  <2> QED
    BY <2>1, <2>2, <2>3, <2>4, <2>5 DEF IInv, SidesAgree
<1>2. CASE state[id] # "submitting"
  <2>0. /\ state' = [state EXCEPT ![id] = "none"] /\ job' = [job EXCEPT ![id] = FALSE]
        /\ UNCHANGED cancelled
    BY <1>2 DEF FrameCancels, Cancel, Forget
  <2>1. TypeOK'
    <3>1. job' \in [Ids -> BOOLEAN]
      BY <2>0 DEF IInv, TypeOK, QueueTypeOK
    <3>2. state' \in [Ids -> States]
      BY <2>0 DEF IInv, TypeOK, QueueTypeOK, States
    <3> QED
      BY <1>b, <2>0, <3>1, <3>2 DEF IInv, TypeOK, QueueTypeOK
  <2>2. Unborn' /\ Answered' /\ Younger' /\ FrameSide'
    BY <1>a, <1>b, <2>0 DEF IInv, TypeOK, QueueTypeOK, SidesAgree, Unborn, Answered,
                            Younger, FrameSide
  <2>3. WorkerSide'
    BY <1>b, <2>0 DEF IInv, TypeOK, QueueTypeOK, SidesAgree, WorkerSide
  <2>4. NoEmptyTake' /\ OutcomeIsTrue'
    BY <1>b, <2>0 DEF IInv, OutcomeIsTrue, NoEmptyTake
  <2>5. NoEntryLeaks'
    BY <1>a, <1>b, <2>0 DEF IInv, TypeOK, QueueTypeOK, NoEntryLeaks
  <2> QED
    BY <2>1, <2>2, <2>3, <2>4, <2>5 DEF IInv, SidesAgree
<1> QED
  BY <1>1, <1>2

\* Stop lets go of what was not taken; the worker asks stopped_ first.
LEMMA StopsIInv ==
  ASSUME IInv, Stops
  PROVE  IInv'
<1> USE DEF Stops, Stop, threadVars
<1>1. TypeOK'
  <2>1. job' \in [Ids -> BOOLEAN] /\ stopped_' \in BOOLEAN
    OBVIOUS
  <2> QED
    BY <2>1 DEF IInv, TypeOK, QueueTypeOK, NotifyAll
<1>2. Unborn' /\ Answered' /\ Younger' /\ FrameSide'
  BY DEF IInv, SidesAgree, Unborn, Answered, Younger, FrameSide
<1>3. WorkerSide'
  BY DEF IInv, SidesAgree, WorkerSide
<1>4. NoEmptyTake' /\ OutcomeIsTrue' /\ NoEntryLeaks'
  BY DEF IInv, OutcomeIsTrue, NoEmptyTake, NoEntryLeaks
<1> QED
  BY <1>1, <1>2, <1>3, <1>4 DEF IInv, SidesAgree

\* Every step of every thread keeps the inductive invariant.
LEMMA NextIInv == IInv /\ [Next]_vars => IInv'
<1> SUFFICES ASSUME IInv, [Next]_vars PROVE IInv'
  OBVIOUS
<1>1. CASE WorkerNext
  BY <1>1, WorkerTakesIInv, WorkerDoneIInv, IdleIInv DEF WorkerNext
<1>2. ASSUME NEW f \in Frames, FrameNext(f) PROVE IInv'
  BY <1>2, FrameQueuesIInv, FrameCallsResolveIInv, FrameIsAnsweredIInv, IdleIInv,
     FrameCancelsIInv DEF FrameNext, ResolveNext
<1>3. CASE Stops
  BY <1>3, StopsIInv
<1>4. CASE \E t \in Threads : Wakes(t)
  BY <1>4, IdleIInv
<1>5. CASE UNCHANGED vars
  BY <1>5 DEF vars, queueVars, threadVars, IInv, TypeOK, QueueTypeOK, SidesAgree,
      Unborn, WorkerSide, FrameSide, Younger, Answered, NoEmptyTake, OutcomeIsTrue,
      NoEntryLeaks
<1> QED
  BY <1>1, <1>2, <1>3, <1>4, <1>5 DEF Next

\* The queue, the worker and the frames keep to their types and agree on every
\* job, whatever order their calls take the mutex in.
THEOREM QueueAgrees == Spec => [](TypeOK /\ SidesAgree)
<1>1. Spec => []IInv
  BY InitIInv, NextIInv, PTL DEF Spec
<1>2. IInv => TypeOK /\ SidesAgree
  BY DEF IInv
<1> QED
  BY <1>1, <1>2, PTL

\* No Take is ever handed a job already let go (JobQueue.h TakeLocked).
THEOREM TakesAreReal == Spec => []NoEmptyTake
<1>1. Spec => []IInv
  BY InitIInv, NextIInv, PTL DEF Spec
<1>2. IInv => NoEmptyTake
  BY DEF IInv
<1> QED
  BY <1>1, <1>2, PTL

\* Every present is told the truth about its job (JobQueue.h Resolve).
THEOREM OutcomesAreTrue == Spec => []OutcomeIsTrue
<1>1. Spec => []IInv
  BY InitIInv, NextIInv, PTL DEF Spec
<1>2. IInv => OutcomeIsTrue
  BY DEF IInv
<1> QED
  BY <1>1, <1>2, PTL

\* No entry stays in entries_ with nobody left to take it out.
THEOREM EntriesDoNotLeak == Spec => []NoEntryLeaks
<1>1. Spec => []IInv
  BY InitIInv, NextIInv, PTL DEF Spec
<1>2. IInv => NoEntryLeaks
  BY DEF IInv
<1> QED
  BY <1>1, <1>2, PTL

\* The queue, its worker and its frames never come to disagree: what is handed
\* out is whole, nothing is left that is nobody's, and each side's picture of a
\* job is the others' (JobQueue.h, every critical section of it).
THEOREM QueueSound == Spec => []QueueIsSound
<1>1. Spec => []IInv
  BY InitIInv, NextIInv, PTL DEF Spec
<1>2. IInv => QueueIsSound
  BY DEF IInv, QueueIsSound
<1> QED
  BY <1>1, <1>2, PTL

\* Drawings reach the engine in the order they were queued: an action property,
\* from the part Younger of the invariant.
THEOREM DrawingsInOrder == Spec => TakenInOrder
<1> DEFINE InOrder == \A i \in Ids : fate[i] = "untaken" /\ fate'[i] = "taken" =>
                          \A j \in Ids : fate[j] # "untaken" => j < i
<1>1. IInv /\ [Next]_vars => [InOrder]_vars
  <2> SUFFICES ASSUME IInv, Next, NEW i \in Ids, fate[i] = "untaken", fate'[i] = "taken",
                      NEW j \in Ids, fate[j] # "untaken"
               PROVE  j < i
    OBVIOUS
  <2>1. PICK id \in Ids : WorkerTakes(id)
    <3>1. ASSUME NEW s \in BOOLEAN, WorkerDone(s) PROVE FALSE
      BY <3>1 DEF WorkerDone, IInv, TypeOK
    <3> QED
      BY <3>1 DEF Next, WorkerNext, FrameNext, ResolveNext, WorkerWaits, WorkerExits,
             FrameQueues, FrameCallsResolve, FrameIsAnswered, FrameWaits, FrameCancels,
             Stops, Wakes, threadVars
  <2>2. i = id /\ state[i] = "queued"
    BY <2>1 DEF WorkerTakes, TakeJob, OldestQueued, IInv, TypeOK
  <2> QED
    BY <2>2 DEF IInv, SidesAgree, Younger
<1>2. Spec => []IInv
  BY InitIInv, NextIInv, PTL DEF Spec
<1> QED
  BY <1>1, <1>2, PTL DEF Spec, TakenInOrder
-----------------------------------------------------------------------------
\* The Vulkan compositor's thread over its own queue (VkThread), as ThreadsMC
\* brings it in.

\* The types the rest of the argument needs.
VkTyped ==
    /\ vk_last_id_ \in 0..MaxJobs
    /\ vk_state \in [Ids -> States] /\ vk_cancelled \in [Ids -> BOOLEAN]
    /\ work_ \in Seq(Vk!Works)
    /\ thread \in {"wait", "poll", "busy", "repost", "take", "drawing", "compose", "down"}
    /\ caller \in {"idle", "post", "post_retire", "resolve", "composing", "joining", "gone"}
    /\ taken \in 0..MaxJobs
    /\ vk_held \subseteq Ids
    /\ answers \in [Ids -> States \union {"cancelled", "nothing"}]

\* The destructor's order: it is called by nobody who waits, the thread goes down
\* on its word with nothing left to do, and the queue is stopped after that.
VkEnds ==
    /\ stopping_ => caller \in {"joining", "gone"}
    /\ vk_stopped_ => caller = "gone"
    /\ caller = "gone" => thread = "down"
    /\ thread = "down" => stopping_ /\ work_ = <<>>

\* A Compose is posted by one that waits for it, and once.
VkComposes ==
    /\ thread = "compose" => caller = "composing"
    /\ \A k \in 1..Len(work_) : work_[k] = "compose" =>
        /\ caller = "composing" /\ thread # "compose"
        /\ \A j \in 1..Len(work_) : work_[j] = "compose" => j = k

\* What the queue holds: a job being submitted is in the thread's hands, a held
\* one has its entry, one not given out has none, and nobody was told "cancelled".
VkJobs ==
    /\ thread = "drawing" => taken \in Ids
    /\ \A i \in Ids :
        /\ vk_state[i] = "submitting" => thread = "drawing" /\ taken = i
        /\ i > vk_last_id_ => vk_state[i] = "none" /\ i \notin vk_held
        /\ answers[i] # "cancelled"
    /\ \A i \in vk_held : vk_state[i] # "none" /\ ~vk_cancelled[i]
    /\ caller = "resolve" => asked \in vk_held

VkInv == VkTyped /\ VkEnds /\ VkComposes /\ VkJobs /\ Vk!RunForEachJob /\ Vk!NothingLeftBehind

-----------------------------------------------------------------------------
\* How many runs lie in the deque: what Append, a Compose's two works and Tail
\* make of the count.

RunsIn(s) == {k \in DOMAIN s : s[k] = "run"}

\* The positions of a sequence are finitely many, and so are its runs.
LEMMA RunsAreFinite ==
  ASSUME NEW S, NEW s \in Seq(S)
  PROVE  IsFiniteSet(RunsIn(s)) /\ Cardinality(RunsIn(s)) \in Nat
<1>1. DOMAIN s = 1..Len(s) /\ Len(s) \in Nat
  OBVIOUS
<1>2. IsFiniteSet(1..Len(s))
  BY <1>1, FS_Interval
<1>3. RunsIn(s) \in SUBSET (1..Len(s))
  BY <1>1 DEF RunsIn
<1> QED
  BY <1>2, <1>3, FS_Subset, FS_CardinalityType

\* One more at the back.
LEMMA RunsOfAppend ==
  ASSUME NEW S, NEW s \in Seq(S), NEW e \in S
  PROVE  Cardinality(RunsIn(Append(s, e))) =
            Cardinality(RunsIn(s)) + (IF e = "run" THEN 1 ELSE 0)
<1>1. /\ Append(s, e) \in Seq(S) /\ Len(Append(s, e)) = Len(s) + 1 /\ Len(s) \in Nat
      /\ \A k \in 1..Len(s) : Append(s, e)[k] = s[k]
      /\ Append(s, e)[Len(s) + 1] = e
  OBVIOUS
<1>2. DOMAIN s = 1..Len(s) /\ DOMAIN Append(s, e) = 1..(Len(s) + 1)
  BY <1>1
<1>3. IsFiniteSet(RunsIn(s)) /\ Cardinality(RunsIn(s)) \in Nat
  BY RunsAreFinite
<1>4. CASE e = "run"
  <2>1. RunsIn(Append(s, e)) = RunsIn(s) \union {Len(s) + 1}
    BY <1>1, <1>2, <1>4 DEF RunsIn
  <2>2. Len(s) + 1 \notin RunsIn(s)
    BY <1>1, <1>2 DEF RunsIn
  <2> QED
    BY <2>1, <2>2, <1>3, <1>4, FS_AddElement
<1>5. CASE e # "run"
  <2>1. RunsIn(Append(s, e)) = RunsIn(s)
    BY <1>1, <1>2, <1>5 DEF RunsIn
  <2> QED
    BY <2>1, <1>3, <1>5
<1> QED
  BY <1>4, <1>5

\* The front taken away: the others move up by one place.
LEMMA RunsOfTail ==
  ASSUME NEW S, NEW s \in Seq(S), s # <<>>
  PROVE  Cardinality(RunsIn(Tail(s))) =
            Cardinality(RunsIn(s)) - (IF Head(s) = "run" THEN 1 ELSE 0)
<1> DEFINE Rest == RunsIn(s) \ {1}
           Up == [k \in RunsIn(Tail(s)) |-> k + 1]
<1>1. /\ Tail(s) \in Seq(S) /\ Len(Tail(s)) = Len(s) - 1 /\ Len(s) \in Nat \ {0}
      /\ \A k \in 1..(Len(s) - 1) : Tail(s)[k] = s[k + 1]
      /\ Head(s) = s[1]
  BY HeadTailProperties
<1>2. DOMAIN s = 1..Len(s) /\ DOMAIN Tail(s) = 1..(Len(s) - 1)
  BY <1>1
<1>3. /\ IsFiniteSet(RunsIn(s)) /\ Cardinality(RunsIn(s)) \in Nat
      /\ IsFiniteSet(RunsIn(Tail(s)))
  BY <1>1, RunsAreFinite
<1>4. ExistsBijection(RunsIn(Tail(s)), Rest)
  <2>1. \A k \in RunsIn(Tail(s)) : k \in Int /\ k + 1 \in Rest
    BY <1>1, <1>2 DEF RunsIn
  <2>2. \A m \in Rest : m - 1 \in RunsIn(Tail(s)) /\ m \in Int
    BY <1>1, <1>2 DEF RunsIn
  <2>3. Up \in [RunsIn(Tail(s)) -> Rest]
    BY <2>1
  <2>4. Up \in Injection(RunsIn(Tail(s)), Rest)
    BY <2>1, <2>3 DEF Injection, IsInjective
  <2>5. \A m \in Rest : Up[m - 1] = m
    BY <2>2
  <2>6. Up \in Surjection(RunsIn(Tail(s)), Rest)
    BY <2>2, <2>3, <2>5 DEF Surjection
  <2> QED
    BY <2>4, <2>6 DEF ExistsBijection, Bijection
<1>5. Cardinality(Rest) = Cardinality(RunsIn(Tail(s)))
  BY <1>3, <1>4, FS_Bijection
<1>6. Cardinality(Rest) = IF 1 \in RunsIn(s) THEN Cardinality(RunsIn(s)) - 1
                                             ELSE Cardinality(RunsIn(s))
  BY <1>3, FS_RemoveElement
<1>7. 1 \in RunsIn(s) <=> Head(s) = "run"
  BY <1>1, <1>2 DEF RunsIn
<1> QED
  BY <1>3, <1>5, <1>6, <1>7

\* VkThread counts with an instance of FiniteSets of its own.
LEMMA VkCounts == \A S : Vk!Cardinality(S) = Cardinality(S)
  BY DEF Vk!Cardinality, Cardinality

-----------------------------------------------------------------------------
\* At the start nothing is queued, posted or held.
LEMMA VkInitInv == Vk!Init => VkInv
<1> SUFFICES ASSUME Vk!Init PROVE VkInv
  OBVIOUS
<1> USE MaxJobsAssumption DEF Vk!Init, Vk!QueueInit, Vk!Ids, Ids
<1>1. VkTyped
  <2>1. work_ \in Seq(Vk!Works)
    OBVIOUS
  <2>2. vk_state \in [Ids -> States] /\ vk_cancelled \in [Ids -> BOOLEAN]
    BY DEF States
  <2>3. answers \in [Ids -> States \union {"cancelled", "nothing"}]
    OBVIOUS
  <2>4. vk_last_id_ \in 0..MaxJobs /\ taken \in 0..MaxJobs /\ vk_held \subseteq Ids
    OBVIOUS
  <2>5. thread = "wait" /\ caller = "idle"
    OBVIOUS
  <2> HIDE DEF Vk!Init
  <2> QED
    BY <2>1, <2>2, <2>3, <2>4, <2>5 DEF VkTyped
<1>2. VkEnds /\ VkJobs
  BY DEF VkEnds, VkJobs
<1>3. VkComposes
  <2>1. Len(work_) = 0
    BY EmptySeq
  <2> QED
    BY <2>1 DEF VkComposes
<1>4. Vk!RunForEachJob
  <2>1. {i \in Vk!Ids : vk_state[i] = "queued"} = {} /\ {k \in DOMAIN work_ : work_[k] = "run"} = {}
    OBVIOUS
  <2>2. Vk!Cardinality({}) = 0
    BY FS_EmptySet, VkCounts
  <2>3. Vk!Runs = 0
    BY <2>1, <2>2 DEF Vk!Runs
  <2> HIDE DEF Vk!Init
  <2> QED
    BY <2>1, <2>2, <2>3 DEF Vk!RunForEachJob
<1>5. Vk!NothingLeftBehind
  BY DEF Vk!NothingLeftBehind
<1> QED
  BY <1>1, <1>2, <1>3, <1>4, <1>5 DEF VkInv

\* The runs on their way, of a deque and the two threads' places.
RunsOf(works, at, of) ==
    Cardinality(RunsIn(works))
    + (IF at \in {"poll", "busy", "repost", "take"} THEN 1 ELSE 0)
    + (IF of = "post" THEN 1 ELSE 0)

LEMMA VkRunsAre == /\ Vk!Runs = RunsOf(work_, thread, caller)
                   /\ Vk!Runs' = RunsOf(work_', thread', caller')
  BY VkCounts DEF Vk!Runs, RunsOf, RunsIn

LEMMA RunsOfType ==
  ASSUME NEW works \in Seq(Vk!Works), NEW at, NEW of
  PROVE  RunsOf(works, at, of) \in Nat /\ Cardinality(RunsIn(works)) \in Nat
  BY RunsAreFinite DEF RunsOf

\* One step's effect on both sides: what it queues it also posts a run for.
LEMMA VkRunsKept ==
  ASSUME VkInv, VkTyped',
         NEW new \in SUBSET Ids, Cardinality(new) \in Nat, IsFiniteSet(new),
         \A i \in Ids : vk_state'[i] = "queued" => vk_state[i] = "queued" \/ i \in new,
         RunsOf(work_', thread', caller') >= RunsOf(work_, thread, caller) + Cardinality(new)
  PROVE  Vk!RunForEachJob'
<1> DEFINE Was == {i \in Ids : vk_state[i] = "queued"}
           Is == {i \in Ids : vk_state'[i] = "queued"}
<1>1. IsFiniteSet(Ids)
  BY MaxJobsAssumption, FS_Interval DEF Ids
<1>2. IsFiniteSet(Was) /\ IsFiniteSet(Is) /\ IsFiniteSet(Was \union new)
  <2>1. Was \in SUBSET Ids /\ Is \in SUBSET Ids /\ Was \union new \in SUBSET Ids
    OBVIOUS
  <2> QED
    BY <1>1, <2>1, FS_Subset
<1>3. Cardinality(Is) <= Cardinality(Was \union new)
  <2>1. Is \in SUBSET (Was \union new)
    OBVIOUS
  <2> QED
    BY <1>2, <2>1, FS_Subset
<1>4. Cardinality(Was \union new) <= Cardinality(Was) + Cardinality(new)
  <2>1. IsFiniteSet(Was \cap new)
    <3>1. Was \cap new \in SUBSET new
      OBVIOUS
    <3> QED
      BY <3>1, FS_Subset
  <2>2. Cardinality(Was \cap new) \in Nat /\ Cardinality(Was) \in Nat
    BY <1>2, <2>1, FS_CardinalityType
  <2>3. Cardinality(Was \union new) = Cardinality(Was) + Cardinality(new) - Cardinality(Was \cap new)
    BY <1>2, FS_Union
  <2> QED
    BY <2>2, <2>3
<1>5. /\ Cardinality(Is) \in Nat /\ Cardinality(Was) \in Nat
      /\ Cardinality(Was \union new) \in Nat
  BY <1>2, FS_CardinalityType
<1>6. RunsOf(work_, thread, caller) \in Nat /\ RunsOf(work_', thread', caller') \in Nat
  BY RunsOfType DEF VkInv, VkTyped
<1>7. Cardinality(Was) <= RunsOf(work_, thread, caller)
  BY VkCounts, VkRunsAre DEF VkInv, Vk!RunForEachJob, Vk!Ids, Ids
<1>8. Cardinality(Is) <= RunsOf(work_', thread', caller')
  BY <1>3, <1>4, <1>5, <1>6, <1>7
<1> QED
  BY <1>8, VkCounts, VkRunsAre DEF Vk!RunForEachJob, Vk!Ids, Ids

\* Nothing more is queued and no run is lost.
LEMMA VkRunsStand ==
  ASSUME VkInv, VkTyped',
         RunsOf(work_', thread', caller') >= RunsOf(work_, thread, caller),
         \A i \in Ids : vk_state'[i] = "queued" => vk_state[i] = "queued"
  PROVE  Vk!RunForEachJob'
<1>1. IsFiniteSet({}) /\ Cardinality({}) = 0 /\ {} \in SUBSET Ids
  BY FS_EmptySet
<1>2. RunsOf(work_, thread, caller) \in Nat /\ RunsOf(work_', thread', caller') \in Nat
  BY RunsOfType DEF VkInv, VkTyped
<1>3. RunsOf(work_', thread', caller') >= RunsOf(work_, thread, caller) + Cardinality({})
  BY <1>1, <1>2
<1> QED
  BY <1>1, <1>3, VkRunsKept

\* Where nothing is queued no run is asked for.
LEMMA VkNothingToRun ==
  ASSUME VkTyped', \A i \in Ids : vk_state'[i] # "queued"
  PROVE  Vk!RunForEachJob'
<1>1. {i \in Vk!Ids : vk_state'[i] = "queued"} = {}
  BY DEF Vk!Ids, Ids
<1>2. Vk!Cardinality({}) = 0
  BY FS_EmptySet, VkCounts
<1>3. Vk!Runs' \in Nat
  BY VkRunsAre, RunsOfType DEF VkTyped
<1> QED
  BY <1>1, <1>2, <1>3 DEF Vk!RunForEachJob
-----------------------------------------------------------------------------
\* The steps that leave the deque and the queue's entries alone: calls and
\* answers, the poll of the GPU, and the way down.
LEMMA VkQuietInv ==
  ASSUME VkInv,
         \/ \E id \in Vk!Ids, q \in BOOLEAN : Vk!CallResolve(id, q)
         \/ Vk!ResolveSleeps \/ Vk!Poll \/ Vk!RunFindsNothing
         \/ Vk!Destroy \/ Vk!Joined \/ Vk!ComposeHere
         \/ Vk!GpuFinishes \/ UNCHANGED vkVars
  PROVE  VkInv'
<1> USE DEF Vk!queueVars, Vk!threadVars, Vk!callerVars, vkVars, Vk!CallResolve,
        Vk!ResolveSleeps, Vk!ResolveWaits, Vk!Poll, Vk!RunFindsNothing, Vk!TryTakeNothing,
        Vk!Destroy, Vk!Joined, Vk!Stop, Vk!ComposeHere, Vk!GpuFinishes
<1>0. UNCHANGED <<vk_last_id_, vk_state, vk_cancelled, work_, taken, vk_held, answers>>
  OBVIOUS
<1>1. VkTyped'
  BY <1>0 DEF VkInv, VkTyped
<1>2. VkEnds'
  BY <1>0 DEF VkInv, VkEnds, VkComposes
<1>3. VkComposes'
  BY <1>0 DEF VkInv, VkComposes
<1>4. VkJobs'
  BY <1>0 DEF VkInv, VkJobs, Vk!Ids, Ids
<1>5. Vk!NothingLeftBehind'
  BY <1>0 DEF VkInv, Vk!NothingLeftBehind
<1>6. Vk!RunForEachJob'
  <2>1. CASE Vk!RunFindsNothing
    BY <1>0, <1>1, <2>1, VkNothingToRun DEF Vk!NothingQueued, Vk!Ids, Ids
  <2>2. CASE ~Vk!RunFindsNothing
    <3>1. RunsOf(work_', thread', caller') >= RunsOf(work_, thread, caller)
      <4>1. Cardinality(RunsIn(work_)) \in Nat
        BY RunsOfType DEF VkInv, VkTyped
      <4>2. /\ thread \in {"poll", "busy", "repost", "take"} =>
                 thread' \in {"poll", "busy", "repost", "take"}
            /\ caller = "post" => caller' = "post"
        BY <2>2 DEF VkInv, VkComposes
      <4> HIDE DEF vkVars, Vk!CallResolve, Vk!ResolveSleeps, Vk!Poll, Vk!ComposeHere,
                   Vk!Destroy, Vk!Joined, Vk!GpuFinishes
      <4> QED
        BY <1>0, <4>1, <4>2 DEF RunsOf
    <3> QED
      BY <1>0, <1>1, <3>1, VkRunsStand
  <2> QED
    BY <2>1, <2>2
<1> QED
  BY <1>1, <1>2, <1>3, <1>4, <1>5, <1>6 DEF VkInv

\* Still drawing: a run is given up only where nothing is queued.
LEMMA VkLookAgainInv ==
  ASSUME VkInv, Vk!LookAgain
  PROVE  VkInv'
<1> USE DEF Vk!queueVars, Vk!callerVars, Vk!LookAgain
<1>1. VkTyped' /\ VkEnds' /\ VkComposes'
  BY DEF VkInv, VkTyped, VkEnds, VkComposes
<1>2. VkJobs' /\ Vk!NothingLeftBehind'
  BY DEF VkInv, VkJobs, Vk!NothingLeftBehind
<1>3. Vk!RunForEachJob'
  <2>1. CASE Vk!NothingQueued
    BY <1>1, <2>1, VkNothingToRun DEF Vk!NothingQueued, Vk!Ids, Ids
  <2>2. CASE ~Vk!NothingQueued
    <3>1. RunsOf(work_', thread', caller') >= RunsOf(work_, thread, caller)
      <4>1. Cardinality(RunsIn(work_)) \in Nat
        BY RunsOfType DEF VkInv, VkTyped
      <4> QED
        BY <2>2, <4>1 DEF RunsOf
    <3> QED
      BY <1>1, <3>1, VkRunsStand
  <2> QED
    BY <2>1, <2>2
<1> QED
  BY <1>1, <1>2, <1>3 DEF VkInv

\* The thread goes down: with the deque empty and the owner past posting, no run
\* is under way, so nothing is queued either.
LEMMA VkGoDownInv ==
  ASSUME VkInv, Vk!GoDown
  PROVE  VkInv'
<1> USE DEF Vk!queueVars, Vk!callerVars, Vk!GoDown
<1>1. VkTyped' /\ VkEnds' /\ VkComposes'
  BY DEF VkInv, VkTyped, VkEnds, VkComposes
<1>2. VkJobs'
  BY DEF VkInv, VkJobs
<1>3. \A i \in Ids : vk_state[i] # "queued"
  <2>1. RunsOf(work_, thread, caller) = 0
    <3>1. RunsIn(work_) = {}
      BY DEF RunsIn
    <3> QED
      BY <3>1, FS_EmptySet DEF RunsOf, VkInv, VkEnds
  <2>2. IsFiniteSet(Ids)
    BY MaxJobsAssumption, FS_Interval DEF Ids
  <2>3. IsFiniteSet({i \in Ids : vk_state[i] = "queued"})
    BY <2>2, FS_Subset
  <2>4. Cardinality({i \in Ids : vk_state[i] = "queued"}) <= 0
    BY <2>1, VkCounts, VkRunsAre DEF VkInv, Vk!RunForEachJob, Vk!Ids, Ids
  <2>5. {i \in Ids : vk_state[i] = "queued"} = {}
    BY <2>3, <2>4, FS_CardinalityType, FS_EmptySet
  <2> QED
    BY <2>5
<1>4. Vk!RunForEachJob'
  BY <1>1, <1>3, VkNothingToRun
<1>5. Vk!NothingLeftBehind'
  BY <1>3 DEF VkInv, VkJobs, Vk!NothingLeftBehind, Vk!Ids, Ids
<1> QED
  BY <1>1, <1>2, <1>4, <1>5 DEF VkInv
\* A work put at the back: what the deque holds then.
LEMMA VkPosted ==
  ASSUME NEW works \in Seq(Vk!Works), NEW e \in Vk!Works
  PROVE  /\ Append(works, e) \in Seq(Vk!Works) /\ Len(Append(works, e)) = Len(works) + 1
         /\ Len(works) \in Nat
         /\ \A k \in 1..Len(works) : Append(works, e)[k] = works[k]
         /\ Append(works, e)[Len(works) + 1] = e
         /\ Cardinality(RunsIn(Append(works, e))) =
                Cardinality(RunsIn(works)) + (IF e = "run" THEN 1 ELSE 0)
  BY AppendProperties, RunsOfAppend

\* PostRun, PostRetire and the run posted again: one work more, and a run in hand
\* is a run in the deque.
LEMMA VkPostsInv ==
  ASSUME VkInv, Vk!PostRun \/ Vk!PostRetire \/ Vk!Repost
  PROVE  VkInv'
<1> USE DEF Vk!queueVars, Vk!callerVars, Vk!threadVars, Vk!PostRun, Vk!PostRetire, Vk!Repost,
        Vk!Post
<1>p. PICK e \in {"run", "retire"} :
        /\ work_' = Append(work_, e)
        /\ e = "run" <=> ~Vk!PostRetire
  BY DEF VkInv, VkEnds
<1>0. UNCHANGED <<vk_last_id_, vk_state, vk_cancelled, vk_stopped_, stopping_, taken,
                  vk_held, asked, answers>>
  OBVIOUS
<1>1. e \in Vk!Works
  BY DEF Vk!Works
<1>2. VkTyped'
  BY <1>p, <1>0, <1>1, VkPosted DEF VkInv, VkTyped
<1>3. VkEnds'
  BY <1>0 DEF VkInv, VkEnds
<1>4. VkComposes'
  <2>1. /\ Len(work_') = Len(work_) + 1 /\ Len(work_) \in Nat
        /\ \A k \in 1..Len(work_) : work_'[k] = work_[k]
        /\ work_'[Len(work_) + 1] # "compose"
    BY <1>p, <1>1, VkPosted DEF VkInv, VkTyped
  <2>2. \A k \in 1..Len(work_') : work_'[k] = "compose" => k \in 1..Len(work_) /\ work_[k] = "compose"
    BY <2>1
  <2> QED
    BY <2>2 DEF VkInv, VkComposes
<1>5. VkJobs' /\ Vk!NothingLeftBehind'
  BY <1>0 DEF VkInv, VkJobs, VkEnds, Vk!NothingLeftBehind, Vk!Ids, Ids
<1>6. Vk!RunForEachJob'
  <2>1. /\ Cardinality(RunsIn(work_)) \in Nat
        /\ Cardinality(RunsIn(work_')) = Cardinality(RunsIn(work_)) + (IF e = "run" THEN 1 ELSE 0)
    BY <1>p, <1>1, VkPosted, RunsOfType DEF VkInv, VkTyped
  <2>2. RunsOf(work_', thread', caller') >= RunsOf(work_, thread, caller)
    BY <1>p, <2>1 DEF RunsOf
  <2> QED
    BY <1>0, <1>2, <2>2, VkRunsStand
<1> QED
  BY <1>2, <1>3, <1>4, <1>5, <1>6 DEF VkInv

\* Compose posts itself and a retire behind it: no compose lay in the deque, its
\* caller being idle.
LEMMA VkCallComposeInv ==
  ASSUME VkInv, Vk!CallCompose
  PROVE  VkInv'
<1> USE DEF Vk!queueVars, Vk!threadVars, Vk!CallCompose
<1>1. /\ work_ \in Seq(Vk!Works) /\ "compose" \in Vk!Works /\ "retire" \in Vk!Works
  BY DEF VkInv, VkTyped, Vk!Works
<1> DEFINE one == Append(work_, "compose")
<1>2. work_' = Append(one, "retire")
  BY <1>1
<1>3. /\ one \in Seq(Vk!Works) /\ Len(one) = Len(work_) + 1 /\ Len(work_) \in Nat
      /\ \A k \in 1..Len(work_) : one[k] = work_[k]
      /\ Cardinality(RunsIn(one)) = Cardinality(RunsIn(work_))
      /\ Cardinality(RunsIn(work_)) \in Nat
  BY <1>1, VkPosted, RunsOfType
<1> HIDE DEF one
<1>4. /\ work_' \in Seq(Vk!Works) /\ Len(work_') = Len(work_) + 2
      /\ \A k \in 1..Len(work_) : work_'[k] = work_[k]
      /\ work_'[Len(work_) + 2] # "compose"
      /\ Cardinality(RunsIn(work_')) = Cardinality(RunsIn(work_))
  <2> HIDE DEF Vk!CallCompose
  <2>1. /\ work_' \in Seq(Vk!Works) /\ Len(work_') = Len(one) + 1
        /\ \A k \in 1..Len(one) : work_'[k] = one[k]
        /\ work_'[Len(one) + 1] = "retire"
        /\ Cardinality(RunsIn(work_')) = Cardinality(RunsIn(one)) + 0
    BY <1>1, <1>2, <1>3, VkPosted
  <2>2. Len(one) + 1 = Len(work_) + 2 /\ \A k \in 1..Len(work_) : k \in 1..Len(one)
    BY <1>3
  <2>3. work_'[Len(work_) + 2] = "retire" /\ Len(work_') = Len(work_) + 2
    BY <2>1, <2>2
  <2>4. \A k \in 1..Len(work_) : work_'[k] = work_[k]
    BY <2>1, <2>2, <1>3
  <2>5. Cardinality(RunsIn(work_')) = Cardinality(RunsIn(work_))
    BY <2>1, <1>3
  <2> QED
    BY <2>1, <2>3, <2>4, <2>5
<1>5. VkTyped'
  BY <1>4 DEF VkInv, VkTyped
<1>6. VkEnds'
  BY DEF VkInv, VkEnds
<1>7. VkComposes'
  <2>1. \A k \in 1..Len(work_') : work_'[k] = "compose" => k = Len(work_) + 1
    BY <1>3, <1>4 DEF VkInv, VkComposes
  <2> QED
    BY <2>1 DEF VkInv, VkComposes
<1>8. VkJobs' /\ Vk!NothingLeftBehind'
  BY DEF VkInv, VkJobs, VkEnds, Vk!NothingLeftBehind
<1>9. Vk!RunForEachJob'
  <2>1. RunsOf(work_', thread', caller') >= RunsOf(work_, thread, caller)
    BY <1>3, <1>4 DEF RunsOf
  <2> QED
    BY <1>5, <2>1, VkRunsStand
<1> QED
  BY <1>5, <1>6, <1>7, <1>8, <1>9 DEF VkInv

\* The thread takes a work off the front: a run goes into its hands.
LEMMA VkTakeWorkInv ==
  ASSUME VkInv, Vk!TakeWork
  PROVE  VkInv'
<1> USE DEF Vk!queueVars, Vk!callerVars, Vk!TakeWork
<1>0. UNCHANGED <<vk_last_id_, vk_state, vk_cancelled, vk_stopped_, stopping_, taken,
                  caller, vk_held, asked, answers>>
  OBVIOUS
<1>1. /\ work_ \in Seq(Vk!Works) /\ work_ # <<>> /\ thread = "wait"
      /\ work_' \in Seq(Vk!Works) /\ Len(work_') = Len(work_) - 1 /\ Len(work_) \in Nat \ {0}
      /\ \A k \in 1..Len(work_') : work_'[k] = work_[k + 1]
      /\ Head(work_) = work_[1]
      /\ Cardinality(RunsIn(work_')) =
            Cardinality(RunsIn(work_)) - (IF Head(work_) = "run" THEN 1 ELSE 0)
      /\ Cardinality(RunsIn(work_)) \in Nat /\ Cardinality(RunsIn(work_')) \in Nat
  <2>1. work_ \in Seq(Vk!Works) /\ work_ # <<>> /\ thread = "wait" /\ work_' = Tail(work_)
    BY DEF VkInv, VkTyped
  <2>2. /\ Tail(work_) \in Seq(Vk!Works) /\ Len(Tail(work_)) = Len(work_) - 1
        /\ Len(work_) \in Nat \ {0} /\ Head(work_) = work_[1]
        /\ \A k \in 1..Len(Tail(work_)) : Tail(work_)[k] = work_[k + 1]
    BY <2>1, HeadTailProperties
  <2>3. Cardinality(RunsIn(Tail(work_))) =
            Cardinality(RunsIn(work_)) - (IF Head(work_) = "run" THEN 1 ELSE 0)
    BY <2>1, RunsOfTail
  <2>4. Cardinality(RunsIn(work_)) \in Nat /\ Cardinality(RunsIn(Tail(work_))) \in Nat
    BY <2>1, <2>2, RunsOfType
  <2> HIDE DEF Vk!TakeWork
  <2> QED
    BY <2>1, <2>2, <2>3, <2>4
<1>2. /\ Head(work_) = "run" => thread' = "poll"
      /\ Head(work_) = "compose" => thread' = "compose"
      /\ Head(work_) \notin {"run", "compose"} => thread' = "wait"
  BY <1>1
<1>3. thread' \in {"poll", "compose", "wait"}
  BY <1>2
<1> HIDE DEF Vk!TakeWork
<1>4. VkTyped'
  BY <1>0, <1>1, <1>3 DEF VkInv, VkTyped
<1>5. VkEnds'
  BY <1>0, <1>1, <1>3 DEF VkInv, VkEnds
<1>6. VkComposes'
  <2>1. thread' = "compose" => work_[1] = "compose"
    BY <1>1, <1>2, <1>3
  <2>2. \A k \in 1..Len(work_') : work_'[k] = "compose" =>
            k + 1 \in 1..Len(work_) /\ work_[k + 1] = "compose"
    BY <1>1
  <2>3. 1 \in 1..Len(work_)
    BY <1>1
  <2>4. ASSUME NEW k \in 1..Len(work_'), work_'[k] = "compose"
        PROVE  /\ caller = "composing" /\ thread' # "compose"
               /\ \A j \in 1..Len(work_') : work_'[j] = "compose" => j = k
    BY <1>1, <2>1, <2>2, <2>3, <2>4 DEF VkInv, VkComposes
  <2> QED
    BY <1>0, <2>1, <2>3, <2>4 DEF VkInv, VkComposes
<1>7. VkJobs' /\ Vk!NothingLeftBehind'
  BY <1>0, <1>1, <1>3 DEF VkInv, VkJobs, Vk!NothingLeftBehind
<1>8. Vk!RunForEachJob'
  <2>1. RunsOf(work_', thread', caller') >= RunsOf(work_, thread, caller)
    BY <1>0, <1>1, <1>2 DEF RunsOf
  <2> QED
    BY <1>0, <1>4, <2>1, VkRunsStand
<1> QED
  BY <1>4, <1>5, <1>6, <1>7, <1>8 DEF VkInv
-----------------------------------------------------------------------------
\* The steps that change the queue's entries.

\* A job is queued, and its caller is about to post its run: one more on each side.
LEMMA VkCallQueueInv ==
  ASSUME VkInv, NEW d \in BOOLEAN, Vk!CallQueue(d)
  PROVE  VkInv'
<1> USE MaxJobsAssumption DEF Vk!Ids, Ids
<1>p. PICK id \in Ids : Vk!Queue(id, d) /\ vk_held' = vk_held \union {id}
  BY DEF Vk!CallQueue
<1>0. /\ UNCHANGED <<work_, stopping_, thread, taken, asked, answers, vk_stopped_>>
      /\ caller = "idle" /\ caller' = "post"
      /\ id = vk_last_id_ + 1 /\ vk_last_id_' = id
      /\ vk_cancelled' = [vk_cancelled EXCEPT ![id] = FALSE]
      /\ vk_state' = [i \in Ids |-> IF i = id THEN "queued"
                                    ELSE IF i \in Vk!Superseded THEN "dropped" ELSE vk_state[i]]
  BY <1>p DEF Vk!CallQueue, Vk!Queue, Vk!threadVars
<1>1. VkTyped'
  BY <1>p, <1>0 DEF VkInv, VkTyped, States
<1>2. VkEnds' /\ VkComposes'
  BY <1>0 DEF VkInv, VkEnds, VkComposes
<1>3. VkJobs'
  <2>1. vk_state[id] = "none" /\ id \notin vk_held
    BY <1>0 DEF VkInv, VkTyped, VkJobs
  <2>2. \A i \in Ids : i \in Vk!Superseded => vk_state[i] = "queued"
    BY DEF Vk!Superseded
  <2>3. thread' = "drawing" => taken' \in Ids
    BY <1>0 DEF VkInv, VkJobs
  <2>4. ASSUME NEW i \in Ids
        PROVE  /\ vk_state'[i] = "submitting" => thread' = "drawing" /\ taken' = i
               /\ i > vk_last_id_' => vk_state'[i] = "none" /\ i \notin vk_held'
               /\ answers'[i] # "cancelled"
    BY <1>p, <1>0, <2>1, <2>2 DEF VkInv, VkTyped, VkJobs
  <2>5. ASSUME NEW i \in vk_held' PROVE vk_state'[i] # "none" /\ ~vk_cancelled'[i]
    <3>1. CASE i = id
      BY <1>0, <3>1 DEF VkInv, VkTyped
    <3>2. CASE i # id
      BY <1>p, <1>0, <3>2 DEF VkInv, VkTyped, VkJobs
    <3> QED
      BY <3>1, <3>2
  <2> QED
    BY <1>0, <2>3, <2>4, <2>5 DEF VkJobs
<1>4. Vk!NothingLeftBehind'
  <2>1. thread' # "down"
    BY <1>0 DEF VkInv, VkEnds
  <2> QED
    BY <2>1, <1>3 DEF Vk!NothingLeftBehind, VkJobs
<1>5. Vk!RunForEachJob'
  <2>1. IsFiniteSet({id}) /\ Cardinality({id}) = 1
    BY FS_Singleton
  <2>2. Cardinality(RunsIn(work_)) \in Nat
    BY RunsOfType DEF VkInv, VkTyped
  <2>3. RunsOf(work_', thread', caller') >= RunsOf(work_, thread, caller) + Cardinality({id})
    BY <1>0, <2>1, <2>2 DEF RunsOf
  <2>4. \A i \in Ids : vk_state'[i] = "queued" => vk_state[i] = "queued" \/ i \in {id}
    BY <1>0
  <2> QED
    BY <1>1, <2>1, <2>3, <2>4, VkRunsKept
<1> QED
  BY <1>1, <1>2, <1>3, <1>4, <1>5 DEF VkInv

\* A Resolve that returns, and a Cancel: the entry goes, and where there was a run
\* for it the run finds less to do.  The queue cannot have been stopped: its owner
\* stops it after everything else.
LEMMA VkAnsweredInv ==
  ASSUME VkInv, NEW o \in States \union {"cancelled"}, Vk!ResolveAnswered(o)
  PROVE  VkInv'
<1> USE MaxJobsAssumption DEF Vk!Ids, Ids
<1>0. /\ UNCHANGED <<work_, stopping_, thread, taken, vk_last_id_, vk_cancelled, vk_stopped_>>
      /\ caller = "resolve" /\ caller' = "idle" /\ vk_held' = vk_held \ {asked}
      /\ asked \in Ids /\ asked \in vk_held
      /\ vk_state' = [vk_state EXCEPT ![asked] = "none"]
      /\ answers' = [answers EXCEPT ![asked] = o]
  BY DEF Vk!ResolveAnswered, Vk!ResolveReturns, Vk!Forget, Vk!threadVars, VkInv, VkJobs, VkTyped
<1>1. /\ o # "cancelled"
      /\ vk_state[asked] \notin {"submitting", "none"}
  <2>1. vk_state[asked] # "none" /\ vk_state[asked] \in States /\ ~vk_stopped_
    BY <1>0 DEF VkInv, VkJobs, VkTyped, VkEnds
  <2> QED
    BY <2>1 DEF Vk!ResolveAnswered, Vk!ResolveReturns, Vk!DropsNow, States
<1>2. VkTyped'
  BY <1>0 DEF VkInv, VkTyped, States
<1>3. VkEnds' /\ VkComposes'
  BY <1>0 DEF VkInv, VkEnds, VkComposes
<1>4. VkJobs'
  BY <1>0, <1>1 DEF VkInv, VkTyped, VkJobs
<1>5. Vk!NothingLeftBehind'
  BY <1>0, <1>4 DEF VkInv, VkTyped, VkJobs, Vk!NothingLeftBehind
<1>6. Vk!RunForEachJob'
  <2>1. Cardinality(RunsIn(work_)) \in Nat
    BY RunsOfType DEF VkInv, VkTyped
  <2>2. RunsOf(work_', thread', caller') >= RunsOf(work_, thread, caller)
    BY <1>0, <2>1 DEF RunsOf
  <2>3. \A i \in Ids : vk_state'[i] = "queued" => vk_state[i] = "queued"
    BY <1>0 DEF VkInv, VkTyped
  <2> QED
    BY <1>2, <2>2, <2>3, VkRunsStand
<1> QED
  BY <1>2, <1>3, <1>4, <1>5, <1>6 DEF VkInv

LEMMA VkCallCancelInv ==
  ASSUME VkInv, NEW id \in Ids, Vk!CallCancel(id)
  PROVE  VkInv'
<1> USE MaxJobsAssumption DEF Vk!Ids, Ids
<1>0. /\ UNCHANGED <<work_, stopping_, thread, taken, vk_last_id_, vk_stopped_, caller,
                     asked, answers>>
      /\ caller = "idle" /\ vk_held' = vk_held \ {id} /\ id \in vk_held
  BY DEF Vk!CallCancel, Vk!Cancel, Vk!threadVars
<1>1. /\ vk_state' = IF vk_state[id] = "submitting" THEN vk_state
                                                    ELSE [vk_state EXCEPT ![id] = "none"]
      /\ vk_cancelled' = IF vk_state[id] = "submitting" THEN [vk_cancelled EXCEPT ![id] = TRUE]
                                                        ELSE vk_cancelled
  BY DEF Vk!CallCancel, Vk!Cancel, Vk!Forget
<1>2. VkTyped'
  BY <1>0, <1>1 DEF VkInv, VkTyped, States
<1>3. VkEnds' /\ VkComposes'
  BY <1>0 DEF VkInv, VkEnds, VkComposes
<1>4. VkJobs'
  BY <1>0, <1>1 DEF VkInv, VkTyped, VkJobs
<1>5. Vk!NothingLeftBehind'
  BY <1>0, <1>1, <1>4 DEF VkInv, VkTyped, VkJobs, Vk!NothingLeftBehind
<1>6. Vk!RunForEachJob'
  <2>1. Cardinality(RunsIn(work_)) \in Nat
    BY RunsOfType DEF VkInv, VkTyped
  <2>2. RunsOf(work_', thread', caller') >= RunsOf(work_, thread, caller)
    BY <1>0, <2>1 DEF RunsOf
  <2>3. \A i \in Ids : vk_state'[i] = "queued" => vk_state[i] = "queued"
    BY <1>1 DEF VkInv, VkTyped
  <2> QED
    BY <1>2, <2>2, <2>3, VkRunsStand
<1> QED
  BY <1>2, <1>3, <1>4, <1>5, <1>6 DEF VkInv
\* TryTake answers a job: one queued less, for the one run in the thread's hands.
LEMMA VkRunTakesInv ==
  ASSUME VkInv, NEW id \in Ids, Vk!RunTakes(id)
  PROVE  VkInv'
<1> USE MaxJobsAssumption DEF Vk!Ids, Ids
<1>0. /\ UNCHANGED <<work_, stopping_, vk_last_id_, vk_cancelled, vk_stopped_, caller,
                     vk_held, asked, answers>>
      /\ thread = "take" /\ thread' = "drawing" /\ taken' = id
      /\ vk_state[id] = "queued" /\ vk_state' = [vk_state EXCEPT ![id] = "submitting"]
  BY DEF Vk!RunTakes, Vk!TakeJob, Vk!OldestQueued, Vk!callerVars
<1>1. VkTyped'
  BY <1>0 DEF VkInv, VkTyped, States
<1>2. VkEnds' /\ VkComposes'
  BY <1>0 DEF VkInv, VkEnds, VkComposes
<1>3. VkJobs'
  BY <1>0 DEF VkInv, VkTyped, VkJobs
<1>4. Vk!NothingLeftBehind'
  BY <1>0, <1>3 DEF VkJobs, Vk!NothingLeftBehind
<1>5. Vk!RunForEachJob'
  <2> DEFINE Was == {i \in Ids : vk_state[i] = "queued"}
  <2>1. {i \in Ids : vk_state'[i] = "queued"} = Was \ {id} /\ id \in Was
    BY <1>0 DEF VkInv, VkTyped
  <2>2. IsFiniteSet(Was)
    <3>1. IsFiniteSet(Ids) /\ Was \in SUBSET Ids
      BY FS_Interval
    <3> QED
      BY <3>1, FS_Subset
  <2>3. Cardinality(Was \ {id}) = Cardinality(Was) - 1 /\ Cardinality(Was) \in Nat
    BY <2>1, <2>2, FS_RemoveElement, FS_CardinalityType
  <2>4. Cardinality(Was) <= RunsOf(work_, thread, caller)
    BY VkCounts, VkRunsAre DEF VkInv, Vk!RunForEachJob
  <2>5. Cardinality(RunsIn(work_)) \in Nat
    BY RunsOfType DEF VkInv, VkTyped
  <2>6. RunsOf(work_', thread', caller') = RunsOf(work_, thread, caller) - 1
    BY <1>0, <2>5 DEF RunsOf
  <2>7. RunsOf(work_, thread, caller) \in Nat
    BY RunsOfType DEF VkInv, VkTyped
  <2>8. Cardinality(Was \ {id}) <= RunsOf(work_', thread', caller')
    BY <2>3, <2>4, <2>6, <2>7
  <2> QED
    BY <2>1, <2>8, VkCounts, VkRunsAre DEF Vk!RunForEachJob
<1> QED
  BY <1>1, <1>2, <1>3, <1>4, <1>5 DEF VkInv

\* Done: the entry says what became of the job, or goes with the caller that gave
\* it up.
LEMMA VkRunDrawsInv ==
  ASSUME VkInv, NEW drawn \in BOOLEAN, Vk!RunDraws(drawn)
  PROVE  VkInv'
<1> USE MaxJobsAssumption DEF Vk!Ids, Ids
<1>0. /\ UNCHANGED <<work_, stopping_, vk_last_id_, vk_cancelled, vk_stopped_, caller,
                     vk_held, asked, answers>>
      /\ thread = "drawing" /\ thread' = "wait" /\ taken' = 0
  BY DEF Vk!RunDraws, Vk!Done, Vk!callerVars, Vk!queueVars
<1>1. taken \in Ids
  BY <1>0 DEF VkInv, VkJobs
<1>2. PICK s \in {"none", "submitted", "refused"} :
        /\ vk_state' = [vk_state EXCEPT ![taken] = s]
        /\ s = "none" <=> vk_state[taken] = "none" \/ vk_cancelled[taken]
  <2>1. CASE vk_state[taken] = "none"
    <3>1. vk_state' = [vk_state EXCEPT ![taken] = "none"]
      BY <2>1, <1>1 DEF Vk!RunDraws, Vk!Done, Vk!queueVars, VkInv, VkTyped
    <3> QED
      BY <2>1, <3>1
  <2>2. CASE vk_state[taken] # "none" /\ vk_cancelled[taken]
    BY <2>2 DEF Vk!RunDraws, Vk!Done, Vk!Forget
  <2>3. CASE vk_state[taken] # "none" /\ ~vk_cancelled[taken]
    BY <2>3 DEF Vk!RunDraws, Vk!Done
  <2> QED
    BY <2>1, <2>2, <2>3
<1>3. VkTyped'
  <2>1. s \in States
    BY DEF States
  <2>2. vk_state' \in [Ids -> States]
    BY <1>2, <2>1 DEF VkInv, VkTyped
  <2>3. taken' \in 0..MaxJobs
    BY <1>0
  <2> QED
    BY <1>0, <2>2, <2>3 DEF VkInv, VkTyped
<1>4. VkEnds' /\ VkComposes'
  BY <1>0 DEF VkInv, VkEnds, VkComposes
<1>5. VkJobs'
  BY <1>0, <1>1, <1>2 DEF VkInv, VkTyped, VkJobs
<1>6. Vk!NothingLeftBehind'
  BY <1>0, <1>5 DEF VkJobs, Vk!NothingLeftBehind
<1>7. Vk!RunForEachJob'
  <2>1. Cardinality(RunsIn(work_)) \in Nat
    BY RunsOfType DEF VkInv, VkTyped
  <2>2. RunsOf(work_', thread', caller') >= RunsOf(work_, thread, caller)
    BY <1>0, <2>1 DEF RunsOf
  <2>3. \A i \in Ids : vk_state'[i] = "queued" => vk_state[i] = "queued"
    BY <1>2 DEF VkInv, VkTyped
  <2> QED
    BY <1>3, <2>2, <2>3, VkRunsStand
<1> QED
  BY <1>3, <1>4, <1>5, <1>6, <1>7 DEF VkInv

-----------------------------------------------------------------------------
\* Every step of the thread, the caller and the GPU keeps the invariant.
LEMMA VkNextInv == VkInv /\ [Vk!Next]_vkVars => VkInv'
<1> SUFFICES ASSUME VkInv, [Vk!Next]_vkVars PROVE VkInv'
  OBVIOUS
<1>1. CASE Vk!ThreadNext
  BY <1>1, VkTakeWorkInv, VkGoDownInv, VkQuietInv, VkLookAgainInv, VkPostsInv,
     VkRunTakesInv, VkRunDrawsInv DEF Vk!ThreadNext, Vk!Ids, Ids
<1>2. CASE Vk!CallerGoesOn
  <2>1. Vk!States = States
    BY DEF Vk!States, States
  <2> QED
    BY <1>2, <2>1, VkPostsInv, VkAnsweredInv, VkQuietInv DEF Vk!CallerGoesOn
<1>3. CASE Vk!CallerCalls
  BY <1>3, VkCallQueueInv, VkQuietInv, VkCallCancelInv, VkCallComposeInv
     DEF Vk!CallerCalls, Vk!Ids, Ids
<1>4. CASE Vk!GpuFinishes \/ UNCHANGED vkVars
  BY <1>4, VkQuietInv
<1>5. CASE Vk!Gone
  BY <1>5, VkQuietInv DEF Vk!Gone, Vk!vars, Vk!queueVars, Vk!threadVars, Vk!callerVars, vkVars
<1> QED
  BY <1>1, <1>2, <1>3, <1>4, <1>5 DEF Vk!Next

\* No drawing queued for the Vulkan compositor is without a run on its way to it,
\* whatever runs repost themselves, drawings are dropped or Composes come between;
\* and none is left behind when the thread goes down, so that nobody who still
\* holds a job hears "cancelled" (vk/Compositor Queue, RunJob, ThreadMain).
THEOREM VulkanDrawingsAreServed == ThreadsSpec => []DrawingsAreServed
<1>1. ThreadsInit => VkInv
  BY VkInitInv DEF ThreadsInit
<1>2. VkInv /\ [ThreadsNext]_<<part, vars, vkVars, mergeVars, govVars>> => VkInv'
  <2> SUFFICES ASSUME VkInv, [ThreadsNext]_<<part, vars, vkVars, mergeVars, govVars>>
               PROVE  [Vk!Next]_vkVars
    BY VkNextInv
  <2> QED
    BY DEF ThreadsNext
<1>3. VkInv => DrawingsAreServed
  BY DEF VkInv, DrawingsAreServed
<1> QED
  BY <1>1, <1>2, <1>3, PTL DEF ThreadsSpec
=============================================================================
