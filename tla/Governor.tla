------------------------------ MODULE Governor ------------------------------
(***************************************************************************)
(* governor/TegraGovernor: the thread that holds each engine's clock floor *)
(* while work is planned, in flight and just done (FloorLane, FenceWatch), *)
(* and the mailbox through which the composer's thread tells it.           *)
(*                                                                         *)
(* A timer is off, running or due; when a running one falls due is open.   *)
(* A round -- everything the thread does between two polls -- touches only *)
(* its own state and empties the mailbox in one critical section, so it is *)
(* one step.  The descriptor is rung after the mailbox's lock is let go,   *)
(* so that is a step of its own.  Clock steps are levels, nought for none. *)
(***************************************************************************)
EXTENDS Integers, FiniteSets, FiniteSetsExt

CONSTANTS
    Engines,        \* which of "vic" and "gpu" are governed
    CopyFails,      \* whether a fence may fail to be copied for the governor
    WriteFails,     \* whether a floor may be refused
    Levels,         \* bound: clock steps above none
    MaxSeq,         \* bound: frames planned
    MaxFences,      \* bound: works reported
    MaxPower,       \* bound: changes of power mode
    MaxCalls        \* bound: those and the frames planned together

ASSUME GovernorAssumption ==
    /\ Engines \subseteq {"vic", "gpu"} /\ {CopyFails, WriteFails} \subseteq BOOLEAN
    /\ {Levels, MaxSeq, MaxFences, MaxPower, MaxCalls} \subseteq Nat

VARIABLES
    \* Mailbox
    pending_, gpu_pending_,     \* the plan left, NoPlan if none
    submitted_,                 \* per engine, the reports left
    power_, stop_, rung,
    \* the composer
    seq, gpu_seq, reports, powers,     \* gpu_seq: the last frame with a GPU drawing planned
    ringing,                    \* a deposit made, the descriptor not yet rung
    destroyed,                  \* hwc_governor_destroy has returned
    \* the thread
    thread,                     \* "poll", "round" or "exited"
    revents,                    \* the fences the poll found due
    lane,                       \* per engine, its FloorLane
    cpu_until_ns_, lifted_, last_frame_, dead_,
    \* fences
    signaled,                   \* the works that are done
    closed                      \* how often each descriptor was closed

mailbox == <<pending_, gpu_pending_, submitted_, power_, stop_, rung>>
composer == <<seq, gpu_seq, reports, powers, ringing, destroyed>>
own == <<thread, revents, lane, cpu_until_ns_, lifted_, last_frame_, dead_>>
vars == <<mailbox, composer, own, signaled, closed>>

Fences == 1..MaxFences
NoPlan == [seq |-> 0, merge |-> FALSE]
Timers == {"off", "running", "due"}

\* A FloorLane at rest.  `late' are the fences waited on past the patience.
IdleLane == [floor |-> 0, owed |-> 0, release |-> "off", orphan |-> "off",
             watched |-> {}, late |-> {}, latest |-> 0]

Init ==
    /\ pending_ = NoPlan /\ gpu_pending_ = NoPlan
    /\ submitted_ = [e \in Engines |-> {}]
    /\ power_ = "on" /\ stop_ = FALSE /\ rung = FALSE
    /\ seq = 0 /\ gpu_seq = 0 /\ reports = 0 /\ powers = 0 /\ ringing = FALSE /\ destroyed = FALSE
    /\ thread = "poll" /\ revents = {} /\ lane = [e \in Engines |-> IdleLane]
    /\ cpu_until_ns_ = "off" /\ lifted_ = FALSE /\ last_frame_ = 0 /\ dead_ = FALSE
    /\ signaled = {} /\ closed = [f \in Fences |-> 0]

Close(fs) == closed' = [f \in Fences |-> closed[f] + IF f \in fs THEN 1 ELSE 0]

-----------------------------------------------------------------------------
\* FloorLane, as functions from a lane to a lane.

\* The kernel may refuse a floor: the VIC's stays as it was, the GPU's node is
\* given up and with it the floor.
SetFloor(e, l, step, taken) ==
    [l EXCEPT !.floor = IF taken THEN step ELSE IF e = "gpu" THEN 0 ELSE @]

\* Reported: the orphan timer is off and the step owed is asked.
Reported(e, l, taken) ==
    LET quiet == [l EXCEPT !.orphan = "off", !.owed = 0] IN
    IF l.owed = 0 \/ l.owed <= l.floor THEN quiet ELSE SetFloor(e, quiet, l.owed, taken)

\* The fences a round closes in this lane: signaled, or given up.
DoneIn(l) == l.watched \intersect (revents \union l.late)

\* The hold starts afresh every round.
MutFollow(l, works) ==
    LET kept == (l.watched \ DoneIn(l)) \union ({w.fence : w \in works} \ {0}) IN
    [l EXCEPT !.watched = kept, !.late = @ \ DoneIn(l),
              !.latest = Max({l.latest} \union {w.seq : w \in works}),
              !.release = IF l.floor # 0 THEN "running" ELSE @]

\* Follow: the fences due are done with, the works reported taken on, and once
\* the last fence is done the hold starts, unless work is still to come.
Follow(l, works) ==
    LET kept == (l.watched \ DoneIn(l)) \union ({w.fence : w \in works} \ {0}) IN
    [l EXCEPT !.watched = kept, !.late = @ \ DoneIn(l),
              !.latest = Max({l.latest} \union {w.seq : w \in works}),
              !.release = IF DoneIn(l) # {} /\ kept = {} /\ l.floor # 0 /\ l.orphan = "off"
                          THEN "running" ELSE @]

\* The hold of the work before is left to run out over work still to come, and
\* no timer covers that work.
MutAsk(e, l, step, owed, reported, asks, taken) ==
    LET asked == IF asks /\ step > l.floor THEN SetFloor(e, l, step, taken) ELSE l IN
    [asked EXCEPT !.owed = owed]

\* Ask: upward only.  A floor for work still to come waits for its report, one
\* for work in flight follows its fences, or is held from now.
Ask(e, l, step, owed, reported, asks, taken) ==
    LET raises == asks /\ step > l.floor
        asked == [(IF raises THEN SetFloor(e, l, step, taken) ELSE l) EXCEPT !.owed = owed]
    IN  IF ~(raises /\ taken) /\ asked.floor = 0 THEN asked
        ELSE IF reported
        THEN [asked EXCEPT !.orphan = "off",
                           !.release = IF l.watched = {} THEN "running" ELSE "off"]
        ELSE [asked EXCEPT !.orphan = "running", !.release = "off"]

\* The floor goes though fences are still watched.
MutReleaseIfDue(l) ==
    IF l.floor # 0 /\ "due" \in {l.release, l.orphan}
    THEN [l EXCEPT !.floor = 0, !.owed = 0, !.release = "off", !.orphan = "off"] ELSE l

ReleaseIfDue(l) ==
    IF l.floor # 0 /\ l.watched = {} /\ "due" \in {l.release, l.orphan}
    THEN [l EXCEPT !.floor = 0, !.owed = 0, !.release = "off", !.orphan = "off"] ELSE l

\* DropAll: fences closed, timers off, floor gone.
DropAll(l) == [IdleLane EXCEPT !.latest = l.latest]

Watched == UNION {lane[e].watched : e \in Engines}

-----------------------------------------------------------------------------
\* The composer's thread; its calls are serialised (callback_mutex_).

Free == ~ringing /\ ~stop_

Bounded == seq + powers < MaxCalls

FramePlanned(merge) ==
    /\ Free /\ Bounded /\ seq < MaxSeq /\ seq' = seq + 1
    /\ IF dead_ THEN UNCHANGED <<pending_, ringing>>
       ELSE pending_' = [seq |-> seq', merge |-> merge] /\ ringing' = TRUE
    /\ UNCHANGED <<gpu_pending_, submitted_, power_, stop_, rung, gpu_seq, reports, powers,
                   destroyed, own, signaled, closed>>

GpuPlanned ==
    /\ Free /\ "gpu" \in Engines /\ gpu_seq < seq /\ gpu_seq' = seq
    /\ IF dead_ THEN UNCHANGED <<gpu_pending_, ringing>>
       ELSE gpu_pending_' = [seq |-> seq, merge |-> FALSE] /\ ringing' = TRUE
    /\ UNCHANGED <<pending_, submitted_, power_, stop_, rung, seq, reports, powers, destroyed,
                   own, signaled, closed>>

\* MergeSubmitted or GpuSubmitted: work of the last frame planned went to its
\* engine; its fence, where it could be copied, is the governor's to close.
Submitted(e, copied) ==
    /\ Free /\ seq > 0 /\ reports < MaxFences /\ reports' = reports + 1
    /\ CopyFails \/ copied
    /\ LET fence == IF copied THEN reports' ELSE 0 IN
       IF dead_ THEN Close({fence} \ {0}) /\ UNCHANGED <<submitted_, ringing>>
       ELSE /\ submitted_' = [submitted_ EXCEPT ![e] = @ \union {[fence |-> fence, seq |-> seq]}]
            /\ ringing' = TRUE /\ UNCHANGED closed
    /\ UNCHANGED <<pending_, gpu_pending_, power_, stop_, rung, seq, gpu_seq, powers,
                   destroyed, own, signaled>>

PowerMode(mode) ==
    /\ Free /\ Bounded /\ powers < MaxPower /\ powers' = powers + 1
    /\ power_' = mode /\ ringing' = TRUE
    /\ IF mode = "on" THEN UNCHANGED <<pending_, gpu_pending_>>
       ELSE pending_' = NoPlan /\ gpu_pending_' = NoPlan
    /\ UNCHANGED <<submitted_, stop_, rung, seq, gpu_seq, reports, destroyed, own, signaled,
                   closed>>

Stop ==
    /\ Free /\ stop_' = TRUE /\ ringing' = TRUE
    /\ UNCHANGED <<pending_, gpu_pending_, submitted_, power_, rung, seq, gpu_seq, reports,
                   powers, destroyed, own, signaled, closed>>

Ring ==
    /\ ringing /\ ringing' = FALSE /\ rung' = TRUE
    /\ UNCHANGED <<pending_, gpu_pending_, submitted_, power_, stop_, seq, gpu_seq, reports,
                   powers, destroyed, own, signaled, closed>>

\* What was left in the box is forgotten rather than closed.
MutDestroy ==
    /\ stop_ /\ ~ringing /\ thread = "exited" /\ ~destroyed
    /\ destroyed' = TRUE /\ submitted_' = [e \in Engines |-> {}]
    /\ pending_' = NoPlan /\ gpu_pending_' = NoPlan
    /\ UNCHANGED <<power_, stop_, rung, seq, gpu_seq, reports, powers, ringing, own, signaled,
                   closed>>

\* The destructor's join, and the mailbox's Discard.
Destroy ==
    /\ stop_ /\ ~ringing /\ thread = "exited" /\ ~destroyed
    /\ destroyed' = TRUE /\ submitted_' = [e \in Engines |-> {}]
    /\ pending_' = NoPlan /\ gpu_pending_' = NoPlan
    /\ Close({w.fence : w \in UNION {submitted_[e] : e \in Engines}} \ {0})
    /\ UNCHANGED <<power_, stop_, rung, seq, gpu_seq, reports, powers, ringing, own, signaled>>

-----------------------------------------------------------------------------
\* The thread.

TimerDue ==
    \/ cpu_until_ns_ = "due"
    \/ \E e \in Engines : "due" \in {lane[e].release, lane[e].orphan} \/ lane[e].late # {}

\* poll returns with mail, with a fence, or at TimeoutMs.
PollReturns ==
    /\ thread = "poll" /\ (rung \/ TimerDue \/ Watched \intersect signaled # {})
    /\ thread' = "round" /\ revents' = Watched \intersect signaled
    /\ UNCHANGED <<mailbox, composer, lane, cpu_until_ns_, lifted_, last_frame_, dead_, signaled,
                   closed>>

PollFails ==
    /\ thread = "poll" /\ thread' = "exited" /\ dead_' = TRUE
    /\ Close(Watched) /\ lane' = [e \in Engines |-> DropAll(lane[e])]
    /\ cpu_until_ns_' = "off" /\ lifted_' = FALSE
    /\ UNCHANGED <<mailbox, composer, revents, last_frame_, signaled>>

\* Mailbox::Take: everything left is the thread's, and the ring is drained.
Take ==
    /\ thread = "round"
    /\ pending_' = NoPlan /\ gpu_pending_' = NoPlan
    /\ submitted_' = [e \in Engines |-> {}] /\ rung' = FALSE
    /\ UNCHANGED <<power_, stop_>>

FencesIn(mail) == {w.fence : w \in UNION {mail[e] : e \in Engines}} \ {0}

\* Stopping, or a display going dark, drops everything, the fences just taken
\* unwatched.
DarkRound ==
    /\ Take /\ (stop_ \/ power_ # "on")
    /\ Close(Watched \union FencesIn(submitted_))
    /\ lane' = [e \in Engines |-> DropAll(lane[e])]
    /\ cpu_until_ns_' = "off" /\ lifted_' = FALSE
    /\ thread' = IF stop_ THEN "exited" ELSE "poll"
    /\ UNCHANGED <<composer, revents, last_frame_, dead_, signaled>>

\* The plan Decide (for the VIC) or DecideGpu acts on: one with work in it, and
\* for the GPU only of the frame planned last.
PlanFor(e) ==
    IF e = "vic" THEN pending_ ELSE
    IF gpu_pending_.seq = (IF pending_ = NoPlan THEN last_frame_ ELSE pending_.seq)
    THEN [gpu_pending_ EXCEPT !.merge = gpu_pending_.seq # 0] ELSE NoPlan

\* A lane through a round.  What the estimate makes of the plan (ask, owed),
\* whether there is a floor to ask at all (power save, the engine's own clock)
\* and whether the kernel takes it (taken) is open.
Through(e, ask, owed, asks, taken) ==
    LET works == submitted_[e]
        reported == IF works = {} THEN lane[e] ELSE Reported(e, lane[e], taken)
        followed == Follow(reported, works)
        plan == PlanFor(e)
        asked == IF ~plan.merge \/ ask = 0 THEN followed
                 ELSE Ask(e, followed, ask, IF followed.latest >= plan.seq THEN 0 ELSE owed,
                          followed.latest >= plan.seq, asks, taken)
    IN  ReleaseIfDue(asked)

\* The processor is lifted only for a submit still ahead, and let go at the
\* report or when its time is up.
CpuAfter(lift) ==
    LET dropped == "vic" \in Engines /\ submitted_["vic"] # {}
        lifts == /\ lift /\ "vic" \in Engines /\ pending_.merge /\ ~dropped
                 /\ lane["vic"].latest < pending_.seq
    IN  IF lifts THEN cpu_until_ns_' = "running" /\ lifted_' = TRUE
        ELSE IF dropped \/ cpu_until_ns_ = "due" THEN cpu_until_ns_' = "off" /\ lifted_' = FALSE
        ELSE UNCHANGED <<cpu_until_ns_, lifted_>>

LitRound ==
    /\ Take /\ ~stop_ /\ power_ = "on"
    /\ \E ask \in [Engines -> 0..Levels], owed \in 0..Levels,
          asks, taken \in [Engines -> BOOLEAN], lift \in BOOLEAN :
        /\ \A e \in Engines :
            /\ ask[e] = 0 => asks[e]
            /\ ask[e] # 0 => PlanFor(e).merge
            /\ ~taken[e] => WriteFails /\ (ask[e] # 0 \/ lane[e].owed # 0)
        /\ owed # 0 => "vic" \in Engines /\ 0 < ask["vic"] /\ ask["vic"] < owed
        /\ lift => pending_.merge
        /\ lane' = [e \in Engines |->
                        Through(e, ask[e], IF e = "vic" THEN owed ELSE 0, asks[e], taken[e])]
        /\ CpuAfter(lift)
    /\ Close(UNION {DoneIn(lane[e]) : e \in Engines})
    /\ last_frame_' = IF pending_ = NoPlan THEN last_frame_ ELSE pending_.seq
    /\ thread' = "poll"
    /\ UNCHANGED <<composer, revents, dead_, signaled>>

-----------------------------------------------------------------------------
\* An engine finishes a work; a timer falls due; a fence outlives the patience.
WorkEnds(f) ==
    /\ f <= reports /\ f \notin signaled /\ signaled' = signaled \union {f}
    /\ UNCHANGED <<mailbox, composer, own, closed>>

HoldEnds(e) ==
    /\ lane[e].release = "running" /\ lane' = [lane EXCEPT ![e].release = "due"]
    /\ UNCHANGED <<mailbox, composer, thread, revents, cpu_until_ns_, lifted_, last_frame_,
                   dead_, signaled, closed>>

OrphanEnds(e) ==
    /\ lane[e].orphan = "running" /\ lane' = [lane EXCEPT ![e].orphan = "due"]
    /\ UNCHANGED <<mailbox, composer, thread, revents, cpu_until_ns_, lifted_, last_frame_,
                   dead_, signaled, closed>>

PatienceEnds(e) ==
    \E f \in lane[e].watched \ lane[e].late :
        /\ lane' = [lane EXCEPT ![e].late = @ \union {f}]
        /\ UNCHANGED <<mailbox, composer, thread, revents, cpu_until_ns_, lifted_, last_frame_,
                       dead_, signaled, closed>>

CpuTimeEnds ==
    /\ cpu_until_ns_ = "running" /\ cpu_until_ns_' = "due"
    /\ UNCHANGED <<mailbox, composer, thread, revents, lane, lifted_, last_frame_, dead_,
                   signaled, closed>>

ThreadNext == PollReturns \/ DarkRound \/ LitRound

Clock == \E e \in Engines : HoldEnds(e) \/ OrphanEnds(e) \/ PatienceEnds(e)

Next ==
    \/ \E merge \in BOOLEAN : FramePlanned(merge)
    \/ GpuPlanned
    \/ \E e \in Engines, copied \in BOOLEAN : Submitted(e, copied)
    \/ \E mode \in {"on", "off"} : PowerMode(mode)
    \/ Stop \/ Ring \/ Destroy
    \/ ThreadNext \/ PollFails
    \/ \E f \in Fences : WorkEnds(f)
    \/ Clock \/ CpuTimeEnds

Spec == Init /\ [][Next]_vars

\* A call goes on to its ring and the thread runs (SCHED_FIFO).  No engine is
\* obliged to finish, and nobody to plan, report or stop.
PromptSpec == Spec /\ WF_vars(Ring) /\ WF_vars(ThreadNext)

\* Time passes as well, so that every timer set falls due.
TimePasses ==
    /\ WF_vars(CpuTimeEnds)
    /\ \A e \in Engines :
        WF_vars(HoldEnds(e)) /\ WF_vars(OrphanEnds(e)) /\ WF_vars(PatienceEnds(e))

-----------------------------------------------------------------------------
TypeOK ==
    /\ pending_.seq \in 0..MaxSeq /\ gpu_pending_.seq \in 0..MaxSeq
    /\ thread \in {"poll", "round", "exited"} /\ revents \subseteq Fences
    /\ cpu_until_ns_ \in Timers /\ {lifted_, dead_, rung, ringing, stop_} \subseteq BOOLEAN
    /\ \A e \in Engines :
        /\ lane[e].floor \in 0..Levels /\ lane[e].owed \in 0..Levels
        /\ {lane[e].release, lane[e].orphan} \subseteq Timers
        /\ lane[e].late \subseteq lane[e].watched /\ lane[e].watched \subseteq Fences

\* A descriptor handed to the governor is closed once and only once: by the round
\* that takes it in the dark, by the watch, at the door of a dead governor, or by
\* the mailbox on the way out; none is left once the governor is destroyed.
FencesClosedOnce ==
    /\ \A f \in Fences : closed[f] <= 1
    /\ \A f \in Watched \union FencesIn(submitted_) : closed[f] = 0
    /\ destroyed /\ ~CopyFails => \A f \in 1..reports : closed[f] = 1

\* A floor standing while the thread sleeps is waited out by something: a fence,
\* the hold or the orphan timer (FloorLane).  Otherwise it stands for ever.
FloorIsWaitedOut ==
    \A e \in Engines :
        thread = "poll" /\ lane[e].floor # 0 =>
            \/ lane[e].watched # {}
            \/ lane[e].release # "off" \/ lane[e].orphan # "off"

\* A floor is not let go under work that is reported and neither done nor given
\* up, unless the display goes dark or the governor ends.
FloorOutlivesWork ==
    [][\A e \in Engines :
        lane[e].floor # 0 /\ lane[e].watched \ (revents \union lane[e].late) # {} /\ ~WriteFails
            => lane'[e].floor # 0 \/ power_ # "on" \/ stop_ \/ dead_']_vars

\* Every floor goes at last: "a merge the engine never finishes is not a reason to
\* hold the clock forever" (FenceWatch.h).
FloorGoesAtLast ==
    TimePasses => \A e \in Engines : lane[e].floor # 0 ~> lane[e].floor = 0

\* What is left in the mailbox reaches the thread, though the descriptor is rung
\* after the lock and drained under it: a display going dark drops every floor at
\* once, with no timer's help.
DarkDropsAll ==
    power_ = "off" ~> power_ = "on" \/ (lifted_ = FALSE /\ \A e \in Engines : lane[e].floor = 0)

\* hwc_governor_destroy is "synchronous: stops and joins": the thread ends.
ThreadEnds == stop_ ~> thread = "exited"
=============================================================================
