--------------------------- MODULE GovernorProofs ---------------------------
(***************************************************************************)
(* The safety of Governor for one engine or both, any number of frames,    *)
(* works, clock steps and changes of power.  That every descriptor is      *)
(* closed once rests on its being in one place at a time (OnePlace): the   *)
(* mailbox, the watch of one lane, or closed.  That a floor is waited out  *)
(* is an invariant of each lane by itself (Waited), as every function of   *)
(* FloorLane keeps it, provided that a work reported brings a fence.       *)
(***************************************************************************)
EXTENDS Governor, WellFoundedInduction, TLAPS

Lane ==
    [floor : Nat, owed : Nat, release : Timers, orphan : Timers,
     watched : SUBSET Fences, late : SUBSET Fences, latest : 0..MaxSeq]

Work == [fence : 0..MaxFences, seq : 0..MaxSeq]

\* The fences of the works one engine was reported.
Mailed(e) == {w.fence : w \in submitted_[e]} \ {0}

Typed ==
    /\ submitted_ \in [Engines -> SUBSET Work] /\ lane \in [Engines -> Lane]
    /\ seq \in 0..MaxSeq /\ reports \in 0..MaxFences
    /\ revents \in SUBSET Fences /\ closed \in [Fences -> Nat]
    /\ ~CopyFails => \A e \in Engines : \A w \in submitted_[e] : w.fence # 0

\* A descriptor is in one place at most: under one engine in the mailbox, in the
\* watch of one lane, or closed; and one not made yet is nowhere.
OnePlace ==
    /\ \A d, e \in Engines :
        /\ lane[d].watched \intersect Mailed(e) = {}
        /\ d # e => lane[d].watched \intersect lane[e].watched = {}
        /\ d # e => Mailed(d) \intersect Mailed(e) = {}
    /\ \A e \in Engines : \A f \in lane[e].watched \union Mailed(e) :
        f \in 1..reports /\ closed[f] = 0
    /\ \A f \in Fences : closed[f] <= 1 /\ (f > reports => closed[f] = 0)

\* None is lost on the way, nor left behind.
NoneLost ==
    /\ ~CopyFails => \A f \in 1..reports :
        closed[f] = 1 \/ \E e \in Engines : f \in lane[e].watched \union Mailed(e)
    /\ thread = "exited" => \A e \in Engines : lane[e].watched = {}
    /\ destroyed => stop_ /\ thread = "exited" /\ \A e \in Engines : submitted_[e] = {}

\* A floor is held for a fence or by a timer, whatever the thread is at.
Waited(l) == l.floor # 0 => l.watched # {} \/ l.release # "off" \/ l.orphan # "off"

FloorsWaited == ~CopyFails => \A e \in Engines : Waited(lane[e])

IInv == Typed /\ OnePlace /\ NoneLost /\ FloorsWaited

-----------------------------------------------------------------------------
\* The greatest of some frames is one of them.
LEMMA MaxIsOne ==
  ASSUME NEW n \in Nat, NEW S \in SUBSET (0..n), S # {}
  PROVE  Max(S) \in S
<1> DEFINE T == {n - s : s \in S}
<1>1. T \in SUBSET Nat /\ T # {}
  <2>1. \A s \in S : n - s \in Nat
    OBVIOUS
  <2>2. PICK s \in S : TRUE
    OBVIOUS
  <2> QED
    BY <2>1, <2>2
<1>2. IsWellFoundedOn(OpToRel(<, Nat), Nat)
  BY NatLessThanWellFounded
<1>3. PICK m \in T : \A t \in T : <<t, m>> \notin OpToRel(<, Nat)
  BY <1>1, <1>2, WFMin
<1>4. PICK x \in S : m = n - x
  BY <1>3
<1>5. \A y \in S : x >= y
  <2> SUFFICES ASSUME NEW y \in S PROVE ~(n - y < n - x)
    BY <1>4
  <2>1. n - y \in T /\ n - y \in Nat /\ m \in Nat
    BY <1>1
  <2> QED
    BY <1>3, <1>4, <2>1 DEF OpToRel
<1> QED
  BY <1>5 DEF Max

\* FloorLane's functions: the watch is touched by Follow alone, a floor falls by
\* ReleaseIfDue or a refusal alone, and each keeps it waited out.
LEMMA SetFloorLane ==
  ASSUME NEW l \in Lane, NEW e, NEW step \in Nat, NEW taken \in BOOLEAN
  PROVE  /\ SetFloor(e, l, step, taken) \in Lane
         /\ SetFloor(e, l, step, taken).watched = l.watched
         /\ SetFloor(e, l, step, taken).late = l.late
         /\ SetFloor(e, l, step, taken).release = l.release
         /\ SetFloor(e, l, step, taken).orphan = l.orphan
         /\ SetFloor(e, l, step, taken).owed = l.owed
         /\ SetFloor(e, l, step, taken).latest = l.latest
         /\ SetFloor(e, l, step, taken).floor =
                IF taken THEN step ELSE IF e = "gpu" THEN 0 ELSE l.floor
  BY DEF SetFloor, Lane

LEMMA ReportedLane ==
  ASSUME NEW l \in Lane, NEW e, NEW taken \in BOOLEAN
  PROVE  /\ Reported(e, l, taken) \in Lane
         /\ Reported(e, l, taken).watched = l.watched
         /\ Reported(e, l, taken).late = l.late
         /\ taken => Reported(e, l, taken).floor >= l.floor
<1> DEFINE quiet == [l EXCEPT !.orphan = "off", !.owed = 0]
<1>1. /\ quiet \in Lane /\ quiet.watched = l.watched /\ quiet.late = l.late
      /\ quiet.floor = l.floor /\ l.owed \in Nat /\ l.floor \in Nat
  BY DEF Lane, Timers
<1> HIDE DEF quiet
<1>2. Reported(e, l, taken) =
        IF l.owed = 0 \/ l.owed <= l.floor THEN quiet ELSE SetFloor(e, quiet, l.owed, taken)
  BY DEF Reported, quiet
<1> QED
  BY <1>1, <1>2, SetFloorLane

LEMMA FollowLane ==
  ASSUME NEW l \in Lane, NEW works \in SUBSET Work
  PROVE  /\ Follow(l, works) \in Lane
         /\ Follow(l, works).watched =
                (l.watched \ DoneIn(l)) \union ({w.fence : w \in works} \ {0})
         /\ Follow(l, works).floor = l.floor
         /\ (works = {} /\ Waited(l)) \/ (\E w \in works : w.fence # 0) => Waited(Follow(l, works))
<1> DEFINE kept == (l.watched \ DoneIn(l)) \union ({w.fence : w \in works} \ {0})
           latest == Max({l.latest} \union {w.seq : w \in works})
           release == IF DoneIn(l) # {} /\ kept = {} /\ l.floor # 0 /\ l.orphan = "off"
                      THEN "running" ELSE l.release
           new == [l EXCEPT !.watched = kept, !.late = l.late \ DoneIn(l), !.latest = latest,
                            !.release = release]
<1>1. kept \in SUBSET Fences
  BY DEF Lane, Work, Fences
<1>2. latest \in 0..MaxSeq
  <2>1. {l.latest} \union {w.seq : w \in works} \in SUBSET (0..MaxSeq)
    BY DEF Lane, Work
  <2> HIDE DEF latest
  <2>2. MaxSeq \in Nat
    BY GovernorAssumption
  <2>3. Max({l.latest} \union {w.seq : w \in works}) \in {l.latest} \union {w.seq : w \in works}
    BY <2>1, <2>2, MaxIsOne
  <2> QED
    BY <2>1, <2>3 DEF latest
<1>3. release \in Timers
  BY DEF Lane, Timers
<1>4. new = Follow(l, works)
  BY DEF Follow
<1> HIDE DEF kept, latest, release
<1>5. /\ new \in Lane /\ new.watched = kept /\ new.floor = l.floor /\ new.release = release
      /\ new.orphan = l.orphan
  BY <1>1, <1>2, <1>3 DEF Lane
<1> HIDE DEF new
<1>6. ASSUME works = {}, Waited(l) PROVE Waited(new)
  <2>1. kept = l.watched \ DoneIn(l)
    BY <1>6 DEF kept
  <2>2. release = IF DoneIn(l) # {} /\ kept = {} /\ l.floor # 0 /\ l.orphan = "off"
                  THEN "running" ELSE l.release
    BY DEF release
  <2> QED
    BY <1>5, <1>6, <2>1, <2>2 DEF Waited
<1>7. ASSUME NEW w \in works, w.fence # 0 PROVE Waited(new)
  <2>1. w.fence \in kept
    BY <1>7 DEF kept
  <2> QED
    BY <1>5, <2>1 DEF Waited
<1> QED
  BY <1>4, <1>5, <1>6, <1>7 DEF kept

LEMMA AskLane ==
  ASSUME NEW l \in Lane, NEW e, NEW step \in Nat, NEW owed \in Nat, NEW reported \in BOOLEAN,
         NEW asks \in BOOLEAN, NEW taken \in BOOLEAN
  PROVE  /\ Ask(e, l, step, owed, reported, asks, taken) \in Lane
         /\ Ask(e, l, step, owed, reported, asks, taken).watched = l.watched
         /\ taken => Ask(e, l, step, owed, reported, asks, taken).floor >= l.floor
         /\ Waited(Ask(e, l, step, owed, reported, asks, taken))
<1> DEFINE raises == asks /\ step > l.floor
           set == IF raises THEN SetFloor(e, l, step, taken) ELSE l
           asked == [set EXCEPT !.owed = owed]
           new == Ask(e, l, step, owed, reported, asks, taken)
<1>1. /\ set \in Lane /\ set.watched = l.watched /\ l.floor \in Nat
      /\ taken => set.floor >= l.floor
  BY SetFloorLane DEF Lane
<1> HIDE DEF set
<1>2. /\ asked \in Lane /\ asked.watched = l.watched /\ asked.floor = set.floor
  BY <1>1 DEF Lane
<1>3. new = IF ~(raises /\ taken) /\ asked.floor = 0 THEN asked
            ELSE IF reported
            THEN [asked EXCEPT !.orphan = "off",
                               !.release = IF l.watched = {} THEN "running" ELSE "off"]
            ELSE [asked EXCEPT !.orphan = "running", !.release = "off"]
  BY DEF Ask, set
<1> HIDE DEF asked, raises, new
<1>4. /\ new \in Lane /\ new.watched = asked.watched /\ new.floor = asked.floor
      /\ new.floor = 0 \/ new.watched # {} \/ new.release = "running" \/ new.orphan = "running"
  BY <1>2, <1>3 DEF Lane, Timers
<1>5. Waited(new)
  BY <1>4 DEF Waited
<1> QED
  BY <1>1, <1>2, <1>4, <1>5 DEF new

LEMMA ReleaseLane ==
  ASSUME NEW l \in Lane
  PROVE  /\ ReleaseIfDue(l) \in Lane /\ ReleaseIfDue(l).watched = l.watched
         /\ l.watched # {} => ReleaseIfDue(l) = l
         /\ Waited(l) => Waited(ReleaseIfDue(l))
<1> DEFINE gone == [l EXCEPT !.floor = 0, !.owed = 0, !.release = "off", !.orphan = "off"]
<1>1. gone \in Lane /\ gone.watched = l.watched /\ gone.floor = 0
  BY DEF Lane, Timers
<1>2. ReleaseIfDue(l) = l \/ (ReleaseIfDue(l) = gone /\ l.watched = {})
  BY DEF ReleaseIfDue
<1> QED
  BY <1>1, <1>2 DEF Waited

LEMMA DropLane ==
  ASSUME NEW l \in Lane
  PROVE  DropAll(l) \in Lane /\ DropAll(l).watched = {} /\ DropAll(l).floor = 0
  BY DEF DropAll, IdleLane, Lane, Timers

-----------------------------------------------------------------------------
\* What a lane is after a round in the light: the fences due are done with, the
\* works taken from the mailbox are watched, and the floor stays waited out.
LEMMA ThroughLane ==
  ASSUME IInv, NEW e \in Engines, NEW ask \in Nat, NEW owed \in Nat,
         NEW asks \in BOOLEAN, NEW taken \in BOOLEAN
  PROVE  /\ Through(e, ask, owed, asks, taken) \in Lane
         /\ Through(e, ask, owed, asks, taken).watched =
                (lane[e].watched \ DoneIn(lane[e])) \union Mailed(e)
         /\ ~CopyFails => Waited(Through(e, ask, owed, asks, taken))
         /\ taken /\ lane[e].floor # 0 /\ lane[e].watched \ DoneIn(lane[e]) # {}
                => Through(e, ask, owed, asks, taken).floor # 0
<1> DEFINE works == submitted_[e]
           reported == IF works = {} THEN lane[e] ELSE Reported(e, lane[e], taken)
           followed == Follow(reported, works)
           plan == PlanFor(e)
           met == followed.latest >= plan.seq
           due == IF met THEN 0 ELSE owed
           asked == IF ~plan.merge \/ ask = 0 THEN followed
                    ELSE Ask(e, followed, ask, due, met, asks, taken)
<1>1. /\ lane[e] \in Lane /\ works \in SUBSET Work /\ lane[e].floor \in Nat
      /\ Mailed(e) = {w.fence : w \in works} \ {0}
      /\ ~CopyFails => Waited(lane[e]) /\ \A w \in works : w.fence # 0
  BY DEF IInv, Typed, FloorsWaited, Mailed, Lane
<1>2. Through(e, ask, owed, asks, taken) = ReleaseIfDue(asked)
  BY DEF Through
<1>3. /\ reported \in Lane /\ reported.watched = lane[e].watched
      /\ reported.late = lane[e].late /\ (works = {} => reported = lane[e])
      /\ taken => reported.floor >= lane[e].floor
  BY <1>1, ReportedLane
<1> HIDE DEF works, reported
<1>4. /\ followed \in Lane /\ followed.floor = reported.floor
      /\ followed.watched = (lane[e].watched \ DoneIn(lane[e])) \union Mailed(e)
      /\ ~CopyFails => Waited(followed)
  <2>1. DoneIn(reported) = DoneIn(lane[e])
    BY <1>3 DEF DoneIn
  <2>2. ~CopyFails => (works = {} /\ Waited(reported)) \/ (\E w \in works : w.fence # 0)
    BY <1>1, <1>3
  <2> QED
    BY <1>1, <1>3, <2>1, <2>2, FollowLane
<1> HIDE DEF followed, plan
<1>5. /\ asked \in Lane /\ asked.watched = followed.watched
      /\ ~CopyFails => Waited(asked)
      /\ taken => asked.floor >= followed.floor
  <2>1. followed.floor \in Nat /\ met \in BOOLEAN /\ due \in Nat
    BY <1>4 DEF Lane
  <2> HIDE DEF met, due
  <2>2. CASE ~plan.merge \/ ask = 0
    BY <1>4, <2>1, <2>2
  <2>3. CASE ~(~plan.merge \/ ask = 0)
    <3>1. asked = Ask(e, followed, ask, due, met, asks, taken)
      BY <2>3
    <3> QED
      BY <1>4, <2>1, <3>1, AskLane
  <2> QED
    BY <2>2, <2>3
<1> HIDE DEF asked
<1>6. /\ ReleaseIfDue(asked) \in Lane /\ ReleaseIfDue(asked).watched = asked.watched
      /\ asked.watched # {} => ReleaseIfDue(asked) = asked
      /\ Waited(asked) => Waited(ReleaseIfDue(asked))
  BY <1>5, ReleaseLane
<1>7. ASSUME taken, lane[e].floor # 0, lane[e].watched \ DoneIn(lane[e]) # {}
      PROVE  ReleaseIfDue(asked).floor # 0
  <2>1. ReleaseIfDue(asked) = asked
    BY <1>4, <1>5, <1>6, <1>7
  <2>2. /\ reported.floor \in Nat /\ asked.floor \in Nat
        /\ asked.floor >= reported.floor /\ reported.floor >= lane[e].floor
    BY <1>3, <1>4, <1>5, <1>7 DEF Lane
  <2> QED
    BY <1>1, <1>7, <2>1, <2>2
<1> QED
  BY <1>2, <1>4, <1>5, <1>6, <1>7

LEMMA InitIInv == Init => IInv
<1> SUFFICES ASSUME Init PROVE IInv
  OBVIOUS
<1>1. IdleLane \in Lane /\ IdleLane.watched = {} /\ IdleLane.floor = 0
  BY GovernorAssumption DEF IdleLane, Lane, Timers
<1>2. Typed
  BY <1>1, GovernorAssumption DEF Init, Typed
<1>3. \A e \in Engines : lane[e].watched = {} /\ lane[e].floor = 0 /\ Mailed(e) = {}
  BY <1>1 DEF Init, Mailed
<1>4. OnePlace /\ NoneLost /\ FloorsWaited
  BY <1>3 DEF Init, OnePlace, NoneLost, FloorsWaited, Waited
<1> QED
  BY <1>2, <1>4 DEF IInv

\* Plans, power, rings, stops, timers and finished works touch no descriptor and
\* no floor: what lanes, mail and closings are left alone keeps the invariant.
LEMMA UntouchedIInv ==
  ASSUME IInv, UNCHANGED <<submitted_, reports, closed>>, lane' \in [Engines -> Lane],
         \A e \in Engines : lane'[e].watched = lane[e].watched /\ (Waited(lane[e]) => Waited(lane'[e])),
         seq' \in 0..MaxSeq, revents' \in SUBSET Fences,
         thread' # thread => thread' # "exited",
         destroyed' = destroyed /\ (stop_ => stop_'), thread = "exited" => thread' = thread
  PROVE  IInv'
<1>1. Typed'
  BY DEF IInv, Typed
<1>2. OnePlace'
  BY DEF IInv, OnePlace, Mailed
<1>3. NoneLost'
  BY DEF IInv, NoneLost, Mailed
<1>4. FloorsWaited'
  BY DEF IInv, FloorsWaited
<1> QED
  BY <1>1, <1>2, <1>3, <1>4 DEF IInv

\* The steps that leave the lanes alone.
LEMMA PlansIInv ==
  ASSUME IInv,
         \/ \E merge \in BOOLEAN : FramePlanned(merge)
         \/ GpuPlanned \/ (\E mode \in {"on", "off"} : PowerMode(mode)) \/ Stop \/ Ring
         \/ PollReturns \/ (\E f \in Fences : WorkEnds(f)) \/ CpuTimeEnds \/ UNCHANGED vars
  PROVE  IInv'
<1> USE DEF own, composer, mailbox, vars
<1>1. UNCHANGED <<submitted_, reports, closed, lane, destroyed>>
  BY DEF FramePlanned, GpuPlanned, PowerMode, Stop, Ring, PollReturns, WorkEnds, CpuTimeEnds
<1>2. seq' \in 0..MaxSeq
  BY GovernorAssumption DEF IInv, Typed, FramePlanned, GpuPlanned, PowerMode, Stop, Ring,
        PollReturns, WorkEnds, CpuTimeEnds
<1>3. \/ UNCHANGED <<revents, thread>>
      \/ thread = "poll" /\ thread' = "round" /\ revents' = Watched \intersect signaled
  BY DEF FramePlanned, GpuPlanned, PowerMode, Stop, Ring, PollReturns, WorkEnds, CpuTimeEnds
<1>4. lane \in [Engines -> Lane] /\ revents \in SUBSET Fences
  BY DEF IInv, Typed
<1>5. Watched \in SUBSET Fences
  BY <1>4 DEF Watched, Lane
<1>6. stop_ => stop_'
  BY DEF FramePlanned, GpuPlanned, PowerMode, Stop, Ring, PollReturns, WorkEnds, CpuTimeEnds
<1> QED
  BY <1>1, <1>2, <1>3, <1>4, <1>5, <1>6, UntouchedIInv

\* A timer falls due, or a fence outlives the patience.
LEMMA ClockIInv ==
  ASSUME IInv, Clock
  PROVE  IInv'
<1> PICK e \in Engines : HoldEnds(e) \/ OrphanEnds(e) \/ PatienceEnds(e)
  BY DEF Clock
<1>1. lane \in [Engines -> Lane] /\ seq \in 0..MaxSeq /\ revents \in SUBSET Fences
  BY DEF IInv, Typed
<1>2. UNCHANGED <<submitted_, reports, closed, seq, revents, thread, destroyed, stop_>>
  BY DEF HoldEnds, OrphanEnds, PatienceEnds, mailbox, composer
<1>3. /\ lane' \in [Engines -> Lane]
      /\ \A d \in Engines : /\ lane'[d].watched = lane[d].watched
                            /\ Waited(lane[d]) => Waited(lane'[d])
  <2>1. CASE HoldEnds(e)
    BY <1>1, <2>1 DEF HoldEnds, Lane, Timers, Waited
  <2>2. CASE OrphanEnds(e)
    BY <1>1, <2>2 DEF OrphanEnds, Lane, Timers, Waited
  <2>3. CASE PatienceEnds(e)
    BY <1>1, <2>3 DEF PatienceEnds, Lane, Timers, Waited
  <2> QED
    BY <2>1, <2>2, <2>3
<1> QED
  BY <1>1, <1>2, <1>3, UntouchedIInv

\* A work reported: its descriptor is new, and left in the mailbox unless the
\* governor is dead, which closes it at the door.
LEMMA SubmittedIInv ==
  ASSUME IInv, NEW e \in Engines, NEW copied \in BOOLEAN, Submitted(e, copied)
  PROVE  IInv'
<1> DEFINE fence == IF copied THEN reports + 1 ELSE 0
           work == [fence |-> fence, seq |-> seq]
<1>1. /\ Typed /\ OnePlace /\ NoneLost /\ FloorsWaited
      /\ reports \in Nat /\ MaxFences \in Nat /\ MaxSeq \in Nat /\ seq \in 0..MaxSeq
      /\ reports' = reports + 1 /\ reports' \in 1..MaxFences
      /\ ~stop_ /\ (~CopyFails => copied)
      /\ UNCHANGED <<lane, seq, revents, thread, destroyed, stop_>>
  BY GovernorAssumption DEF IInv, Typed, Submitted, Free, own
<1>2. work \in Work /\ (~CopyFails => work.fence # 0) /\ fence \in 0..MaxFences
  BY <1>1 DEF Work
<1>3. \A f \in 1..reports' : f = reports' \/ f \in 1..reports
  BY <1>1
<1>4. \A d \in Engines : reports' \notin lane[d].watched \union Mailed(d)
  BY <1>1 DEF OnePlace
<1>5. reports' \in Fences /\ closed[reports'] = 0
  BY <1>1 DEF OnePlace, Fences
<1>6. CASE dead_
  <2>1. /\ closed' = [f \in Fences |-> closed[f] + IF f \in {fence} \ {0} THEN 1 ELSE 0]
        /\ submitted_' = submitted_
    BY <1>1, <1>6 DEF Submitted, Close
  <2>2. /\ \A f \in Fences : f # reports' => closed'[f] = closed[f]
        /\ closed'[reports'] = IF copied THEN 1 ELSE 0
    BY <1>1, <1>5, <2>1 DEF Typed
  <2>3. closed' \in [Fences -> Nat]
    BY <1>1, <2>1 DEF Typed
  <2>4. Typed'
    BY <1>1, <2>1, <2>3 DEF Typed
  <2>5. OnePlace'
    <3>1. \A d \in Engines : Mailed(d)' = Mailed(d)
      BY <2>1 DEF Mailed
    <3>2. \A d \in Engines : \A f \in lane[d].watched \union Mailed(d) :
            f \in 1..reports' /\ closed'[f] = 0
      BY <1>1, <1>4, <2>2 DEF OnePlace, Fences
    <3>3. \A f \in Fences : closed'[f] <= 1 /\ (f > reports' => closed'[f] = 0)
      BY <1>1, <2>2 DEF OnePlace, Fences
    <3> QED
      BY <1>1, <3>1, <3>2, <3>3 DEF OnePlace
  <2>6. NoneLost'
    <3>1. \A d \in Engines : Mailed(d)' = Mailed(d)
      BY <2>1 DEF Mailed
    <3>2. \A f \in 1..reports : f # reports' /\ f \in Fences
      BY <1>1 DEF Fences
    <3>3. ~CopyFails => \A f \in 1..reports' :
            closed'[f] = 1 \/ \E d \in Engines : f \in lane[d].watched \union Mailed(d)
      BY <1>1, <1>3, <2>2, <3>2 DEF NoneLost
    <3> QED
      BY <1>1, <2>1, <3>1, <3>3 DEF NoneLost
  <2> QED
    BY <1>1, <2>4, <2>5, <2>6 DEF IInv, FloorsWaited
<1>7. CASE ~dead_
  <2>1. /\ submitted_' = [submitted_ EXCEPT ![e] = @ \union {work}]
        /\ closed' = closed
    BY <1>1, <1>7 DEF Submitted
  <2>2. /\ submitted_'[e] = submitted_[e] \union {work}
        /\ \A d \in Engines : d # e => submitted_'[d] = submitted_[d]
        /\ submitted_' \in [Engines -> SUBSET Work]
    BY <1>1, <1>2, <2>1 DEF Typed
  <2>3. /\ \A d \in Engines : d # e => Mailed(d)' = Mailed(d)
        /\ Mailed(e)' = Mailed(e) \union ({fence} \ {0})
    <3>1. work.fence = fence
      OBVIOUS
    <3> HIDE DEF work, fence
    <3> QED
      BY <2>2, <3>1 DEF Mailed
  <2>4. Typed'
    BY <1>1, <1>2, <2>1, <2>2 DEF Typed
  <2>5. OnePlace'
    <3>1. \A d \in Engines : \A f \in Mailed(d)' : f \in Mailed(d) \/ (d = e /\ f = reports')
      BY <1>1, <2>3
    <3>2. \A d \in Engines : \A f \in lane[d].watched \union Mailed(d)' :
            f \in 1..reports' /\ closed[f] = 0
      BY <1>1, <1>5, <3>1 DEF OnePlace
    <3>3. \A c, d \in Engines : /\ lane[c].watched \intersect Mailed(d)' = {}
                                /\ c # d => Mailed(c)' \intersect Mailed(d)' = {}
      BY <1>1, <1>4, <3>1 DEF OnePlace
    <3>4. \A f \in Fences : closed[f] <= 1 /\ (f > reports' => closed[f] = 0)
      BY <1>1 DEF OnePlace, Fences
    <3> QED
      BY <1>1, <2>1, <3>2, <3>3, <3>4 DEF OnePlace
  <2>6. NoneLost'
    <3>1. ~CopyFails => \A f \in 1..reports' :
            closed[f] = 1 \/ \E d \in Engines : f \in lane[d].watched \union Mailed(d)'
      BY <1>1, <1>3, <2>3 DEF NoneLost
    <3> QED
      BY <1>1, <2>1, <3>1 DEF NoneLost
  <2> QED
    BY <1>1, <2>4, <2>5, <2>6 DEF IInv, FloorsWaited
<1> QED
  BY <1>6, <1>7

\* What a step does that closes descriptors: those of a lane or of the mailbox go
\* on being watched, or are closed, and no others are.
LEMMA ClosingIInv ==
  ASSUME IInv, NEW gone \in SUBSET Fences, Close(gone),
         \A f \in gone : \E e \in Engines : f \in lane[e].watched \union Mailed(e),
         lane' \in [Engines -> Lane],
         \/ submitted_' = [e \in Engines |-> {}]
         \/ submitted_' = submitted_ /\ \A e \in Engines : lane'[e].watched \subseteq lane[e].watched,
         \A e \in Engines :
            /\ lane'[e].watched \union Mailed(e)' = (lane[e].watched \union Mailed(e)) \ gone
            /\ Waited(lane[e]) /\ ~CopyFails => Waited(lane'[e]),
         UNCHANGED <<reports, seq, revents>>,
         thread' = "exited" => \A e \in Engines : lane'[e].watched = {},
         destroyed' => stop_' /\ thread' = "exited" /\ \A e \in Engines : submitted_'[e] = {}
  PROVE  IInv'
<1>1. /\ Typed /\ OnePlace /\ NoneLost /\ FloorsWaited
      /\ closed' = [f \in Fences |-> closed[f] + IF f \in gone THEN 1 ELSE 0]
  BY DEF IInv, Close
<1>2. \A f \in gone : closed[f] = 0 /\ f \in 1..reports
  BY <1>1 DEF OnePlace
<1>3. \A f \in Fences : /\ f \in gone => closed'[f] = 1
                        /\ f \notin gone => closed'[f] = closed[f]
  BY <1>1, <1>2 DEF Typed
<1>4. closed' \in [Fences -> Nat]
  BY <1>1 DEF Typed
<1>5. submitted_' \in [Engines -> SUBSET Work]
  BY <1>1 DEF Typed
<1>6. Typed'
  BY <1>1, <1>4, <1>5 DEF Typed
<1>7. OnePlace'
  <2>1. \A e \in Engines : \A f \in lane'[e].watched \union Mailed(e)' :
          f \in lane[e].watched \union Mailed(e) /\ f \notin gone
    OBVIOUS
  <2>2. \A e \in Engines : \A f \in lane'[e].watched \union Mailed(e)' :
          f \in 1..reports /\ f \in Fences /\ closed'[f] = 0
    <3>1. 1..reports \subseteq Fences
      BY <1>1, GovernorAssumption DEF Typed, Fences
    <3> QED
      BY <1>1, <1>3, <2>1, <3>1 DEF OnePlace
  <2>3. \A d, e \in Engines :
          d # e => (lane'[d].watched \union Mailed(d)') \intersect (lane'[e].watched \union Mailed(e)') = {}
    BY <1>1, <2>1 DEF OnePlace
  <2>4. \A e \in Engines : lane'[e].watched \intersect Mailed(e)' = {}
    <3> SUFFICES ASSUME NEW e \in Engines PROVE lane'[e].watched \intersect Mailed(e)' = {}
      OBVIOUS
    <3>1. CASE submitted_' = submitted_ /\ lane'[e].watched \subseteq lane[e].watched
      BY <1>1, <3>1 DEF OnePlace, Mailed
    <3>2. CASE submitted_' = [d \in Engines |-> {}]
      BY <3>2 DEF Mailed
    <3> QED
      BY <3>1, <3>2
  <2>5. \A f \in Fences : closed'[f] <= 1 /\ (f > reports => closed'[f] = 0)
    <3>1. reports \in Nat /\ \A f \in gone : ~(f > reports)
      BY <1>1, <1>2 DEF Typed
    <3> QED
      BY <1>1, <1>3, <3>1 DEF OnePlace
  <2> QED
    BY <2>2, <2>3, <2>4, <2>5 DEF OnePlace
<1>8. NoneLost'
  <2>1. 1..reports \subseteq Fences
    BY <1>1, GovernorAssumption DEF Typed, Fences
  <2>2. ~CopyFails => \A f \in 1..reports :
          closed'[f] = 1 \/ \E e \in Engines : f \in lane'[e].watched \union Mailed(e)'
    BY <1>1, <1>3, <2>1 DEF NoneLost
  <2> QED
    BY <2>2 DEF NoneLost
<1>9. FloorsWaited'
  BY <1>1 DEF FloorsWaited
<1> QED
  BY <1>6, <1>7, <1>8, <1>9 DEF IInv

\* What is watched or left in the mailbox, over the engines.
LEMMA Places ==
  ASSUME IInv
  PROVE  /\ Watched \in SUBSET Fences /\ FencesIn(submitted_) \in SUBSET Fences
         /\ \A f : f \in Watched <=> \E e \in Engines : f \in lane[e].watched
         /\ \A f : f \in FencesIn(submitted_) <=> \E e \in Engines : f \in Mailed(e)
<1>1. \A e \in Engines : lane[e].watched \in SUBSET Fences /\ Mailed(e) \in SUBSET Fences
  BY DEF IInv, Typed, Lane, Work, Mailed, Fences
<1>2. \A f : f \in Watched <=> \E e \in Engines : f \in lane[e].watched
  BY DEF Watched
<1>3. \A f : f \in FencesIn(submitted_) <=> \E e \in Engines : f \in Mailed(e)
  BY DEF FencesIn, Mailed
<1> QED
  BY <1>1, <1>2, <1>3

\* The way out: the mailbox's fences are closed.
LEMMA DestroyIInv ==
  ASSUME IInv, Destroy
  PROVE  IInv'
<1> DEFINE gone == FencesIn(submitted_)
<1>1. gone \in SUBSET Fences /\ \A f : f \in gone <=> \E e \in Engines : f \in Mailed(e)
  BY Places
<1>2. /\ Close(gone) /\ submitted_' = [e \in Engines |-> {}]
      /\ stop_ /\ thread = "exited"
      /\ UNCHANGED <<reports, seq, revents, lane, stop_, thread>>
  BY DEF Destroy, own, FencesIn
<1>3. \A e \in Engines : lane[e].watched = {} /\ Mailed(e)' = {} /\ submitted_'[e] = {}
  BY <1>2 DEF IInv, NoneLost, Mailed
<1> HIDE DEF gone
<1>4. \A e \in Engines : lane'[e].watched \union Mailed(e)' = (lane[e].watched \union Mailed(e)) \ gone
  BY <1>1, <1>2, <1>3
<1>5. lane' \in [Engines -> Lane]
  BY <1>2 DEF IInv, Typed
<1> QED
  BY <1>1, <1>2, <1>3, <1>4, <1>5, ClosingIInv

\* A poll that fails ends the thread: everything watched is closed.
LEMMA PollFailsIInv ==
  ASSUME IInv, PollFails
  PROVE  IInv'
<1> DEFINE gone == Watched
<1>1. gone \in SUBSET Fences /\ \A f : f \in gone <=> \E e \in Engines : f \in lane[e].watched
  BY Places
<1>2. /\ Close(gone) /\ lane' = [e \in Engines |-> DropAll(lane[e])] /\ thread = "poll"
      /\ UNCHANGED <<submitted_, reports, seq, revents, destroyed, stop_>>
  BY DEF PollFails, mailbox, composer
<1>3. ~destroyed
  BY <1>2 DEF IInv, NoneLost
<1>4. /\ lane' \in [Engines -> Lane]
      /\ \A e \in Engines : lane'[e].watched = {} /\ lane'[e].floor = 0 /\ Mailed(e)' = Mailed(e)
  BY <1>2, DropLane DEF IInv, Typed, Mailed
<1> HIDE DEF gone
<1>5. \A e \in Engines : lane'[e].watched \union Mailed(e)' = (lane[e].watched \union Mailed(e)) \ gone
  <2>1. \A d, e \in Engines : lane[d].watched \intersect Mailed(e) = {}
    BY DEF IInv, OnePlace
  <2> QED
    BY <1>1, <1>4, <2>1
<1>6. \A e \in Engines : Waited(lane'[e])
  BY <1>4 DEF Waited
<1> QED
  BY <1>1, <1>2, <1>3, <1>4, <1>5, <1>6, ClosingIInv

\* Darkness, or the end: what is watched and what was just taken is closed.
LEMMA DarkIInv ==
  ASSUME IInv, DarkRound
  PROVE  IInv'
<1> DEFINE gone == Watched \union FencesIn(submitted_)
<1>1. /\ gone \in SUBSET Fences
      /\ \A f : f \in gone <=> \E e \in Engines : f \in lane[e].watched \union Mailed(e)
  BY Places
<1>2. /\ Close(gone) /\ lane' = [e \in Engines |-> DropAll(lane[e])] /\ thread = "round"
      /\ submitted_' = [e \in Engines |-> {}]
      /\ UNCHANGED <<reports, seq, revents, destroyed, stop_>>
  BY DEF DarkRound, Take, composer
<1>3. ~destroyed
  BY <1>2 DEF IInv, NoneLost
<1>4. /\ lane' \in [Engines -> Lane]
      /\ \A e \in Engines : lane'[e].watched = {} /\ lane'[e].floor = 0 /\ Mailed(e)' = {}
  BY <1>2, DropLane DEF IInv, Typed, Mailed
<1> HIDE DEF gone
<1>5. \A e \in Engines : lane'[e].watched \union Mailed(e)' = (lane[e].watched \union Mailed(e)) \ gone
  BY <1>1, <1>4
<1>6. \A e \in Engines : Waited(lane'[e])
  BY <1>4 DEF Waited
<1> QED
  BY <1>1, <1>2, <1>3, <1>4, <1>5, <1>6, ClosingIInv

\* A round in the light makes of each lane what Through says.
LEMMA LitLanes ==
  ASSUME IInv, LitRound
  PROVE  /\ lane' \in [Engines -> Lane]
         /\ \A e \in Engines :
            /\ lane'[e].watched = (lane[e].watched \ DoneIn(lane[e])) \union Mailed(e)
            /\ ~CopyFails => Waited(lane'[e])
            /\ ~WriteFails /\ lane[e].floor # 0 /\ lane[e].watched \ DoneIn(lane[e]) # {}
                => lane'[e].floor # 0
<1>1. PICK ask \in [Engines -> 0..Levels], owed \in 0..Levels,
           asks \in [Engines -> BOOLEAN], taken \in [Engines -> BOOLEAN] :
        /\ \A e \in Engines : ~taken[e] => WriteFails
        /\ lane' = [e \in Engines |->
                        Through(e, ask[e], IF e = "vic" THEN owed ELSE 0, asks[e], taken[e])]
  BY DEF LitRound
<1>2. ASSUME NEW e \in Engines
      PROVE  /\ lane'[e] \in Lane
             /\ lane'[e].watched = (lane[e].watched \ DoneIn(lane[e])) \union Mailed(e)
             /\ ~CopyFails => Waited(lane'[e])
             /\ ~WriteFails /\ lane[e].floor # 0 /\ lane[e].watched \ DoneIn(lane[e]) # {}
                => lane'[e].floor # 0
  <2> DEFINE due == IF e = "vic" THEN owed ELSE 0
  <2>1. /\ ask[e] \in Nat /\ due \in Nat /\ asks[e] \in BOOLEAN /\ taken[e] \in BOOLEAN
        /\ ~WriteFails => taken[e] /\ lane'[e] = Through(e, ask[e], due, asks[e], taken[e])
    BY <1>1, GovernorAssumption
  <2>2. lane'[e] = Through(e, ask[e], due, asks[e], taken[e])
    BY <1>1
  <2> HIDE DEF due
  <2> QED
    BY <2>1, <2>2, ThroughLane
<1>3. lane' = [e \in Engines |-> lane'[e]]
  BY <1>1
<1> QED
  BY <1>2, <1>3

\* A round in the light: what is due is closed, what was taken is watched.
LEMMA LitIInv ==
  ASSUME IInv, LitRound
  PROVE  IInv'
<1> DEFINE gone == UNION {DoneIn(lane[e]) : e \in Engines}
<1>1. /\ Close(gone) /\ submitted_' = [e \in Engines |-> {}]
      /\ thread = "round" /\ thread' = "poll"
      /\ UNCHANGED <<reports, seq, revents, destroyed, stop_>>
  BY DEF LitRound, Take, composer
<1>2. ~destroyed
  BY <1>1 DEF IInv, NoneLost
<1>3. \A f : f \in gone <=> \E e \in Engines : f \in DoneIn(lane[e])
  OBVIOUS
<1>4. \A e \in Engines : DoneIn(lane[e]) \in SUBSET lane[e].watched
  BY DEF DoneIn
<1>5. gone \in SUBSET Fences
  <2>1. \A e \in Engines : lane[e].watched \in SUBSET Fences
    BY DEF IInv, Typed, Lane
  <2> QED
    BY <1>4, <2>1
<1> HIDE DEF gone
<1>6. \A e \in Engines : Mailed(e)' = {}
  BY <1>1 DEF Mailed
<1>7. \A e \in Engines : lane'[e].watched \union Mailed(e)' = (lane[e].watched \union Mailed(e)) \ gone
  <2> SUFFICES ASSUME NEW e \in Engines
               PROVE  (lane[e].watched \ DoneIn(lane[e])) \union Mailed(e)
                        = (lane[e].watched \union Mailed(e)) \ gone
    BY <1>6, LitLanes
  <2>1. \A f \in lane[e].watched : f \in gone <=> f \in DoneIn(lane[e])
    BY <1>3, <1>4 DEF IInv, OnePlace
  <2>2. \A f \in Mailed(e) : f \notin gone
    BY <1>3, <1>4 DEF IInv, OnePlace
  <2> QED
    BY <2>1, <2>2
<1>8. \A f \in gone : \E e \in Engines : f \in lane[e].watched \union Mailed(e)
  BY <1>3, <1>4
<1> QED
  BY <1>1, <1>2, <1>5, <1>7, <1>8, LitLanes, ClosingIInv

LEMMA NextIInv == IInv /\ [Next]_vars => IInv'
  BY PlansIInv, ClockIInv, SubmittedIInv, DestroyIInv, PollFailsIInv, DarkIInv, LitIInv
     DEF Next, ThreadNext

\* For any engines, frames and works: a descriptor is in one place at a time and
\* none is lost, and every lane's floor is waited out, whatever the thread is at.
THEOREM GovernorAgrees == Spec => []IInv
  BY InitIInv, NextIInv, PTL DEF Spec

\* A descriptor handed over is closed once: at the door, by the watch, in the dark
\* or on the way out (Mailbox::Take, Discard, FenceWatch).
THEOREM DescriptorsClosedOnce == Spec => []FencesClosedOnce
<1>1. IInv => FencesClosedOnce
  <2> SUFFICES ASSUME IInv PROVE FencesClosedOnce
    OBVIOUS
  <2>1. \A f \in Watched \union FencesIn(submitted_) : closed[f] = 0
    BY Places DEF IInv, OnePlace
  <2>2. destroyed /\ ~CopyFails => \A f \in 1..reports : closed[f] = 1
    BY DEF IInv, NoneLost, Mailed
  <2> QED
    BY <2>1, <2>2 DEF IInv, OnePlace, FencesClosedOnce
<1> QED
  BY <1>1, GovernorAgrees, PTL

\* Where every work reported brings its fence, a floor that stands while the thread
\* sleeps has a fence or a timer to end it (FloorLane).
THEOREM FloorsAreWaitedOut == Spec => [](~CopyFails => FloorIsWaitedOut)
<1>1. IInv => (~CopyFails => FloorIsWaitedOut)
  BY DEF IInv, FloorsWaited, Waited, FloorIsWaitedOut
<1> QED
  BY <1>1, GovernorAgrees, PTL

\* A floor is not let go under work that is neither done nor given up, but for the
\* dark and the end (FloorLane::ReleaseIfDue, Ask).
THEOREM FloorsOutliveWork == Spec => FloorOutlivesWork
<1> DEFINE Kept == \A e \in Engines :
        lane[e].floor # 0 /\ lane[e].watched \ (revents \union lane[e].late) # {} /\ ~WriteFails
            => lane'[e].floor # 0 \/ power_ # "on" \/ stop_ \/ dead_'
<1>1. ASSUME IInv, [Next]_vars PROVE Kept
  <2>1. CASE LitRound
    <3>1. \A e \in Engines : lane[e].watched \ DoneIn(lane[e])
                                = lane[e].watched \ (revents \union lane[e].late)
      BY DEF DoneIn
    <3> QED
      BY <1>1, <2>1, <3>1, LitLanes
  <2>2. CASE DarkRound
    BY <2>2 DEF DarkRound
  <2>3. CASE PollFails
    BY <2>3 DEF PollFails
  <2>4. CASE Clock
    <3>1. lane \in [Engines -> Lane]
      BY <1>1 DEF IInv, Typed
    <3> QED
      BY <2>4, <3>1 DEF Clock, HoldEnds, OrphanEnds, PatienceEnds, Lane
  <2>5. CASE UNCHANGED lane
    BY <2>5
  <2> QED
    BY <1>1, <2>1, <2>2, <2>3, <2>4, <2>5
       DEF Next, ThreadNext, vars, own, FramePlanned, GpuPlanned, Submitted, PowerMode, Stop,
           Ring, Destroy, PollReturns, WorkEnds, CpuTimeEnds
<1>2. IInv /\ [Next]_vars => [Kept]_vars
  BY <1>1
<1> QED
  BY <1>2, GovernorAgrees, PTL DEF Spec, FloorOutlivesWork

=============================================================================
