---------------------------- MODULE ClocksProofs ----------------------------
(***************************************************************************)
(* What VSyncWorker says of the clock the framework is told, for any       *)
(* periods, any bound on time and any number of calls; and what Colour     *)
(* says of the tint a frame wears, for any boards that keep their claims   *)
(* and any number of calls, taps and frames.                               *)
(*                                                                         *)
(* Each promise of the worker has an inductive invariant of its own and    *)
(* needs none of the others': the source's grant (Paid), the switch the    *)
(* callback is checked against (Wished), the rate asked for (Asked), and   *)
(* that all moments are numbers and all periods periods (Moments).  The    *)
(* colour has one (ColourInv): the matrices are what was asked and chosen, *)
(* and a plan takes the colour there is.                                   *)
(***************************************************************************)
EXTENDS ClocksMC, SequenceTheorems, TLAPS

(***************************************************************************)
(* The clock.                                                              *)
(***************************************************************************)

\* A timeout once paid leaves the grant mistrusted until a blank is seen.
Paid ==
    /\ mReporting \in BOOLEAN /\ mTimedOutWhileGranted \in BOOLEAN
    /\ timeouts = 0 \/ (timeouts = 1 /\ mTimedOutWhileGranted /\ ~mReporting)

\* Only a worker that is wanted gets past ThreadFn's check, and only with one
\* callback at a time.
Wished ==
    /\ late \in {-1, 0, 1}
    /\ enabled_ => late = -1
    /\ fires => pc = "fire"
    /\ late = 1 => ~fires

\* What is expected is what was asked for last, but inside the call that asks.
Asked == caller \notin {"mode", "rate"} => expected_period_ns_ \in {0, wanted}

Moments ==
    /\ vsync_period_ns_ \in Periods /\ expected_period_ns_ \in Periods \union {0}
    /\ wanted \in Periods /\ panel \in Periods
    /\ now \in Int /\ next_blank \in Int /\ wake \in Int /\ timestamp \in Int
    /\ last_timestamp_ \in Int /\ last_present_fence_ \in Int /\ unread.at \in Int

-----------------------------------------------------------------------------
\* The source.

LEMMA InitPaid == Init => Paid
BY DEF Init, Paid

LEMMA NextPaid == Paid /\ [Next]_vars => Paid'
<1> SUFFICES ASSUME Paid, [Next]_vars PROVE Paid'
  OBVIOUS
<1>1. CASE Stop
  BY <1>1 DEF Stop, Paid, histories
<1>2. ASSUME NEW granted \in BOOLEAN, Ask(granted) PROVE Paid'
  <2>1. /\ mReporting' = (mReporting \/ (granted /\ ~mTimedOutWhileGranted))
        /\ UNCHANGED <<mTimedOutWhileGranted, timeouts>>
    BY <1>2 DEF Ask, histories
  <2>2. mReporting' \in BOOLEAN /\ (mTimedOutWhileGranted /\ ~mReporting => ~mReporting')
    BY <2>1, Zenon
  <2> QED
    <3>1. timeouts' = timeouts /\ mTimedOutWhileGranted' = mTimedOutWhileGranted
      BY <2>1
    <3>2. CASE timeouts = 0
      BY <2>2, <3>1, <3>2, Zenon DEF Paid
    <3>3. CASE timeouts = 1 /\ mTimedOutWhileGranted /\ ~mReporting
      BY <2>2, <3>1, <3>3, Zenon DEF Paid
    <3>4. timeouts = 0 \/ (timeouts = 1 /\ mTimedOutWhileGranted /\ ~mReporting)
      BY Zenon DEF Paid
    <3> QED
      BY <3>2, <3>3, <3>4, Zenon
<1>3. CASE BlankSeen
  BY <1>3 DEF BlankSeen, Paid
<1>4. CASE TimedOut
  <2>1. /\ mReporting' = FALSE
        /\ mTimedOutWhileGranted' = (mTimedOutWhileGranted \/ mReporting)
        /\ timeouts' = IF mReporting THEN timeouts + 1 ELSE timeouts
    BY <1>4, Zenon DEF TimedOut
  <2>2. mTimedOutWhileGranted' \in BOOLEAN
    BY <2>1, Zenon DEF Paid
  <2>3. CASE mReporting
    <3>1. timeouts = 0
      BY <2>3, Zenon DEF Paid
    <3>2. timeouts' = 1
      BY <2>1, <2>3, <3>1
    <3> QED
      BY <2>1, <2>2, <2>3, <3>2, Zenon DEF Paid
  <2>4. CASE ~mReporting
    BY <2>1, <2>2, <2>4, Zenon DEF Paid
  <2> QED
    BY <2>3, <2>4
<1>5. CASE UNCHANGED <<mReporting, mTimedOutWhileGranted, timeouts>>
  BY <1>5 DEF Paid
<1>6. CASE Top \/ Relock \/ Woken \/ Report \/ Fire \/ PollFails \/ SetTimer \/ TimerEnds
           \/ WakesByItself \/ CallGoesOn \/ CallerNext \/ Tick \/ UNCHANGED vars
  BY <1>5, <1>6
  DEF Top, Relock, Woken, Report, Fire, PollFails, SetTimer, TimerEnds, WakesByItself, CallGoesOn,
      SetDisplayOn, SetVsyncPeriodNs, ExpectVsyncPeriodNs, UpdateVSyncControl, CallerNext,
      SetTimestampCallback, HeadTurns, SetVsyncTimestampTracking, ModeSet, RateAsked,
      AddLastPresentFence, GetNextVsyncTimestamp, StopThread, Tick, vars, source, histories
<1> QED
  BY <1>1, <1>2, <1>3, <1>4, <1>6 DEF Next, ThreadNext

\* A timeout is paid once, at the moment blanks stop, and not again on every
\* wait after that (TegraVSyncSource::waitForVSync).
THEOREM TimeoutIsPaidOnce == Spec => []TimeoutPaidOnce
<1>1. Paid => TimeoutPaidOnce
  BY DEF Paid, TimeoutPaidOnce
<1> QED
  BY InitPaid, NextPaid, <1>1, PTL DEF Spec

-----------------------------------------------------------------------------
\* The callback.

LEMMA InitWished == Init => Wished
BY DEF Init, Wished

LEMMA NextWished == Wished /\ [Next]_vars => Wished'
<1> SUFFICES ASSUME Wished, [Next]_vars PROVE Wished'
  OBVIOUS
<1>1. CASE UpdateVSyncControl
  <2>1. fires' = fires /\ (fires => pc' = "fire")
    BY <1>1 DEF UpdateVSyncControl, Wished, frame
  <2>2. CASE ShouldEnable
    <3>1. late' = -1
      BY <1>1, <2>2 DEF UpdateVSyncControl, ShouldEnable
    <3> QED
      BY <2>1, <3>1 DEF Wished
  <2>3. CASE ~ShouldEnable
    <3>1. ~enabled_'
      BY <1>1, <2>3 DEF UpdateVSyncControl
    <3>2. late' = IF late = -1 THEN 0 ELSE late
      BY <1>1, <2>3 DEF UpdateVSyncControl, ShouldEnable
    <3> QED
      BY <2>1, <3>1, <3>2 DEF Wished
  <2> QED
    BY <2>2, <2>3
<1>2. CASE StopThread
  BY <1>2 DEF StopThread, Wished, frame, histories
<1>3. CASE Report
  BY <1>3 DEF Report, Wished, worker, histories
<1>4. CASE Fire
  BY <1>4 DEF Fire, Wished, worker
<1>5. CASE UNCHANGED <<enabled_, late, fires>> /\ (pc' = pc \/ pc # "fire")
  BY <1>5 DEF Wished
<1>6. CASE Top \/ Stop \/ Relock \/ Woken \/ (\E granted \in BOOLEAN : Ask(granted))
           \/ BlankSeen \/ TimedOut \/ PollFails \/ SetTimer \/ TimerEnds
           \/ WakesByItself
  BY <1>5, <1>6
  DEF Top, Stop, Relock, Woken, Ask, BlankSeen, TimedOut, PollFails, SetTimer, TimerEnds,
      WakesByItself, worker, frame, histories
<1>7. CASE SetDisplayOn \/ SetVsyncPeriodNs \/ ExpectVsyncPeriodNs
           \/ (\E on \in BOOLEAN :
                 SetTimestampCallback(on) \/ HeadTurns(on) \/ SetVsyncTimestampTracking(on))
           \/ (\E p \in Periods : ModeSet(p) \/ RateAsked(p))
           \/ AddLastPresentFence \/ GetNextVsyncTimestamp \/ Tick \/ UNCHANGED vars
  BY <1>5, <1>7
  DEF SetDisplayOn, SetVsyncPeriodNs, ExpectVsyncPeriodNs, SetTimestampCallback, HeadTurns,
      SetVsyncTimestampTracking, ModeSet, RateAsked, AddLastPresentFence, GetNextVsyncTimestamp,
      Tick, vars, worker, frame, histories
<1> QED
  BY <1>1, <1>2, <1>3, <1>4, <1>6, <1>7 DEF Next, ThreadNext, CallGoesOn, CallerNext

\* Once nobody listens or the display is dark, the callback already past
\* ThreadFn's check may be fired, and no other (UpdateVSyncControl, ThreadFn).
THEOREM OneCallbackLate == Spec => []AtMostOneLate
<1>1. Wished => AtMostOneLate
  BY DEF Wished, AtMostOneLate
<1> QED
  BY InitWished, NextWished, <1>1, PTL DEF Spec

-----------------------------------------------------------------------------
\* The rate.

LEMMA InitAsked == Init => Asked
BY DEF Init, Asked

LEMMA NextAsked == Asked /\ [Next]_vars => Asked'
<1> SUFFICES ASSUME Asked, [Next]_vars PROVE Asked'
  OBVIOUS
<1>1. CASE SetDisplayOn \/ UpdateVSyncControl
  BY <1>1 DEF SetDisplayOn, UpdateVSyncControl, Asked, head
<1>2. CASE SetVsyncPeriodNs \/ ExpectVsyncPeriodNs
  BY <1>2 DEF SetVsyncPeriodNs, ExpectVsyncPeriodNs, Asked, head
<1>3. ASSUME NEW p \in Periods, ModeSet(p) \/ RateAsked(p) PROVE Asked'
  BY <1>3 DEF ModeSet, RateAsked, Asked
<1>4. ASSUME NEW on \in BOOLEAN,
             SetTimestampCallback(on) \/ HeadTurns(on) \/ SetVsyncTimestampTracking(on)
      PROVE  Asked'
  BY <1>4 DEF SetTimestampCallback, HeadTurns, SetVsyncTimestampTracking, Call, Asked, worker,
              head
<1>5. CASE Report
  BY <1>5 DEF Report, Asked, worker, composer, head
<1>6. CASE UNCHANGED <<caller, expected_period_ns_, wanted>>
  BY <1>6 DEF Asked
<1>7. CASE Top \/ Stop \/ Relock \/ Woken \/ Fire \/ (\E granted \in BOOLEAN : Ask(granted))
           \/ BlankSeen \/ TimedOut \/ PollFails \/ SetTimer \/ TimerEnds
           \/ WakesByItself \/ AddLastPresentFence \/ GetNextVsyncTimestamp \/ StopThread
           \/ Tick \/ UNCHANGED vars
  BY <1>6, <1>7
  DEF Top, Stop, Relock, Woken, Fire, Ask, BlankSeen, TimedOut, PollFails, SetTimer, TimerEnds,
      WakesByItself, AddLastPresentFence, GetNextVsyncTimestamp, StopThread, Tick, vars, worker,
      composer, head
<1> QED
  BY <1>1, <1>2, <1>3, <1>4, <1>5, <1>7 DEF Next, ThreadNext, CallGoesOn, CallerNext

\* The period told changes only to the last one the display was asked for, with
\* no call half way (ThreadFn's expected_period_ns_, SetVsyncPeriodNs,
\* ExpectVsyncPeriodNs).
THEOREM OnlyTheLastIsTold == Spec => OnlyTheLastAsked
<1> DEFINE Kept ==
      pc = "report" /\ vsync_period_ns_' # vsync_period_ns_ /\ caller = "idle"
        => vsync_period_ns_' = wanted
<1>1. Asked /\ [Next]_vars => [Kept]_vars
  <2> SUFFICES ASSUME Asked, Next, pc = "report", vsync_period_ns_' # vsync_period_ns_,
                      caller = "idle"
               PROVE  vsync_period_ns_' = wanted
    OBVIOUS
  <2>1. CASE Report
    BY <2>1 DEF Report, Asked, worker
  <2>2. CASE ~Report
    BY <2>2
    DEF Next, ThreadNext, CallGoesOn, CallerNext, Top, Stop, Relock, Woken, Fire, Ask, BlankSeen,
        TimedOut, PollFails, SetTimer, TimerEnds, WakesByItself, SetDisplayOn, SetVsyncPeriodNs,
        ExpectVsyncPeriodNs, UpdateVSyncControl, SetTimestampCallback, HeadTurns,
        SetVsyncTimestampTracking, ModeSet, RateAsked, AddLastPresentFence, GetNextVsyncTimestamp,
        StopThread, Tick, worker
  <2> QED
    BY <2>1, <2>2
<1> QED
  BY InitAsked, NextAsked, <1>1, PTL DEF Spec, OnlyTheLastAsked

-----------------------------------------------------------------------------
\* The phase.

LEMMA InitMoments == Init => Moments
BY VSyncAssumption DEF Init, Moments, None

\* The quotient of C++ is a number, and so is a moment in phase with another.
LEMMA PhasedIsMoment ==
    ASSUME NEW last \in Int, NEW period \in Periods, NEW time \in Int
    PROVE  Phased(last, period, time) \in Int
<1>1. period \in Nat \ {0}
  BY VSyncAssumption
<1>2. ASSUME NEW n \in Int PROVE Quotient(n, period) \in Int
  <2>1. n \div period \in Int /\ (-n) \div period \in Int
    BY <1>1
  <2> QED
    BY <2>1 DEF Quotient
<1>3. time - last \in Int /\ Quotient(time - last, period) + 1 \in Int
  BY <1>2
<1>4. period * (Quotient(time - last, period) + 1) \in Int
  BY <1>1, <1>3
<1> QED
  BY <1>1, <1>4 DEF Phased

LEMMA NextMoments == Moments /\ [Next]_vars => Moments'
<1> SUFFICES ASSUME Moments, [Next]_vars PROVE Moments'
  OBVIOUS
<1>a. Periods \subseteq Int /\ MaxTime \in Int
  BY VSyncAssumption
<1>b. WithPresentTime \in Int
  BY DEF WithPresentTime, Moments
<1>1. CASE SetTimer
  <2>1. Phased(last_timestamp_', vsync_period_ns_, now) \in Int
    BY <1>1, <1>b, PhasedIsMoment DEF SetTimer, Moments
  <2>2. wake' \in Int /\ last_timestamp_' \in Int
    BY <1>1, <1>a, <1>b, <2>1 DEF SetTimer, Capped
  <2> QED
    BY <1>1, <2>2 DEF SetTimer, Moments, head
<1>2. CASE Tick
  <2>1. now' \in Int /\ now' + panel \in Int /\ now' + wanted \in Int
    BY <1>2, <1>a DEF Tick, Moments
  <2>2. unread'.at \in Int
    BY <1>2, <2>1 DEF Tick, Moments
  <2>3. next_blank' \in Int /\ panel' \in Periods
    BY <1>2, <2>1 DEF Tick, Moments
  <2> QED
    BY <1>2, <2>1, <2>2, <2>3 DEF Tick, Moments, worker, frame
<1>3. CASE BlankSeen \/ Stop
  BY <1>3 DEF BlankSeen, Stop, None, Moments, worker, frame
<1>4. CASE Report
  BY <1>4 DEF Report, Moments, worker, head
<1>5. CASE TimerEnds
  BY <1>5 DEF TimerEnds, Moments, worker, head
<1>6. ASSUME NEW p \in Periods, ModeSet(p) \/ RateAsked(p) PROVE Moments'
  <2>1. now + p \in Int
    BY <1>a DEF Moments
  <2> QED
    BY <1>6, <2>1 DEF ModeSet, RateAsked, Moments, worker, frame
<1>7. ASSUME NEW on \in BOOLEAN, HeadTurns(on) PROVE Moments'
  <2>1. now + panel \in Int
    BY <1>a DEF Moments
  <2> QED
    BY <1>7, <2>1 DEF HeadTurns, Moments, worker, frame
<1>8. CASE SetVsyncPeriodNs \/ ExpectVsyncPeriodNs
  BY <1>8 DEF SetVsyncPeriodNs, ExpectVsyncPeriodNs, Moments, head, frame
<1>9. CASE AddLastPresentFence \/ GetNextVsyncTimestamp
  BY <1>9, <1>b DEF AddLastPresentFence, GetNextVsyncTimestamp, Moments, head, frame
<1>10. CASE UNCHANGED <<vsync_period_ns_, expected_period_ns_, wanted, panel, now, next_blank,
                        wake, timestamp, last_timestamp_, last_present_fence_, unread>>
  BY <1>10 DEF Moments
<1>11. CASE Top \/ Relock \/ Woken \/ Fire \/ (\E granted \in BOOLEAN : Ask(granted))
            \/ TimedOut \/ PollFails \/ WakesByItself \/ SetDisplayOn \/ UpdateVSyncControl
            \/ (\E on \in BOOLEAN : SetTimestampCallback(on) \/ SetVsyncTimestampTracking(on))
            \/ StopThread \/ UNCHANGED vars
  BY <1>10, <1>11
  DEF Top, Relock, Woken, Fire, Ask, TimedOut, PollFails, WakesByItself, SetDisplayOn,
      UpdateVSyncControl, SetTimestampCallback, SetVsyncTimestampTracking, StopThread, vars,
      worker, frame, head
<1> QED
  BY <1>1, <1>2, <1>3, <1>4, <1>5, <1>6, <1>7, <1>8, <1>9, <1>11
  DEF Next, ThreadNext, CallGoesOn, CallerNext

\* The multiple of a period next after a moment: beyond it, and by no more than
\* a period.
LEMMA NextMultiple ==
    ASSUME NEW p \in Nat \ {0}, NEW d \in Nat
    PROVE  LET m == p * ((d \div p) + 1)
           IN  m \in Int /\ d < m /\ m <= d + p /\ m % p = 0
<1> DEFINE q == d \div p
<1>1. q \in Nat
  BY SMTT(30)
<1>2. p * q <= d /\ d < p * (q + 1)
  BY SMTT(30)
<1>3. p * (q + 1) = p * q + p /\ p * q \in Int
  <2> HIDE DEF q
  <2> QED
    BY <1>1
<1>4. (p * (q + 1)) % p = 0
  <2> DEFINE k == q + 1
  <2>1. k \in Nat
    BY <1>1
  <2> HIDE DEF q, k
  <2>2. (p * k) % p = 0
    BY <2>1, SMTT(30)
  <2> QED
    BY <2>2 DEF k
<1> HIDE DEF q
<1>5. p * (q + 1) \in Int /\ d < p * (q + 1) /\ p * (q + 1) <= d + p
  BY <1>2, <1>3
<1> QED
  BY <1>4, <1>5 DEF q

\* And for a moment before the blank, where C++ rounds the quotient up: beyond
\* the moment still, and by less than two periods.
LEMMA EarlierMultiple ==
    ASSUME NEW p \in Nat \ {0}, NEW e \in Nat \ {0}
    PROVE  LET m == p * (-(e \div p) + 1)
           IN  m \in Int /\ -e < m /\ m < -e + p + p /\ m % p = 0
<1> DEFINE q == e \div p
<1>1. q \in Nat
  BY SMTT(30)
<1>2. p * q <= e /\ e < p * (q + 1)
  BY SMTT(30)
<1>3. /\ p * q \in Int /\ p * (q + 1) = p * q + p
      /\ p * (-q + 1) = p - p * q
  <2> HIDE DEF q
  <2> QED
    BY <1>1
<1>4. (p * (-q + 1)) % p = 0
  <2> DEFINE k == -q + 1
  <2>1. k \in Int
    BY <1>1
  <2> HIDE DEF q, k
  <2>2. (p * k) % p = 0
    BY <2>1, SMTT(30)
  <2> QED
    BY <2>2 DEF k
<1> HIDE DEF q
<1>5. p * (-q + 1) \in Int /\ -e < p * (-q + 1) /\ p * (-q + 1) < -e + p + p
  BY <1>2, <1>3
<1> QED
  BY <1>4, <1>5 DEF q

\* Where the moments are numbers the next blank told is in phase with the last.
LEMMA MomentsAreInPhase == Moments => NextVsyncInPhase
<1> DEFINE w == WithPresentTime
           p == vsync_period_ns_
<1> SUFFICES ASSUME Moments, w # 0
             PROVE  NextVsyncInPhase
  BY DEF NextVsyncInPhase
<1>1. ASSUME NEW time \in 1..MaxTime
      PROVE  /\ time < NextVsync(time)
             /\ IF time >= w THEN NextVsync(time) <= time + p ELSE NextVsync(time) < time + p + p
             /\ (NextVsync(time) - w) % p = 0
  <2>1. w \in Int /\ time \in Int /\ p \in Nat \ {0}
    BY <1>1, VSyncAssumption DEF WithPresentTime, Moments
  <2>2. CASE time >= w
    <3> DEFINE d == time - w
               m == p * ((d \div p) + 1)
    <3>1. d \in Nat /\ time = d + w
      BY <2>1, <2>2
    <3>2. NextVsync(time) = m + w
      BY <3>1 DEF NextVsync, Phased, Quotient
    <3>3. m \in Int /\ d < m /\ m <= d + p /\ m % p = 0
      BY <2>1, <3>1, NextMultiple
    <3> HIDE DEF d, m, w, p
    <3>4. time < m + w /\ m + w <= time + p /\ (m + w) - w = m
      BY <2>1, <3>1, <3>3
    <3> QED
      BY <2>2, <3>2, <3>3, <3>4
  <2>3. CASE ~(time >= w)
    <3> DEFINE e == w - time
               m == p * (-(e \div p) + 1)
    <3>1. e \in Nat \ {0} /\ time = w - e /\ time - w < 0 /\ -(time - w) = e
      BY <2>1, <2>3
    <3>2. NextVsync(time) = m + w
      <4>1. Quotient(time - w, p) = -(e \div p)
        <5>1. ~(time - w >= 0)
          BY <2>1, <2>3
        <5> QED
          BY <3>1, <5>1 DEF Quotient
      <4> QED
        BY <4>1 DEF NextVsync, Phased
    <3>3. m \in Int /\ -e < m /\ m < -e + p + p /\ m % p = 0
      BY <2>1, <3>1, EarlierMultiple
    <3> HIDE DEF e, m, w, p
    <3>4. time < m + w /\ m + w < time + p + p /\ (m + w) - w = m
      BY <2>1, <3>1, <3>3
    <3> QED
      BY <2>3, <3>2, <3>3, <3>4
  <2> QED
    BY <2>2, <2>3
<1>2. w # last_timestamp_ => w <= now /\ ~enabled_
  BY DEF WithPresentTime, Moments
<1> QED
  BY <1>1, <1>2 DEF NextVsyncInPhase

\* What GetNextVsyncTimestamp answers lies after the moment asked about, in phase
\* with a blank that has happened (GetPhasedVSync,
\* UpdateLastVsyncTimeWithPresentTime).
THEOREM NextVsyncIsInPhase == Spec => []NextVsyncInPhase
BY InitMoments, NextMoments, MomentsAreInPhase, PTL DEF Spec

\* The clock the framework is told of is honest: the phase, no second timeout
\* for one silence, no callback after the one already on its way.
THEOREM ClockStaysHonest == Spec => []ClockIsHonest
<1>1. TimeoutPaidOnce /\ AtMostOneLate /\ NextVsyncInPhase => ClockIsHonest
  BY DEF ClockIsHonest
<1> QED
  BY TimeoutIsPaidOnce, OneCallbackLate, NextVsyncIsInPhase, <1>1, PTL

(***************************************************************************)
(* The colour.                                                             *)
(***************************************************************************)
\* The settings the promise is about: with the colour unit on, its matrix stage
\* takes an offset; with it off, the client's claim to draw its transform stands
\* and no executor draws in the client's place.
WearsOnce(b) ==
    IF b.cmu THEN "offset" \in b.takes ELSE b.ctm # "DRM_OR_IGNORE" /\ ~b.executor

Kinds == {"device", "mixed", "client", "own"}
Saturations == {"neutral", "grey", "vivid"}
Words == Col!Transforms \cup Saturations \cup {"boost"}
Hues == [client : Seq(Words), intent : Seq(Words), profile : Seq(Words),
         matrix : Seq(Words), saturation : Saturations]
Boost(on) == IF on THEN <<"boost">> ELSE <<>>

\* The three matrices are what was asked and what was chosen, and their product
\* is up to date.
HueIs(h, a) ==
    /\ h \in Hues
    /\ h.client = Col!TransformMatrix(a.client) /\ h.intent = Boost(a.boost)
    /\ h.profile = Col!SaturationMatrix(h.saturation)
    /\ h.matrix = h.intent \o (h.client \o h.profile)

\* What was read of the property is what it says, while its serial stands.
IsRead(c, p) ==
    /\ c \in [once : BOOLEAN, serial : Nat, value : Saturations] /\ p.serial \in Nat
    /\ c.once => /\ c.serial <= p.serial
                 /\ c.serial = p.serial => c.value = Col!ParseSaturation(p.text)

\* The profile of a frame validated is one the property stood for since.
FrameHasItsProfile ==
    plan # "none" =>
        hue.saturation \in since /\ Col!ParseSaturation(prop.text) \in since

\* A transform the controller cannot take leaves the client to draw, in the plan
\* validated and in the one kept.
PlanTakesColour ==
    /\ plan \in Kinds \cup {"none"} /\ kept \in Kinds \cup {"none"}
    /\ plan = "own" \/ kept = "own" => board.executor
    /\ Col!CtmByGpu(hue) => plan \in {"none", "client"} /\ (invalid \/ kept = "none")

ColourInv ==
    /\ board \in ColourSetups /\ asked \in [client : Col!Transforms, boost : BOOLEAN]
    /\ HueIs(hue, asked) /\ IsRead(cache, prop) /\ FrameHasItsProfile /\ PlanTakesColour
    /\ "refused" \in DOMAIN shown

-----------------------------------------------------------------------------
LEMMA Shares ==
    /\ \A t \in Col!Transforms : Col!TransformMatrix(t) \in Seq(Words)
    /\ \A s \in Saturations : Col!SaturationMatrix(s) \in Seq(Words)
    /\ \A b : Boost(b) \in Seq(Words)
  <1>1. <<>> \in Seq(Words)
    OBVIOUS
  <1>2. ASSUME NEW word \in Words PROVE <<word>> \in Seq(Words)
    OBVIOUS
  <1>3. \A t \in Col!Transforms : t \in Words
    BY DEF Words
  <1>4. \A s \in Saturations : s \in Words
    BY DEF Words
  <1>5. \A t \in Col!Transforms : Col!TransformMatrix(t) \in Seq(Words)
    BY <1>1, <1>2, <1>3 DEF Col!TransformMatrix
  <1>6. \A s \in Saturations : Col!SaturationMatrix(s) \in Seq(Words)
    BY <1>1, <1>2, <1>4 DEF Col!SaturationMatrix
  <1>7. \A b : Boost(b) \in Seq(Words)
    <2>1. "boost" \in Words
      BY DEF Words
    <2> QED
      BY <1>1, <1>2, <2>1 DEF Boost
  <1> QED
    BY <1>5, <1>6, <1>7

\* The product made anew.
LEMMA Updated ==
    ASSUME NEW h \in Hues, NEW u, u = Col!UpdateColorTransformMatrix(h)
    PROVE  /\ u \in Hues /\ u.client = h.client /\ u.intent = h.intent
           /\ u.profile = h.profile /\ u.saturation = h.saturation
           /\ u.matrix = h.intent \o (h.client \o h.profile)
  <1> DEFINE m == h.intent \o (h.client \o h.profile)
  <1>1. m \in Seq(Words)
    BY DEF Hues
  <1>2. u = [h EXCEPT !.matrix = m]
    BY DEF Col!UpdateColorTransformMatrix, Col!MultiplyMatrices
  <1> HIDE DEF m
  <1>3. u \in Hues /\ u.client = h.client /\ u.intent = h.intent
        /\ u.profile = h.profile /\ u.saturation = h.saturation /\ u.matrix = m
    BY <1>1, <1>2 DEF Hues
  <1> QED
    BY <1>3 DEF m

\* A profile taken up leaves the rest of the colour as it was.
LEMMA RefreshedIs ==
    ASSUME NEW h, NEW a, HueIs(h, a), NEW s \in Saturations, NEW r, r = Col!Refreshed(h, s)
    PROVE  HueIs(r, a) /\ r.saturation = s /\ r.client = h.client
  <1>1. CASE h.saturation = s
    BY <1>1 DEF Col!Refreshed, HueIs
  <1>2. CASE h.saturation # s
    <2> DEFINE g == [h EXCEPT !.saturation = s, !.profile = Col!SaturationMatrix(s)]
    <2>1. /\ g \in Hues /\ g.client = h.client /\ g.intent = h.intent /\ g.saturation = s
          /\ g.profile = Col!SaturationMatrix(s)
      BY Shares DEF HueIs, Hues
    <2>2. r = Col!UpdateColorTransformMatrix(g)
      BY <1>2 DEF Col!Refreshed
    <2> HIDE DEF g
    <2>3. /\ r \in Hues /\ r.client = g.client /\ r.intent = g.intent
          /\ r.profile = g.profile /\ r.saturation = g.saturation
          /\ r.matrix = g.intent \o (g.client \o g.profile)
      BY <2>1, <2>2, Updated
    <2> QED
      BY <2>1, <2>3 DEF HueIs
  <1> QED
    BY <1>1, <1>2

\* What is read of the property is what it says.
LEMMA ReadIs ==
    ASSUME NEW c, NEW p, IsRead(c, p), NEW r, r = Col!DisplaySaturation(p, c)
    PROVE  /\ IsRead(r, p) /\ r.value = Col!ParseSaturation(p.text)
           /\ r.value \in Saturations
  <1>1. Col!ParseSaturation(p.text) \in Saturations
    BY DEF Col!ParseSaturation, Saturations
  <1>2. CASE c.once /\ p.serial = c.serial
    BY <1>1, <1>2 DEF Col!DisplaySaturation, IsRead
  <1>3. CASE ~(c.once /\ p.serial = c.serial)
    <2>1. r = [once |-> TRUE, serial |-> p.serial, value |-> Col!ParseSaturation(p.text)]
      BY <1>3 DEF Col!DisplaySaturation
    <2> QED
      BY <1>1, <2>1 DEF IsRead
  <1> QED
    BY <1>2, <1>3

-----------------------------------------------------------------------------
(* What a call of the client about colour does.                            *)
LEMMA AskedKeeps ==
    ASSUME ColourInv, plan = "none", UNCHANGED <<board, prop, cache, plan, kept, since, shown>>,
           asked' \in [client : Col!Transforms, boost : BOOLEAN],
           NEW g \in Hues, hue' = Col!UpdateColorTransformMatrix(g),
           g.client = Col!TransformMatrix(asked'.client), g.intent = Boost(asked'.boost),
           g.profile = hue.profile, g.saturation = hue.saturation, invalid' = TRUE
    PROVE  ColourInv'
  <1>1. /\ hue' \in Hues /\ hue'.client = g.client /\ hue'.intent = g.intent
        /\ hue'.profile = g.profile /\ hue'.saturation = g.saturation
        /\ hue'.matrix = g.intent \o (g.client \o g.profile)
    BY Updated
  <1>2. HueIs(hue', asked')
    BY <1>1 DEF ColourInv, HueIs
  <1>3. FrameHasItsProfile' /\ PlanTakesColour'
    BY DEF ColourInv, FrameHasItsProfile, PlanTakesColour
  <1> QED
    BY <1>2, <1>3 DEF ColourInv

LEMMA TransformKeeps ==
    ASSUME ColourInv, NEW t \in Col!Transforms, plan = "none",
           UNCHANGED <<board, prop, cache, plan, kept, since, shown>>,
           asked' = [asked EXCEPT !.client = t], Col!SetColorTransformMatrix(t)
    PROVE  ColourInv'
  <1> DEFINE g == [hue EXCEPT !.client = Col!TransformMatrix(t)]
  <1>1. /\ asked' \in [client : Col!Transforms, boost : BOOLEAN]
        /\ asked'.client = t /\ asked'.boost = asked.boost
    BY DEF ColourInv
  <1>2. /\ g \in Hues /\ g.client = Col!TransformMatrix(t) /\ g.intent = hue.intent
        /\ g.profile = hue.profile /\ g.saturation = hue.saturation
    BY Shares DEF ColourInv, HueIs, Hues
  <1>3. hue' = Col!UpdateColorTransformMatrix(g) /\ invalid' = TRUE
    BY DEF Col!SetColorTransformMatrix
  <1> HIDE DEF g
  <1>4. g.client = Col!TransformMatrix(asked'.client) /\ g.intent = Boost(asked'.boost)
    BY <1>1, <1>2 DEF ColourInv, HueIs
  <1> QED
    BY <1>1, <1>2, <1>3, <1>4, AskedKeeps

LEMMA IntentKeeps ==
    ASSUME ColourInv, NEW intent, plan = "none",
           UNCHANGED <<board, prop, cache, plan, kept, since, shown>>,
           asked' = [asked EXCEPT !.boost = intent \in {"enhance", "vendor"}],
           hue' = Col!UpdateColorTransformMatrix([hue EXCEPT !.intent = Col!IntentMatrix(intent)]),
           invalid' = TRUE
    PROVE  ColourInv'
  <1> DEFINE boosted == intent \in {"enhance", "vendor"}
             g == [hue EXCEPT !.intent = Col!IntentMatrix(intent)]
  <1>1. boosted \in BOOLEAN
    OBVIOUS
  <1>2. Col!IntentMatrix(intent) = Boost(boosted)
    BY DEF Col!IntentMatrix, Boost
  <1>3. /\ g \in Hues /\ g.client = hue.client /\ g.intent = Boost(boosted)
        /\ g.profile = hue.profile /\ g.saturation = hue.saturation
    BY <1>2, Shares DEF ColourInv, HueIs, Hues
  <1> HIDE DEF g, boosted
  <1>4. /\ asked' \in [client : Col!Transforms, boost : BOOLEAN]
        /\ asked'.client = asked.client /\ asked'.boost = boosted
    BY <1>1 DEF ColourInv, boosted
  <1>5. g.client = Col!TransformMatrix(asked'.client) /\ g.intent = Boost(asked'.boost)
    BY <1>3, <1>4 DEF ColourInv, HueIs
  <1>6. hue' = Col!UpdateColorTransformMatrix(g)
    BY DEF g
  <1> QED
    BY <1>3, <1>4, <1>5, <1>6, AskedKeeps

LEMMA SameColour ==
    ASSUME ColourInv, UNCHANGED <<board, asked, prop, cache, hue, invalid, plan, kept, since, shown>>
    PROVE  ColourInv'
  BY DEF ColourInv, FrameHasItsProfile, PlanTakesColour, Col!CtmByGpu, Col!Takes,
     Col!GetCtmHandling

LEMMA ClientAsks ==
    ASSUME ColourInv,
           Col!SetColorTransform \/ Col!SetColorMode \/ Col!SetColorModeWithRenderIntent
    PROVE  ColourInv'
  <1>1. UNCHANGED <<board, prop, cache, plan, kept, since, shown>> /\ plan = "none"
    BY DEF Col!SetColorTransform, Col!SetColorMode, Col!SetColorModeWithRenderIntent, Col!MayAsk
  <1>2. CASE Col!SetColorTransform
    <2>1. PICK hint \in {"identity", "arbitrary", "grayscale", "unknown"},
               matrix \in Col!Transforms \union {"null"} :
            IF hint \in {"grayscale", "unknown"} \/ (hint = "arbitrary" /\ matrix = "null")
            THEN UNCHANGED <<asked, hue, invalid, count>>
            ELSE \E t \in {IF matrix = "null" THEN "identity" ELSE matrix} :
                    /\ asked' = [asked EXCEPT !.client = t]
                    /\ Col!SetColorTransformMatrix(t)
      BY <1>2 DEF Col!SetColorTransform
    <2>2. CASE UNCHANGED <<asked, hue, invalid, count>>
      BY <1>1, <2>2, SameColour
    <2>3. CASE \E t \in {IF matrix = "null" THEN "identity" ELSE matrix} :
                  /\ asked' = [asked EXCEPT !.client = t]
                  /\ Col!SetColorTransformMatrix(t)
      <3>1. PICK t \in {IF matrix = "null" THEN "identity" ELSE matrix} :
                  /\ asked' = [asked EXCEPT !.client = t]
                  /\ Col!SetColorTransformMatrix(t)
        BY <2>3
      <3>2. t \in Col!Transforms
        BY DEF Col!Transforms
      <3> QED
        BY <1>1, <3>1, <3>2, TransformKeeps
    <2> QED
      BY <2>1, <2>2, <2>3
  <1>3. ASSUME NEW mode, NEW intent, Col!SetColorModeOfDisplay(mode, intent)
        PROVE  ColourInv'
    <2>1. CASE UNCHANGED <<asked, hue, invalid, count>>
      BY <1>1, <2>1, SameColour
    <2>2. CASE /\ asked' = [asked EXCEPT !.boost = intent \in {"enhance", "vendor"}]
               /\ hue' = Col!UpdateColorTransformMatrix(
                             [hue EXCEPT !.intent = Col!IntentMatrix(intent)])
               /\ invalid' = TRUE
      BY <1>1, <2>2, IntentKeeps
    <2> QED
      BY <1>3, <2>1, <2>2 DEF Col!SetColorModeOfDisplay
  <1>4. CASE Col!SetColorMode \/ Col!SetColorModeWithRenderIntent
    <2>1. \E mode, intent : Col!SetColorModeOfDisplay(mode, intent)
      BY <1>4 DEF Col!SetColorMode, Col!SetColorModeWithRenderIntent
    <2> QED
      BY <2>1, <1>3
  <1> QED
    BY <1>2, <1>4

-----------------------------------------------------------------------------
(* The frames, the person and the watcher.                                 *)

\* The property read, and the profile taken up where it moved.
LEMMA ProfileTaken ==
    ASSUME ColourInv, NEW c, c = Col!DisplaySaturation(prop, cache),
           NEW h, h = Col!Refreshed(hue, c.value)
    PROVE  /\ IsRead(c, prop) /\ HueIs(h, asked) /\ h.client = hue.client
           /\ h.saturation = Col!ParseSaturation(prop.text)
           /\ Col!CtmByGpu(h) <=> Col!CtmByGpu(hue)
  <1>1. /\ IsRead(c, prop) /\ c.value = Col!ParseSaturation(prop.text)
        /\ c.value \in Saturations
    BY ReadIs DEF ColourInv
  <1>2. HueIs(h, asked) /\ h.saturation = c.value /\ h.client = hue.client
    BY <1>1, RefreshedIs DEF ColourInv
  <1> QED
    BY <1>1, <1>2 DEF Col!CtmByGpu

LEMMA ValidatedKeeps ==
    ASSUME ColourInv, Col!Validate
    PROVE  ColourInv'
  <1> DEFINE c == Col!DisplaySaturation(prop, cache)
             h == Col!Refreshed(hue, c.value)
  <1>1. /\ UNCHANGED <<board, asked, prop, kept, shown>> /\ cache' = c /\ hue' = h
        /\ since' = {Col!ParseSaturation(prop.text)}
        /\ \/ /\ ~Col!CtmByGpu(h) /\ kept # "none" /\ plan' = kept /\ UNCHANGED invalid
           \/ /\ plan' \in Col!PlanKinds(h)
              /\ invalid' = (Col!CtmByGpu(h) /\ (invalid \/ h # hue))
    BY DEF Col!Validate, Col!Validated
  <1>2. /\ IsRead(c, prop) /\ HueIs(h, asked) /\ h.client = hue.client
        /\ h.saturation = Col!ParseSaturation(prop.text)
        /\ Col!CtmByGpu(h) <=> Col!CtmByGpu(hue)
    BY ProfileTaken
  <1>3. (Col!CtmByGpu(hue))' <=> Col!CtmByGpu(h)
    BY <1>1 DEF Col!CtmByGpu, Col!Takes, Col!GetCtmHandling
  <1> HIDE DEF c, h
  <1>4. FrameHasItsProfile'
    BY <1>1, <1>2 DEF FrameHasItsProfile
  <1>5. PlanTakesColour'
    <2>1. CASE ~Col!CtmByGpu(h) /\ kept # "none" /\ plan' = kept /\ UNCHANGED invalid
      BY <1>1, <1>3, <2>1 DEF ColourInv, PlanTakesColour
    <2>2. CASE /\ plan' \in Col!PlanKinds(h)
               /\ invalid' = (Col!CtmByGpu(h) /\ (invalid \/ h # hue))
      <3>1. /\ plan' \in Kinds /\ (plan' = "own" => board.executor)
            /\ Col!CtmByGpu(h) => plan' = "client"
        BY <2>2 DEF Col!PlanKinds, Kinds
      <3>2. Col!CtmByGpu(h) => invalid' \/ kept = "none"
        BY <1>2, <2>2 DEF ColourInv, PlanTakesColour
      <3> QED
        BY <1>1, <1>3, <3>1, <3>2 DEF ColourInv, PlanTakesColour
    <2> QED
      BY <1>1, <2>1, <2>2
  <1> QED
    BY <1>1, <1>2, <1>4, <1>5 DEF ColourInv

LEMMA PresentedKeeps ==
    ASSUME ColourInv, Col!PresentDisplay
    PROVE  ColourInv'
  <1>1. /\ UNCHANGED <<board, asked, prop, cache, hue, since>> /\ plan' = "none"
        /\ plan # "none"
        /\ \/ kept' = (IF Col!CtmByGpu(hue) THEN "none" ELSE plan) /\ UNCHANGED invalid
           \/ kept' = "none" /\ invalid' = TRUE
    BY DEF Col!PresentDisplay, Col!Commit
  <1>4. "refused" \in DOMAIN shown'
    BY DEF ColourInv, Col!PresentDisplay, Col!Commit
  <1>2. (Col!CtmByGpu(hue))' <=> Col!CtmByGpu(hue)
    BY <1>1 DEF Col!CtmByGpu, Col!Takes, Col!GetCtmHandling
  <1>3. PlanTakesColour'
    BY <1>1, <1>2 DEF ColourInv, PlanTakesColour
  <1> QED
    BY <1>1, <1>3, <1>4 DEF ColourInv, FrameHasItsProfile

LEMMA UnvalidatedKeeps ==
    ASSUME ColourInv, Col!PresentWithoutValidation
    PROVE  ColourInv'
  <1> DEFINE c == Col!DisplaySaturation(prop, cache)
             h == Col!Refreshed(hue, c.value)
  <1>1. /\ UNCHANGED <<board, asked, prop, plan>> /\ cache' = c /\ hue' = h
        /\ plan = "none"
        /\ \/ kept' = (IF Col!CtmByGpu(h) THEN "none" ELSE kept) /\ UNCHANGED invalid
           \/ kept' = "none" /\ invalid' = TRUE
           \/ kept' = kept /\ invalid' = TRUE
    BY DEF Col!PresentWithoutValidation, Col!PresentUnvalidated, Col!Commit
  <1>5. "refused" \in DOMAIN shown'
    BY DEF ColourInv, Col!PresentWithoutValidation, Col!PresentUnvalidated, Col!Commit
  <1>2. /\ IsRead(c, prop) /\ HueIs(h, asked)
        /\ Col!CtmByGpu(h) <=> Col!CtmByGpu(hue)
    BY ProfileTaken
  <1>3. (Col!CtmByGpu(hue))' <=> Col!CtmByGpu(h)
    BY <1>1 DEF Col!CtmByGpu, Col!Takes, Col!GetCtmHandling
  <1> HIDE DEF c, h
  <1>4. PlanTakesColour'
    BY <1>1, <1>2, <1>3 DEF ColourInv, PlanTakesColour
  <1> QED
    BY <1>1, <1>2, <1>4, <1>5 DEF ColourInv, FrameHasItsProfile

LEMMA OthersKeepColour ==
    ASSUME ColourInv, Col!WriteProperty \/ Col!Watch \/ Col!Tell
    PROVE  ColourInv'
  <1>1. CASE Col!WriteProperty
    <2>1. /\ UNCHANGED <<board, asked, cache, hue, invalid, plan, kept, shown>>
          /\ \E text : /\ prop' = [serial |-> prop.serial + 1, text |-> text]
                       /\ since' = since \union {Col!ParseSaturation(text)}
      BY <1>1 DEF Col!WriteProperty
    <2>2. /\ prop'.serial = prop.serial + 1
          /\ since' = since \union {Col!ParseSaturation(prop'.text)}
      BY <2>1
    <2>3. IsRead(cache', prop')
      BY <2>1, <2>2 DEF ColourInv, IsRead
    <2>4. FrameHasItsProfile' /\ PlanTakesColour'
      BY <2>1, <2>2 DEF ColourInv, FrameHasItsProfile, PlanTakesColour, Col!CtmByGpu,
         Col!Takes, Col!GetCtmHandling
    <2> QED
      BY <2>1, <2>3, <2>4 DEF ColourInv
  <1>2. CASE Col!Watch
    <2> DEFINE c == Col!DisplaySaturation(prop, cache)
               h == Col!Refreshed(hue, c.value)
    <2>1. /\ UNCHANGED <<board, asked, prop, plan, kept, since, shown>> /\ cache' = c /\ hue' = h
          /\ invalid' = (invalid \/ h # hue)
      BY <1>2 DEF Col!Watch, Col!WatcherRound
    <2>2. /\ IsRead(c, prop) /\ HueIs(h, asked)
          /\ h.saturation = Col!ParseSaturation(prop.text)
          /\ Col!CtmByGpu(h) <=> Col!CtmByGpu(hue)
      BY ProfileTaken
    <2>3. (Col!CtmByGpu(hue))' <=> Col!CtmByGpu(h)
      BY <2>1 DEF Col!CtmByGpu, Col!Takes, Col!GetCtmHandling
    <2> HIDE DEF c, h
    <2>4. FrameHasItsProfile' /\ PlanTakesColour'
      BY <2>1, <2>2, <2>3 DEF ColourInv, FrameHasItsProfile, PlanTakesColour
    <2> QED
      BY <2>1, <2>2, <2>4 DEF ColourInv
  <1>3. CASE Col!Tell
    BY <1>3, SameColour DEF Col!Tell
  <1> QED
    BY <1>1, <1>2, <1>3

-----------------------------------------------------------------------------
(* What the panel wears.                                                   *)

\* The client's transform once, the intent outside it and the profile inside, in
\* whatever kind of frame the colours allow.
LEMMA WornOnce ==
    ASSUME WearsOnce(board), NEW h, HueIs(h, asked), asked.client \in Col!Transforms,
           NEW kind \in Kinds, kind = "own" => board.executor,
           Col!CtmByGpu(h) => kind = "client"
    PROVE  Col!FrameMatrix(h, kind) \o Col!ClientDraws(kind) =
               Col!Wanted(IF ~board.cmu /\ kind = "client" THEN "neutral" ELSE h.saturation)
  <1> DEFINE boost == Boost(asked.boost)
             client == Col!TransformMatrix(asked.client)
             profile == Col!SaturationMatrix(h.saturation)
  <1>1. boost \in Seq(Words) /\ client \in Seq(Words) /\ profile \in Seq(Words)
    BY Shares DEF HueIs, Hues
  <1>2. h.client = client /\ h.intent = boost /\ h.matrix = boost \o (client \o profile)
    BY DEF HueIs
  <1>3. \A s : Col!Wanted(s) = (boost \o client) \o Col!SaturationMatrix(s)
    BY DEF Col!Wanted, Boost
  <1>4. Col!SaturationMatrix("neutral") = <<>>
    BY DEF Col!SaturationMatrix
  <1>5. Col!SkipsClientTransform <=> board.cmu \/ board.ctm = "DRM_OR_IGNORE"
    BY DEF Col!SkipsClientTransform, Col!DeviceSkipsClientTransform, Col!CmuColorPipeline,
       Col!GetCtmHandling
  <1>6. h.client = <<"offset">> /\ ~Col!Takes("offset") => ~board.cmu /\ kind = "client"
    <2> SUFFICES ASSUME h.client = <<"offset">>, ~Col!Takes("offset")
                 PROVE  ~board.cmu /\ kind = "client"
      OBVIOUS
    <2>1. ~board.cmu /\ board.ctm # "DRM_OR_IGNORE"
      BY DEF WearsOnce, Col!Takes
    <2>2. h.client # <<>> /\ h.client[1] = "offset"
      OBVIOUS
    <2>3. Col!CtmByGpu(h)
      BY <2>1, <2>2 DEF Col!CtmByGpu, Col!GetCtmHandling
    <2> QED
      BY <2>1, <2>3
  <1>7. CASE ~board.cmu /\ kind = "client"
    <2>1. Col!FrameMatrix(h, kind) = boost
      BY <1>2, <1>7 DEF Col!FrameMatrix, Col!CmuColorPipeline
    <2>2. Col!ClientDraws(kind) = client
      BY <1>5, <1>7 DEF Col!ClientDraws, WearsOnce
    <2> HIDE DEF boost, client, profile
    <2>3. boost \o client \in Seq(Words)
      BY <1>1
    <2>4. (boost \o client) \o <<>> = boost \o client
      BY <2>3, ConcatEmptySeq
    <2> QED
      BY <1>3, <1>4, <1>7, <2>1, <2>2, <2>4
  <1>8. CASE ~(~board.cmu /\ kind = "client")
    <2>1. kind = "own" => board.cmu
      BY DEF WearsOnce
    <2>2. Col!FrameMatrix(h, kind) = boost \o (client \o profile)
      BY <1>2, <1>6, <1>8, <2>1 DEF Col!FrameMatrix, Col!CmuColorPipeline
    <2>3. Col!ClientDraws(kind) = <<>>
      BY <1>5, <1>8 DEF Col!ClientDraws
    <2>4. Col!Wanted(h.saturation) = (boost \o client) \o profile
      BY <1>3
    <2> HIDE DEF boost, client, profile
    <2>5. boost \o (client \o profile) \in Seq(Words)
      BY <1>1
    <2>6. (boost \o (client \o profile)) \o <<>> = boost \o (client \o profile)
      BY <2>5, ConcatEmptySeq
    <2>7. boost \o (client \o profile) = (boost \o client) \o profile
      BY <1>1, ConcatAssociative
    <2> QED
      BY <1>8, <2>2, <2>3, <2>4, <2>6, <2>7
  <1> QED
    BY <1>7, <1>8

-----------------------------------------------------------------------------
(* The theorem.                                                            *)
LEMMA InitColour == Col!Init => ColourInv
  <1> SUFFICES ASSUME Col!Init PROVE ColourInv
    OBVIOUS
  <1> USE DEF Col!Init
  <1>1. /\ asked = [client |-> "identity", boost |-> FALSE] /\ board \in ColourSetups
        /\ hue = [client |-> <<>>, intent |-> <<>>, profile |-> <<>>, matrix |-> <<>>,
                  saturation |-> "neutral"]
        /\ plan = "none" /\ kept = "none"
    OBVIOUS
  <1>2. asked \in [client : Col!Transforms, boost : BOOLEAN]
    BY <1>1 DEF Col!Transforms
  <1>3. HueIs(hue, asked)
    <2>1. <<>> \o (<<>> \o <<>>) = <<>>
      OBVIOUS
    <2> QED
      BY <1>1, <2>1 DEF HueIs, Hues, Saturations, Boost, Col!TransformMatrix, Col!SaturationMatrix
  <1>4. IsRead(cache, prop)
    BY DEF IsRead, Saturations
  <1>5. ~Col!CtmByGpu(hue)
    BY <1>1 DEF Col!CtmByGpu
  <1> QED
    BY <1>1, <1>2, <1>3, <1>4, <1>5 DEF ColourInv, FrameHasItsProfile, PlanTakesColour

LEMMA ColourKeeps ==
    ASSUME ColourInv, [ClocksNext]_<<part, vars, colourVars>>
    PROVE  ColourInv'
  <1>1. CASE UNCHANGED colourVars
    BY <1>1, SameColour DEF colourVars
  <1>2. CASE Col!Next
    <2>1. CASE Col!SetColorTransform \/ Col!SetColorMode \/ Col!SetColorModeWithRenderIntent
      BY <2>1, ClientAsks
    <2>2. CASE Col!Validate
      BY <2>2, ValidatedKeeps
    <2>3. CASE Col!PresentDisplay
      BY <2>3, PresentedKeeps
    <2>4. CASE Col!PresentWithoutValidation
      BY <2>4, UnvalidatedKeeps
    <2>5. CASE Col!WriteProperty \/ Col!Watch \/ Col!Tell
      BY <2>5, OthersKeepColour
    <2> QED
      BY <1>2, <2>1, <2>2, <2>3, <2>4, <2>5 DEF Col!Next
  <1> QED
    BY <1>1, <1>2 DEF ClocksNext

\* A frame committed, by either way to present one.
LEMMA CommittedWorn ==
    ASSUME ColourInv, WearsOnce(board), [ClocksNext]_<<part, vars, colourVars>>,
           shown'.shown, ~shown'.refused, shown' # shown
    PROVE  \E saturation \in since' :
               Col!Worn' = Col!Wanted(IF ~board.cmu /\ shown'.kind = "client"
                                      THEN "neutral" ELSE saturation)
  <1>1. asked.client \in Col!Transforms
    BY DEF ColourInv
  <1>2. CASE Col!PresentDisplay
    <2>1. /\ since' = since /\ plan # "none"
          /\ shown' = [shown |-> TRUE, kind |-> plan, matrix |-> Col!FrameMatrix(hue, plan),
                       drawn |-> Col!ClientDraws(plan), refused |-> FALSE]
      BY <1>2 DEF ColourInv, Col!PresentDisplay, Col!Commit
    <2>2. /\ plan \in Kinds /\ (plan = "own" => board.executor)
          /\ Col!CtmByGpu(hue) => plan = "client"
          /\ HueIs(hue, asked) /\ hue.saturation \in since'
      BY <2>1 DEF ColourInv, PlanTakesColour, FrameHasItsProfile
    <2>3. Col!FrameMatrix(hue, plan) \o Col!ClientDraws(plan) =
              Col!Wanted(IF ~board.cmu /\ plan = "client" THEN "neutral" ELSE hue.saturation)
      BY <1>1, <2>2, WornOnce
    <2>4. /\ Col!Worn' = Col!FrameMatrix(hue, plan) \o Col!ClientDraws(plan)
          /\ shown'.kind = plan
      BY <2>1 DEF Col!Worn
    <2>5. Col!Worn' = Col!Wanted(IF ~board.cmu /\ shown'.kind = "client"
                                 THEN "neutral" ELSE hue.saturation)
      <3>1. shown'.kind = plan
        BY <2>4
      <3> QED
        BY <2>3, <2>4, <3>1
    <2> QED
      BY <2>2, <2>5, Zenon
  <1>3. CASE Col!PresentWithoutValidation
    <2> DEFINE c == Col!DisplaySaturation(prop, cache)
               h == Col!Refreshed(hue, c.value)
    <2>1. /\ kept # "none" /\ ~invalid /\ since' = {Col!ParseSaturation(prop.text)}
          /\ shown' = [shown |-> TRUE, kind |-> kept, matrix |-> Col!FrameMatrix(h, kept),
                       drawn |-> Col!ClientDraws(kept), refused |-> FALSE]
      BY <1>3 DEF ColourInv, Col!PresentWithoutValidation, Col!PresentUnvalidated, Col!Commit
    <2>2. /\ HueIs(h, asked) /\ h.saturation = Col!ParseSaturation(prop.text)
          /\ Col!CtmByGpu(h) <=> Col!CtmByGpu(hue)
      BY ProfileTaken
    <2>3. kept \in Kinds /\ (kept = "own" => board.executor) /\ ~Col!CtmByGpu(h)
      BY <2>1, <2>2 DEF ColourInv, PlanTakesColour
    <2> HIDE DEF c, h
    <2>4. Col!FrameMatrix(h, kept) \o Col!ClientDraws(kept) =
              Col!Wanted(IF ~board.cmu /\ kept = "client" THEN "neutral" ELSE h.saturation)
      BY <1>1, <2>2, <2>3, WornOnce
    <2>5. /\ Col!Worn' = Col!FrameMatrix(h, kept) \o Col!ClientDraws(kept)
          /\ shown'.kind = kept /\ h.saturation \in since'
      BY <2>1, <2>2 DEF Col!Worn
    <2>6. Col!Worn' = Col!Wanted(IF ~board.cmu /\ shown'.kind = "client"
                                 THEN "neutral" ELSE h.saturation)
      <3>1. shown'.kind = kept
        BY <2>5
      <3> QED
        BY <2>4, <2>5, <3>1
    <2> QED
      BY <2>5, <2>6, Zenon
  <1>4. Col!PresentDisplay \/ Col!PresentWithoutValidation
    BY DEF ClocksNext, Col!Next, colourVars, Col!SetColorTransform, Col!SetColorMode,
       Col!SetColorModeWithRenderIntent, Col!Validate, Col!WriteProperty, Col!Watch, Col!Tell
  <1> QED
    BY <1>2, <1>3, <1>4

\* On boards that keep their claims every frame committed, by either way to present
\* one, wears the client's transform exactly once, the intent outside it and inside
\* it a profile no older than the frame's validation (CreateFrameUpdateCommit,
\* CtmByGpu, RefreshDisplayProfile, GetDisplayCapabilities).
THEOREM TintIsWornOnce ==
    ASSUME \A b \in ColourSetups : WearsOnce(b)
    PROVE  ClocksSpec => TintOnce
  <1>1. ClocksInit => ColourInv
    BY InitColour DEF ClocksInit
  <1>2. ColourInv /\ [ClocksNext]_<<part, vars, colourVars>> => ColourInv'
    BY ColourKeeps
  <1>3. ColourInv => WearsOnce(board)
    BY DEF ColourInv
  <1>4. ColourInv /\ [ClocksNext]_<<part, vars, colourVars>> =>
            [shown'.shown /\ ~shown'.refused /\ shown' # shown
               => \E saturation \in since' :
                    Col!Worn' = Col!Wanted(IF ~board.cmu /\ shown'.kind = "client"
                                           THEN "neutral" ELSE saturation)]_(Col!colourVars)
    BY <1>3, CommittedWorn
  <1> QED
    BY <1>1, <1>2, <1>4, PTL DEF ClocksSpec, TintOnce, Col!TintOnce
=============================================================================
