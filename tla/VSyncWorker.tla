---------------------------- MODULE VSyncWorker ----------------------------
(***************************************************************************)
(* display/VSyncWorker: the thread that waits for the panel's blanks, and  *)
(* the composer, which turns it on and off, changes the period and asks    *)
(* when the next blank falls; and tegra/TegraVSyncSource, where that       *)
(* thread waits.  Every critical section of mutex_ is one step; the source *)
(* is asked and stopped, a blank waited for, a timer slept on and the      *)
(* callback fired outside it.                                              *)
(*                                                                         *)
(* Time is counted in whole units.  The panel blanks every `panel' units   *)
(* while it is lit, and takes up a rate asked for at the end of whichever  *)
(* frame it is scanning.  A display without a source behaves as one whose  *)
(* source always fails.                                                    *)
(***************************************************************************)
EXTENDS Integers

CONSTANTS
    Periods,        \* the periods the display may run at
    FirstPeriod,    \* kDefaultVSPeriodNs, the panel's own
    Stale,          \* kStaleNs: a blank older than this answers no wait
    MaxTime,        \* bound: the clock
    MaxCalls        \* bound: calls the composer makes

ASSUME VSyncAssumption ==
    /\ Periods \subseteq Nat \ {0} /\ FirstPeriod \in Periods
    /\ Stale \in Nat /\ MaxTime \in Nat /\ MaxCalls \in Nat

VARIABLES
    \* guarded by mutex_; a time or a period of 0 is none
    enabled_, thread_exit_, last_timestamp_, vsync_period_ns_, expected_period_ns_,
    enable_vsync_timestamps_, display_on_, last_timestamp_is_fresh_, callback_,
    last_present_fence_,    \* the moment the fence signals
    \* the source, the thread's own
    mReporting, mTimedOutWhileGranted, mPorchReported,
    \* the thread
    pc,             \* "top", "stop", "relock", "sleep", "woken", "ask", "poll", "synth",
                    \* "timer", "report", "fire", "exited"
    timestamp, ran, wake,   \* the blank seen, how long its frame ran, the timer's end
    fires,          \* whether a callback is about to be fired
    \* the composer
    caller,         \* "idle", or inside a call: "update", "power", "mode", "rate"
    calls,
    \* the head and its panel
    now, lit, reporting, panel, wanted, next_blank,
    unread,         \* the newest blank in the control node's queue
    \* histories
    late,           \* callbacks fired since nobody wanted them; -1 while they are wanted
    timeouts,       \* full timeouts since a blank was last seen
    told            \* whether a callback has been fired since the worker was enabled

worker == <<enabled_, thread_exit_, last_timestamp_, vsync_period_ns_, expected_period_ns_,
            enable_vsync_timestamps_, display_on_, last_timestamp_is_fresh_, callback_,
            last_present_fence_>>
source == <<mReporting, mTimedOutWhileGranted, mPorchReported>>
frame == <<timestamp, ran, wake, fires>>
composer == <<caller, calls>>
head == <<now, lit, reporting, panel, wanted, next_blank, unread>>
histories == <<late, timeouts, told>>
vars == <<worker, source, pc, frame, composer, head, histories>>

None == [at |-> 0, ran |-> 0]

Init ==
    /\ enabled_ = FALSE /\ thread_exit_ = FALSE /\ last_timestamp_ = 0
    /\ vsync_period_ns_ = FirstPeriod /\ expected_period_ns_ = 0
    /\ enable_vsync_timestamps_ = FALSE /\ display_on_ = TRUE
    /\ last_timestamp_is_fresh_ = FALSE /\ callback_ = FALSE /\ last_present_fence_ = 0
    /\ mReporting = FALSE /\ mTimedOutWhileGranted = FALSE /\ mPorchReported = FALSE
    /\ pc = "top" /\ timestamp = 0 /\ ran = 0 /\ wake = 0 /\ fires = FALSE
    /\ caller = "idle" /\ calls = 0
    /\ now = 1 /\ lit = TRUE /\ reporting = FALSE /\ unread = None
    /\ panel = FirstPeriod /\ wanted = FirstPeriod /\ next_blank = 1 + FirstPeriod
    /\ late = 0 /\ timeouts = 0 /\ told = FALSE

-----------------------------------------------------------------------------
\* C++'s division, which drops the fraction towards nought.
Quotient(a, b) == IF a >= 0 THEN a \div b ELSE -((-a) \div b)

Abs(n) == IF n < 0 THEN -n ELSE n

ShouldEnable == display_on_ /\ (enable_vsync_timestamps_ \/ callback_)

\* UpdateLastVsyncTimeWithPresentTime: what last_timestamp_ becomes; the fence
\* is let go either way.
WithPresentTime ==
    IF enabled_ \/ last_present_fence_ > now \/ last_present_fence_ <= last_timestamp_
    THEN last_timestamp_ ELSE last_present_fence_

\* GetPhasedVSync(frame_ns, current), with the timestamp brought up to date.
Phased(last, period, time) ==
    IF last = 0 THEN time + period
    ELSE period * (Quotient(time - last, period) + 1) + last

\* Whether the blank just seen ended a frame run at the expected period: by the
\* display's word, or else by the spacing of the blanks.
TookHold ==
    IF ran # 0 THEN Abs(ran - expected_period_ns_) <= expected_period_ns_ \div 100
    ELSE /\ last_timestamp_ # 0
         /\ Abs(timestamp - last_timestamp_ - expected_period_ns_) <= expected_period_ns_ \div 5

-----------------------------------------------------------------------------
\* The composer's calls.  No call follows StopThread.

Call == caller = "idle" /\ ~thread_exit_ /\ calls < MaxCalls /\ calls' = calls + 1

\* The setters change their own field, and in a critical section of its own
\* (UpdateVSyncControl) what follows from it.
SetTimestampCallback(on) ==
    /\ Call /\ callback_' = on /\ caller' = "update"
    /\ UNCHANGED <<enabled_, thread_exit_, last_timestamp_, vsync_period_ns_,
                   expected_period_ns_, enable_vsync_timestamps_, display_on_,
                   last_timestamp_is_fresh_, last_present_fence_, source, pc, frame, head,
                   histories>>

\* SetPowerMode turns the head first; the driver drops the request for blanks
\* with the head it turns off.
HeadTurns(on) ==
    /\ Call /\ lit' = on /\ caller' = "power"
    /\ reporting' = (reporting /\ on)
    /\ next_blank' = IF on /\ ~lit THEN now + panel ELSE next_blank
    /\ UNCHANGED <<worker, source, pc, frame, now, panel, wanted, unread, histories>>

SetDisplayOn ==
    /\ caller = "power" /\ display_on_' = lit /\ caller' = "update"
    /\ UNCHANGED <<enabled_, thread_exit_, last_timestamp_, vsync_period_ns_,
                   expected_period_ns_, enable_vsync_timestamps_, callback_,
                   last_timestamp_is_fresh_, last_present_fence_, source, pc, frame, calls,
                   head, histories>>

SetVsyncTimestampTracking(on) ==
    /\ Call /\ enable_vsync_timestamps_' = on /\ caller' = "update"
    /\ last_timestamp_is_fresh_' = (last_timestamp_is_fresh_ /\ ~on)
    /\ UNCHANGED <<enabled_, thread_exit_, last_timestamp_, vsync_period_ns_,
                   expected_period_ns_, display_on_, callback_, last_present_fence_, source, pc,
                   frame, head, late, timeouts, told>>

\* A sleeping thread is left asleep.
MutUpdateVSyncControl ==
    /\ caller = "update" /\ enabled_' = ShouldEnable /\ caller' = "idle"
    /\ late' = IF display_on_ /\ (enable_vsync_timestamps_ \/ callback_) THEN -1
               ELSE IF late = -1 THEN 0 ELSE late
    /\ told' = (told /\ enabled_)
    /\ UNCHANGED <<thread_exit_, last_timestamp_, vsync_period_ns_, expected_period_ns_,
                   enable_vsync_timestamps_, display_on_, last_timestamp_is_fresh_, callback_,
                   last_present_fence_, source, pc, frame, calls, head, timeouts>>

UpdateVSyncControl ==
    /\ caller = "update" /\ enabled_' = ShouldEnable /\ caller' = "idle"
    /\ pc' = IF pc = "sleep" THEN "woken" ELSE pc
    /\ late' = IF display_on_ /\ (enable_vsync_timestamps_ \/ callback_) THEN -1
               ELSE IF late = -1 THEN 0 ELSE late
    /\ told' = (told /\ enabled_)
    /\ UNCHANGED <<thread_exit_, last_timestamp_, vsync_period_ns_, expected_period_ns_,
                   enable_vsync_timestamps_, display_on_, last_timestamp_is_fresh_, callback_,
                   last_present_fence_, source, frame, calls, head, timeouts>>

\* A mode set is in force when the commit returns; the worker is told after.
ModeSet(period) ==
    /\ Call /\ caller' = "mode"
    /\ panel' = period /\ wanted' = period /\ next_blank' = now + period
    /\ UNCHANGED <<worker, source, pc, frame, now, lit, reporting, unread, late, timeouts, told>>

SetVsyncPeriodNs ==
    /\ caller = "mode" /\ caller' = "idle"
    /\ vsync_period_ns_' = wanted /\ expected_period_ns_' = 0 /\ last_timestamp_' = 0
    /\ last_present_fence_' = 0
    /\ UNCHANGED <<enabled_, thread_exit_, enable_vsync_timestamps_, display_on_,
                   last_timestamp_is_fresh_, callback_, source, pc, frame, calls, head,
                   histories>>

\* A seamless change: the panel takes it up on its own, perhaps before the
\* worker is told to expect it.
RateAsked(period) ==
    /\ Call /\ caller' = "rate" /\ wanted' = period
    /\ UNCHANGED <<worker, source, pc, frame, now, lit, reporting, panel, next_blank, unread,
                   late, timeouts, told>>

\* The rate already in force is nothing to expect, and nothing is forgotten.
MutExpectVsyncPeriodNs ==
    /\ caller = "rate" /\ caller' = "idle"
    /\ expected_period_ns_' = IF wanted = vsync_period_ns_ THEN expected_period_ns_ ELSE wanted
    /\ UNCHANGED <<enabled_, thread_exit_, last_timestamp_, vsync_period_ns_,
                   enable_vsync_timestamps_, display_on_, last_timestamp_is_fresh_, callback_,
                   last_present_fence_, source, pc, frame, calls, head, histories>>

ExpectVsyncPeriodNs ==
    /\ caller = "rate" /\ caller' = "idle"
    /\ expected_period_ns_' = IF wanted = vsync_period_ns_ THEN 0 ELSE wanted
    /\ UNCHANGED <<enabled_, thread_exit_, last_timestamp_, vsync_period_ns_,
                   enable_vsync_timestamps_, display_on_, last_timestamp_is_fresh_, callback_,
                   last_present_fence_, source, pc, frame, calls, head, histories>>

\* A frame's fence, which signals at the blank that shows the frame.
AddLastPresentFence ==
    /\ Call /\ last_present_fence_' = next_blank
    /\ UNCHANGED <<enabled_, thread_exit_, last_timestamp_, vsync_period_ns_,
                   expected_period_ns_, enable_vsync_timestamps_, display_on_,
                   last_timestamp_is_fresh_, callback_, source, pc, frame, caller, head,
                   histories>>

\* What GetNextVsyncTimestamp(time) answers, and what it leaves behind.
NextVsync(time) == Phased(WithPresentTime, vsync_period_ns_, time)

GetNextVsyncTimestamp ==
    /\ Call /\ last_timestamp_' = WithPresentTime /\ last_present_fence_' = 0
    /\ UNCHANGED <<enabled_, thread_exit_, vsync_period_ns_, expected_period_ns_,
                   enable_vsync_timestamps_, display_on_, last_timestamp_is_fresh_, callback_,
                   source, pc, frame, caller, head, histories>>

GetLastVsyncTimestamp == IF last_timestamp_is_fresh_ THEN last_timestamp_ ELSE 0

StopThread ==
    /\ Call /\ thread_exit_' = TRUE /\ enabled_' = FALSE
    /\ pc' = IF pc = "sleep" THEN "woken" ELSE pc
    /\ UNCHANGED <<last_timestamp_, vsync_period_ns_, expected_period_ns_,
                   enable_vsync_timestamps_, display_on_, last_timestamp_is_fresh_, callback_,
                   last_present_fence_, source, frame, caller, head, histories>>

-----------------------------------------------------------------------------
\* ThreadFn.

\* The top of the loop, under the lock.
Top ==
    /\ pc = "top"
    /\ pc' = IF thread_exit_ THEN "exited" ELSE IF enabled_ THEN "ask" ELSE "stop"
    /\ UNCHANGED <<worker, source, frame, composer, head, histories>>

\* TegraVSyncSource::stop, without the lock: reporting off and the queue read dry.
Stop ==
    /\ pc = "stop" /\ pc' = "relock"
    /\ reporting' = FALSE /\ mReporting' = FALSE /\ unread' = None
    /\ UNCHANGED <<worker, mTimedOutWhileGranted, mPorchReported, frame, composer, now, lit,
                   panel, wanted, next_blank, histories>>

\* The switches are read again before the thread sleeps on cv_.
Relock ==
    /\ pc = "relock"
    /\ pc' = IF thread_exit_ THEN "exited" ELSE IF enabled_ THEN "ask" ELSE "sleep"
    /\ UNCHANGED <<worker, source, frame, composer, head, histories>>

\* cv_.wait may return on its own.
WakesByItself ==
    /\ pc = "sleep" /\ pc' = "woken"
    /\ UNCHANGED <<worker, source, frame, composer, head, histories>>

Woken ==
    /\ pc = "woken" /\ pc' = IF enabled_ THEN "ask" ELSE "top"
    /\ UNCHANGED <<worker, source, frame, composer, head, histories>>

\* The callback, without the lock.
Fire ==
    /\ pc = "fire" /\ pc' = "top" /\ fires' = FALSE
    /\ late' = IF fires /\ late >= 0 THEN late + 1 ELSE late
    /\ told' = (told \/ fires)
    /\ UNCHANGED <<worker, source, timestamp, ran, wake, composer, head, timeouts>>

\* A blank to report: the period told changes where the new one took hold.
Report ==
    /\ pc = "report"
    /\ \/ ~enabled_ /\ pc' = "top" /\ UNCHANGED <<worker, fires>>
       \/ /\ enabled_ /\ pc' = "fire" /\ fires' = callback_
          /\ last_timestamp_is_fresh_' = (last_timestamp_is_fresh_ \/ enable_vsync_timestamps_)
          /\ IF expected_period_ns_ # 0 /\ TookHold
             THEN vsync_period_ns_' = expected_period_ns_ /\ expected_period_ns_' = 0
             ELSE UNCHANGED <<vsync_period_ns_, expected_period_ns_>>
          /\ last_timestamp_' = timestamp
          /\ UNCHANGED <<enabled_, thread_exit_, enable_vsync_timestamps_, display_on_,
                         callback_, last_present_fence_>>
    /\ UNCHANGED <<source, timestamp, ran, wake, composer, head, histories>>

-----------------------------------------------------------------------------
\* TegraVSyncSource::waitForVSync, and the timer in its place.

\* A grant is trusted however often it has failed.
MutAsk(granted) ==
    /\ pc = "ask" /\ pc' = "poll" /\ (lit => granted)
    /\ mReporting' = (mReporting \/ granted)
    /\ reporting' = (lit /\ (reporting \/ ~mReporting))
    /\ UNCHANGED <<worker, mTimedOutWhileGranted, mPorchReported, frame, composer, now, lit,
                   panel, wanted, next_blank, unread, histories>>

\* Blanks are asked for where they are not known to come.  A lit head grants
\* them; of a dark one the driver's answer may be stale.
Ask(granted) ==
    /\ pc = "ask" /\ pc' = "poll" /\ (lit => granted)
    /\ mReporting' = (mReporting \/ (granted /\ ~mTimedOutWhileGranted))
    /\ reporting' = (lit /\ (reporting \/ ~mReporting))
    /\ UNCHANGED <<worker, mTimedOutWhileGranted, mPorchReported, frame, composer, now, lit,
                   panel, wanted, next_blank, unread, histories>>

Fresh == unread # None /\ now - unread.at <= Stale

\* The newest queued blank answers.  How long its frame took is said once a
\* porch other than the panel's own has been seen.
BlankSeen ==
    /\ pc = "poll" /\ Fresh
    /\ mReporting' = TRUE /\ mTimedOutWhileGranted' = FALSE
    /\ mPorchReported' = (mPorchReported \/ unread.ran # FirstPeriod)
    /\ timestamp' = unread.at /\ ran' = IF mPorchReported' THEN unread.ran ELSE 0
    /\ unread' = None /\ pc' = "report" /\ timeouts' = 0
    /\ UNCHANGED <<worker, wake, fires, composer, now, lit, reporting, panel, wanted,
                   next_blank, late, told>>

\* Nothing came: within kWaitTimeoutMs, which a head that blanks never lets
\* pass (none does past the clock's bound), or at a glance.
TimedOut ==
    /\ pc = "poll" /\ ~Fresh /\ (mReporting => ~(lit /\ reporting) \/ now = MaxTime)
    /\ pc' = "synth"
    /\ mReporting' = FALSE
    /\ mTimedOutWhileGranted' = (mTimedOutWhileGranted \/ mReporting)
    /\ timeouts' = IF mReporting THEN timeouts + 1 ELSE timeouts
    /\ UNCHANGED <<worker, mPorchReported, frame, composer, head, late, told>>

\* A signal sends the thread round the loop; a node in trouble to the timer.
PollFails ==
    /\ pc = "poll" /\ pc' \in {"top", "synth"}
    /\ UNCHANGED <<worker, source, frame, composer, head, histories>>

\* The clock stops at its bound, and a moment past the bound is the bound.
Capped(time) == IF time > MaxTime THEN MaxTime ELSE time

\* SyntheticWaitVBlank.
SetTimer ==
    /\ pc = "synth" /\ pc' = "timer"
    /\ last_timestamp_' = WithPresentTime /\ last_present_fence_' = 0
    /\ wake' = Capped(Phased(last_timestamp_', vsync_period_ns_, now))
    /\ UNCHANGED <<enabled_, thread_exit_, vsync_period_ns_, expected_period_ns_,
                   enable_vsync_timestamps_, display_on_, last_timestamp_is_fresh_, callback_,
                   source, timestamp, ran, fires, composer, head, histories>>

TimerEnds ==
    /\ pc = "timer" /\ now >= wake /\ pc' = "report"
    /\ timestamp' = wake /\ ran' = 0
    /\ UNCHANGED <<worker, source, wake, fires, composer, head, histories>>

-----------------------------------------------------------------------------
\* The clock, and with it the panel: a blank ends a frame, is queued if it was
\* asked for, and the next frame runs at the rate wanted.
Tick ==
    /\ now < MaxTime /\ now' = now + 1
    /\ IF now' = next_blank /\ lit
       THEN /\ unread' = IF reporting THEN [at |-> now', ran |-> panel] ELSE unread
            /\ next_blank' = now' + wanted /\ panel' = wanted
       ELSE /\ next_blank' = IF now' = next_blank THEN now' + panel ELSE next_blank
            /\ UNCHANGED <<unread, panel>>
    /\ UNCHANGED <<worker, source, pc, frame, composer, lit, reporting, wanted, late, timeouts,
                   told>>

ThreadNext ==
    \/ Top \/ Stop \/ Relock \/ Woken \/ Report \/ Fire
    \/ \E granted \in BOOLEAN : Ask(granted)
    \/ BlankSeen \/ TimedOut \/ PollFails \/ SetTimer \/ TimerEnds

\* A call goes on to its end.
CallGoesOn == SetDisplayOn \/ SetVsyncPeriodNs \/ ExpectVsyncPeriodNs \/ UpdateVSyncControl

CallerNext ==
    \/ \E on \in BOOLEAN :
        SetTimestampCallback(on) \/ HeadTurns(on) \/ SetVsyncTimestampTracking(on)
    \/ \E p \in Periods : ModeSet(p) \/ RateAsked(p)
    \/ AddLastPresentFence \/ GetNextVsyncTimestamp \/ StopThread

Next == ThreadNext \/ WakesByItself \/ CallGoesOn \/ CallerNext \/ Tick

Spec == Init /\ [][Next]_vars

\* The thread runs at a real-time priority, and no wait in it is for ever; a
\* call goes on to its end; signals do not keep coming.
FairSpec ==
    /\ Spec /\ WF_vars(Tick) /\ WF_vars(CallGoesOn) /\ WF_vars(ThreadNext)
    /\ SF_vars(BlankSeen \/ TimedOut)

-----------------------------------------------------------------------------
TypeOK ==
    /\ {enabled_, thread_exit_, enable_vsync_timestamps_, display_on_, callback_, lit, reporting,
        last_timestamp_is_fresh_, mReporting, mTimedOutWhileGranted, mPorchReported, fires, told}
            \subseteq BOOLEAN
    /\ vsync_period_ns_ \in Periods /\ expected_period_ns_ \in Periods \union {0}
    /\ pc \in {"top", "stop", "relock", "sleep", "woken", "ask", "poll", "synth", "timer",
               "report", "fire", "exited"}
    /\ caller \in {"idle", "update", "power", "mode", "rate"}
    /\ last_timestamp_ \in 0..MaxTime /\ timestamp \in 0..MaxTime
    /\ late \in Nat \union {-1} /\ timeouts \in Nat

\* TegraVSyncSource's kWaitTimeoutMs "is paid once, at the moment blanks stop, and
\* not again on every wait after that", however the driver answers meanwhile and
\* however often the worker is stopped and started.
TimeoutPaidOnce == timeouts <= 1

\* Once the display is dark or nobody listens (and UpdateVSyncControl has said so),
\* the one callback already past ThreadFn's check may still be fired and no other:
\* the timer does not stand in for the blanks of a dark display.
AtMostOneLate == late <= 1

\* The period told changes only to the last one the display was asked for: one
\* replaced by a later change or by a mode set is never told (ThreadFn's
\* expected_period_ns_ against the setters').
OnlyTheLastAsked ==
    [][pc = "report" /\ vsync_period_ns_' # vsync_period_ns_ /\ caller = "idle"
        => vsync_period_ns_' = wanted]_vars

\* What GetNextVsyncTimestamp answers lies after the moment asked about and in phase
\* with the last blank, which (or the fence that stands for it) has happened.  It is
\* the first such moment, but for one asked about from before that blank: C++ divides
\* towards nought, and the answer may then be the second.
NextVsyncInPhase ==
    WithPresentTime # 0 =>
        /\ \A time \in 1..MaxTime :
            /\ time < NextVsync(time)
            /\ IF time >= WithPresentTime
               THEN NextVsync(time) <= time + vsync_period_ns_
               ELSE NextVsync(time) < time + vsync_period_ns_ + vsync_period_ns_
            /\ (NextVsync(time) - WithPresentTime) % vsync_period_ns_ = 0
        /\ WithPresentTime # last_timestamp_ => WithPresentTime <= now /\ ~enabled_

\* What the composer and the framework are told of the blanks is true: the phase,
\* that a dark display has none, and no timeout twice for it.
ClockIsHonest == TimeoutPaidOnce /\ AtMostOneLate /\ NextVsyncInPhase

\* StopThread ends the thread wherever it was: asleep, at the source's stop, in a
\* wait or at the timer.  An enable reaches it wherever it lands: the framework is
\* told of a blank, or the wish for one ends.  (Calls are bounded: both at last.)
Served ==
    /\ thread_exit_ => pc = "exited"
    /\ enabled_ /\ callback_ => told

WorkerAnswers == <>[]Served
=============================================================================
