----------------------------- MODULE Flattening -----------------------------
(***************************************************************************)
(* The composer's main lock and the threads that call the client back:     *)
(* FlatteningController's, which asks for a refresh once a scene has stood *)
(* still, and the display profile watcher's, which asks for one when the   *)
(* profile changed.  Every entry point of the device holds the main lock   *)
(* from its first line to its last, so at most one is inside: a validation,*)
(* which tells the controller of its frame and then asks it whether to     *)
(* plan for a still scene, or a display being taken apart, which stops the *)
(* controller's thread and joins it.                                       *)
(*                                                                         *)
(* mutex_ is the controller's own.  The calls into the controller hold it  *)
(* for one step; the controller's thread takes it in one step and gives it *)
(* up in another.  The clock is abstracted to due: sleep_until_ has passed.*)
(*                                                                         *)
(* The client is external.  locks says whether its refresh path takes the  *)
(* composer's main lock on the calling thread, which is what the comments  *)
(* of FlatteningController.cpp and Hwc.cpp warn of.  Both are explored; a  *)
(* client that locks is taken never to unregister, because the join in     *)
(* Deinit would then wait under the main lock for a thread that waits for  *)
(* the main lock.                                                          *)
(***************************************************************************)
EXTENDS Naturals

CONSTANTS
    MaxFrames,      \* bound on frames the client makes of its own accord
    MaxChanges,     \* bound on changes of the display profile
    MaxDisplays     \* bound on displays that are built, one after the other

ASSUME FlatteningAssumption ==
    MaxFrames \in Nat /\ MaxChanges \in Nat /\ MaxDisplays \in Nat

VARIABLES
    main_lock_,     \* who holds it: "none", "entry" or "watcher"
    mutex_,         \* the controller's: "none" or "thread"
    state_,         \* FlatteningController::state_
    due,            \* sleep_until_ <= now
    thread,         \* where the controller's thread is
    display,        \* the display has its pipeline and its controller
    entry,          \* where the entry point holding the main lock is
    many,           \* the frame validated has more than one layer
    drawing,        \* AnyLayerDrawing, judged at that frame
    consolidated,   \* plan_consolidated_
    stale,          \* the display's profile differs from the one wanted
    watcher,        \* where the profile watcher is
    locks,          \* the client's refresh path takes the main lock; never changes
    asked,          \* the client has a refresh to answer
    frames, changes, displays

controller == <<mutex_, state_, due, thread>>
scene == <<many, drawing, consolidated>>
counts == <<locks, frames, changes, displays>>
vars == <<main_lock_, controller, display, entry, scene, stale, watcher,
          asked, counts>>

States == {"disabled", "active", "triggered", "flattened", "exit"}

\* The types, and that a lock is held by the one thread that stands between
\* taking it and giving it up: no callback is made with either lock held.
TypeOK ==
    /\ (main_lock_ = "entry") = (entry # "none")
    /\ (main_lock_ = "watcher") = (watcher = "reading")
    /\ (mutex_ = "thread") = (thread = "locked")
    /\ main_lock_ \in {"none", "entry", "watcher"}
    /\ mutex_ \in {"none", "thread"}
    /\ state_ \in States
    /\ thread \in {"none", "loop", "locked", "wait", "wait_until", "trigger",
                   "exited"}
    /\ entry \in {"none", "validate", "plan", "stop", "join"}
    /\ watcher \in {"sleep", "reading", "refresh"}
    /\ {due, display, many, drawing, consolidated, stale, asked, locks} \subseteq BOOLEAN
    /\ frames \in 0..MaxFrames /\ changes \in 0..MaxChanges
    /\ displays \in 0..MaxDisplays

Init ==
    /\ main_lock_ = "none" /\ mutex_ = "none"
    /\ state_ = "disabled" /\ due = TRUE /\ thread = "none"
    /\ display = FALSE /\ entry = "none"
    /\ many = FALSE /\ drawing = FALSE /\ consolidated = FALSE
    /\ stale = FALSE /\ watcher = "sleep" /\ asked = FALSE
    /\ locks \in BOOLEAN
    /\ frames = 0 /\ changes = 0 /\ displays = 0

-----------------------------------------------------------------------------
\* The controller's own operations, each under mutex_.

\* cv_.notify_all: the thread goes back to the top of its loop.
Notified == IF thread \in {"wait", "wait_until"} THEN "loop" ELSE thread

DisableFlattening ==
    state_' = "disabled" /\ UNCHANGED <<due, thread>>

\* A mistake: the answer to the refresh counts as activity.
MutNewFrame ==
    /\ due' = FALSE /\ state_' = "active"
    /\ thread' = IF state_ = "active" THEN thread ELSE Notified

NewFrame ==
    IF state_ = "triggered"
    THEN state_' = "flattened" /\ UNCHANGED <<due, thread>>
    ELSE /\ due' = FALSE
         /\ state_' = "active"
         /\ thread' = IF state_ = "active" THEN thread ELSE Notified

SettledFrame ==
    /\ state_' = IF state_ \in {"disabled", "exit"} THEN state_ ELSE "flattened"
    /\ UNCHANGED <<due, thread>>

ShouldFlatten == state_ \in {"triggered", "flattened"}

StopThread == state_' = "exit" /\ thread' = Notified /\ due' = due

-----------------------------------------------------------------------------
\* The entry points.  Each takes the main lock first and gives it up last.

\* HwcDisplay::Init, of a display just made.
BuildDisplay ==
    /\ main_lock_ = "none" /\ ~display /\ displays < MaxDisplays
    /\ display' = TRUE /\ displays' = displays + 1
    /\ mutex_' = "none" /\ state_' = "disabled" /\ due' = TRUE /\ thread' = "loop"
    /\ many' = FALSE /\ drawing' = FALSE /\ consolidated' = FALSE
    /\ UNCHANGED <<main_lock_, entry, stale, watcher, asked, locks, frames, changes>>

\* A frame of the client's own, or its answer to the refresh it was asked for.
EnterValidate ==
    /\ main_lock_ = "none" /\ display
    /\ \/ frames < MaxFrames /\ frames' = frames + 1
          /\ many' \in BOOLEAN /\ drawing' \in BOOLEAN
       \/ asked /\ drawing' \in {FALSE, drawing} /\ UNCHANGED <<frames, many>>
    /\ asked' = FALSE
    /\ main_lock_' = "entry" /\ entry' = "validate"
    /\ UNCHANGED <<controller, display, consolidated, stale, watcher, locks,
                   changes, displays>>

\* many stands for layers_.size() > 1 with flattening wanted at all.
TellFrame ==
    /\ entry = "validate" /\ mutex_ = "none"
    /\ CASE ~many -> DisableFlattening
         [] many /\ consolidated /\ ~drawing -> SettledFrame
         [] OTHER -> NewFrame
    /\ entry' = "plan"
    /\ stale' = FALSE           \* RefreshDisplayProfile
    /\ UNCHANGED <<main_lock_, mutex_, display, scene, watcher, asked, counts>>

\* The plan made, in which prefer_merge may come to nothing, or the one
\* standing used again or left by an early return.
MakePlan ==
    /\ entry = "plan" /\ mutex_ = "none"
    /\ consolidated' \in {ShouldFlatten /\ many, FALSE, consolidated}
    /\ main_lock_' = "none" /\ entry' = "none"
    /\ UNCHANGED <<controller, display, many, drawing, stale, watcher, asked,
                   counts>>

EnterDeinit ==
    /\ ~locks /\ main_lock_ = "none" /\ display
    /\ main_lock_' = "entry" /\ entry' = "stop"
    /\ UNCHANGED <<controller, display, scene, stale, watcher, asked, counts>>

DestroyController ==
    /\ entry = "stop" /\ mutex_ = "none"
    /\ StopThread
    /\ entry' = "join"
    /\ UNCHANGED <<main_lock_, mutex_, display, scene, stale, watcher, asked,
                   counts>>

\* A mistake: the controller goes without its thread being joined.
MutJoinThread ==
    /\ entry = "join"
    /\ display' = FALSE /\ main_lock_' = "none" /\ entry' = "none"
    /\ UNCHANGED <<controller, scene, stale, watcher, asked, counts>>

JoinThread ==
    /\ entry = "join" /\ thread = "exited"
    /\ display' = FALSE /\ main_lock_' = "none" /\ entry' = "none"
    /\ UNCHANGED <<controller, scene, stale, watcher, asked, counts>>

EntryGoesOn == TellFrame \/ MakePlan \/ DestroyController \/ JoinThread
Entry == BuildDisplay \/ EnterValidate \/ EnterDeinit \/ EntryGoesOn

-----------------------------------------------------------------------------
\* The client's refresh path, on the thread that asks.
RefreshGoesThrough == locks => main_lock_ = "none"

-----------------------------------------------------------------------------
\* FlatteningController::ThreadFn.

LockMutex ==
    /\ thread = "loop" /\ mutex_ = "none"
    /\ thread' = "locked" /\ mutex_' = "thread"
    /\ UNCHANGED <<main_lock_, state_, due, display, entry, scene, stale,
                   watcher, asked, counts>>

Decide ==
    /\ thread = "locked"
    /\ mutex_' = "none"
    /\ \/ state_ = "exit" /\ thread' = "exited" /\ state_' = state_
       \/ due /\ state_ = "active" /\ thread' = "trigger" /\ state_' = "triggered"
       \/ state_ \notin {"exit", "active"} /\ thread' = "wait" /\ state_' = state_
       \/ ~due /\ state_ = "active" /\ thread' = "wait_until" /\ state_' = state_
    /\ UNCHANGED <<main_lock_, due, display, entry, scene, stale, watcher,
                   asked, counts>>

\* cbks_.trigger(), outside mutex_.
Trigger ==
    /\ thread = "trigger" /\ RefreshGoesThrough
    /\ thread' = "loop" /\ asked' = TRUE
    /\ UNCHANGED <<main_lock_, mutex_, state_, due, display, entry, scene,
                   stale, watcher, counts>>

\* The wait ends: of itself at any time, and at the latest when it is due.
WaitEnds ==
    /\ thread \in {"wait", "wait_until"}
    /\ thread' = "loop"
    /\ UNCHANGED <<main_lock_, mutex_, state_, due, display, entry, scene,
                   stale, watcher, asked, counts>>

TimeIsUp ==
    /\ thread = "wait_until" /\ due
    /\ WaitEnds

TimePasses ==
    /\ ~due /\ due' = TRUE
    /\ UNCHANGED <<main_lock_, mutex_, state_, thread, display, entry, scene,
                   stale, watcher, asked, counts>>

ThreadNext == LockMutex \/ Decide \/ Trigger \/ TimeIsUp

-----------------------------------------------------------------------------
\* The profile watcher's loop.

ProfileChanges ==
    /\ changes < MaxChanges /\ changes' = changes + 1
    /\ stale' = TRUE
    /\ UNCHANGED <<main_lock_, controller, display, entry, scene, watcher,
                   asked, locks, frames, displays>>

WatcherLocks ==
    /\ watcher = "sleep" /\ main_lock_ = "none"
    /\ watcher' = "reading" /\ main_lock_' = "watcher"
    /\ UNCHANGED <<controller, display, entry, scene, stale, asked, counts>>

WatcherReads ==
    /\ watcher = "reading"
    /\ main_lock_' = "none"
    /\ watcher' = IF display /\ stale THEN "refresh" ELSE "sleep"
    /\ stale' = IF display THEN FALSE ELSE stale
    /\ UNCHANGED <<controller, display, entry, scene, asked, counts>>

WatcherRefreshes ==
    /\ watcher = "refresh" /\ RefreshGoesThrough
    /\ watcher' = "sleep" /\ asked' = TRUE
    /\ UNCHANGED <<main_lock_, controller, display, entry, scene, stale, counts>>

WatcherNext == WatcherLocks \/ WatcherReads \/ WatcherRefreshes

Next ==
    \/ Entry
    \/ ThreadNext \/ WaitEnds \/ TimePasses
    \/ ProfileChanges \/ WatcherNext

Spec == Init /\ [][Next]_vars

(***************************************************************************)
(* Threads that can run do; a mutex is not kept from a thread for ever by  *)
(* others passing through it (SF where a lock is taken); time passes; the  *)
(* client answers the refreshes it was asked for.  Nobody is obliged to    *)
(* draw, to build a display or to take one apart.                          *)
(***************************************************************************)
FairSpec ==
    /\ Spec
    /\ WF_vars(EntryGoesOn) /\ SF_vars(TellFrame) /\ SF_vars(MakePlan)
    /\ SF_vars(DestroyController)
    /\ SF_vars(asked /\ EnterValidate /\ frames' = frames)
    /\ SF_vars(LockMutex) /\ WF_vars(Decide) /\ SF_vars(Trigger)
    /\ WF_vars(TimeIsUp) /\ WF_vars(TimePasses)
    /\ WF_vars(WatcherReads) /\ SF_vars(WatcherRefreshes)

-----------------------------------------------------------------------------
\* A display that was taken apart has no refresh of its controller under way:
\* the trigger captures the display, which is destroyed right after Deinit.
NoTriggerOutlivesDisplay == ~display => thread \in {"none", "exited"}

\* An entry point that took the main lock gives it back: the callbacks and
\* the entry points never wait for one another in a circle ("its symptom is
\* the screen simply stopping").
EntryReturns == entry # "none" ~> entry = "none"

\* Once the client draws nothing of its own accord the refreshes come to an
\* end: the frame that answers one is told from a frame that starts the wait
\* anew, whatever frame overtakes it between the decision and the refresh.
QuietAtLast ==
    <>[](display => ~asked /\ state_ \notin {"active", "triggered"})

=============================================================================
