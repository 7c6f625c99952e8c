-------------------------------- MODULE Hdcp --------------------------------
(***************************************************************************)
(* compositor/HdcpController: content protection is asked for with a       *)
(* frame, the controller's thread watches the connector until it answers   *)
(* or a deadline passes, and a first failure is tried again with the older *)
(* type.  Frames, the bind, the kernel's notice and the unbind run under   *)
(* the composer's main lock; the thread takes only its own mutex, and asks *)
(* the connector and tells the client outside it.                          *)
(***************************************************************************)
EXTENDS Naturals

CONSTANTS
    MaxFrames,     \* bound: frames the client shows of its own
    MaxRefusals,   \* bound: commits refused
    MaxDrops       \* bound: times the link loses its protection

VARIABLES
    life,       \* "none", "bare" (no such properties), "live", "gone"
    ctl,        \* hdcp_state_, was_retry_, and whether sleep_until_ is past
    at,         \* where the thread is
    found,      \* thread: what the connector answered
    level,      \* thread: what it is about to tell
    main,       \* "free", "frame" between its reading and its commit, "joining"
    args,       \* the type the frame under way asks for
    link,       \* connector: the type last asked, protected, seen so since
    told,       \* the level the client was last told
    asks,       \* refreshes asked of the client and not answered
    owed,       \* the kernel's notice of a lost link is under way
    count       \* bounds: frames, refusals, drops

hdcpVars == <<life, ctl, at, found, level, main, args, link, told, asks, owed, count>>

Types == {"type1", "type0"}

Init ==
    /\ life = "none"
    /\ ctl = [state |-> "undesired", retried |-> FALSE, due |-> FALSE]
    /\ at = "none" /\ found = FALSE /\ level = "off"
    /\ main = "free" /\ args = "none"
    /\ link = [type |-> "none", on |-> FALSE, seen |-> FALSE]
    /\ told = "never" /\ asks = 0 /\ owed = FALSE
    /\ count = [frames |-> 0, refusals |-> 0, drops |-> 0]

\* notify_all: the thread leaves whichever wait it is in.
Woken == CASE at = "asleep" -> "top" [] at = "timed" -> "waked" [] OTHER -> at

-----------------------------------------------------------------------------
(* Under the main lock.                                                     *)

\* BindDisplay: a controller where the connector has the properties, started
\* at once where the display is external and the switch says so.
Start(c) == IF c.state = "retry" THEN c ELSE [c EXCEPT !.state = "desired"]

RequestHdcpNegotiation(c, enabled, external) == IF enabled /\ external THEN Start(c) ELSE c

Bind ==
    /\ life = "none" /\ main = "free"
    /\ \E present, enabled, external \in BOOLEAN :
          /\ life' = IF present THEN "live" ELSE "bare"
          /\ at' = IF present THEN "top" ELSE "none"
          /\ ctl' = IF present THEN RequestHdcpNegotiation(ctl, enabled, external) ELSE ctl
    /\ UNCHANGED <<found, level, main, args, link, told, asks, owed, count>>

\* CreateFrameUpdateCommit reads the state; the thread may move it before
\* the frame is committed.
AskFor(state) == CASE state = "desired" -> "type1" [] state = "retry" -> "type0" [] OTHER -> "none"

BuildFrame ==
    /\ life \in {"live", "bare"} /\ main = "free"
    /\ asks > 0 \/ count.frames < MaxFrames
    /\ count' = IF asks > 0 THEN count ELSE [count EXCEPT !.frames = @ + 1]
    /\ asks' = 0
    /\ main' = "frame"
    /\ args' = IF life = "live" THEN AskFor(ctl.state) ELSE "none"
    /\ UNCHANGED <<life, ctl, at, found, level, link, told, owed>>

\* The memory of the retry is not renewed.
MutRequested(c) ==
    IF c.state \in {"enabled", "undesired"} THEN c
    ELSE [state |-> "requested", retried |-> FALSE, due |-> FALSE]
Requested(c) ==
    IF c.state \in {"enabled", "undesired"} THEN c
    ELSE [state |-> "requested", retried |-> c.state = "retry", due |-> FALSE]

ApplyCommitChanges ==
    IF args = "none" THEN UNCHANGED <<ctl, at, link>>
    ELSE /\ ctl' = Requested(ctl)
         /\ at' = IF ctl.state \in {"enabled", "undesired"} THEN at ELSE Woken
         /\ link' = [type |-> args, on |-> FALSE, seen |-> FALSE]

CommitFrame ==
    /\ main = "frame" /\ main' = "free" /\ args' = "none"
    /\ \/ ApplyCommitChanges /\ UNCHANGED count
       \/ /\ count.refusals < MaxRefusals
          /\ count' = [count EXCEPT !.refusals = @ + 1]
          /\ UNCHANGED <<ctl, at, link>>
    /\ UNCHANGED <<life, found, level, told, asks, owed>>

\* NotifyHdcpTermination, StopHdcp: only what is enabled is ended, and the
\* client is told inside the mutex.
StopHdcp ==
    IF ctl.state = "enabled"
    THEN ctl' = [ctl EXCEPT !.state = "undesired"] /\ told' = "off" /\ at' = Woken
    ELSE UNCHANGED <<ctl, told, at>>

NotifyHdcpTermination ==
    /\ owed /\ main = "free" /\ owed' = FALSE
    /\ IF life = "live" THEN StopHdcp ELSE UNCHANGED <<ctl, told, at>>
    /\ UNCHANGED <<life, found, level, main, args, link, asks, count>>

\* The destructor, from Deinit: the state says exit, then the join.
Unbind ==
    /\ life = "live" /\ main = "free"
    /\ ctl' = [ctl EXCEPT !.state = "exit"] /\ at' = Woken
    /\ main' = "joining"
    /\ UNCHANGED <<life, found, level, args, link, told, asks, owed, count>>

Joined ==
    /\ main = "joining" /\ at = "gone"
    /\ main' = "free" /\ life' = "gone"
    /\ UNCHANGED <<ctl, at, found, level, args, link, told, asks, owed, count>>

-----------------------------------------------------------------------------
(* The thread.                                                              *)

ThreadOnly == UNCHANGED <<life, main, args, link, owed, count>>
Quiet == UNCHANGED <<ctl, found, level, told, asks>>

TopGoes(c) ==
    CASE c.state = "exit" -> "gone"
      [] c.state = "requested" -> IF c.due THEN "query" ELSE "timed"
      [] OTHER -> "asleep"

Top == at = "top" /\ at' = TopGoes(ctl) /\ Quiet /\ ThreadOnly

\* A wait ends by itself: the second is over, or for no reason.
WaitEnds == at = "timed" /\ at' = "waked" /\ Quiet /\ ThreadOnly
WakesForNothing == at = "asleep" /\ at' = "top" /\ Quiet /\ ThreadOnly

Waked ==
    /\ at = "waked" /\ at' = IF ctl.state = "requested" THEN "early" ELSE "top"
    /\ Quiet /\ ThreadOnly

EarlyCheck == at = "early" /\ at' = (IF link.on THEN "query" ELSE "top") /\ Quiet /\ ThreadOnly

\* SetContentProtectionStatus: asked outside the mutex, decided inside,
\* told outside again.
Query ==
    /\ at = "query" /\ at' = "decide" /\ found' = link.on
    /\ UNCHANGED <<ctl, level, told, asks>> /\ ThreadOnly

Decided(c, on) ==
    CASE on               -> [c EXCEPT !.state = "enabled", !.retried = FALSE]
      [] ~on /\ c.retried -> [c EXCEPT !.state = "undesired", !.retried = FALSE]
      [] OTHER            -> [c EXCEPT !.state = "retry"]
LevelFor(c, on) == IF ~on THEN "off" ELSE IF c.retried THEN "type0" ELSE "type1"

Decide ==
    /\ at = "decide"
    /\ IF ctl.state # "requested" THEN at' = "top" /\ UNCHANGED <<ctl, level>>
       ELSE /\ ctl' = Decided(ctl, found)
            /\ level' = LevelFor(ctl, found)
            /\ at' = IF found \/ ctl.retried THEN "notify" ELSE "trigger"
    /\ UNCHANGED <<found, told, asks>> /\ ThreadOnly

Notify ==
    /\ at = "notify" /\ at' = "top" /\ told' = level
    /\ UNCHANGED <<ctl, found, level, asks>> /\ ThreadOnly

Asked(n) == n + 1

Trigger ==
    /\ at = "trigger" /\ at' = "top" /\ asks' = Asked(asks)
    /\ UNCHANGED <<ctl, found, level, told>> /\ ThreadOnly

-----------------------------------------------------------------------------
(* Outside.                                                                 *)

DeadlinePasses ==
    /\ ctl.state = "requested" /\ ~ctl.due /\ ctl' = [ctl EXCEPT !.due = TRUE]
    /\ UNCHANGED <<life, at, found, level, main, args, link, told, asks, owed, count>>

LinkProtects ==
    /\ link.type \in Types /\ ~link.on /\ ~owed
    /\ link' = [link EXCEPT !.on = TRUE, !.seen = TRUE]
    /\ UNCHANGED <<life, ctl, at, found, level, main, args, told, asks, owed, count>>

LinkDrops ==
    /\ link.on /\ ~owed /\ count.drops < MaxDrops
    /\ link' = [link EXCEPT !.on = FALSE, !.type = "none"] /\ owed' = TRUE
    /\ count' = [count EXCEPT !.drops = @ + 1]
    /\ UNCHANGED <<life, ctl, at, found, level, main, args, told, asks>>

Thread == Top \/ WaitEnds \/ Waked \/ EarlyCheck \/ Query \/ Decide \/ Notify \/ Trigger

Next ==
    \/ Bind \/ BuildFrame \/ CommitFrame \/ NotifyHdcpTermination \/ Unbind \/ Joined
    \/ Thread \/ WakesForNothing
    \/ DeadlinePasses \/ LinkProtects \/ LinkDrops

Spec == Init /\ [][Next]_hdcpVars

\* The client answers a refresh it was asked for.
AnswerRefresh == asks > 0 /\ BuildFrame

-----------------------------------------------------------------------------
\* A level told to the client is the type of the request the link answered,
\* and was told only after the link was seen protected since that request
\* was committed; where the link never fails, what was told last is what the
\* controller holds (Requested, SetContentProtectionStatus, Terminate).
ToldIsAsked ==
    /\ level \in Types /\ at = "notify" => link.seen
    /\ level \in Types /\ at = "notify" /\ link.type # "none" => level = link.type
    /\ count.drops = 0 /\ at \in {"asleep", "timed"} =>
          /\ ctl.state = "enabled" <=> told \in Types
          /\ told \in Types => told = link.type

\* A request is answered or given up, never left waiting: at its deadline it
\* is tried once more with the older type, and the refresh that carries the
\* second try is asked for, as long as no frame is refused (the refresh is
\* asked for once); and a display that goes joins the thread (Requested,
\* ThreadFn, ~HdcpController).
RequestsEnd ==
    /\ (ctl.state \in {"requested", "retry"})
         ~> (ctl.state \in {"enabled", "undesired", "exit"} \/ count.refusals > 0)
    /\ (main = "joining") ~> (main = "free")
=============================================================================
