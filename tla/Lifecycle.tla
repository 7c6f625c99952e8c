----------------------------- MODULE Lifecycle -----------------------------
(* How displays come and go: the client registering for hotplug events and
   leaving, Hwc::Init taking every head apart before it takes hold of any, a
   pipeline bound to a display and unbound, the retries of a first mode set
   that finds no windows, the fall-back to a headless stand-in, and the queue
   of events flushed after the main lock is released.

   Registering runs to its end under the main lock, its sleeps included, and is
   one action; the flush is another, and other calls fall between the two.  A
   predecessor on its way out may still hold a head's windows; it lets go after
   some number of the composer's sleeps.                                    *)
EXTENDS Integers, Sequences, FiniteSets, FiniteSetsExt, Functions, SequencesExt

CONSTANTS
  Heads,       \* display heads probed
  MaxHold,     \* sleeps of the composer a predecessor may outlast
  MaxInits,    \* bound on registrations
  MaxQueued    \* bound on config changes asked for

Primary == 0
NoPipe  == <<>>
None    == -1

LifecycleAssumption ==
  /\ IsFiniteSet(Heads) /\ Heads # {} /\ Heads \subseteq Nat
  /\ MaxHold \in Nat /\ MaxInits \in Nat /\ MaxQueued \in Nat

VARIABLES
  hold,      \* per head, the sleeps its predecessor still outlasts
  hwc,       \* Hwc: displays_, display_handles_, last_display_handle_, the
             \* displays for removal and the queue of hotplug events
  pipes,     \* living pipelines: head and what asking for windows answered
  callback,  \* whether a client is registered for hotplug
  client,    \* handles the client believes connected
  pc,        \* "idle", or "flush" between the main lock and the flush
  count      \* registrations and queued configs so far
vars == <<hold, hwc, pipes, callback, client, pc, count>>

----------------------------------------------------------------------------
(* A registration in progress.                                              *)
Work == [hwc |-> hwc, pipes |-> pipes, hold |-> hold, ok |-> TRUE]

Empty == [x \in {} |-> 0]

Schedule(s, h, status) == [s EXCEPT !.hwc.events = (h :> status) @@ @]
Sleep(s) == [s EXCEPT !.hold = [i \in Heads |-> IF @[i] > 0 THEN @[i] - 1 ELSE 0]]

(* A new display: nothing made yet.                                         *)
NewDisplay == [pipe |-> NoPipe, configs |-> {}, active |-> 0, staged |-> None,
               seamless |-> TRUE, next |-> 1, clock |-> FALSE]

(* DcHead::windows: the head's windows go to whoever asks first, and the
   answer is kept, an empty one too.  "own" is an answer refused because an
   older pipeline of this very composer still holds them.                   *)
HeldByOwn(s, p) ==
  \E q \in DOMAIN s.pipes \ {p} :
    s.pipes[q].head = s.pipes[p].head /\ s.pipes[q].windows = "some"
windows(s, p) ==
  LET answer == IF s.hold[s.pipes[p].head] > 0 THEN "none"
                ELSE IF HeldByOwn(s, p) THEN "own" ELSE "some"
  IN IF s.pipes[p].windows # "unasked" THEN s
     ELSE [s EXCEPT !.pipes[p].windows = answer]

(* A blocking mode set on a live head needs a window to show with; headless,
   the config is only noted.                                                *)
SetOnHead(s, h, p, config) ==
  IF s.pipes[p].windows # "some" THEN [s EXCEPT !.ok = FALSE]
  ELSE [s EXCEPT !.hwc.displays[h].active = config,
                 !.hwc.displays[h].staged = None, !.ok = TRUE]
SetConfig(s, h, config) ==
  IF s.hwc.displays[h].pipe = NoPipe
    THEN [s EXCEPT !.hwc.displays[h].active = config, !.ok = TRUE]
    ELSE SetOnHead(windows(s, s.hwc.displays[h].pipe), h,
                   s.hwc.displays[h].pipe, config)

(* HwcDisplay::Init.  Config ids are never used again: one fake mode, then
   the panel's own rate and, where the porch stretches, the slow one.  A test
   commit decides whether the two share a group.                            *)
GenerateDisplayConfigs(d, rates) ==
  [d EXCEPT !.configs = IF rates = "one" THEN {d.next + 1} ELSE {d.next + 1, d.next + 2},
            !.active = d.next, !.seamless = rates = "seamless", !.clock = TRUE,
            !.next = IF rates = "one" THEN @ + 2 ELSE @ + 3]
GetFakeMode(d) == [d EXCEPT !.configs = {d.next}, !.next = @ + 1]
DisplayInit(s, h) ==
  LET d == s.hwc.displays[h]
  IN IF d.pipe = NoPipe
       THEN SetConfig([s EXCEPT !.hwc.displays[h] =
                         [GetFakeMode(d) EXCEPT !.clock = TRUE]], h, d.next)
       ELSE SetConfig([s EXCEPT !.hwc.displays[h] =
                         GenerateDisplayConfigs(d, s.pipes[d.pipe].rates)], h, d.next + 1)

Deinit(s, h) == [s EXCEPT !.hwc.displays[h].clock = FALSE]

Retry(s, h) == IF s.ok THEN s ELSE DisplayInit(Deinit(Sleep(s), h), h)

(* The fall-back restates what a headless display answers from.             *)
StandIn(d) ==
  [GetFakeMode(d) EXCEPT !.pipe = NoPipe, !.active = d.next, !.staged = None,
                         !.clock = FALSE]
Fallback(s, h) ==
  IF s.ok THEN s
  ELSE [s EXCEPT !.hwc.displays[h] = StandIn(@)]

(* HwcDisplay::SetPipeline.  The primary is announced before the retries, a
   secondary only once it is known how it went.                             *)
Announce(s, h) == IF h = Primary THEN Schedule(s, h, "connected") ELSE s
MutTellHow(s, h) == IF h = Primary THEN s ELSE Schedule(s, h, "connected")
TellHow(s, h) ==
  IF h = Primary THEN s
  ELSE Schedule(s, h, IF s.ok THEN "connected" ELSE "disconnected")
SetPipeline(s, h, p) ==
  LET bare == [Deinit(s, h) EXCEPT !.hwc.displays[h].pipe = p]
  IN IF p = NoPipe /\ h # Primary THEN Schedule(bare, h, "disconnected")
     ELSE TellHow(Fallback(Retry(Retry(Retry(Announce(
            DisplayInit(bare, h), h), h), h), h), h), h)

Headless(s, h) == s.hwc.displays[h].pipe = NoPipe

(* The primary's place is taken by the first pipeline that finds it empty.  *)
BindAt(s, p, h) ==
  [SetPipeline([s EXCEPT !.hwc.displays = @ @@ (h :> NewDisplay)], h, p)
     EXCEPT !.hwc.handles = (p :> h) @@ @]
BindDisplay(s, p) ==
  IF Primary \in DOMAIN s.hwc.displays /\ ~Headless(s, Primary)
    THEN BindAt([s EXCEPT !.hwc.last = @ + 1], p, s.hwc.last + 1)
    ELSE BindAt(s, p, Primary)

UnbindAt(s, h) ==
  IF h \notin DOMAIN s.hwc.displays THEN s
  ELSE [SetPipeline(s, h, NoPipe) EXCEPT
         !.hwc.removal = IF h = Primary THEN @ ELSE @ \cup {h}]
UnbindDisplay(s, p) ==
  UnbindAt([s EXCEPT !.hwc.handles = Restrict(@, DOMAIN @ \ {p})], s.hwc.handles[p])

(* A primary always exists, and a headless one takes over the first pipeline
   bound elsewhere; what was unbound is retired.                            *)
EnsurePrimary(s) ==
  IF Primary \in DOMAIN s.hwc.displays THEN s
  ELSE SetPipeline([s EXCEPT !.hwc.displays = @ @@ (Primary :> NewDisplay)],
                   Primary, NoPipe)
Promote(s, first) ==
  IF Headless(s, Primary) /\ DOMAIN s.hwc.handles # {}
    THEN BindDisplay(UnbindDisplay(s, first), first) ELSE s
Retire(s) ==
  [s EXCEPT !.hwc.displays = Restrict(@, DOMAIN @ \ s.hwc.removal),
            !.hwc.removal = {}]
FinalizeDisplayBinding(s, first) == Retire(Promote(EnsurePrimary(s), first))

(* A pipeline lives while a display drives it or a record names it.         *)
Release(s) ==
  [s EXCEPT !.pipes = Restrict(@, DOMAIN @ \cap (DOMAIN s.hwc.handles
               \cup {s.hwc.displays[h].pipe : h \in DOMAIN s.hwc.displays}))]

(* Let go before taking hold again: a pipeline is held twice, and unbinding
   drops both.                                                              *)
UnbindAll(s) ==
  LET Step(p, r) == UnbindDisplay(r, p)
  IN Release(FinalizeDisplayBinding(FoldSet(Step, s, DOMAIN s.hwc.handles), NoPipe))

(* CreateDevice and a pipeline per connector found, bound in head order; a
   head whose pipeline cannot be built is passed over.                      *)
AddPipeline(s, p, rates) ==
  BindDisplay([s EXCEPT !.pipes = (p :> [head |-> p[2], windows |-> "unasked",
                                         rates |-> rates[p[2]]]) @@ @], p)
BindAll(s, built, rates, gen) ==
  LET Step(r, head) == AddPipeline(r, <<gen, head>>, rates)
  IN FoldLeft(Step, s, SetToSortSeq(built, <))

----------------------------------------------------------------------------
(* RegisterCallback with a function: Hwc::Init under the main lock.  A failure
   to find any head, or a backend, ends it once all is let go.  Which bound
   pipeline comes first is an accident of addresses.                        *)
Finish(s) == hwc' = s.hwc /\ pipes' = s.pipes /\ hold' = s.hold

RegisterHotplug(found, built, rates) ==
  /\ pc = "idle" /\ count.inits < MaxInits
  /\ \E off \in {UnbindAll(Work)} :
       \/ found = {} /\ Finish(off)
       \/ /\ found # {}
          /\ \E bound \in {BindAll(off, built, rates, count.inits)} :
               \E first \in DOMAIN bound.hwc.handles \cup {NoPipe} :
                 /\ first = NoPipe <=> DOMAIN bound.hwc.handles = {}
                 /\ \E all \in {Release(FinalizeDisplayBinding(bound, first))} : Finish(all)
  /\ callback' = TRUE
  /\ client' = IF callback THEN client ELSE {}
  /\ pc' = "flush"
  /\ count' = [count EXCEPT !.inits = @ + 1]

(* RegisterCallback with none: the displays are taken apart and the primary
   erased.  The records of what was bound stay, and their pipelines with
   them.                                                                    *)
UnregisterHotplug ==
  LET Apart(h, r) == SetPipeline(r, h, NoPipe)
  IN /\ pc = "idle" /\ callback
     /\ \E apart \in {FoldSet(Apart, Work, DOMAIN hwc.displays)} :
          Finish(Release([apart EXCEPT
            !.hwc.displays = Restrict(@, DOMAIN @ \ {Primary})]))
     /\ callback' = FALSE
     /\ client' = {}
     /\ pc' = "flush"
     /\ UNCHANGED count

(* The queue is emptied whoever is listening.                               *)
FlushHotplugEvents ==
  LET told(status) == {h \in DOMAIN hwc.events : hwc.events[h] = status}
  IN /\ pc = "flush"
     /\ hwc' = [hwc EXCEPT !.events = Empty]
     /\ client' = IF callback THEN (client \ told("disconnected")) \cup told("connected")
                  ELSE client
     /\ pc' = "idle"
     /\ UNCHANGED <<hold, pipes, callback, count>>

(* SetActiveConfig: a change within the group is queued, another is a blocking
   mode set.  Queuing asks the display's clock: a display without one is
   outside the action.                                                      *)
SetActiveConfig(h, c) ==
  LET d == hwc.displays[h]
  IN /\ h \in DOMAIN hwc.displays /\ c \in d.configs
     /\ count.asked < MaxQueued
     /\ \/ /\ c = d.active \/ d.seamless
           /\ d.clock
           /\ hwc' = [hwc EXCEPT !.displays[h].staged = c]
           /\ UNCHANGED <<hold, pipes>>
        \/ /\ c # d.active /\ ~d.seamless
           /\ \E set \in {SetConfig(Work, h, c)} : Finish(set)
     /\ count' = [count EXCEPT !.asked = @ + 1]
     /\ UNCHANGED <<callback, client, pc>>

(* A present whose time has come carries the queued change.                 *)
ApplyCommitChanges(h) ==
  LET d == hwc.displays[h]
  IN /\ h \in DOMAIN hwc.displays /\ d.pipe # NoPipe
     /\ d.staged \in d.configs
     /\ hwc' = [hwc EXCEPT !.displays[h].active = d.staged,
                           !.displays[h].staged = None]
     /\ UNCHANGED <<hold, pipes, callback, client, pc, count>>

----------------------------------------------------------------------------
Init ==
  /\ hold \in [Heads -> 0..MaxHold]
  /\ hwc = [displays |-> Empty, handles |-> Empty, last |-> 0,
            removal |-> {}, events |-> Empty]
  /\ pipes = Empty
  /\ callback = FALSE /\ client = {} /\ pc = "idle"
  /\ count = [inits |-> 0, asked |-> 0]

Next ==
  \/ \E found \in SUBSET Heads : \E built \in SUBSET found :
       \E rates \in [built -> {"one", "seamless", "apart"}] :
         RegisterHotplug(found, built, rates)
  \/ UnregisterHotplug
  \/ FlushHotplugEvents
  \/ \E h \in DOMAIN hwc.displays : \E c \in hwc.displays[h].configs :
       SetActiveConfig(h, c)
  \/ \E h \in DOMAIN hwc.displays : ApplyCommitChanges(h)

Spec == Init /\ [][Next]_vars

----------------------------------------------------------------------------
Live == {h \in DOMAIN hwc.displays : hwc.displays[h].pipe # NoPipe}

(* What the client believes connected, once the registering call has flushed
   the queue (FlushHotplugEvents), is the primary, headless or not, and every
   secondary a pipeline drives.                                             *)
ClientViewTrue ==
  callback /\ pc = "idle" => client = {Primary} \cup Live

(* No pipeline ever finds its head's windows still held by an older pipeline
   of this composer: Hwc::Init lets go of both holds before it asks.        *)
HeadOwnedOnce ==
  \A p \in DOMAIN pipes : pipes[p].windows # "own"

(* A display answers with a config it offers, the stand-in that SetPipeline
   falls back to included; a live one has windows and a clock, and what is
   queued for it is one of its own.                                         *)
DisplayIsConsistent ==
  \A h \in DOMAIN hwc.displays :
    LET d == hwc.displays[h]
    IN /\ h = Primary \/ h \in Live => d.active \in d.configs
       /\ h \in Live => /\ pipes[d.pipe].windows = "some" /\ d.clock
                        /\ d.staged \in d.configs \cup {None}

(* SetPipeline's retries wait a dying predecessor out: a head whose windows
   are free again by the end of a registration drives a display.            *)
RetryHeals ==
  pc = "flush" /\ callback =>
    \A p \in DOMAIN pipes :
      hold[pipes[p].head] = 0 => \E h \in Live : hwc.displays[h].pipe = p
============================================================================
