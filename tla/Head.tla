------------------------------- MODULE Head --------------------------------
(* One display head and the state manager that drives it: the panel's light,
   windows, porch, colour pipeline and sprite; TegraAtomicStateManager's
   Execute and SetPowered around them; the cursor unit; and the calls of
   HwcDisplay that end in a commit.  Every call holds the composer's main lock
   for its whole length, so each is one action.  What interleaves are the calls
   themselves, a kernel that may refuse any of the requests a commit makes, and
   a client that plans a frame with one call and shows it with another.

   The kernel is external.  As the code's comments have it: a blanked head
   refuses cursor calls and shows nothing; blanking switches the windows off,
   puts the native porch back and forgets the sprite; the colour pipeline keeps
   the last write, a dead predecessor's included.                           *)
EXTENDS Integers, FiniteSets, FiniteSetsExt

CONSTANTS
  Windows,      \* windows this head claimed
  Frames,       \* what a plan may put in the windows: [Windows -> contents]
  Modeset,      \* the frame a blocking mode set shows
  Images,       \* identities of the pointer's sprite (positive)
  Places,       \* coordinates of the pointer
  Matrices,     \* colour transforms, out of AllMatrices
  Aspects,      \* which of the client's inputs vary: {"pointer", "colour", "rate"}
  MaxMoves,     \* bound on SetCursorPosition calls
  MaxRefusals   \* per aspect, bound on requests the kernel refuses

AllMatrices == {"identity", "tint", "invert", "offset"}
Configs     == {"native", "slow"}
Off         == [w \in Windows |-> "off"]

ASSUME HeadAssumption ==
  /\ Frames \subseteq [Windows -> {"off", "a", "b"}] /\ Frames # {}
  /\ Modeset \in [Windows -> {"off", "modeset"}]
  /\ Images \subseteq Nat \ {0}
  /\ Places \subseteq Int
  /\ Matrices \subseteq AllMatrices
  /\ Aspects \subseteq {"pointer", "colour", "rate"}
  /\ MaxMoves \in Nat /\ MaxRefusals \in [Aspects -> Nat]

VARIABLES
  setup,    \* rigid: aspect, calibrated_home_
  panel,    \* the hardware
  manager,  \* TegraAtomicStateManager's fields
  unit,     \* CursorUnit's fields
  display,  \* HwcDisplay: configs, colour transform, the pointer layer
  plan,     \* the composition planned at validate and not yet presented
  budget,   \* refusals and moves left
  told      \* history for the properties only
vars == <<setup, panel, manager, unit, display, plan, budget, told>>

NoPlan == [made |-> FALSE]

----------------------------------------------------------------------------
(* A commit in progress: the hardware, the manager and the unit as the steps
   of Execute leave them, the requests the kernel will refuse in it, the
   answer of the last one, and the kinds whose last request was refused.    *)
State(fails) == [panel |-> panel, manager |-> manager, unit |-> unit,
                 told |-> told, fails |-> fails, ok |-> TRUE]
Grants(s, call) == call \notin s.fails
Answer(s, ok) == [s EXCEPT !.ok = ok]
Refused(s, kind) == [s EXCEPT !.ok = FALSE, !.told.refused = @ \cup {kind}]
Taken(s, kind)   == [s EXCEPT !.ok = TRUE, !.told.refused = @ \ {kind}]

(* The porch a mode asks the head for, nought being the panel's own.        *)
porchFor(config) == IF config = "native" THEN 0 ELSE 2086

setActiveVfp(s, vfp) ==
  IF Grants(s, "porch") /\ s.panel.lit
    THEN Taken([s EXCEPT !.panel.porch = vfp], "porch")
    ELSE Refused(s, "porch")

(* The unit's coordinates are sixteen bits wide and are clamped to them.    *)
Clamp16(x) == Min({Max({x, -32768}), 32767})

PointLocked(s, at, visible) ==
  IF Grants(s, "point") /\ s.panel.lit
    THEN [s EXCEPT !.panel.sprite.at = Clamp16(at),
                   !.panel.sprite.on = visible, !.ok = TRUE]
    ELSE Refused(s, "cursor")

(* SET_CURSOR_IMAGE: the unit scans the slot it names from then on.         *)
TellImage(s, slot) ==
  IF Grants(s, "image") /\ s.panel.lit
    THEN [s EXCEPT !.panel.sprite.slot = slot, !.ok = TRUE]
    ELSE Refused(s, "cursor")

(* The sprite is copied into the slot the unit is not scanning, and the slots
   change places only once the unit has taken the new one.                  *)
MutUploadInPlace(s, id) ==
  TellImage([s EXCEPT !.unit.slots[s.unit.at_] = id], s.unit.at_)
UploadLocked(s, id) ==
  LET spare == 1 - s.unit.at_
      told1 == TellImage([s EXCEPT !.unit.slots[spare] = id], spare)
  IN IF told1.ok THEN [told1 EXCEPT !.unit.at_ = spare] ELSE told1

Place(s, at) ==
  LET pointed == PointLocked(s, at, TRUE)
  IN IF pointed.ok
       THEN [pointed EXCEPT !.unit.visible_ = TRUE, !.unit.x_ = at]
       ELSE pointed

Show(s, id, at, fresh) ==
  LET want == IF ~fresh /\ s.unit.visible_ THEN s.unit.x_ ELSE at
      sent == IF id # s.unit.image_id_ \/ s.unit.image_id_ = 0
                THEN UploadLocked(s, id) ELSE Answer(s, TRUE)
  IN IF s.unit.visible_ /\ id = s.unit.image_id_ /\ want = s.unit.x_
       THEN Answer(s, TRUE)
       ELSE IF ~sent.ok THEN sent
            ELSE Place([sent EXCEPT !.unit.image_id_ = id], want)

Move(s, at) ==
  IF ~s.unit.visible_ THEN Answer(s, FALSE)
  ELSE LET pointed == PointLocked(s, at, TRUE)
       IN IF pointed.ok THEN [pointed EXCEPT !.unit.x_ = at] ELSE pointed

MutHideForgets(s) ==
  IF ~s.unit.visible_ THEN s ELSE [s EXCEPT !.unit.visible_ = FALSE]
Hide(s) ==
  IF ~s.unit.visible_ THEN s
  ELSE [PointLocked(s, 0, FALSE) EXCEPT !.unit.visible_ = FALSE]

(* The image is in the slot last told of; only the telling happens again.   *)
Rearm(s) ==
  IF ~s.unit.visible_ \/ s.unit.image_id_ = 0 THEN s
  ELSE PointLocked(TellImage(s, s.unit.at_), s.unit.x_, TRUE)

----------------------------------------------------------------------------
(* The light (setPanelPowered, FBIOBLANK).                                  *)
Lit(p, powered) ==
  IF powered THEN [p EXCEPT !.lit = TRUE]
  ELSE [p EXCEPT !.lit = FALSE, !.wins = Off, !.porch = 0,
                 !.sprite = [on |-> FALSE, at |-> 0, slot |-> 2]]

(* Light restores neither the sprite nor a stretched porch.                 *)
MutRelitNative(s) ==
  Answer(IF s.manager.cursor_shown_ THEN Rearm(s) ELSE s, TRUE)
Relit(s) ==
  LET armed == IF s.manager.cursor_shown_ THEN Rearm(s) ELSE s
      timed == IF s.manager.porch_ # 0 THEN setActiveVfp(armed, s.manager.porch_)
               ELSE armed
  IN Answer(timed, TRUE)
(* A repeated OFF is answered from the cache; a repeated ON never is.       *)
SetPowered(s, powered) ==
  IF s.manager.active_ = powered /\ ~powered THEN Answer(s, TRUE)
  ELSE IF ~Grants(s, "blank") THEN Refused(s, "blank")
  ELSE LET lit == [s EXCEPT !.panel = Lit(s.panel, powered),
                            !.manager.active_ = powered]
       IN IF powered THEN Relit(Taken(lit, "blank")) ELSE Taken(lit, "blank")

----------------------------------------------------------------------------
(* Colour.  Home is computed, never read: the boot tables, or the panel's
   correction over them in the calibrated mode.  An inversion takes its own
   tables, and an offset no family claims has no seat in the pipeline.      *)
Home == IF setup.calibrated THEN "corrected" ELSE "boot"
Wears(m) == CASE m \in {"identity", "offset"} -> Home
              [] m = "invert"  -> "inverted"
              [] m = "tint"    -> IF setup.calibrated THEN "corrected tint"
                                                      ELSE "tinted"

WriteCmu(s, colour) ==
  IF Grants(s, "cmu") THEN Taken([s EXCEPT !.panel.colour = colour], "cmu")
                      ELSE Refused(s, "cmu")

(* An untouched pipeline is left alone, but only once home has been written:
   a predecessor may have died in mid-transform.                            *)
restore(s) ==
  LET wrote == WriteCmu(s, Home)
  IN IF ~s.manager.csc_programmed_ /\ s.manager.boot_state_written_ THEN s
     ELSE IF ~wrote.ok THEN wrote
     ELSE [wrote EXCEPT !.manager.csc_programmed_ = FALSE,
                        !.manager.boot_state_written_ = TRUE]
apply(s, m) ==
  LET wrote == WriteCmu(s, Wears(m))
  IN IF ~wrote.ok THEN wrote
     ELSE [wrote EXCEPT !.manager.csc_programmed_ = TRUE,
                        !.manager.boot_state_written_ = TRUE]

ProgramColorMatrix(s, m) ==
  LET noted == [s EXCEPT !.manager.last_color_matrix_ = m]
  IN IF m = s.manager.last_color_matrix_ THEN s
     ELSE IF m \in {"identity", "offset"} THEN restore(noted)
     ELSE apply(noted, m)

----------------------------------------------------------------------------
(* A request: what a commit carries.  Every window of the head is in it, the
   spare ones switched off, and the pointer's count of moves is read as the
   request is built.                                                        *)
NoPointer == [present |-> FALSE, id |-> 0, at |-> 0]

Describe(frame) == frame
GetAtomicModeReqForArgs(s, args) ==
  [args EXCEPT !.wins = Describe(@), !.seq = s.manager.cursor_move_seq_]

FrameArgs(frame, pointer, config) ==
  [has |-> TRUE, power |-> "none", rate |-> config, wins |-> frame,
   matrix |-> display.matrix, pointer |-> pointer, seq |-> 0]
CreateModesetCommit(config) ==
  [FrameArgs(Modeset, NoPointer, config) EXCEPT !.power = "on"]
PowerArgs(mode) ==
  [FrameArgs(Off, NoPointer, "none") EXCEPT !.has = FALSE, !.power = mode]

(* The pointer goes before the frame, so that both latch on one blank.      *)
PointBlock(s, req) ==
  IF req.pointer.present
    THEN LET shown == Show(s, req.pointer.id, req.pointer.at,
                           req.seq = s.manager.cursor_move_seq_)
         IN [shown EXCEPT !.manager.cursor_shown_ = shown.ok]
    ELSE IF s.manager.cursor_shown_
           THEN [Hide(s) EXCEPT !.manager.cursor_shown_ = FALSE]
           ELSE s

(* A flip changes the windows it names and no other; on a dark head nothing
   of it ever appears.                                                      *)
flip(s, wins) ==
  IF ~Grants(s, "flip") THEN Answer(s, FALSE)
  ELSE Answer([s EXCEPT !.panel.wins =
                 [w \in Windows |-> IF s.panel.lit /\ w \in DOMAIN wins
                                      THEN wins[w] ELSE @[w]]], TRUE)

(* The rate goes with the frame that carried it, once the frame is up; the
   head's answer to the porch is not looked at.                             *)
RateBlock(s, req) ==
  IF req.rate = "none" THEN s
  ELSE Answer(setActiveVfp([s EXCEPT !.manager.porch_ = porchFor(req.rate)],
                           porchFor(req.rate)), TRUE)

ShowFrame(s, req) ==
  LET coloured == ProgramColorMatrix(s, req.matrix)
      flipped  == flip(PointBlock(coloured, req), req.wins)
  IN IF flipped.ok THEN RateBlock(flipped, req) ELSE flipped

Execute(s, req) ==
  LET lit == IF req.power = "on" THEN SetPowered(s, TRUE) ELSE Answer(s, TRUE)
  IN CASE ~lit.ok -> lit
       [] lit.ok /\ req.has -> ShowFrame(lit, req)
       [] lit.ok /\ ~req.has ->
            IF req.power = "off" THEN SetPowered(lit, FALSE) ELSE lit

----------------------------------------------------------------------------
(* One commit through the sink: the request is built, the last frame waited
   for, the request executed.  For the properties it also records the frame
   last accepted by a lit panel, the pointer last stated, and the place the
   client last gave it: the plan's, unless a move overtook the plan while the
   unit was showing.                                                        *)
Commit(s, args, overtaken) ==
  LET req     == GetAtomicModeReqForArgs(s, args)
      done    == Execute(s, req)
      reached == args.has /\ (args.power = "on" => Grants(s, "blank"))
      stale   == args.pointer.present /\ overtaken /\ s.unit.visible_
  IN [done EXCEPT
       !.told.frame = IF ~done.panel.lit THEN Off
                      ELSE IF args.has /\ done.ok THEN args.wins ELSE @,
       !.told.power = IF args.power = "none" THEN @ ELSE args.power,
       !.told.pointer = IF reached THEN args.pointer ELSE @,
       !.told.word = IF reached /\ args.pointer.present /\ ~stale
                       THEN args.pointer.at ELSE @,
       !.told.overtaken = IF reached /\ args.pointer.present THEN stale ELSE @]

Ends(s) ==
  /\ panel' = s.panel /\ manager' = s.manager /\ unit' = s.unit
  /\ told' = s.told
  /\ budget' = [budget EXCEPT !.refusals = @ - Cardinality(s.fails)]

(* The kernel may refuse any one request of a commit; only the requests the
   varying inputs bear on are refused, and only they vary the plans.        *)
Refusable == CASE setup.aspect = "pointer" -> {"blank", "image", "point", "flip"}
               [] setup.aspect = "colour"  -> {"blank", "cmu", "flip"}
               [] setup.aspect = "rate"    -> {"blank", "flip", "porch"}
Refusals == {{}} \cup {{c} : c \in {r \in Refusable : budget.refusals > 0}}
Plans == IF setup.aspect = "rate" THEN Frames ELSE {CHOOSE f \in Frames : TRUE}

----------------------------------------------------------------------------
(* The client's calls.                                                      *)
SetConfig(s, config) == Commit(s, CreateModesetCommit(config), FALSE)

SetActiveConfig(config, fails) ==
  LET done == SetConfig(State(fails), config)
  IN /\ setup.aspect = "rate"
     /\ Ends(done)
     /\ display' = IF done.ok
                     THEN [display EXCEPT !.active = config, !.staged = "none"]
                     ELSE display
     /\ UNCHANGED <<setup, plan>>

QueueConfig(config) ==
  /\ setup.aspect = "rate"
  /\ display' = [display EXCEPT !.staged = config]
  /\ UNCHANGED <<setup, panel, manager, unit, plan, budget, told>>

LastRequested == IF display.staged # "none" THEN display.staged ELSE display.active

(* Lighting a head the manager believes dark first sets the last requested
   config again, which lights it; then the power commit itself.  A refused ON
   is answered as a success: the next one reaches the hardware again.       *)
SetPowerMode(mode, fails) ==
  LET start   == State(fails)
      resets  == mode = "on" /\ ~manager.active_
      config  == SetConfig(start, LastRequested)
      powered == Commit(IF resets THEN config ELSE start, PowerArgs(mode), FALSE)
      set     == IF resets
                   THEN [display EXCEPT !.active = LastRequested, !.staged = "none"]
                   ELSE display
  IN /\ IF resets /\ ~config.ok
          THEN Ends(config) /\ UNCHANGED display
          ELSE Ends(powered) /\ display' = set
     /\ UNCHANGED <<setup, plan>>

SetColorTransform(m) ==
  /\ setup.aspect = "colour"
  /\ display' = [display EXCEPT !.matrix = m]
  /\ UNCHANGED <<setup, panel, manager, unit, plan, budget, told>>

(* The pointer's layer comes, goes, moves or changes its picture.           *)
SetPointerLayer(pointer) ==
  /\ setup.aspect = "pointer"
  /\ display' = [display EXCEPT !.pointer = pointer]
  /\ UNCHANGED <<setup, panel, manager, unit, plan, budget, told>>

(* SetCursorPosition: counted before the unit hears of it, and sent straight
   to it.  The framework sends one only for a layer told it is a cursor.    *)
MoveCursor(at, fails) ==
  LET counted == [State(fails) EXCEPT !.manager.cursor_move_seq_ = @ + 1]
      moved   == Move(counted, at)
  IN /\ setup.aspect = "pointer"
     /\ display.pointer.present
     /\ plan.made \/ told.pointer.present
     /\ budget.moves > 0
     /\ panel' = moved.panel /\ manager' = moved.manager /\ unit' = moved.unit
     /\ told' = IF moved.ok THEN [moved.told EXCEPT !.word = at,
                                                    !.overtaken = FALSE]
                ELSE moved.told
     /\ budget' = [refusals |-> budget.refusals - Cardinality(fails),
                   moves |-> budget.moves - 1]
     /\ UNCHANGED <<setup, display, plan>>

(* Validate settles the windows and copies the layers as they stand; the
   planner seats the pointer in the unit.                                   *)
Validate(frame) ==
  /\ plan' = [made |-> TRUE, frame |-> frame, pointer |-> display.pointer,
              moves |-> manager.cursor_move_seq_]
  /\ UNCHANGED <<setup, panel, manager, unit, display, budget, told>>

(* Present executes the plan.  A staged config whose time has come goes with
   it, and becomes the active one when the commit succeeds.                 *)
Present(due, fails) ==
  LET config == IF due THEN display.staged ELSE "none"
      done   == Commit(State(fails), FrameArgs(plan.frame, plan.pointer, config),
                       plan.moves # manager.cursor_move_seq_)
  IN /\ plan.made
     /\ due => display.staged # "none"
     /\ Ends(done)
     /\ plan' = NoPlan
     /\ display' = IF done.ok /\ config # "none"
                     THEN [display EXCEPT !.active = config, !.staged = "none"]
                     ELSE display
     /\ UNCHANGED setup

----------------------------------------------------------------------------
(* A fresh manager on a head a predecessor may have left tinted, and dark or
   lit; the probe has put the native porch back.                            *)
Init ==
  /\ setup \in [aspect : Aspects, calibrated : BOOLEAN]
  /\ setup.calibrated => setup.aspect = "colour"
  /\ panel \in [lit : BOOLEAN, porch : {0}, wins : {Off},
                colour : IF setup.aspect = "colour" THEN {"boot", "leftover"}
                                                    ELSE {"boot"},
                sprite : {[on |-> FALSE, at |-> 0, slot |-> 2]}]
  /\ manager = [active_ |-> TRUE, porch_ |-> 0, cursor_shown_ |-> FALSE,
                cursor_move_seq_ |-> 0, last_color_matrix_ |-> "unseen",
                csc_programmed_ |-> FALSE, boot_state_written_ |-> FALSE]
  /\ unit = [slots |-> [i \in {0, 1} |-> 0], at_ |-> 0, image_id_ |-> 0,
             visible_ |-> FALSE, x_ |-> 0]
  /\ display = [active |-> "native", staged |-> "none", matrix |-> "identity",
                pointer |-> NoPointer]
  /\ plan = NoPlan
  /\ budget = [refusals |-> MaxRefusals[setup.aspect], moves |-> MaxMoves]
  /\ told = [frame |-> Off, pointer |-> NoPointer, word |-> 0,
             overtaken |-> FALSE, power |-> "unknown", refused |-> {}]

Pointers == {NoPointer} \cup [present : {TRUE}, id : Images, at : Places]

Next ==
  \/ \E c \in Configs, f \in Refusals : SetActiveConfig(c, f)
  \/ \E c \in Configs : QueueConfig(c)
  \/ \E m \in {"on", "off"}, f \in Refusals : SetPowerMode(m, f)
  \/ \E m \in Matrices : SetColorTransform(m)
  \/ \E p \in Pointers : SetPointerLayer(p)
  \/ \E at \in Places, f \in Refusals : MoveCursor(at, f)
  \/ \E frame \in Plans : Validate(frame)
  \/ \E due \in BOOLEAN, f \in Refusals : Present(due, f)

Spec == Init /\ [][Next]_vars

----------------------------------------------------------------------------
(* A window keeps what it was given until told otherwise: whatever frames came
   before, a lit panel shows exactly the windows of the frame it last
   accepted, and nothing of an older one.                                   *)
WindowsAreTrue == panel.lit => panel.wins = told.frame

(* The rate the display answers with is the one the panel runs, across queued
   and blocking changes, refused frames and power cycles, as long as the last
   porch written was taken.                                                 *)
RateIsTrue ==
  panel.lit /\ "porch" \notin told.refused
    => panel.porch = porchFor(display.active)

(* The cache of the panel's light starts as an assumption and a refused blank
   can leave it lying.  Unless the hardware refused the last change of light it
   was asked for, the panel is lit as the last commit with a power mode (a mode
   set among them) wanted: no commit is answered from a cache that lied.    *)
LightIsTrue ==
  told.power # "unknown" /\ "blank" \notin told.refused
    => panel.lit = (told.power = "on")

(* Colour is a property of the display, not of a frame: once a matrix has
   reached the head the panel wears it, a dead predecessor's leftover
   included, as long as the last colour write was taken.                    *)
ColourIsTrue ==
  manager.last_color_matrix_ # "unseen" /\ "cmu" \notin told.refused
    => panel.colour = Wears(manager.last_color_matrix_)

(* What the head was given it wears: windows, rate, light and colour.       *)
HeadIsTrue == WindowsAreTrue /\ RateIsTrue /\ LightIsTrue /\ ColourIsTrue

(* The unit draws independently of frames.  While the head has refused it
   nothing and holds its image: the sprite is on the panel exactly when the
   last frame had a pointer, with that frame's picture, at the place the
   client last gave it unless a frame planned before a move re-stated an
   older one.                                                               *)
SpriteIsTrue ==
  panel.lit /\ "cursor" \notin told.refused /\ panel.sprite.slot # 2 =>
    /\ panel.sprite.on = told.pointer.present
    /\ panel.sprite.on =>
         /\ unit.slots[panel.sprite.slot] = told.pointer.id
         /\ told.overtaken \/ panel.sprite.at = Clamp16(told.word)

(* A sprite's slot is never written while the unit scans it, not even after
   the unit refused the picture before.                                     *)
SlotsNeverDrawnUnderScan ==
  [][\A i \in {0, 1} : unit.slots'[i] # unit.slots[i]
       => ~(panel.sprite.on /\ panel.sprite.slot = i)]_vars
============================================================================
