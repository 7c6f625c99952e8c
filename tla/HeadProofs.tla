----------------------------- MODULE HeadProofs -----------------------------
(***************************************************************************)
(* What a head was told it wears, its sprite is the pointer's, and a slot  *)
(* the unit scans is never written, proved for any windows, frames,        *)
(* sprites and places and whatever the kernel refuses.                     *)
(*                                                                         *)
(* A commit is one step of many calls.  The calls share a record, and each *)
(* disturbs one part of it: the light, the windows, the porch, the colour  *)
(* or the unit.  So each call has one lemma that says which part it keeps  *)
(* (Same...) and what it makes of the other (...Good), and the lemmas are  *)
(* put together in the order of Execute.                                   *)
(***************************************************************************)
EXTENDS Head, TLAPS

Kinds   == {"blank", "cmu", "cursor", "porch"}
Calls   == {"blank", "cmu", "flip", "image", "point", "porch"}
Shows   == {"off", "a", "b", "modeset"}
Colours == {"boot", "leftover", "corrected", "tinted", "corrected tint", "inverted"}

Sprites == [on : BOOLEAN, at : Int, slot : {0, 1, 2}]
Panels == [lit : BOOLEAN, porch : Nat, wins : [Windows -> Shows], colour : Colours,
           sprite : Sprites]
Managers == [active_ : BOOLEAN, porch_ : Nat, cursor_shown_ : BOOLEAN, cursor_move_seq_ : Nat,
             last_color_matrix_ : AllMatrices \cup {"unseen"}, csc_programmed_ : BOOLEAN,
             boot_state_written_ : BOOLEAN]
Units == [slots : [{0, 1} -> Nat], at_ : {0, 1}, image_id_ : Nat, visible_ : BOOLEAN, x_ : Int]
Pointing == [present : BOOLEAN, id : Nat, at : Int]
Tolds == [frame : [Windows -> Shows], pointer : Pointing, word : Int, overtaken : BOOLEAN,
          power : {"unknown", "on", "off"}, refused : SUBSET Kinds]
States == [panel : Panels, manager : Managers, unit : Units, told : Tolds,
           fails : SUBSET Calls, ok : BOOLEAN]

Displays == [active : Configs, staged : Configs \cup {"none"}, matrix : AllMatrices,
             pointer : Pointing]

\* A pointer that is there has a picture.
Pictured(pointer) == pointer.present => pointer.id # 0

Typed ==
    /\ State({}) \in States /\ setup.aspect \in Aspects
    /\ display \in Displays /\ Pictured(display.pointer)
    /\ plan.made \in BOOLEAN
    /\ plan.made => /\ plan.frame \in [Windows -> Shows]
                    /\ plan.pointer \in Pointing /\ Pictured(plan.pointer)

-----------------------------------------------------------------------------
(* What holds of a commit, part by part.  That of the windows, the light   *)
(* and the pointer is about what was told last, too, and is so only        *)
(* between the commits.                                                    *)

\* A dark panel shows nothing; a lit one what it accepted.
WindowsGood(s) ==
    /\ s.told.frame = s.panel.wins
    /\ ~s.panel.lit => s.panel.wins = Off

\* The porch the manager remembers is the panel's, if the head took it.
PorchGood(s) ==
    /\ ~s.panel.lit => s.panel.porch = 0
    /\ s.panel.lit /\ "porch" \notin s.told.refused => s.panel.porch = s.manager.porch_

\* The cache never believes a lit panel dark.
CacheGood(s) == ~s.manager.active_ => ~s.panel.lit
LightGood(s) ==
    /\ CacheGood(s)
    /\ s.told.power # "unknown" /\ "blank" \notin s.told.refused
         => s.panel.lit = (s.told.power = "on")

\* An untouched pipeline whose home was written is at home.
ColourGood(s) ==
    /\ ~s.manager.csc_programmed_ /\ s.manager.boot_state_written_ => s.panel.colour = Home
    /\ s.manager.last_color_matrix_ # "unseen" /\ "cmu" \notin s.told.refused
         => s.panel.colour = Wears(s.manager.last_color_matrix_)

\* The unit scans the slot last told of, or none.
ScansAt(s) ==
    /\ s.panel.sprite.slot \in {s.unit.at_, 2}
    /\ ~s.panel.lit => s.panel.sprite = [on |-> FALSE, at |-> 0, slot |-> 2]

\* Until the head refuses it something, the unit knows what it shows.
UnitGood(s) ==
    /\ ScansAt(s)
    /\ "cursor" \notin s.told.refused =>
         /\ s.unit.visible_ => s.unit.image_id_ # 0
         /\ s.unit.image_id_ # 0 => s.unit.slots[s.unit.at_] = s.unit.image_id_
         /\ s.panel.sprite.slot # 2 =>
              /\ s.panel.sprite.on = s.unit.visible_
              /\ s.unit.visible_ => s.panel.sprite.at = Clamp16(s.unit.x_)

\* And shows the pointer it was last told of.
PointerGood(s) ==
    "cursor" \notin s.told.refused =>
         /\ s.unit.visible_ = s.manager.cursor_shown_
         /\ s.unit.visible_ = s.told.pointer.present
         /\ s.unit.visible_ =>
              /\ s.told.pointer.id = s.unit.image_id_
              /\ s.told.overtaken \/ s.told.word = s.unit.x_

Good(s) ==
    WindowsGood(s) /\ PorchGood(s) /\ LightGood(s) /\ ColourGood(s) /\ UnitGood(s) /\ PointerGood(s)

IInv == Typed /\ Good(State({})) /\ manager.porch_ = porchFor(display.active)

-----------------------------------------------------------------------------
(* What a call leaves alone.                                               *)

SameLight(s, r) ==
    /\ r.panel.lit = s.panel.lit /\ r.manager.active_ = s.manager.active_
    /\ "blank" \in r.told.refused <=> "blank" \in s.told.refused
SameWins(s, r) == r.panel.wins = s.panel.wins
SamePorch(s, r) ==
    /\ r.panel.porch = s.panel.porch /\ r.manager.porch_ = s.manager.porch_
    /\ "porch" \in r.told.refused <=> "porch" \in s.told.refused
SameColour(s, r) ==
    /\ r.panel.colour = s.panel.colour
    /\ r.manager.last_color_matrix_ = s.manager.last_color_matrix_
    /\ r.manager.csc_programmed_ = s.manager.csc_programmed_
    /\ r.manager.boot_state_written_ = s.manager.boot_state_written_
    /\ "cmu" \in r.told.refused <=> "cmu" \in s.told.refused
SameUnit(s, r) ==
    /\ r.panel.sprite = s.panel.sprite /\ r.unit = s.unit
    /\ "cursor" \in r.told.refused <=> "cursor" \in s.told.refused
SameShown(s, r) == r.manager.cursor_shown_ = s.manager.cursor_shown_
SameTold(s, r) ==
    /\ r.told.frame = s.told.frame /\ r.told.power = s.told.power
    /\ r.told.pointer = s.told.pointer /\ r.told.word = s.told.word
    /\ r.told.overtaken = s.told.overtaken
    /\ r.manager.cursor_move_seq_ = s.manager.cursor_move_seq_ /\ r.fails = s.fails

Same(s, r) ==
    /\ SameLight(s, r) /\ SameWins(s, r) /\ SamePorch(s, r) /\ SameColour(s, r)
    /\ SameUnit(s, r) /\ SameShown(s, r) /\ SameTold(s, r)

USE DEF SameWins, SameShown

\* An answer changes nothing but the answer.
LEMMA AnswerKeeps ==
    ASSUME NEW s \in States, NEW ok \in BOOLEAN
    PROVE  Answer(s, ok) \in States /\ Same(s, Answer(s, ok)) /\ Answer(s, ok).ok = ok
BY DEF Answer, States, Same, SameLight, SamePorch, SameColour, SameUnit, SameTold

\* A request refused, and one taken, are remembered by their kind.
LEMMA RefusedKeeps ==
    ASSUME NEW s \in States, NEW kind \in Kinds, NEW r, r = Refused(s, kind)
    PROVE  /\ r \in States /\ ~r.ok
           /\ r.panel = s.panel /\ r.manager = s.manager /\ r.unit = s.unit /\ r.fails = s.fails
           /\ SameTold(s, r)
           /\ kind \in r.told.refused
           /\ \A k \in Kinds \ {kind} : k \in r.told.refused <=> k \in s.told.refused
<1> DEFINE told_after == [s.told EXCEPT !.refused = @ \cup {kind}]
<1>1. r = [s EXCEPT !.ok = FALSE, !.told = told_after]
  BY DEF Refused, States
<1>2. /\ told_after \in Tolds /\ told_after.refused = s.told.refused \cup {kind}
      /\ told_after.frame = s.told.frame /\ told_after.power = s.told.power
      /\ told_after.pointer = s.told.pointer /\ told_after.word = s.told.word
      /\ told_after.overtaken = s.told.overtaken
  BY DEF States, Tolds
<1> HIDE DEF told_after
<1>3. /\ r \in States /\ r.told = told_after /\ r.panel = s.panel /\ r.manager = s.manager
      /\ r.unit = s.unit /\ r.fails = s.fails /\ r.ok = FALSE
  BY <1>1, <1>2 DEF States
<1> QED
  BY <1>2, <1>3 DEF SameTold

LEMMA TakenKeeps ==
    ASSUME NEW s \in States, NEW kind \in Kinds, NEW r, r = Taken(s, kind)
    PROVE  /\ r \in States /\ r.ok
           /\ r.panel = s.panel /\ r.manager = s.manager /\ r.unit = s.unit /\ r.fails = s.fails
           /\ SameTold(s, r)
           /\ kind \notin r.told.refused
           /\ \A k \in Kinds \ {kind} : k \in r.told.refused <=> k \in s.told.refused
<1> DEFINE told_after == [s.told EXCEPT !.refused = @ \ {kind}]
<1>1. r = [s EXCEPT !.ok = TRUE, !.told = told_after]
  BY DEF Taken, States
<1>2. /\ told_after \in Tolds /\ told_after.refused = s.told.refused \ {kind}
      /\ told_after.frame = s.told.frame /\ told_after.power = s.told.power
      /\ told_after.pointer = s.told.pointer /\ told_after.word = s.told.word
      /\ told_after.overtaken = s.told.overtaken
  BY DEF States, Tolds
<1> HIDE DEF told_after
<1>3. /\ r \in States /\ r.told = told_after /\ r.panel = s.panel /\ r.manager = s.manager
      /\ r.unit = s.unit /\ r.fails = s.fails /\ r.ok = TRUE
  BY <1>1, <1>2 DEF States
<1> QED
  BY <1>2, <1>3 DEF SameTold

\* The unit's coordinates are whole numbers.
LEMMA Clamped == ASSUME NEW x \in Int PROVE Clamp16(x) \in Int
<1>1. Max({x, -32768}) \in Int
  <2>1. \E m \in {x, -32768} : \A n \in {x, -32768} : m >= n
    OBVIOUS
  <2> QED
    BY <2>1 DEF Max
<1>2. \E m \in {Max({x, -32768}), 32767} : \A n \in {Max({x, -32768}), 32767} : m <= n
  BY <1>1
<1> QED
  BY <1>1, <1>2 DEF Clamp16, Min

\* A panel changed in one thing.
LEMMA PanelsOf ==
    ASSUME NEW p \in Panels
    PROVE  /\ \A v \in Nat : [p EXCEPT !.porch = v] \in Panels
           /\ \A f \in [Windows -> Shows] : [p EXCEPT !.wins = f] \in Panels
           /\ \A c \in Colours : [p EXCEPT !.colour = c] \in Panels
           /\ \A q \in Sprites : [p EXCEPT !.sprite = q] \in Panels
BY DEF Panels

\* And what a commit becomes with another panel, manager or unit.
LEMMA StatesOf ==
    ASSUME NEW s \in States
    PROVE  /\ s.panel \in Panels /\ s.panel.sprite \in Sprites /\ s.manager \in Managers
           /\ s.unit \in Units /\ s.told \in Tolds /\ s.ok \in BOOLEAN
           /\ \A p \in Panels : [s EXCEPT !.panel = p] \in States
           /\ \A m \in Managers : [s EXCEPT !.manager = m] \in States
           /\ \A u \in Units : [s EXCEPT !.unit = u] \in States
BY DEF States, Panels

\* The porch, taken or not.
PorchTold(s, r, vfp) ==
    /\ r \in States
    /\ SameLight(s, r) /\ SameWins(s, r) /\ SameColour(s, r) /\ SameUnit(s, r)
    /\ SameShown(s, r) /\ SameTold(s, r)
    /\ r.manager.porch_ = s.manager.porch_
    /\ ~s.panel.lit => r.panel.porch = s.panel.porch
    /\ "porch" \notin r.told.refused => r.panel.porch = vfp /\ s.panel.lit

LEMMA PorchSet ==
    ASSUME NEW s \in States, NEW vfp \in Nat, NEW r, r = setActiveVfp(s, vfp)
    PROVE  PorchTold(s, r, vfp)
<1>1. CASE Grants(s, "porch") /\ s.panel.lit
  <2> DEFINE t == [s EXCEPT !.panel.porch = vfp]
  <2>1. t = [s EXCEPT !.panel = [s.panel EXCEPT !.porch = vfp]]
    BY DEF States
  <2>2. t \in States /\ t.panel.porch = vfp
    BY <2>1, PanelsOf, StatesOf DEF States, Panels
  <2>3. /\ t.panel.lit = s.panel.lit /\ t.panel.wins = s.panel.wins
        /\ t.panel.colour = s.panel.colour /\ t.panel.sprite = s.panel.sprite
        /\ t.manager = s.manager /\ t.unit = s.unit /\ t.told = s.told /\ t.fails = s.fails
    BY <2>1 DEF States, Panels
  <2>4. r = Taken(t, "porch")
    BY <1>1 DEF setActiveVfp
  <2> HIDE DEF t
  <2>5. /\ r \in States /\ r.panel = t.panel /\ r.manager = t.manager /\ r.unit = t.unit
        /\ r.fails = t.fails /\ SameTold(t, r)
        /\ "porch" \notin r.told.refused
        /\ \A k \in {"blank", "cmu", "cursor"} :
              k \in r.told.refused <=> k \in t.told.refused
    BY <2>2, <2>4, TakenKeeps DEF Kinds
  <2> QED
    BY <1>1, <2>2, <2>3, <2>5 DEF PorchTold, SameLight, SameColour, SameUnit, SameTold
<1>2. CASE ~(Grants(s, "porch") /\ s.panel.lit)
  <2>1. r = Refused(s, "porch")
    BY <1>2 DEF setActiveVfp
  <2> QED
    BY <1>2, <2>1, RefusedKeeps DEF PorchTold, Kinds, SameLight, SameColour, SameUnit, SameTold
<1> QED
  BY <1>1, <1>2

-----------------------------------------------------------------------------
(* The cursor unit.                                                        *)

OnlyUnit(s, r) ==
    /\ r \in States
    /\ SameLight(s, r) /\ SameWins(s, r) /\ SamePorch(s, r) /\ SameColour(s, r)
    /\ SameShown(s, r) /\ SameTold(s, r)
    /\ "cursor" \in s.told.refused => "cursor" \in r.told.refused

\* The unit's calls one after the other.
LEMMA OnlyUnitTwice ==
    ASSUME NEW s, NEW q, NEW r, OnlyUnit(s, q), OnlyUnit(q, r) PROVE OnlyUnit(s, r)
BY DEF OnlyUnit, SameLight, SamePorch, SameColour, SameTold

\* A commit with another unit only.
WithUnit(s, u) == [s EXCEPT !.unit = u]

LEMMA UnitSet ==
    ASSUME NEW s \in States, NEW u \in Units, NEW r, r = WithUnit(s, u)
    PROVE  /\ OnlyUnit(s, r) /\ r.unit = u /\ r.panel = s.panel /\ r.told = s.told
           /\ r.manager = s.manager /\ r.ok = s.ok
BY DEF WithUnit, States, OnlyUnit, SameLight, SamePorch, SameColour, SameTold

\* And with another sprite on the panel, taken.
WithSprite(s, sprite) ==
    [s EXCEPT !.panel = [s.panel EXCEPT !.sprite = sprite], !.ok = TRUE]

LEMMA SpriteSet ==
    ASSUME NEW s \in States, NEW sprite \in Sprites, NEW r, r = WithSprite(s, sprite)
    PROVE  /\ OnlyUnit(s, r) /\ r.ok /\ r.panel.sprite = sprite /\ r.unit = s.unit
           /\ r.told = s.told /\ r.manager = s.manager
<1> DEFINE p == [s.panel EXCEPT !.sprite = sprite]
<1>1. /\ p \in Panels /\ p.sprite = sprite /\ p.lit = s.panel.lit /\ p.wins = s.panel.wins
      /\ p.porch = s.panel.porch /\ p.colour = s.panel.colour
  BY DEF States, Panels
<1> HIDE DEF p
<1>2. /\ r \in States /\ r.ok /\ r.panel = p /\ r.unit = s.unit /\ r.told = s.told
      /\ r.manager = s.manager /\ r.fails = s.fails
  <2>1. r = [s EXCEPT !.panel = p, !.ok = TRUE]
    BY DEF p, WithSprite
  <2> QED
    BY <1>1, <2>1 DEF States
<1> QED
  BY <1>1, <1>2 DEF OnlyUnit, SameLight, SamePorch, SameColour, SameTold

\* A call the unit refused leaves it as it was.
UnitRefused(s, r) ==
    /\ OnlyUnit(s, r) /\ ~r.ok /\ r.panel = s.panel /\ r.unit = s.unit
    /\ "cursor" \in r.told.refused

LEMMA CursorRefused ==
    ASSUME NEW s \in States PROVE UnitRefused(s, Refused(s, "cursor"))
<1> DEFINE r == Refused(s, "cursor")
<1>1. /\ r \in States /\ ~r.ok
      /\ r.panel = s.panel /\ r.manager = s.manager /\ r.unit = s.unit
      /\ SameTold(s, r) /\ "cursor" \in r.told.refused
      /\ \A k \in {"blank", "cmu", "porch"} : k \in r.told.refused <=> k \in s.told.refused
  BY RefusedKeeps DEF Kinds
<1> HIDE DEF r
<1>2. UnitRefused(s, r)
  BY <1>1 DEF UnitRefused, OnlyUnit, SameLight, SamePorch, SameColour
<1> QED
  BY <1>2 DEF r

\* A call it took moved the sprite and nothing else.
UnitTook(s, r, sprite) ==
    /\ OnlyUnit(s, r) /\ r.ok /\ s.panel.lit /\ r.panel.sprite = sprite /\ r.unit = s.unit
    /\ r.told = s.told

LEMMA Pointed ==
    ASSUME NEW s \in States, NEW at \in Int, NEW visible \in BOOLEAN
    PROVE  LET r == PointLocked(s, at, visible) IN
           \/ UnitTook(s, r, [s.panel.sprite EXCEPT !.at = Clamp16(at), !.on = visible])
           \/ UnitRefused(s, r)
<1> DEFINE r == PointLocked(s, at, visible)
           sprite == [s.panel.sprite EXCEPT !.at = Clamp16(at), !.on = visible]
<1>1. CASE Grants(s, "point") /\ s.panel.lit
  <2>1. sprite \in Sprites
    BY Clamped DEF States, Panels, Sprites
  <2>2. r = WithSprite(s, sprite)
    BY <1>1 DEF PointLocked, WithSprite, States, Panels, Sprites
  <2> HIDE DEF r, sprite
  <2>3. OnlyUnit(s, r) /\ r.ok /\ r.panel.sprite = sprite /\ r.unit = s.unit /\ r.told = s.told
    BY <2>1, <2>2, SpriteSet
  <2>4. UnitTook(s, r, sprite)
    BY <1>1, <2>3 DEF UnitTook
  <2> QED
    BY <2>4 DEF r, sprite
<1>2. CASE ~(Grants(s, "point") /\ s.panel.lit)
  BY <1>2, CursorRefused DEF PointLocked
<1> QED
  BY <1>1, <1>2

LEMMA Told ==
    ASSUME NEW s \in States, NEW slot \in {0, 1}
    PROVE  LET r == TellImage(s, slot) IN
           \/ UnitTook(s, r, [s.panel.sprite EXCEPT !.slot = slot])
           \/ UnitRefused(s, r)
<1> DEFINE r == TellImage(s, slot)
           sprite == [s.panel.sprite EXCEPT !.slot = slot]
<1>1. CASE Grants(s, "image") /\ s.panel.lit
  <2>1. sprite \in Sprites
    BY DEF States, Panels, Sprites
  <2>2. r = WithSprite(s, sprite)
    BY <1>1 DEF TellImage, WithSprite, States, Panels, Sprites
  <2> HIDE DEF r, sprite
  <2>3. OnlyUnit(s, r) /\ r.ok /\ r.panel.sprite = sprite /\ r.unit = s.unit /\ r.told = s.told
    BY <2>1, <2>2, SpriteSet
  <2>4. UnitTook(s, r, sprite)
    BY <1>1, <2>3 DEF UnitTook
  <2> QED
    BY <2>4 DEF r, sprite
<1>2. CASE ~(Grants(s, "image") /\ s.panel.lit)
  BY <1>2, CursorRefused DEF TellImage
<1> QED
  BY <1>1, <1>2

\* The spare slot takes the picture whatever the unit answers; the slots change
\* places only if it took it.
LEMMA Uploaded ==
    ASSUME NEW s \in States, NEW id \in Nat
    PROVE  LET r == UploadLocked(s, id)
               spare == 1 - s.unit.at_ IN
           /\ OnlyUnit(s, r)
           /\ r.unit.slots = [s.unit.slots EXCEPT ![spare] = id]
           /\ r.unit.image_id_ = s.unit.image_id_ /\ r.unit.visible_ = s.unit.visible_
           /\ r.unit.x_ = s.unit.x_
           /\ \/ /\ r.ok /\ s.panel.lit /\ r.unit.at_ = spare
                 /\ r.panel.sprite = [s.panel.sprite EXCEPT !.slot = spare]
                 /\ r.told = s.told
              \/ /\ ~r.ok /\ r.unit.at_ = s.unit.at_ /\ r.panel = s.panel
                 /\ "cursor" \in r.told.refused
<1> DEFINE spare == 1 - s.unit.at_
           u == [s.unit EXCEPT !.slots = [s.unit.slots EXCEPT ![spare] = id]]
           q == WithUnit(s, u)
           t == TellImage(q, spare)
<1>1. spare \in {0, 1} /\ s.unit \in Units /\ s.unit.slots \in [{0, 1} -> Nat]
  BY DEF States, Units
<1> HIDE DEF spare
<1>2. /\ u \in Units /\ u.slots = [s.unit.slots EXCEPT ![spare] = id] /\ u.at_ = s.unit.at_
      /\ u.image_id_ = s.unit.image_id_ /\ u.visible_ = s.unit.visible_ /\ u.x_ = s.unit.x_
  BY <1>1 DEF Units
<1>3. UploadLocked(s, id) = IF t.ok THEN WithUnit(t, [t.unit EXCEPT !.at_ = spare]) ELSE t
  <2>1. q = [s EXCEPT !.unit.slots[spare] = id]
    BY <1>1 DEF WithUnit, States, Units
  <2>2. t.ok => WithUnit(t, [t.unit EXCEPT !.at_ = spare]) = [t EXCEPT !.unit.at_ = spare]
    BY DEF WithUnit
  <2> QED
    BY <2>1, <2>2 DEF UploadLocked, spare
<1> HIDE DEF u, q
<1>4. /\ OnlyUnit(s, q) /\ q.unit = u /\ q.panel = s.panel /\ q.told = s.told
      /\ q \in States
  BY <1>2, UnitSet DEF q, OnlyUnit
<1>5. \/ UnitTook(q, t, [s.panel.sprite EXCEPT !.slot = spare])
      \/ UnitRefused(q, t)
  BY <1>1, <1>4, Told
<1> HIDE DEF t
<1>6. OnlyUnit(s, t) /\ t.unit = u /\ t \in States
  BY <1>4, <1>5, OnlyUnitTwice DEF UnitTook, UnitRefused, OnlyUnit
<1> DEFINE r == UploadLocked(s, id)
<1>7. CASE t.ok
  <2> DEFINE v == [t.unit EXCEPT !.at_ = spare]
  <2>1. /\ v \in Units /\ v.slots = u.slots /\ v.at_ = spare /\ v.image_id_ = u.image_id_
        /\ v.visible_ = u.visible_ /\ v.x_ = u.x_
    BY <1>1, <1>2, <1>6 DEF Units
  <2>2. r = WithUnit(t, v)
    BY <1>3, <1>7
  <2> HIDE DEF v, r
  <2>3. OnlyUnit(t, r) /\ r.unit = v /\ r.panel = t.panel /\ r.told = t.told /\ r.ok = t.ok
    BY <1>6, <2>1, <2>2, UnitSet
  <2>4. UnitTook(q, t, [s.panel.sprite EXCEPT !.slot = spare])
    BY <1>5, <1>7 DEF UnitRefused
  <2>5. OnlyUnit(s, r)
    BY <1>6, <2>3, OnlyUnitTwice
  <2>6. /\ r.ok /\ s.panel.lit /\ r.unit.at_ = spare
        /\ r.panel.sprite = [s.panel.sprite EXCEPT !.slot = spare]
        /\ r.told = s.told
    BY <1>4, <1>7, <2>1, <2>3, <2>4 DEF UnitTook
  <2> QED
    BY <1>2, <2>1, <2>3, <2>5, <2>6 DEF r, spare
<1>8. CASE ~t.ok
  <2>1. r = t
    BY <1>3, <1>8
  <2>2. UnitRefused(q, t)
    BY <1>5, <1>8 DEF UnitTook
  <2>3. ~t.ok /\ t.unit.at_ = s.unit.at_ /\ t.panel = s.panel /\ "cursor" \in t.told.refused
    BY <1>2, <1>4, <1>6, <2>2 DEF UnitRefused
  <2> HIDE DEF r
  <2> QED
    BY <1>2, <1>6, <2>1, <2>3 DEF r, spare
<1> QED
  BY <1>7, <1>8

\* The unit pointed somewhere, shown or hidden, and its fields set to match.
LEMMA PointedAs ==
    ASSUME NEW s \in States, NEW at \in Int, NEW u \in Units, ScansAt(s),
           u.slots = s.unit.slots, u.at_ = s.unit.at_,
           u.visible_ => u.x_ = at,
           "cursor" \notin s.told.refused =>
              /\ u.visible_ => u.image_id_ # 0
              /\ u.image_id_ # 0 => u.slots[u.at_] = u.image_id_,
           NEW p, p = PointLocked(s, at, u.visible_),
           NEW r, r = WithUnit(p, u)
    PROVE  /\ OnlyUnit(s, r) /\ UnitGood(r) /\ r.unit = u /\ r.ok = p.ok
           /\ OnlyUnit(s, p) /\ p.ok \in BOOLEAN /\ p.unit = s.unit
           /\ ~p.ok => UnitGood(p) /\ "cursor" \in p.told.refused
           /\ "cursor" \notin r.told.refused => p.ok
<1> DEFINE sprite == [s.panel.sprite EXCEPT !.at = Clamp16(at), !.on = u.visible_]
<1>1. u.visible_ \in BOOLEAN /\ s.panel.sprite \in Sprites
  BY StatesOf DEF Units
<1>2. UnitTook(s, p, sprite) \/ UnitRefused(s, p)
  BY <1>1, Pointed
<1>3. sprite.on = u.visible_ /\ sprite.at = Clamp16(at) /\ sprite.slot = s.panel.sprite.slot
  BY <1>1 DEF Sprites
<1> HIDE DEF sprite
<1>4. /\ OnlyUnit(s, p) /\ p \in States /\ p.panel.lit = s.panel.lit /\ p.ok \in BOOLEAN
      /\ p.unit = s.unit
  BY <1>2, StatesOf DEF UnitTook, UnitRefused, OnlyUnit, SameLight
<1>5. /\ OnlyUnit(p, r) /\ r.unit = u /\ r.panel = p.panel /\ r.told = p.told
      /\ r.ok = p.ok
  BY <1>4, UnitSet
<1>6. OnlyUnit(s, r)
  BY <1>4, <1>5, OnlyUnitTwice
<1>7. CASE UnitTook(s, p, sprite)
  <2>1. /\ p.ok /\ s.panel.lit /\ r.panel.lit /\ r.panel.sprite = sprite
        /\ r.told.refused = s.told.refused
    BY <1>4, <1>5, <1>7 DEF UnitTook
  <2>2. UnitGood(r)
    BY <1>1, <1>3, <1>5, <2>1 DEF UnitGood, ScansAt
  <2> QED
    BY <1>4, <1>5, <1>6, <2>1, <2>2
<1>8. CASE UnitRefused(s, p)
  <2>1. /\ ~p.ok /\ r.panel = s.panel /\ "cursor" \in r.told.refused
        /\ p.panel = s.panel /\ p.unit = s.unit /\ "cursor" \in p.told.refused
    BY <1>5, <1>8 DEF UnitRefused
  <2>2. UnitGood(r) /\ UnitGood(p)
    BY <1>5, <2>1 DEF UnitGood, ScansAt
  <2> QED
    BY <1>4, <1>5, <1>6, <2>1, <2>2
<1> QED
  BY <1>2, <1>7, <1>8

\* A slot the unit may scan is not written.
SlotsKept(s, r) ==
    \A i \in {0, 1} : r.unit.slots[i] # s.unit.slots[i] => i # s.unit.at_

\* What an answer keeps of the unit.
LEMMA SameUnitGood ==
    ASSUME NEW s \in States, NEW r \in States, Same(s, r)
    PROVE  OnlyUnit(s, r) /\ (UnitGood(s) => UnitGood(r))
<1>1. OnlyUnit(s, r)
  BY DEF OnlyUnit, Same, SameUnit
<1>2. UnitGood(s) => UnitGood(r)
  BY DEF UnitGood, ScansAt, Same, SameUnit, SameLight
<1> QED
  BY <1>1, <1>2

LEMMA Moved ==
    ASSUME NEW s \in States, NEW at \in Int, UnitGood(s), NEW r, r = Move(s, at)
    PROVE  /\ OnlyUnit(s, r) /\ UnitGood(r) /\ r.ok \in BOOLEAN
           /\ r.unit.slots = s.unit.slots /\ r.unit.visible_ = s.unit.visible_
           /\ r.unit.image_id_ = s.unit.image_id_
           /\ r.ok => s.unit.visible_ /\ r.unit.x_ = at
           /\ ~r.ok /\ "cursor" \notin r.told.refused => ~s.unit.visible_
<1>1. CASE ~s.unit.visible_
  <2>1. r = Answer(s, FALSE)
    BY <1>1 DEF Move
  <2>2. r \in States /\ Same(s, r) /\ r.ok = FALSE
    BY <2>1, AnswerKeeps
  <2>3. OnlyUnit(s, r) /\ UnitGood(r) /\ r.unit = s.unit
    BY <2>2, SameUnitGood DEF Same, SameUnit
  <2> QED
    BY <1>1, <2>2, <2>3
<1>2. CASE s.unit.visible_
  <2> DEFINE u == [s.unit EXCEPT !.x_ = at]
             p == PointLocked(s, at, u.visible_)
             q == WithUnit(p, u)
  <2>1. /\ u \in Units /\ u.slots = s.unit.slots /\ u.at_ = s.unit.at_ /\ u.x_ = at
        /\ u.image_id_ = s.unit.image_id_ /\ u.visible_ = s.unit.visible_ /\ s.unit \in Units
        /\ u.visible_ = TRUE
    BY <1>2, StatesOf DEF Units
  <2>2. p.unit = s.unit => q = [p EXCEPT !.unit.x_ = at]
    BY DEF WithUnit
  <2>3. r = IF p.ok THEN [p EXCEPT !.unit.x_ = at] ELSE p
    BY <1>2, <2>1 DEF Move
  <2>4. ScansAt(s) /\ s.unit.visible_ => u.visible_
    BY <1>2, <2>1 DEF UnitGood
  <2>5. "cursor" \notin s.told.refused =>
           /\ u.visible_ => u.image_id_ # 0
           /\ u.image_id_ # 0 => u.slots[u.at_] = u.image_id_
    BY <2>1 DEF UnitGood
  <2>6. p.ok => p.unit = s.unit
    BY <2>1, Pointed DEF UnitTook, UnitRefused
  <2> HIDE DEF u, p, q
  <2>7. /\ OnlyUnit(s, q) /\ UnitGood(q) /\ q.unit = u /\ q.ok = p.ok
        /\ OnlyUnit(s, p) /\ p.ok \in BOOLEAN
        /\ ~p.ok => UnitGood(p) /\ p.unit = s.unit /\ "cursor" \in p.told.refused
        /\ "cursor" \notin q.told.refused => p.ok
    BY <2>1, <2>4, <2>5, PointedAs DEF UnitGood, p, q
  <2>8. r = IF p.ok THEN q ELSE p
    BY <2>2, <2>3, <2>6
  <2> QED
    BY <1>2, <2>1, <2>7, <2>8
<1> QED
  BY <1>1, <1>2

LEMMA Hidden ==
    ASSUME NEW s \in States, UnitGood(s), NEW r, r = Hide(s)
    PROVE  OnlyUnit(s, r) /\ UnitGood(r) /\ r.unit.slots = s.unit.slots /\ ~r.unit.visible_
<1>1. CASE ~s.unit.visible_
  BY <1>1 DEF Hide, OnlyUnit, SameLight, SamePorch, SameColour, SameTold
<1>2. CASE s.unit.visible_
  <2> DEFINE u == [s.unit EXCEPT !.visible_ = FALSE]
             p == PointLocked(s, 0, u.visible_)
             q == WithUnit(p, u)
  <2>1. /\ u \in Units /\ u.slots = s.unit.slots /\ u.at_ = s.unit.at_
        /\ u.image_id_ = s.unit.image_id_ /\ u.visible_ = FALSE /\ s.unit \in Units
    BY <1>2, StatesOf DEF Units
  <2>2. p = PointLocked(s, 0, FALSE)
    BY <2>1
  <2>3. p.unit = s.unit => r = q
    BY <1>2, <2>2 DEF Hide, WithUnit
  <2>4. "cursor" \notin s.told.refused =>
           /\ u.visible_ => u.image_id_ # 0
           /\ u.image_id_ # 0 => u.slots[u.at_] = u.image_id_
    BY <2>1 DEF UnitGood
  <2> HIDE DEF u, p, q
  <2>5. OnlyUnit(s, q) /\ UnitGood(q) /\ q.unit = u /\ p.unit = s.unit
    BY <2>1, <2>4, PointedAs DEF UnitGood, p, q
  <2> QED
    BY <2>1, <2>3, <2>5
<1> QED
  BY <1>1, <1>2 DEF UnitGood, States, Units

LEMMA Placed ==
    ASSUME NEW s \in States, NEW at \in Int, ScansAt(s),
           "cursor" \notin s.told.refused =>
              s.unit.image_id_ # 0 /\ s.unit.slots[s.unit.at_] = s.unit.image_id_,
           NEW r, r = Place(s, at)
    PROVE  /\ OnlyUnit(s, r) /\ UnitGood(r) /\ r.ok \in BOOLEAN
           /\ r.unit.slots = s.unit.slots /\ r.unit.image_id_ = s.unit.image_id_
           /\ "cursor" \notin r.told.refused => r.ok /\ r.unit.visible_ /\ r.unit.x_ = at
<1> DEFINE u == [s.unit EXCEPT !.visible_ = TRUE, !.x_ = at]
           p == PointLocked(s, at, u.visible_)
           q == WithUnit(p, u)
<1>0. s.unit \in Units
  BY StatesOf
<1>1. /\ u \in Units /\ u.slots = s.unit.slots /\ u.at_ = s.unit.at_ /\ u.x_ = at
      /\ u.image_id_ = s.unit.image_id_ /\ u.visible_ = TRUE
  <2>1. u.visible_ = TRUE
    BY <1>0, Zenon DEF Units
  <2> DEFINE v == [s.unit EXCEPT !.visible_ = TRUE]
  <2>2. /\ v \in Units /\ v.slots = s.unit.slots /\ v.at_ = s.unit.at_
        /\ v.image_id_ = s.unit.image_id_
    BY <1>0 DEF Units
  <2>3. u = [v EXCEPT !.x_ = at]
    OBVIOUS
  <2> HIDE DEF u, v
  <2>4. /\ u \in Units /\ u.slots = v.slots /\ u.at_ = v.at_ /\ u.x_ = at
        /\ u.image_id_ = v.image_id_
    BY <2>2, <2>3 DEF Units
  <2> QED
    BY <2>1, <2>2, <2>4
<1>2. p = PointLocked(s, at, TRUE)
  BY <1>1
<1>3. p.unit = s.unit => r = IF p.ok THEN q ELSE p
  BY <1>2 DEF Place, WithUnit
<1>4. "cursor" \notin s.told.refused =>
         /\ u.visible_ => u.image_id_ # 0
         /\ u.image_id_ # 0 => u.slots[u.at_] = u.image_id_
  BY <1>1
<1> HIDE DEF u, p, q
<1>5. /\ OnlyUnit(s, q) /\ UnitGood(q) /\ q.unit = u /\ q.ok = p.ok
      /\ OnlyUnit(s, p) /\ p.ok \in BOOLEAN /\ p.unit = s.unit
      /\ ~p.ok => UnitGood(p) /\ "cursor" \in p.told.refused
      /\ "cursor" \notin q.told.refused => p.ok
  BY <1>1, <1>4, PointedAs DEF p, q
<1> QED
  BY <1>1, <1>3, <1>5

\* The picture is uploaded unless it is there already.
Sent(s, id) ==
    IF id # s.unit.image_id_ \/ s.unit.image_id_ = 0 THEN UploadLocked(s, id) ELSE Answer(s, TRUE)

LEMMA SentGood ==
    ASSUME NEW s \in States, UnitGood(s), NEW id \in Nat \ {0}, NEW r, r = Sent(s, id)
    PROVE  /\ OnlyUnit(s, r) /\ ScansAt(r) /\ r.ok \in BOOLEAN
           /\ SlotsKept(s, r)
           /\ ~r.ok => UnitGood(r) /\ "cursor" \in r.told.refused
           /\ r.ok /\ "cursor" \notin r.told.refused => r.unit.slots[r.unit.at_] = id
<1>1. CASE id # s.unit.image_id_ \/ s.unit.image_id_ = 0
  <2> DEFINE spare == 1 - s.unit.at_
  <2>0. r = UploadLocked(s, id)
    BY <1>1 DEF Sent
  <2>1. /\ OnlyUnit(s, r)
        /\ r.unit.slots = [s.unit.slots EXCEPT ![spare] = id]
        /\ \/ /\ r.ok /\ s.panel.lit /\ r.unit.at_ = spare
              /\ r.panel.sprite = [s.panel.sprite EXCEPT !.slot = spare]
              /\ r.told = s.told
           \/ /\ ~r.ok /\ r.unit.at_ = s.unit.at_ /\ r.panel = s.panel
              /\ "cursor" \in r.told.refused
    BY <2>0, Uploaded
  <2>2. /\ s.unit.slots \in [{0, 1} -> Nat] /\ s.unit.at_ \in {0, 1} /\ spare \in {0, 1}
        /\ spare # s.unit.at_ /\ s.panel.sprite \in Sprites
    BY StatesOf DEF Units
  <2> HIDE DEF spare
  <2>3. /\ SlotsKept(s, r) /\ r.unit.slots[spare] = id
        /\ r.panel.lit = s.panel.lit /\ r.ok \in BOOLEAN
    BY <2>1, <2>2 DEF SlotsKept, OnlyUnit, SameLight, States
  <2>4. ScansAt(r)
    <3>1. CASE r.ok
      <4>1. r.panel.lit /\ r.panel.sprite.slot = spare /\ r.unit.at_ = spare
        BY <2>1, <2>2, <2>3, <3>1 DEF Sprites
      <4> QED
        BY <4>1 DEF ScansAt
    <3>2. CASE ~r.ok
      BY <2>1, <3>2 DEF ScansAt, UnitGood
    <3> QED
      BY <3>1, <3>2
  <2> QED
    BY <2>1, <2>3, <2>4 DEF UnitGood
<1>2. CASE ~(id # s.unit.image_id_ \/ s.unit.image_id_ = 0)
  <2>1. r = Answer(s, TRUE)
    BY <1>2 DEF Sent
  <2>2. r \in States /\ Same(s, r) /\ r.ok = TRUE
    BY <2>1, AnswerKeeps
  <2>3. OnlyUnit(s, r) /\ UnitGood(r) /\ r.unit = s.unit
    BY <2>2, SameUnitGood DEF Same, SameUnit
  <2> QED
    BY <1>2, <2>2, <2>3 DEF UnitGood, SlotsKept
<1> QED
  BY <1>1, <1>2

\* The pointer shown, unless the unit refused something of it.
ShowTo(s, r, id, at) ==
    /\ OnlyUnit(s, r) /\ UnitGood(r) /\ r.ok \in BOOLEAN
    /\ SlotsKept(s, r)
    /\ "cursor" \notin r.told.refused =>
         r.ok /\ r.unit.visible_ /\ r.unit.image_id_ = id /\ r.unit.x_ = at

LEMMA Shown ==
    ASSUME NEW s \in States, UnitGood(s), NEW id \in Nat \ {0}, NEW at \in Int,
           NEW r, r = Show(s, id, at, TRUE)
    PROVE  ShowTo(s, r, id, at)
<1> DEFINE sent == Sent(s, id)
           u == [sent.unit EXCEPT !.image_id_ = id]
           q == WithUnit(sent, u)
<1>1. r = IF s.unit.visible_ /\ id = s.unit.image_id_ /\ at = s.unit.x_ THEN Answer(s, TRUE)
          ELSE IF ~sent.ok THEN sent ELSE Place(q, at)
  BY DEF Show, WithUnit, Sent
<1>2. CASE s.unit.visible_ /\ id = s.unit.image_id_ /\ at = s.unit.x_
  <2>2. r \in States /\ Same(s, r) /\ r.ok = TRUE
    BY <1>1, <1>2, AnswerKeeps
  <2>3. OnlyUnit(s, r) /\ UnitGood(r) /\ r.unit = s.unit
    BY <2>2, SameUnitGood DEF Same, SameUnit
  <2> QED
    BY <1>2, <2>2, <2>3 DEF ShowTo, SlotsKept
<1>3. CASE ~(s.unit.visible_ /\ id = s.unit.image_id_ /\ at = s.unit.x_)
  <2>1. /\ OnlyUnit(s, sent) /\ ScansAt(sent) /\ sent.ok \in BOOLEAN
        /\ SlotsKept(s, sent)
        /\ ~sent.ok => UnitGood(sent) /\ "cursor" \in sent.told.refused
        /\ sent.ok /\ "cursor" \notin sent.told.refused =>
             sent.unit.slots[sent.unit.at_] = id
    BY SentGood
  <2> HIDE DEF sent
  <2>2. /\ u \in Units /\ u.slots = sent.unit.slots /\ u.at_ = sent.unit.at_
        /\ u.image_id_ = id /\ sent \in States
    BY <2>1, StatesOf DEF Units, OnlyUnit
  <2> HIDE DEF u
  <2>3. /\ OnlyUnit(sent, q) /\ q.unit = u /\ q.panel = sent.panel /\ q.told = sent.told
        /\ q \in States
    BY <2>2, UnitSet DEF OnlyUnit
  <2> HIDE DEF q
  <2>4. CASE sent.ok
    <3>1. ScansAt(q)
      BY <2>1, <2>2, <2>3 DEF ScansAt
    <3>2. "cursor" \notin q.told.refused =>
            q.unit.image_id_ # 0 /\ q.unit.slots[q.unit.at_] = q.unit.image_id_
      BY <2>1, <2>2, <2>3, <2>4
    <3>3. r = Place(q, at)
      BY <1>1, <1>3, <2>4
    <3>4. /\ OnlyUnit(q, r) /\ UnitGood(r) /\ r.ok \in BOOLEAN
          /\ r.unit.slots = q.unit.slots /\ r.unit.image_id_ = q.unit.image_id_
          /\ "cursor" \notin r.told.refused => r.ok /\ r.unit.visible_ /\ r.unit.x_ = at
      BY <2>3, <3>1, <3>2, <3>3, Placed
    <3>5. OnlyUnit(s, r)
      BY <2>1, <2>3, <3>4, OnlyUnitTwice
    <3> QED
      BY <2>1, <2>2, <2>3, <3>4, <3>5 DEF ShowTo, SlotsKept
  <2>5. CASE ~sent.ok
    BY <1>1, <1>3, <2>1, <2>5 DEF ShowTo
  <2> QED
    BY <2>4, <2>5
<1> QED
  BY <1>2, <1>3

\* Re-arming tells the unit what it knew, and the unit is what it was.
LEMMA Rearmed ==
    ASSUME NEW s \in States, UnitGood(s), NEW r, r = Rearm(s)
    PROVE  OnlyUnit(s, r) /\ UnitGood(r) /\ r.unit = s.unit
<1>1. CASE ~s.unit.visible_ \/ s.unit.image_id_ = 0
  <2>1. r = s
    BY <1>1 DEF Rearm
  <2> QED
    BY <2>1 DEF OnlyUnit, SameLight, SamePorch, SameColour, SameTold
<1>2. CASE ~(~s.unit.visible_ \/ s.unit.image_id_ = 0)
  <2> DEFINE t == TellImage(s, s.unit.at_)
             p == PointLocked(t, t.unit.x_, t.unit.visible_)
  <2>1. s.unit \in Units /\ s.unit.at_ \in {0, 1} /\ s.unit.visible_ = TRUE
        /\ s.unit.x_ \in Int /\ s.panel.sprite \in Sprites
    BY <1>2, StatesOf DEF Units
  <2>2. \/ UnitTook(s, t, [s.panel.sprite EXCEPT !.slot = s.unit.at_])
        \/ UnitRefused(s, t)
    BY <2>1, Told
  <2>3. t.unit = s.unit => r = p
    BY <1>2, <2>1 DEF Rearm
  <2> HIDE DEF t, p
  <2>4. OnlyUnit(s, t) /\ t \in States /\ t.unit = s.unit /\ t.panel.lit = s.panel.lit
    BY <2>2 DEF UnitTook, UnitRefused, OnlyUnit, SameLight
  <2>5. ScansAt(t)
    <3>1. CASE UnitTook(s, t, [s.panel.sprite EXCEPT !.slot = s.unit.at_])
      <4>1. t.panel.sprite.slot = s.unit.at_ /\ s.panel.lit
        BY <2>1, <3>1 DEF UnitTook, Sprites
      <4> QED
        BY <2>4, <4>1 DEF ScansAt
    <3>2. CASE UnitRefused(s, t)
      BY <2>4, <3>2 DEF UnitRefused, UnitGood, ScansAt
    <3> QED
      BY <2>2, <3>1, <3>2
  <2>6. "cursor" \notin t.told.refused =>
           /\ t.unit.visible_ => t.unit.image_id_ # 0
           /\ t.unit.image_id_ # 0 => t.unit.slots[t.unit.at_] = t.unit.image_id_
    BY <2>4 DEF OnlyUnit, UnitGood
  <2>7. WithUnit(p, t.unit) = p /\ OnlyUnit(t, p) /\ UnitGood(p) /\ p.unit = t.unit
    <3>1. OnlyUnit(t, p) /\ p.unit = t.unit /\ UnitGood(WithUnit(p, t.unit))
      BY <2>1, <2>4, <2>5, <2>6, PointedAs DEF p
    <3>2. WithUnit(p, t.unit) = p
      BY <3>1 DEF WithUnit, OnlyUnit, States
    <3> QED
      BY <3>1, <3>2
  <2> QED
    BY <2>3, <2>4, <2>7, OnlyUnitTwice
<1> QED
  BY <1>1, <1>2

-----------------------------------------------------------------------------
(* The light.                                                              *)

DarkOff(s) == ~s.panel.lit => s.panel.wins = Off
NoSprite == [on |-> FALSE, at |-> 0, slot |-> 2]

LEMMA OffTyped == Off \in [Windows -> Shows] /\ NoSprite \in Sprites
<1>1. Off \in [Windows -> Shows]
  BY DEF Off, Shows
<1>2. FALSE \in BOOLEAN /\ 0 \in Int /\ 2 \in {0, 1, 2}
  OBVIOUS
<1>3. NoSprite \in Sprites
  BY <1>2, Zenon DEF NoSprite, Sprites
<1> QED
  BY <1>1, <1>3

LEMMA LitIs ==
    ASSUME NEW p \in Panels, NEW powered \in BOOLEAN, NEW q, q = Lit(p, powered)
    PROVE  /\ q \in Panels /\ q.lit = powered /\ q.colour = p.colour
           /\ powered => q.wins = p.wins /\ q.porch = p.porch /\ q.sprite = p.sprite
           /\ ~powered => q.wins = Off /\ q.porch = 0 /\ q.sprite = NoSprite
<1>1. CASE powered
  <2>1. q = [p EXCEPT !.lit = TRUE]
    BY <1>1 DEF Lit
  <2>2. q.lit = TRUE
    BY <2>1, Zenon DEF Panels
  <2>3. /\ q \in Panels /\ q.colour = p.colour
        /\ q.wins = p.wins /\ q.porch = p.porch /\ q.sprite = p.sprite
    BY <2>1 DEF Panels
  <2> QED
    BY <1>1, <2>2, <2>3
<1>2. CASE ~powered
  <2> DEFINE a == [p EXCEPT !.lit = FALSE]
             b == [a EXCEPT !.wins = Off]
             c == [b EXCEPT !.porch = 0]
  <2>1. q = [c EXCEPT !.sprite = NoSprite]
    <3>1. Lit(p, powered) =
            [p EXCEPT !.lit = FALSE, !.wins = Off, !.porch = 0, !.sprite = NoSprite]
      BY <1>2 DEF Lit, NoSprite
    <3> QED
      BY <3>1, Zenon
  <2>2. a \in Panels /\ a.lit = FALSE /\ a.colour = p.colour
    BY DEF Panels
  <2> HIDE DEF a
  <2>3. b \in Panels /\ b.lit = FALSE /\ b.colour = p.colour /\ b.wins = Off
    BY <2>2, OffTyped DEF Panels
  <2> HIDE DEF b
  <2>4. /\ c \in Panels /\ c.lit = FALSE /\ c.colour = p.colour /\ c.wins = Off
        /\ c.porch = 0
    BY <2>3 DEF Panels
  <2> HIDE DEF c
  <2> QED
    BY <1>2, <2>1, <2>4, OffTyped DEF Panels
<1> QED
  BY <1>1, <1>2

\* The head lit or darkened, and the cache set to match.
LitState(s, powered) ==
    [s EXCEPT !.panel = Lit(s.panel, powered), !.manager.active_ = powered]

LEMMA LitStateIs ==
    ASSUME NEW s \in States, NEW powered \in BOOLEAN, NEW r, r = LitState(s, powered)
    PROVE  /\ r \in States /\ r.panel = Lit(s.panel, powered)
           /\ r.manager.active_ = powered /\ r.unit = s.unit /\ r.told = s.told
           /\ r.manager.porch_ = s.manager.porch_
           /\ SameShown(s, r) /\ SameTold(s, r) /\ SameColour(s, r)
<1> DEFINE p == Lit(s.panel, powered)
           m == [s.manager EXCEPT !.active_ = powered]
           q == [s EXCEPT !.panel = p]
<1>1. s.panel \in Panels /\ s.manager \in Managers
  BY StatesOf
<1>2. p \in Panels /\ p.colour = s.panel.colour
  BY <1>1, LitIs
<1>3. /\ m \in Managers /\ m.active_ = powered /\ m.porch_ = s.manager.porch_
      /\ m.cursor_shown_ = s.manager.cursor_shown_
      /\ m.cursor_move_seq_ = s.manager.cursor_move_seq_
      /\ m.last_color_matrix_ = s.manager.last_color_matrix_
      /\ m.csc_programmed_ = s.manager.csc_programmed_
      /\ m.boot_state_written_ = s.manager.boot_state_written_
  BY <1>1 DEF Managers
<1>4. r = [q EXCEPT !.manager = m]
  BY DEF LitState, States
<1> HIDE DEF p, m
<1>5. /\ q \in States /\ q.panel = p /\ q.manager = s.manager /\ q.unit = s.unit
      /\ q.told = s.told /\ q.fails = s.fails
  BY <1>2 DEF States
<1> HIDE DEF q
<1>6. /\ r \in States /\ r.panel = p /\ r.manager = m /\ r.unit = s.unit
      /\ r.told = s.told /\ r.fails = s.fails
  BY <1>3, <1>4, <1>5 DEF States
<1> QED
  BY <1>2, <1>3, <1>6 DEF SameTold, SameColour, p

\* Light restores the sprite it remembers and a stretched porch.
LEMMA RelitGood ==
    ASSUME NEW s \in States, UnitGood(s), CacheGood(s), s.panel.lit,
           s.manager.porch_ = 0 => PorchGood(s),
           NEW r, r = Relit(s)
    PROVE  /\ r \in States /\ r.ok /\ r.unit = s.unit
           /\ UnitGood(r) /\ PorchGood(r) /\ r.manager.porch_ = s.manager.porch_
           /\ SameLight(s, r) /\ SameWins(s, r) /\ SameColour(s, r)
           /\ SameShown(s, r) /\ SameTold(s, r)
           /\ "cursor" \in s.told.refused => "cursor" \in r.told.refused
<1> DEFINE armed == IF s.manager.cursor_shown_ THEN Rearm(s) ELSE s
           timed == IF s.manager.porch_ # 0 THEN setActiveVfp(armed, s.manager.porch_) ELSE armed
<1>1. r = Answer(timed, TRUE)
  BY DEF Relit
<1>2. OnlyUnit(s, armed) /\ UnitGood(armed) /\ armed.unit = s.unit
  <2>1. OnlyUnit(s, s)
    BY DEF OnlyUnit, SameLight, SamePorch, SameColour, SameTold
  <2> QED
    BY <2>1, Rearmed
<1> HIDE DEF armed
<1>3. /\ timed \in States /\ timed.unit = s.unit /\ UnitGood(timed) /\ PorchGood(timed)
      /\ timed.manager.porch_ = s.manager.porch_
      /\ SameLight(s, timed) /\ SameWins(s, timed) /\ SameColour(s, timed)
      /\ SameShown(s, timed) /\ SameTold(s, timed)
      /\ "cursor" \in s.told.refused => "cursor" \in timed.told.refused
  <2>1. CASE s.manager.porch_ # 0
    <3>1. s.manager.porch_ \in Nat /\ armed \in States
      BY <1>2, StatesOf DEF Managers, OnlyUnit
    <3>2. timed = setActiveVfp(armed, s.manager.porch_)
      BY <2>1
    <3> HIDE DEF timed
    <3>3. PorchTold(armed, timed, s.manager.porch_)
      BY <3>1, <3>2, PorchSet
    <3>4. UnitGood(timed)
      BY <1>2, <3>3 DEF PorchTold, UnitGood, ScansAt, SameUnit, SameLight
    <3>5. PorchGood(timed)
      BY <1>2, <3>3 DEF PorchTold, PorchGood, OnlyUnit, SameLight, SamePorch
    <3> QED
      BY <1>2, <3>3, <3>4, <3>5
         DEF PorchTold, OnlyUnit, SameLight, SamePorch, SameColour, SameTold, SameUnit
  <2>2. CASE s.manager.porch_ = 0
    <3>1. timed = armed /\ PorchGood(s)
      BY <2>2
    <3> QED
      BY <1>2, <3>1 DEF OnlyUnit, PorchGood, SamePorch, SameLight
  <2> QED
    BY <2>1, <2>2
<1> HIDE DEF timed
<1>4. r \in States /\ Same(timed, r) /\ r.ok = TRUE
  BY <1>1, <1>3, AnswerKeeps
<1>5. UnitGood(r) /\ PorchGood(r) /\ r.unit = s.unit
  <2>1. UnitGood(r)
    BY <1>3, <1>4, SameUnitGood
  <2> QED
    BY <1>3, <1>4, <2>1 DEF Same, SameUnit, PorchGood, SamePorch, SameLight
<1> QED
  BY <1>3, <1>4, <1>5
     DEF Same, SameLight, SameColour, SameTold, SameUnit, SamePorch

\* What every step of a commit keeps, whatever was told last.
Sound(s) ==
    s \in States /\ DarkOff(s) /\ PorchGood(s) /\ CacheGood(s) /\ ColourGood(s) /\ UnitGood(s)

SoundTo(s, r) ==
    /\ Sound(r) /\ r.manager.porch_ = s.manager.porch_
    /\ "cursor" \in s.told.refused => "cursor" \in r.told.refused

\* What a change of light makes.
PoweredTo(s, r, powered) ==
    /\ SoundTo(s, r) /\ r.unit = s.unit
    /\ SameShown(s, r) /\ SameTold(s, r) /\ SameColour(s, r)
    /\ s.panel.lit => r.panel.wins = IF r.panel.lit THEN s.panel.wins ELSE Off
    /\ ~s.panel.lit => r.panel.wins = Off
    /\ "blank" \notin r.told.refused => r.panel.lit = powered
    /\ r.ok <=> Grants(s, "blank") \/ (~s.manager.active_ /\ ~powered)
    /\ r.ok => r.panel.lit = powered
    /\ ~r.ok => r.panel = s.panel

\* The head takes the change; the sprite and the porch are not seen to yet.
LEMMA LightTaken ==
    ASSUME NEW s, Sound(s), NEW powered \in BOOLEAN,
           NEW r, r = Taken(LitState(s, powered), "blank")
    PROVE  /\ r \in States /\ r.ok /\ r.panel.lit = powered /\ r.unit = s.unit
           /\ "blank" \notin r.told.refused
           /\ CacheGood(r) /\ UnitGood(r) /\ ColourGood(r) /\ DarkOff(r)
           /\ r.panel.wins = IF powered THEN s.panel.wins ELSE Off
           /\ r.manager.porch_ = s.manager.porch_
           /\ SameShown(s, r) /\ SameTold(s, r) /\ SameColour(s, r)
           /\ "cursor" \in s.told.refused <=> "cursor" \in r.told.refused
           /\ ~powered \/ s.manager.porch_ = 0 => PorchGood(r)
<1> DEFINE p == Lit(s.panel, powered)
           lit == LitState(s, powered)
<1>1. s \in States /\ s.panel \in Panels
  BY StatesOf DEF Sound
<1>2. /\ p.lit = powered
      /\ powered => p.wins = s.panel.wins /\ p.porch = s.panel.porch /\ p.sprite = s.panel.sprite
      /\ ~powered => p.wins = Off /\ p.porch = 0 /\ p.sprite = NoSprite
  BY <1>1, LitIs
<1> HIDE DEF p
<1>3. /\ lit \in States /\ lit.panel = p
      /\ lit.manager.active_ = powered /\ lit.unit = s.unit /\ lit.told = s.told
      /\ lit.manager.porch_ = s.manager.porch_
      /\ SameShown(s, lit) /\ SameTold(s, lit) /\ SameColour(s, lit)
  BY <1>1, LitStateIs DEF p
<1> HIDE DEF lit
<1>4. /\ r \in States /\ r.ok
      /\ r.panel = lit.panel /\ r.manager = lit.manager /\ r.unit = lit.unit
      /\ SameTold(lit, r) /\ "blank" \notin r.told.refused
      /\ \A k \in {"cmu", "cursor", "porch"} :
            k \in r.told.refused <=> k \in lit.told.refused
  BY <1>3, TakenKeeps DEF Kinds, lit
<1>5. /\ SameShown(s, r) /\ SameTold(s, r) /\ SameColour(s, r)
      /\ "cursor" \in s.told.refused <=> "cursor" \in r.told.refused
      /\ "porch" \in s.told.refused <=> "porch" \in r.told.refused
  BY <1>3, <1>4 DEF SameTold, SameColour
<1>6. UnitGood(r)
  <2>1. ScansAt(s) /\ r.unit = s.unit /\ r.panel = p
    BY <1>3, <1>4 DEF Sound, UnitGood
  <2>2. CASE powered
    BY <1>2, <1>5, <2>1, <2>2 DEF Sound, UnitGood, ScansAt
  <2>3. CASE ~powered
    <3>1. r.panel.sprite = NoSprite /\ r.panel.sprite.slot = 2
      BY <1>2, <2>1, <2>3 DEF NoSprite
    <3> QED
      BY <1>5, <2>1, <3>1 DEF Sound, UnitGood, ScansAt, NoSprite
  <2> QED
    BY <2>2, <2>3
<1>7. CacheGood(r) /\ ColourGood(r) /\ DarkOff(r)
  BY <1>2, <1>3, <1>4, <1>5 DEF Sound, CacheGood, ColourGood, SameColour, DarkOff
<1>8. ~powered \/ s.manager.porch_ = 0 => PorchGood(r)
  BY <1>2, <1>3, <1>4, <1>5 DEF Sound, PorchGood
<1> QED
  BY <1>2, <1>3, <1>4, <1>5, <1>6, <1>7, <1>8

LEMMA Powered ==
    ASSUME NEW s, Sound(s), NEW powered \in BOOLEAN, NEW r, r = SetPowered(s, powered)
    PROVE  PoweredTo(s, r, powered)
<1>0. s \in States /\ s.manager.active_ \in BOOLEAN
  BY StatesOf DEF Sound, Managers
<1>1. CASE s.manager.active_ = powered /\ ~powered
  <2>1. r = Answer(s, TRUE)
    BY <1>1 DEF SetPowered
  <2>2. r \in States /\ Same(s, r) /\ r.ok = TRUE
    BY <1>0, <2>1, AnswerKeeps
  <2>3. UnitGood(r)
    BY <1>0, <2>2, SameUnitGood DEF Sound
  <2>4. Sound(r)
    BY <2>2, <2>3 DEF Sound, Same, SameLight, SamePorch, SameColour, DarkOff, PorchGood,
                      CacheGood, ColourGood
  <2>5. SoundTo(s, r) /\ r.unit = s.unit
    BY <2>2, <2>4 DEF SoundTo, Same, SameUnit, SamePorch
  <2>6. ~s.panel.lit /\ s.panel.wins = Off /\ ~r.panel.lit /\ r.panel.wins = Off
    BY <1>1, <2>2 DEF Sound, CacheGood, DarkOff, Same, SameLight
  <2>7. s.panel.lit \in BOOLEAN /\ r.panel.lit \in BOOLEAN
    BY <1>0, <2>2, StatesOf DEF Panels
  <2> QED
    BY <1>1, <2>2, <2>5, <2>6, <2>7 DEF PoweredTo, Same
<1>2. CASE ~(s.manager.active_ = powered /\ ~powered) /\ ~Grants(s, "blank")
  <2>1. r = Refused(s, "blank")
    BY <1>2 DEF SetPowered
  <2>2. /\ r \in States /\ ~r.ok
        /\ r.panel = s.panel /\ r.manager = s.manager /\ r.unit = s.unit /\ r.fails = s.fails
        /\ SameTold(s, r) /\ "blank" \in r.told.refused
        /\ \A k \in {"cmu", "cursor", "porch"} :
              k \in r.told.refused <=> k \in s.told.refused
    BY <1>0, <2>1, RefusedKeeps DEF Kinds
  <2>3. Sound(r)
    BY <2>2 DEF Sound, DarkOff, PorchGood, CacheGood, ColourGood, UnitGood, ScansAt
  <2>4. SoundTo(s, r) /\ SameColour(s, r)
    BY <2>2, <2>3 DEF SoundTo, SameColour
  <2>5. r.ok \in BOOLEAN
    BY <2>2, StatesOf
  <2> QED
    BY <1>0, <1>2, <2>2, <2>4, <2>5 DEF PoweredTo, Sound, DarkOff
<1>3. CASE ~(s.manager.active_ = powered /\ ~powered) /\ Grants(s, "blank")
  <2> DEFINE t == Taken(LitState(s, powered), "blank")
  <2>1. r = IF powered THEN Relit(t) ELSE t
    BY <1>3 DEF SetPowered, LitState
  <2>2. /\ t \in States /\ t.ok /\ t.panel.lit = powered /\ t.unit = s.unit
        /\ "blank" \notin t.told.refused
        /\ CacheGood(t) /\ UnitGood(t) /\ ColourGood(t) /\ DarkOff(t)
        /\ t.panel.wins = IF powered THEN s.panel.wins ELSE Off
        /\ t.manager.porch_ = s.manager.porch_
        /\ SameShown(s, t) /\ SameTold(s, t) /\ SameColour(s, t)
        /\ "cursor" \in s.told.refused <=> "cursor" \in t.told.refused
        /\ ~powered \/ s.manager.porch_ = 0 => PorchGood(t)
    BY LightTaken
  <2> HIDE DEF t
  <2>3. CASE ~powered
    <3>1. r = t /\ r.ok = TRUE
      BY <2>1, <2>2, <2>3, StatesOf
    <3>2. SoundTo(s, r)
      BY <2>2, <2>3, <3>1 DEF SoundTo, Sound
    <3> QED
      BY <1>3, <2>2, <2>3, <3>1, <3>2 DEF PoweredTo, Sound, DarkOff
  <2>4. CASE powered
    <3>1. r = Relit(t)
      BY <2>1, <2>4
    <3>2. /\ r \in States /\ r.ok /\ r.unit = t.unit
          /\ UnitGood(r) /\ PorchGood(r) /\ r.manager.porch_ = t.manager.porch_
          /\ SameLight(t, r) /\ SameWins(t, r) /\ SameColour(t, r)
          /\ SameShown(t, r) /\ SameTold(t, r)
          /\ "cursor" \in t.told.refused => "cursor" \in r.told.refused
      BY <2>2, <2>4, <3>1, RelitGood
    <3>3. /\ SameShown(s, r) /\ SameTold(s, r) /\ SameColour(s, r)
          /\ "blank" \notin r.told.refused /\ r.panel.lit = powered
          /\ r.panel.wins = s.panel.wins
      BY <2>2, <2>4, <3>2 DEF SameTold, SameColour, SameLight
    <3>4. DarkOff(r) /\ CacheGood(r) /\ ColourGood(r)
      BY <2>2, <2>4, <3>2, <3>3 DEF DarkOff, CacheGood, ColourGood, SameColour, SameLight
    <3>5. SoundTo(s, r) /\ r.unit = s.unit
      BY <2>2, <3>2, <3>4 DEF SoundTo, Sound
    <3>6. r.ok = TRUE
      BY <3>2, StatesOf
    <3>7. /\ s.panel.lit => r.panel.wins = IF r.panel.lit THEN s.panel.wins ELSE Off
          /\ ~s.panel.lit => r.panel.wins = Off
      BY <2>4, <3>3 DEF Sound, DarkOff
    <3> QED
      BY <1>3, <3>3, <3>5, <3>6, <3>7 DEF PoweredTo
  <2> QED
    BY <2>3, <2>4
<1> QED
  BY <1>1, <1>2, <1>3

-----------------------------------------------------------------------------
(* Colour.                                                                 *)

OnlyColour(s, r) ==
    /\ r \in States
    /\ SameLight(s, r) /\ SameWins(s, r) /\ SamePorch(s, r) /\ SameUnit(s, r)
    /\ SameShown(s, r) /\ SameTold(s, r)

LEMMA ColoursWorn ==
    ASSUME NEW m \in AllMatrices
    PROVE  /\ Home \in Colours /\ Wears(m) \in Colours
           /\ m \in {"identity", "offset"} => Wears(m) = Home
BY DEF AllMatrices, Home, Wears, Colours

LEMMA Written ==
    ASSUME NEW s \in States, NEW c \in Colours, NEW r, r = WriteCmu(s, c)
    PROVE  /\ OnlyColour(s, r) /\ r.manager = s.manager
           /\ \/ r.ok /\ "cmu" \notin r.told.refused /\ r.panel.colour = c
              \/ ~r.ok /\ "cmu" \in r.told.refused /\ r.panel = s.panel
<1>1. CASE Grants(s, "cmu")
  <2> DEFINE p == [s.panel EXCEPT !.colour = c]
             t == [s EXCEPT !.panel = p]
  <2>1. /\ p \in Panels /\ p.colour = c /\ p.lit = s.panel.lit /\ p.wins = s.panel.wins
        /\ p.porch = s.panel.porch /\ p.sprite = s.panel.sprite
    BY StatesOf DEF Panels
  <2>2. r = Taken(t, "cmu")
    BY <1>1 DEF WriteCmu, States
  <2> HIDE DEF p
  <2>3. /\ t \in States /\ t.panel = p /\ t.manager = s.manager /\ t.unit = s.unit
        /\ t.told = s.told /\ t.fails = s.fails
    BY <2>1 DEF States
  <2> HIDE DEF t
  <2>4. /\ r \in States /\ r.ok
        /\ r.panel = t.panel /\ r.manager = t.manager /\ r.unit = t.unit /\ r.fails = t.fails
        /\ SameTold(t, r) /\ "cmu" \notin r.told.refused
        /\ \A k \in {"blank", "cursor", "porch"} :
              k \in r.told.refused <=> k \in t.told.refused
    BY <2>2, <2>3, TakenKeeps DEF Kinds
  <2> QED
    BY <2>1, <2>3, <2>4 DEF OnlyColour, SameLight, SamePorch, SameUnit, SameTold
<1>2. CASE ~Grants(s, "cmu")
  <2>1. r = Refused(s, "cmu")
    BY <1>2 DEF WriteCmu
  <2>2. /\ r \in States /\ ~r.ok
        /\ r.panel = s.panel /\ r.manager = s.manager /\ r.unit = s.unit /\ r.fails = s.fails
        /\ SameTold(s, r) /\ "cmu" \in r.told.refused
        /\ \A k \in {"blank", "cursor", "porch"} :
              k \in r.told.refused <=> k \in s.told.refused
    BY <2>1, RefusedKeeps DEF Kinds
  <2> QED
    BY <2>2 DEF OnlyColour, SameLight, SamePorch, SameUnit
<1> QED
  BY <1>1, <1>2

\* The notes of the pipeline: what was last asked for, and what it holds.
ColourNoted(s, last, csc, boot) ==
    [s EXCEPT !.manager = [s.manager EXCEPT !.last_color_matrix_ = last,
                                            !.csc_programmed_ = csc,
                                            !.boot_state_written_ = boot]]

LEMMA Noted ==
    ASSUME NEW s \in States, NEW last \in AllMatrices, NEW csc \in BOOLEAN, NEW boot \in BOOLEAN,
           NEW r, r = ColourNoted(s, last, csc, boot)
    PROVE  /\ OnlyColour(s, r) /\ r.panel = s.panel /\ r.told = s.told /\ r.ok = s.ok
           /\ r.manager.last_color_matrix_ = last
           /\ r.manager.csc_programmed_ = csc /\ r.manager.boot_state_written_ = boot
<1> DEFINE m == [s.manager EXCEPT !.last_color_matrix_ = last, !.csc_programmed_ = csc,
                                  !.boot_state_written_ = boot]
           k == [s.manager EXCEPT !.last_color_matrix_ = last]
           l == [k EXCEPT !.csc_programmed_ = csc]
<1>1. s.manager \in Managers
  BY StatesOf
<1>2. /\ k \in Managers /\ k.last_color_matrix_ = last /\ k.active_ = s.manager.active_
      /\ k.porch_ = s.manager.porch_ /\ k.cursor_shown_ = s.manager.cursor_shown_
      /\ k.cursor_move_seq_ = s.manager.cursor_move_seq_
  BY <1>1 DEF Managers
<1>3. m = [l EXCEPT !.boot_state_written_ = boot]
  OBVIOUS
<1> HIDE DEF k, m
<1>4. /\ l \in Managers /\ l.last_color_matrix_ = last /\ l.active_ = s.manager.active_
      /\ l.porch_ = s.manager.porch_ /\ l.cursor_shown_ = s.manager.cursor_shown_
      /\ l.cursor_move_seq_ = s.manager.cursor_move_seq_ /\ l.csc_programmed_ = csc
  BY <1>2 DEF Managers
<1> HIDE DEF l
<1>5. /\ m \in Managers /\ m.last_color_matrix_ = last /\ m.active_ = s.manager.active_
      /\ m.porch_ = s.manager.porch_ /\ m.cursor_shown_ = s.manager.cursor_shown_
      /\ m.cursor_move_seq_ = s.manager.cursor_move_seq_ /\ m.csc_programmed_ = csc
      /\ m.boot_state_written_ = boot
  BY <1>3, <1>4 DEF Managers
<1>6. r = [s EXCEPT !.manager = m]
  BY DEF ColourNoted, m
<1>7. /\ r \in States /\ r.manager = m /\ r.panel = s.panel /\ r.unit = s.unit
      /\ r.told = s.told /\ r.fails = s.fails /\ r.ok = s.ok
  BY <1>5, <1>6 DEF States
<1> QED
  BY <1>5, <1>7 DEF OnlyColour, SameLight, SamePorch, SameUnit, SameTold

LEMMA OnlyColourTwice ==
    ASSUME NEW s, NEW q, NEW r, OnlyColour(s, q), OnlyColour(q, r) PROVE OnlyColour(s, r)
BY DEF OnlyColour, SameLight, SamePorch, SameUnit, SameTold

LEMMA OnlyColourSound ==
    ASSUME NEW s, NEW r, Sound(s), OnlyColour(s, r), ColourGood(r) PROVE SoundTo(s, r)
<1>1. DarkOff(r) /\ PorchGood(r) /\ CacheGood(r)
  BY DEF Sound, OnlyColour, DarkOff, PorchGood, CacheGood, SameLight, SamePorch
<1>2. UnitGood(r)
  BY DEF Sound, OnlyColour, UnitGood, ScansAt, SameLight, SameUnit
<1> QED
  BY <1>1, <1>2 DEF SoundTo, Sound, OnlyColour, SamePorch, SameUnit

\* Once a matrix is asked for, the panel wears it or the pipeline refused.
LEMMA Programmed ==
    ASSUME NEW s, Sound(s), NEW m \in AllMatrices, NEW r, r = ProgramColorMatrix(s, m)
    PROVE  SoundTo(s, r) /\ OnlyColour(s, r)
<1>0. /\ s \in States /\ s.manager \in Managers
      /\ s.manager.csc_programmed_ \in BOOLEAN /\ s.manager.boot_state_written_ \in BOOLEAN
  BY StatesOf DEF Sound, Managers
<1> DEFINE noted == ColourNoted(s, m, s.manager.csc_programmed_, s.manager.boot_state_written_)
<1>1. noted = [s EXCEPT !.manager.last_color_matrix_ = m]
  <2>1. [s.manager EXCEPT !.last_color_matrix_ = m,
                          !.csc_programmed_ = s.manager.csc_programmed_,
                          !.boot_state_written_ = s.manager.boot_state_written_]
          = [s.manager EXCEPT !.last_color_matrix_ = m]
    BY <1>0 DEF Managers
  <2> QED
    BY <2>1 DEF ColourNoted
<1>2. /\ OnlyColour(s, noted) /\ noted.panel = s.panel /\ noted.told = s.told
      /\ noted.manager.last_color_matrix_ = m
      /\ noted.manager.csc_programmed_ = s.manager.csc_programmed_
      /\ noted.manager.boot_state_written_ = s.manager.boot_state_written_
  BY <1>0, Noted
<1>3. CASE m = s.manager.last_color_matrix_
  <2>1. r = s
    BY <1>3 DEF ProgramColorMatrix
  <2>2. OnlyColour(s, s)
    BY <1>0 DEF OnlyColour, SameLight, SamePorch, SameUnit, SameTold
  <2> QED
    BY <2>1, <2>2, OnlyColourSound DEF Sound
<1>4. CASE m # s.manager.last_color_matrix_
  <2> HIDE DEF noted
  <2>1. r = IF m \in {"identity", "offset"} THEN restore(noted) ELSE apply(noted, m)
    BY <1>1, <1>4 DEF ProgramColorMatrix
  <2>2. noted \in States
    BY <1>2 DEF OnlyColour
  <2>3. /\ Home \in Colours /\ Wears(m) \in Colours
        /\ m \in {"identity", "offset"} => Wears(m) = Home
    BY ColoursWorn
  <2>4. CASE m \in {"identity", "offset"}
             /\ ~noted.manager.csc_programmed_ /\ noted.manager.boot_state_written_
    <3>1. r = noted
      BY <2>1, <2>4 DEF restore
    <3>2. ColourGood(r)
      BY <1>2, <2>3, <2>4, <3>1 DEF Sound, ColourGood
    <3> QED
      BY <1>2, <3>1, <3>2, OnlyColourSound
  <2>5. ASSUME NEW c \in Colours, NEW csc \in BOOLEAN, c = Wears(m), ~csc => c = Home,
               r = (IF ~WriteCmu(noted, c).ok THEN WriteCmu(noted, c)
                    ELSE [WriteCmu(noted, c) EXCEPT !.manager.csc_programmed_ = csc,
                                                    !.manager.boot_state_written_ = TRUE])
        PROVE  SoundTo(s, r) /\ OnlyColour(s, r)
    <3> DEFINE wrote == WriteCmu(noted, c)
    <3>1. /\ OnlyColour(noted, wrote) /\ wrote.manager = noted.manager
          /\ \/ wrote.ok /\ "cmu" \notin wrote.told.refused /\ wrote.panel.colour = c
             \/ ~wrote.ok /\ "cmu" \in wrote.told.refused /\ wrote.panel = noted.panel
      BY <2>2, Written
    <3>2. r = IF ~wrote.ok THEN wrote
              ELSE [wrote EXCEPT !.manager.csc_programmed_ = csc,
                                 !.manager.boot_state_written_ = TRUE]
      BY <2>5
    <3> HIDE DEF wrote
    <3>3. OnlyColour(s, wrote) /\ wrote \in States /\ wrote.manager \in Managers
      BY <1>2, <3>1, OnlyColourTwice, StatesOf DEF OnlyColour
    <3>4. CASE ~wrote.ok
      <4>1. ColourGood(r)
        BY <1>2, <3>1, <3>2, <3>4 DEF Sound, ColourGood
      <4> QED
        BY <3>2, <3>3, <3>4, <4>1, OnlyColourSound
    <3>5. CASE wrote.ok
      <4>0. PICK boot \in BOOLEAN : boot = TRUE
        BY Zenon
      <4>1. r = ColourNoted(wrote, m, csc, boot)
        <5>1. [wrote.manager EXCEPT !.last_color_matrix_ = m, !.csc_programmed_ = csc,
                                    !.boot_state_written_ = TRUE]
                = [wrote.manager EXCEPT !.csc_programmed_ = csc, !.boot_state_written_ = TRUE]
          BY <1>2, <3>1, <3>3 DEF Managers
        <5> QED
          BY <3>2, <3>5, <4>0, <5>1 DEF ColourNoted
      <4>2. /\ OnlyColour(wrote, r) /\ r.panel = wrote.panel /\ r.told = wrote.told
            /\ r.manager.last_color_matrix_ = m
            /\ r.manager.csc_programmed_ = csc /\ r.manager.boot_state_written_ = boot
        BY <3>3, <4>1, Noted
      <4>3. ColourGood(r)
        BY <2>5, <3>1, <3>5, <4>0, <4>2 DEF ColourGood
      <4> QED
        BY <3>3, <4>2, <4>3, OnlyColourTwice, OnlyColourSound
    <3> QED
      BY <3>4, <3>5
  <2>6. CASE m \in {"identity", "offset"}
             /\ ~(~noted.manager.csc_programmed_ /\ noted.manager.boot_state_written_)
    BY <2>1, <2>3, <2>5, <2>6 DEF restore
  <2>7. CASE m \notin {"identity", "offset"}
    BY <2>1, <2>3, <2>5, <2>7 DEF apply
  <2> QED
    BY <2>4, <2>6, <2>7
<1> QED
  BY <1>3, <1>4

-----------------------------------------------------------------------------
(* A request's frame: the pointer, the windows, the rate.                  *)

Requests ==
    [has : BOOLEAN, power : {"none", "on", "off"}, rate : Configs \cup {"none"},
     wins : [Windows -> Shows], matrix : AllMatrices, pointer : Pointing, seq : Nat]

\* Unless the unit refused something the manager knows whether it shows.
ShownGood(s) == "cursor" \notin s.told.refused => s.unit.visible_ = s.manager.cursor_shown_

\* Unless it refused something it shows the pointer it was given.
Wielded(r, pointer) ==
    "cursor" \notin r.told.refused =>
       /\ r.unit.visible_ = pointer.present /\ r.manager.cursor_shown_ = pointer.present
       /\ pointer.present => r.unit.image_id_ = pointer.id /\ r.unit.x_ = pointer.at

OnlyPointer(s, r) ==
    /\ r \in States
    /\ SameLight(s, r) /\ SameWins(s, r) /\ SamePorch(s, r) /\ SameColour(s, r) /\ SameTold(s, r)
    /\ "cursor" \in s.told.refused => "cursor" \in r.told.refused

LEMMA OnlyPointerSound ==
    ASSUME NEW s, NEW r, Sound(s), OnlyPointer(s, r), UnitGood(r) PROVE SoundTo(s, r)
<1>1. DarkOff(r) /\ PorchGood(r) /\ CacheGood(r) /\ ColourGood(r)
  BY DEF Sound, OnlyPointer, DarkOff, PorchGood, CacheGood, ColourGood, SameLight, SamePorch,
         SameColour
<1> QED
  BY <1>1 DEF SoundTo, Sound, OnlyPointer, SamePorch

NotedTo(s, t, r, shown) ==
    /\ OnlyPointer(s, r) /\ r.panel = t.panel /\ r.unit = t.unit /\ r.told = t.told
    /\ r.manager.cursor_shown_ = shown

LEMMA ShownNoted ==
    ASSUME NEW s \in States, NEW t, OnlyUnit(s, t), NEW shown \in BOOLEAN,
           NEW r, r = [t EXCEPT !.manager.cursor_shown_ = shown]
    PROVE  NotedTo(s, t, r, shown)
<1> DEFINE m == [t.manager EXCEPT !.cursor_shown_ = shown]
<1>1. t \in States /\ t.manager \in Managers
  BY StatesOf DEF OnlyUnit
<1>2. /\ m \in Managers /\ m.cursor_shown_ = shown /\ m.active_ = t.manager.active_
      /\ m.porch_ = t.manager.porch_ /\ m.cursor_move_seq_ = t.manager.cursor_move_seq_
      /\ m.last_color_matrix_ = t.manager.last_color_matrix_
      /\ m.csc_programmed_ = t.manager.csc_programmed_
      /\ m.boot_state_written_ = t.manager.boot_state_written_
  BY <1>1 DEF Managers
<1>3. r = [t EXCEPT !.manager = m]
  BY <1>1 DEF States
<1> HIDE DEF m
<1>4. /\ r \in States /\ r.manager = m /\ r.panel = t.panel /\ r.unit = t.unit
      /\ r.told = t.told /\ r.fails = t.fails
  BY <1>1, <1>2, <1>3 DEF States
<1> QED
  BY <1>2, <1>4 DEF NotedTo, OnlyUnit, OnlyPointer, SameLight, SamePorch, SameColour, SameTold

\* Without a pointer no slot is written at all.
SlotsTo(s, r, pointer) ==
    SlotsKept(s, r) /\ (~pointer.present => r.unit.slots = s.unit.slots)

PointTo(s, r, pointer) ==
    OnlyPointer(s, r) /\ SoundTo(s, r) /\ SlotsTo(s, r, pointer) /\ Wielded(r, pointer)

LEMMA PointShown ==
    ASSUME NEW s, Sound(s), ShownGood(s), NEW req \in Requests, Pictured(req.pointer),
           req.seq = s.manager.cursor_move_seq_, NEW r, r = PointBlock(s, req)
    PROVE  PointTo(s, r, req.pointer)
<1>1. /\ s \in States /\ UnitGood(s) /\ s.manager.cursor_shown_ \in BOOLEAN
      /\ s.unit.visible_ \in BOOLEAN
  BY StatesOf DEF Sound, Managers, Units
<1>2. /\ req.pointer.present \in BOOLEAN /\ req.pointer.id \in Nat /\ req.pointer.at \in Int
      /\ req.pointer.present => req.pointer.id \in Nat \ {0}
  BY DEF Requests, Pointing, Pictured
<1>3. CASE req.pointer.present
  <2> DEFINE t == Show(s, req.pointer.id, req.pointer.at, TRUE)
  <2>1. r = [t EXCEPT !.manager.cursor_shown_ = t.ok]
    BY <1>3 DEF PointBlock
  <2>2. ShowTo(s, t, req.pointer.id, req.pointer.at)
    BY <1>1, <1>2, <1>3, Shown
  <2>3. OnlyUnit(s, t) /\ UnitGood(t) /\ t.ok \in BOOLEAN /\ t.unit.visible_ \in BOOLEAN
    BY <2>2, StatesOf DEF ShowTo, OnlyUnit, Units
  <2> HIDE DEF t
  <2>4. NotedTo(s, t, r, t.ok)
    BY <1>1, <2>1, <2>3, ShownNoted
  <2>5. UnitGood(r) /\ SlotsTo(s, r, req.pointer)
    BY <1>3, <2>2, <2>4 DEF ShowTo, NotedTo, UnitGood, ScansAt, SlotsTo, SlotsKept
  <2>6. Wielded(r, req.pointer)
    BY <1>2, <1>3, <2>2, <2>3, <2>4 DEF ShowTo, NotedTo, Wielded
  <2> QED
    BY <2>4, <2>5, <2>6, OnlyPointerSound DEF NotedTo, PointTo
<1>4. CASE ~req.pointer.present /\ s.manager.cursor_shown_
  <2> DEFINE t == Hide(s)
  <2>1. r = [t EXCEPT !.manager.cursor_shown_ = FALSE]
    BY <1>4 DEF PointBlock
  <2>2. OnlyUnit(s, t) /\ UnitGood(t) /\ t.unit.slots = s.unit.slots /\ ~t.unit.visible_
    BY <1>1, Hidden
  <2>3. t.unit.visible_ \in BOOLEAN
    BY <2>2, StatesOf DEF OnlyUnit, Units
  <2> HIDE DEF t
  <2>4. PICK shown \in BOOLEAN : shown = FALSE
    BY Zenon
  <2>5. r = [t EXCEPT !.manager.cursor_shown_ = shown]
    BY <2>1, <2>4
  <2>6. NotedTo(s, t, r, shown)
    BY <1>1, <2>2, <2>5, ShownNoted
  <2>7. UnitGood(r) /\ SlotsTo(s, r, req.pointer)
    BY <2>2, <2>6 DEF NotedTo, UnitGood, ScansAt, SlotsTo, SlotsKept
  <2>8. Wielded(r, req.pointer)
    BY <1>2, <1>4, <2>2, <2>3, <2>4, <2>6 DEF NotedTo, Wielded
  <2> QED
    BY <2>6, <2>7, <2>8, OnlyPointerSound DEF NotedTo, PointTo
<1>5. CASE ~req.pointer.present /\ ~s.manager.cursor_shown_
  <2>1. r = s
    BY <1>5 DEF PointBlock
  <2>2. OnlyPointer(s, r)
    BY <1>1, <2>1 DEF OnlyPointer, SameLight, SamePorch, SameColour, SameTold
  <2>3. Wielded(r, req.pointer) /\ SlotsTo(s, r, req.pointer)
    BY <1>1, <1>2, <1>5, <2>1 DEF Wielded, ShownGood, SlotsTo, SlotsKept
  <2> QED
    BY <1>1, <2>1, <2>2, <2>3, OnlyPointerSound DEF PointTo
<1> QED
  BY <1>3, <1>4, <1>5

\* A flip changes the windows of a lit panel and nothing else.
FlipTo(s, r, wins) ==
    /\ r \in States /\ (r.ok <=> Grants(s, "flip"))
    /\ SameLight(s, r) /\ SamePorch(s, r) /\ SameColour(s, r) /\ SameUnit(s, r)
    /\ SameShown(s, r) /\ SameTold(s, r)
    /\ r.panel.wins = IF r.ok /\ s.panel.lit THEN wins ELSE s.panel.wins

LEMMA Flipped ==
    ASSUME NEW s \in States, NEW wins \in [Windows -> Shows], NEW r, r = flip(s, wins)
    PROVE  FlipTo(s, r, wins)
<1>1. s.panel \in Panels /\ s.panel.wins \in [Windows -> Shows]
  BY StatesOf DEF Panels
<1>2. CASE ~Grants(s, "flip")
  <2>1. r = Answer(s, FALSE)
    BY <1>2 DEF flip
  <2>2. r \in States /\ Same(s, r) /\ r.ok = FALSE
    BY <2>1, AnswerKeeps
  <2> QED
    BY <1>2, <2>2 DEF FlipTo, Same
<1>3. CASE Grants(s, "flip")
  <2> DEFINE shown == [w \in Windows |-> IF s.panel.lit /\ w \in DOMAIN wins
                                            THEN wins[w] ELSE s.panel.wins[w]]
             p == [s.panel EXCEPT !.wins = shown]
             t == [s EXCEPT !.panel = p]
  <2>1. shown = IF s.panel.lit THEN wins ELSE s.panel.wins
    BY <1>1
  <2>2. r = Answer(t, TRUE)
    BY <1>3 DEF flip, States
  <2>3. shown \in [Windows -> Shows]
    BY <1>1, <2>1
  <2> HIDE DEF shown
  <2>4. /\ p \in Panels /\ p.wins = shown /\ p.lit = s.panel.lit
        /\ p.porch = s.panel.porch /\ p.colour = s.panel.colour /\ p.sprite = s.panel.sprite
    BY <1>1, <2>3 DEF Panels
  <2> HIDE DEF p
  <2>5. /\ t \in States /\ t.panel = p /\ t.manager = s.manager /\ t.unit = s.unit
        /\ t.told = s.told /\ t.fails = s.fails
    BY <2>4 DEF States
  <2> HIDE DEF t
  <2>6. r \in States /\ Same(t, r) /\ r.ok = TRUE
    BY <2>2, <2>5, AnswerKeeps
  <2> QED
    BY <1>3, <2>1, <2>4, <2>5, <2>6
       DEF FlipTo, Same, SameLight, SamePorch, SameColour, SameUnit, SameTold
<1> QED
  BY <1>2, <1>3

\* The rate a request carries, once its frame is up.
RateTo(s, r, rate) ==
    /\ r \in States
    /\ SameLight(s, r) /\ SameWins(s, r) /\ SameColour(s, r) /\ SameUnit(s, r)
    /\ SameShown(s, r) /\ SameTold(s, r)
    /\ r.manager.porch_ = IF rate = "none" THEN s.manager.porch_ ELSE porchFor(rate)
    /\ PorchGood(r)
    /\ s.ok => r.ok

LEMMA PorchesAre == \A c \in Configs : porchFor(c) \in Nat /\ c # "none"
BY DEF Configs, porchFor

LEMMA Rated ==
    ASSUME NEW s \in States, PorchGood(s), NEW req \in Requests, NEW r, r = RateBlock(s, req)
    PROVE  RateTo(s, r, req.rate)
<1>1. CASE req.rate = "none"
  <2>1. r = s
    BY <1>1 DEF RateBlock
  <2> QED
    BY <1>1, <2>1 DEF RateTo, SameLight, SameColour, SameUnit, SameTold
<1>2. CASE req.rate # "none"
  <2> DEFINE vfp == porchFor(req.rate)
             m == [s.manager EXCEPT !.porch_ = vfp]
             t == [s EXCEPT !.manager = m]
             set == setActiveVfp(t, vfp)
  <2>1. vfp \in Nat /\ s.manager \in Managers
    BY <1>2, PorchesAre, StatesOf DEF Requests
  <2>2. r = Answer(set, TRUE)
    BY <1>2 DEF RateBlock, States
  <2> HIDE DEF vfp
  <2>3. /\ m \in Managers /\ m.porch_ = vfp /\ m.active_ = s.manager.active_
        /\ m.cursor_shown_ = s.manager.cursor_shown_
        /\ m.cursor_move_seq_ = s.manager.cursor_move_seq_
        /\ m.last_color_matrix_ = s.manager.last_color_matrix_
        /\ m.csc_programmed_ = s.manager.csc_programmed_
        /\ m.boot_state_written_ = s.manager.boot_state_written_
    BY <2>1 DEF Managers
  <2> HIDE DEF m
  <2>4. /\ t \in States /\ t.manager = m /\ t.panel = s.panel /\ t.unit = s.unit
        /\ t.told = s.told /\ t.fails = s.fails
    BY <2>3 DEF States
  <2> HIDE DEF t
  <2>5. PorchTold(t, set, vfp)
    BY <2>1, <2>4, PorchSet
  <2> HIDE DEF set
  <2>6. r \in States /\ Same(set, r) /\ r.ok = TRUE
    BY <2>2, <2>5, AnswerKeeps DEF PorchTold
  <2>7. /\ SameLight(s, r) /\ SameWins(s, r) /\ SameColour(s, r) /\ SameUnit(s, r)
        /\ SameShown(s, r) /\ SameTold(s, r) /\ r.manager.porch_ = vfp
    BY <2>3, <2>4, <2>5, <2>6
       DEF PorchTold, Same, SameLight, SamePorch, SameColour, SameUnit, SameTold
  <2>8. PorchGood(r)
    BY <2>3, <2>4, <2>5, <2>6 DEF PorchTold, PorchGood, Same, SameLight, SamePorch
  <2> QED
    BY <1>2, <2>6, <2>7, <2>8 DEF RateTo, vfp
<1> QED
  BY <1>1, <1>2

\* A frame shown: what it leaves in each part, and where it leaves the rest.
FrameTo(s, r, req) ==
    /\ Sound(r) /\ SlotsTo(s, r, req.pointer) /\ Wielded(r, req.pointer)
    /\ SameLight(s, r) /\ SameTold(s, r)
    /\ r.panel.wins = IF s.panel.lit /\ r.ok THEN req.wins ELSE s.panel.wins
    /\ r.manager.porch_ = IF r.ok /\ req.rate # "none" THEN porchFor(req.rate)
                          ELSE s.manager.porch_
    /\ "cursor" \in s.told.refused => "cursor" \in r.told.refused

LEMMA FrameShown ==
    ASSUME NEW s, Sound(s), ShownGood(s), NEW req \in Requests, Pictured(req.pointer),
           req.seq = s.manager.cursor_move_seq_, NEW r, r = ShowFrame(s, req)
    PROVE  FrameTo(s, r, req)
<1> DEFINE c == ProgramColorMatrix(s, req.matrix)
           p == PointBlock(c, req)
           f == flip(p, req.wins)
<1>1. r = IF f.ok THEN RateBlock(f, req) ELSE f
  BY DEF ShowFrame
<1>2. req.matrix \in AllMatrices /\ req.wins \in [Windows -> Shows]
  BY DEF Requests
<1>3. SoundTo(s, c) /\ OnlyColour(s, c)
  BY <1>2, Programmed
<1> HIDE DEF c
<1>4. Sound(c) /\ ShownGood(c) /\ req.seq = c.manager.cursor_move_seq_ /\ c.unit = s.unit
  BY <1>3 DEF SoundTo, OnlyColour, ShownGood, SameUnit, SameTold
<1>5. PointTo(c, p, req.pointer)
  BY <1>4, PointShown
<1> HIDE DEF p
<1>6. Sound(p) /\ p \in States
  BY <1>5 DEF PointTo, SoundTo, Sound
<1>7. FlipTo(p, f, req.wins)
  BY <1>2, <1>6, Flipped
<1> HIDE DEF f
<1>8. /\ SameLight(s, p) /\ SameWins(s, p) /\ SamePorch(s, p) /\ SameTold(s, p)
      /\ SlotsTo(s, p, req.pointer) /\ ("cursor" \in s.told.refused => "cursor" \in p.told.refused)
  BY <1>3, <1>4, <1>5
     DEF PointTo, SoundTo, OnlyColour, OnlyPointer, SameLight, SamePorch, SameTold, SlotsTo, SlotsKept
<1>9. /\ f \in States /\ PorchGood(f) /\ CacheGood(f) /\ ColourGood(f) /\ UnitGood(f)
      /\ DarkOff(f)
  <2>1. f \in States /\ PorchGood(f) /\ CacheGood(f) /\ ColourGood(f)
    BY <1>6, <1>7 DEF FlipTo, Sound, PorchGood, CacheGood, ColourGood, SameLight, SamePorch,
                      SameColour
  <2>2. UnitGood(f)
    BY <1>6, <1>7 DEF FlipTo, Sound, UnitGood, ScansAt, SameLight, SameUnit
  <2>3. DarkOff(f)
    BY <1>6, <1>7 DEF FlipTo, Sound, DarkOff, SameLight
  <2> QED
    BY <2>1, <2>2, <2>3
<1>10. /\ SameLight(s, f) /\ SameTold(s, f) /\ SlotsTo(s, f, req.pointer)
       /\ "cursor" \in s.told.refused => "cursor" \in f.told.refused
       /\ Wielded(f, req.pointer)
       /\ f.panel.wins = IF f.ok /\ s.panel.lit THEN req.wins ELSE s.panel.wins
       /\ f.manager.porch_ = s.manager.porch_
  <2>1. SameLight(s, f) /\ SameTold(s, f) /\ f.manager.porch_ = s.manager.porch_
    BY <1>7, <1>8 DEF FlipTo, SameLight, SamePorch, SameTold
  <2>2. SlotsTo(s, f, req.pointer) /\ ("cursor" \in s.told.refused => "cursor" \in f.told.refused)
    BY <1>7, <1>8 DEF FlipTo, SameUnit, SlotsTo, SlotsKept
  <2>3. Wielded(f, req.pointer)
    BY <1>5, <1>7 DEF FlipTo, PointTo, Wielded, SameUnit
  <2>4. f.panel.wins = IF f.ok /\ s.panel.lit THEN req.wins ELSE s.panel.wins
    BY <1>7, <1>8 DEF FlipTo, SameLight
  <2> QED
    BY <2>1, <2>2, <2>3, <2>4
<1>11. CASE ~f.ok
  BY <1>1, <1>9, <1>10, <1>11 DEF FrameTo, Sound
<1>12. CASE f.ok
  <2>1. RateTo(f, r, req.rate)
    BY <1>1, <1>9, <1>12, Rated
  <2>2. r \in States /\ PorchGood(r) /\ CacheGood(r) /\ ColourGood(r) /\ DarkOff(r)
    BY <1>9, <2>1 DEF RateTo, CacheGood, ColourGood, DarkOff, SameLight, SameColour
  <2>3. UnitGood(r) /\ SlotsTo(s, r, req.pointer) /\ Wielded(r, req.pointer)
        /\ ("cursor" \in s.told.refused => "cursor" \in r.told.refused)
    BY <1>9, <1>10, <2>1
       DEF RateTo, UnitGood, ScansAt, SameLight, SameUnit, SlotsTo, SlotsKept, Wielded
  <2>4. SameLight(s, r) /\ SameTold(s, r)
    BY <1>10, <2>1 DEF RateTo, SameLight, SameTold
  <2>5. r.ok /\ r.panel.wins = IF s.panel.lit /\ r.ok THEN req.wins ELSE s.panel.wins
    BY <1>10, <1>12, <2>1 DEF RateTo
  <2>6. r.manager.porch_ = IF r.ok /\ req.rate # "none" THEN porchFor(req.rate)
                           ELSE s.manager.porch_
    BY <1>10, <2>1, <2>5 DEF RateTo
  <2> QED
    BY <2>2, <2>3, <2>4, <2>5, <2>6 DEF FrameTo, Sound
<1> QED
  BY <1>11, <1>12

-----------------------------------------------------------------------------
(* A request executed.                                                     *)

\* The frame of a request is shown unless the light it wants is refused.
Reached(s, req) == req.has /\ (req.power = "on" => Grants(s, "blank"))

ExecutedTo(s, r, req) ==
    /\ Sound(r) /\ SlotsTo(s, r, req.pointer) /\ SameTold(s, r)
    /\ "cursor" \in s.told.refused => "cursor" \in r.told.refused
    /\ Reached(s, req) => Wielded(r, req.pointer)
    /\ ~Reached(s, req) => r.unit = s.unit /\ SameShown(s, r)
    /\ r.panel.wins = IF ~r.panel.lit THEN Off
                      ELSE IF req.has /\ r.ok THEN req.wins ELSE s.panel.wins
    /\ r.manager.porch_ = IF req.has /\ r.ok /\ req.rate # "none" THEN porchFor(req.rate)
                          ELSE s.manager.porch_
    /\ req.power = "none" => SameLight(s, r)
    /\ req.power # "none" /\ "blank" \notin r.told.refused => r.panel.lit = (req.power = "on")

LEMMA Executed ==
    ASSUME NEW s, Sound(s), ShownGood(s), NEW req \in Requests, Pictured(req.pointer),
           req.seq = s.manager.cursor_move_seq_, req.has => req.power # "off",
           NEW r, r = Execute(s, req)
    PROVE  ExecutedTo(s, r, req)
<1> DEFINE lit == IF req.power = "on" THEN SetPowered(s, TRUE) ELSE Answer(s, TRUE)
<1>0. /\ s \in States /\ req.has \in BOOLEAN /\ req.power \in {"none", "on", "off"}
      /\ req.rate \in Configs \cup {"none"}
  BY DEF Sound, Requests
<1>1. /\ ~lit.ok => r = lit
      /\ lit.ok /\ req.has => r = ShowFrame(lit, req)
      /\ lit.ok /\ ~req.has => r = IF req.power = "off" THEN SetPowered(lit, FALSE) ELSE lit
  BY <1>0 DEF Execute
<1>2. PICK on \in BOOLEAN : on = TRUE
  BY Zenon
<1>3. CASE req.power = "on"
  <2>1. lit = SetPowered(s, on)
    BY <1>2, <1>3
  <2> HIDE DEF lit
  <2>2. PoweredTo(s, lit, on)
    BY <1>2, <2>1, Powered
  <2>3. /\ Sound(lit) /\ lit \in States /\ lit.unit = s.unit /\ SameShown(s, lit)
        /\ SameTold(s, lit) /\ lit.manager.porch_ = s.manager.porch_
        /\ "cursor" \in s.told.refused => "cursor" \in lit.told.refused
        /\ "blank" \notin lit.told.refused => lit.panel.lit
        /\ (lit.ok <=> Grants(s, "blank"))
        /\ lit.ok => lit.panel.lit
        /\ lit.panel.wins = IF lit.panel.lit THEN s.panel.wins ELSE Off
    BY <1>2, <2>2 DEF PoweredTo, SoundTo, Sound, DarkOff
  <2>4. CASE ~lit.ok
    <3>1. r = lit /\ ~Reached(s, req)
      BY <1>1, <1>3, <2>3, <2>4 DEF Reached
    <3>2. SlotsTo(s, r, req.pointer) /\ r.panel.lit \in BOOLEAN
      BY <2>3, <3>1, StatesOf DEF SlotsTo, SlotsKept, Panels
    <3> QED
      BY <1>3, <2>3, <2>4, <3>1, <3>2 DEF ExecutedTo
  <2>5. CASE lit.ok /\ req.has
    <3>1. r = ShowFrame(lit, req)
      BY <1>1, <2>5
    <3>2. ShownGood(lit) /\ req.seq = lit.manager.cursor_move_seq_
      BY <2>3 DEF ShownGood, SameTold
    <3>3. FrameTo(lit, r, req)
      BY <2>3, <3>1, <3>2, FrameShown
    <3>4. Sound(r) /\ SlotsTo(s, r, req.pointer) /\ SameTold(s, r) /\ Wielded(r, req.pointer)
          /\ ("cursor" \in s.told.refused => "cursor" \in r.told.refused)
      BY <2>3, <3>3 DEF FrameTo, SlotsTo, SlotsKept, SameTold
    <3>5. Reached(s, req)
      BY <2>3, <2>5 DEF Reached
    <3>6. /\ r.panel.lit
          /\ r.panel.wins = IF r.ok THEN req.wins ELSE s.panel.wins
          /\ r.manager.porch_ = IF r.ok /\ req.rate # "none" THEN porchFor(req.rate)
                                ELSE s.manager.porch_
      BY <2>3, <2>5, <3>3 DEF FrameTo, SameLight
    <3>7. r.panel.lit \in BOOLEAN
      BY <3>4, StatesOf DEF Panels, Sound
    <3> QED
      BY <1>3, <2>5, <3>4, <3>5, <3>6, <3>7 DEF ExecutedTo
  <2>6. CASE lit.ok /\ ~req.has
    <3>1. r = lit /\ ~Reached(s, req)
      BY <1>1, <1>3, <2>6 DEF Reached
    <3>2. SlotsTo(s, r, req.pointer) /\ r.panel.lit \in BOOLEAN
      BY <2>3, <3>1, StatesOf DEF SlotsTo, SlotsKept, Panels
    <3> QED
      BY <1>3, <2>3, <2>6, <3>1, <3>2 DEF ExecutedTo
  <2> QED
    BY <2>4, <2>5, <2>6
<1>4. CASE req.power # "on"
  <2>1. lit = Answer(s, TRUE)
    BY <1>4
  <2> HIDE DEF lit
  <2>2. lit \in States /\ Same(s, lit) /\ lit.ok = TRUE
    BY <1>0, <2>1, AnswerKeeps
  <2>3. UnitGood(lit)
    BY <1>0, <2>2, SameUnitGood DEF Sound
  <2>4. Sound(lit) /\ ShownGood(lit) /\ req.seq = lit.manager.cursor_move_seq_
    BY <2>2, <2>3 DEF Sound, ShownGood, Same, SameLight, SamePorch, SameColour, SameUnit,
                      SameTold, DarkOff, PorchGood, CacheGood, ColourGood
  <2>5. /\ lit.unit = s.unit /\ SameLight(s, lit) /\ SameTold(s, lit) /\ SameShown(s, lit)
        /\ lit.panel.wins = s.panel.wins /\ lit.manager.porch_ = s.manager.porch_
        /\ "cursor" \in s.told.refused => "cursor" \in lit.told.refused
    BY <2>2 DEF Same, SameUnit, SamePorch
  <2>6. CASE req.has
    <3>1. r = ShowFrame(lit, req)
      BY <1>1, <2>2, <2>6
    <3>2. FrameTo(lit, r, req)
      BY <2>4, <3>1, FrameShown
    <3>3. Sound(r) /\ SlotsTo(s, r, req.pointer) /\ SameTold(s, r) /\ Wielded(r, req.pointer)
          /\ SameLight(s, r)
          /\ ("cursor" \in s.told.refused => "cursor" \in r.told.refused)
      BY <2>5, <3>2 DEF FrameTo, SlotsTo, SlotsKept, SameTold, SameLight
    <3>4. Reached(s, req) /\ req.power = "none"
      BY <1>0, <1>4, <2>6 DEF Reached
    <3>5. /\ r.panel.wins = IF ~r.panel.lit THEN Off
                            ELSE IF r.ok THEN req.wins ELSE s.panel.wins
          /\ r.manager.porch_ = IF r.ok /\ req.rate # "none" THEN porchFor(req.rate)
                                ELSE s.manager.porch_
      BY <2>5, <3>2, <3>3 DEF FrameTo, SameLight, Sound, DarkOff
    <3> QED
      BY <2>6, <3>3, <3>4, <3>5 DEF ExecutedTo
  <2>7. CASE ~req.has /\ req.power = "none"
    <3>1. r = lit /\ ~Reached(s, req)
      BY <1>1, <2>2, <2>7 DEF Reached
    <3>2. SlotsTo(s, r, req.pointer)
      BY <2>5, <3>1 DEF SlotsTo, SlotsKept
    <3>3. r.panel.wins = IF ~r.panel.lit THEN Off ELSE s.panel.wins
      BY <2>4, <2>5, <3>1 DEF Sound, DarkOff
    <3> QED
      BY <2>4, <2>5, <2>7, <3>1, <3>2, <3>3 DEF ExecutedTo
  <2>8. CASE ~req.has /\ req.power = "off"
    <3>0. PICK dark \in BOOLEAN : dark = FALSE
      BY Zenon
    <3>1. r = SetPowered(lit, dark) /\ ~Reached(s, req)
      BY <1>1, <2>2, <2>8, <3>0 DEF Reached
    <3>2. PoweredTo(lit, r, dark)
      BY <2>4, <3>1, Powered
    <3>3. /\ Sound(r) /\ r.unit = s.unit /\ SameShown(s, r)
          /\ SameTold(s, r) /\ r.manager.porch_ = s.manager.porch_
          /\ "cursor" \in s.told.refused => "cursor" \in r.told.refused
          /\ "blank" \notin r.told.refused => r.panel.lit = FALSE
      BY <2>5, <3>0, <3>2 DEF PoweredTo, SoundTo, SameTold
    <3>4. r.panel.wins = IF ~r.panel.lit THEN Off ELSE s.panel.wins
      BY <2>4, <2>5, <3>2 DEF PoweredTo, SoundTo, Sound, DarkOff, SameLight
    <3>5. SlotsTo(s, r, req.pointer)
      BY <3>3 DEF SlotsTo, SlotsKept
    <3> QED
      BY <2>8, <3>1, <3>3, <3>4, <3>5 DEF ExecutedTo
  <2> QED
    BY <1>0, <1>4, <2>6, <2>7, <2>8
<1> QED
  BY <1>3, <1>4

-----------------------------------------------------------------------------
(* A commit: the request executed, and what was told of it noted.          *)

CommitTo(s, r, args) ==
    /\ r \in States /\ Good(r) /\ SlotsTo(s, r, args.pointer) /\ r.fails = s.fails
    /\ r.manager.porch_ = IF args.has /\ r.ok /\ args.rate # "none" THEN porchFor(args.rate)
                          ELSE s.manager.porch_

LEMMA GoodIsSound ==
    ASSUME NEW s \in States, Good(s) PROVE Sound(s) /\ ShownGood(s)
BY DEF Good, Sound, ShownGood, WindowsGood, DarkOff, LightGood, PointerGood

LEMMA Requested ==
    ASSUME NEW s \in States, NEW args \in Requests,
           NEW req, req = GetAtomicModeReqForArgs(s, args)
    PROVE  /\ req \in Requests /\ req.seq = s.manager.cursor_move_seq_
           /\ req.has = args.has /\ req.power = args.power /\ req.rate = args.rate
           /\ req.wins = args.wins /\ req.pointer = args.pointer
<1>1. s.manager.cursor_move_seq_ \in Nat
  BY StatesOf DEF Managers
<1>2. req = [args EXCEPT !.seq = s.manager.cursor_move_seq_]
  BY DEF GetAtomicModeReqForArgs, Describe, Requests
<1> QED
  BY <1>1, <1>2 DEF Requests

\* What is told of a commit, with what it was told of before.
Telling(t, frame, power, pointer, word, overtaken) ==
    [t EXCEPT !.frame = frame, !.power = power, !.pointer = pointer, !.word = word,
              !.overtaken = overtaken]

LEMMA Telled ==
    ASSUME NEW t \in Tolds, NEW frame \in [Windows -> Shows],
           NEW power \in {"unknown", "on", "off"}, NEW pointer \in Pointing, NEW word \in Int,
           NEW overtaken \in BOOLEAN,
           NEW r, r = Telling(t, frame, power, pointer, word, overtaken)
    PROVE  /\ r \in Tolds /\ r.refused = t.refused
           /\ r.frame = frame /\ r.power = power /\ r.pointer = pointer /\ r.word = word
           /\ r.overtaken = overtaken
<1> DEFINE a == [t EXCEPT !.frame = frame]
           b == [a EXCEPT !.power = power]
           c == [b EXCEPT !.pointer = pointer]
           d == [c EXCEPT !.word = word]
<1>1. r = [d EXCEPT !.overtaken = overtaken]
  BY Zenon DEF Telling
<1>2. a \in Tolds /\ a.refused = t.refused /\ a.frame = frame
  BY DEF Tolds
<1> HIDE DEF a
<1>3. b \in Tolds /\ b.refused = t.refused /\ b.frame = frame /\ b.power = power
  BY <1>2 DEF Tolds
<1> HIDE DEF b
<1>4. /\ c \in Tolds /\ c.refused = t.refused /\ c.frame = frame /\ c.power = power
      /\ c.pointer = pointer
  BY <1>3 DEF Tolds
<1> HIDE DEF c
<1>5. /\ d \in Tolds /\ d.refused = t.refused /\ d.frame = frame /\ d.power = power
      /\ d.pointer = pointer /\ d.word = word
  BY <1>4 DEF Tolds
<1> HIDE DEF d
<1> QED
  BY <1>1, <1>5 DEF Tolds

\* Noted field by field or all at once.
LEMMA ToldTwice ==
    ASSUME NEW d \in States, NEW t, NEW e, e = [d EXCEPT !.told = t], NEW x
    PROVE  e.told = t /\ [e EXCEPT !.told = x] = [d EXCEPT !.told = x]
BY DEF States

TellEach(d, frame, power, pointer, word, overtaken) ==
    [d EXCEPT !.told.frame = frame, !.told.power = power, !.told.pointer = pointer,
              !.told.word = word, !.told.overtaken = overtaken]

LEMMA ToldEach ==
    ASSUME NEW d \in States, NEW frame, NEW power, NEW pointer, NEW word, NEW overtaken,
           NEW r, r = TellEach(d, frame, power, pointer, word, overtaken)
    PROVE  r = [d EXCEPT !.told = Telling(d.told, frame, power, pointer, word, overtaken)]
<1> DEFINE ta == [d.told EXCEPT !.frame = frame]
           da == [d EXCEPT !.told = ta]
           tb == [ta EXCEPT !.power = power]
           db == [da EXCEPT !.told = [da.told EXCEPT !.power = power]]
           tc == [tb EXCEPT !.pointer = pointer]
           dc == [db EXCEPT !.told = [db.told EXCEPT !.pointer = pointer]]
           td == [tc EXCEPT !.word = word]
           dd == [dc EXCEPT !.told = [dc.told EXCEPT !.word = word]]
           te == [td EXCEPT !.overtaken = overtaken]
<1>1. r = [dd EXCEPT !.told = [dd.told EXCEPT !.overtaken = overtaken]]
  BY Zenon DEF TellEach
<1>2. te = Telling(d.told, frame, power, pointer, word, overtaken)
  BY Zenon DEF Telling
<1> HIDE DEF te
<1>3. te = [td EXCEPT !.overtaken = overtaken]
  BY DEF te
<1> HIDE DEF dd, td
<1>4. dd = [dc EXCEPT !.told = [dc.told EXCEPT !.word = word]] /\ td = [tc EXCEPT !.word = word]
  BY DEF dd, td
<1> HIDE DEF dc, tc
<1>5. /\ dc = [db EXCEPT !.told = [db.told EXCEPT !.pointer = pointer]]
      /\ tc = [tb EXCEPT !.pointer = pointer]
  BY DEF dc, tc
<1> HIDE DEF db, tb
<1>6. /\ db = [da EXCEPT !.told = [da.told EXCEPT !.power = power]]
      /\ tb = [ta EXCEPT !.power = power]
  BY DEF db, tb
<1> HIDE DEF da, ta
<1>7. da = [d EXCEPT !.told = ta]
  BY DEF da
<1>8. db = [d EXCEPT !.told = tb]
  BY <1>6, <1>7, ToldTwice
<1>9. dc = [d EXCEPT !.told = tc]
  BY <1>5, <1>8, ToldTwice
<1>10. dd = [d EXCEPT !.told = td]
  BY <1>4, <1>9, ToldTwice
<1>11. r = [d EXCEPT !.told = te]
  BY <1>1, <1>3, <1>10, ToldTwice
<1> QED
  BY <1>2, <1>11

LEMMA Committed ==
    ASSUME NEW s \in States, Good(s), NEW args \in Requests, Pictured(args.pointer),
           args.has => args.power # "off", NEW overtaken \in BOOLEAN,
           NEW r, r = Commit(s, args, overtaken)
    PROVE  CommitTo(s, r, args)
<1> DEFINE req == GetAtomicModeReqForArgs(s, args)
           done == Execute(s, req)
           reached == args.has /\ (args.power = "on" => Grants(s, "blank"))
           stale == args.pointer.present /\ overtaken /\ s.unit.visible_
           frame == IF ~done.panel.lit THEN Off
                    ELSE IF args.has /\ done.ok THEN args.wins ELSE done.told.frame
           power == IF args.power = "none" THEN done.told.power ELSE args.power
           pointer == IF reached THEN args.pointer ELSE done.told.pointer
           word == IF reached /\ args.pointer.present /\ ~stale
                     THEN args.pointer.at ELSE done.told.word
           late == IF reached /\ args.pointer.present THEN stale ELSE done.told.overtaken
           tolds == Telling(done.told, frame, power, pointer, word, late)
<1>1. /\ req \in Requests /\ req.seq = s.manager.cursor_move_seq_
      /\ req.has = args.has /\ req.power = args.power /\ req.rate = args.rate
      /\ req.wins = args.wins /\ req.pointer = args.pointer
  BY Requested
<1> HIDE DEF req
<1>2. ExecutedTo(s, done, req)
  BY <1>1, GoodIsSound, Executed
<1>3. r = [done EXCEPT !.told = tolds]
  <2>1. r = TellEach(done, frame, power, pointer, word, late)
    BY Zenon DEF Commit, req, TellEach
  <2>2. done \in States
    BY <1>2 DEF ExecutedTo, Sound
  <2> HIDE DEF done, frame, power, pointer, word, late
  <2>3. r = [done EXCEPT !.told = Telling(done.told, frame, power, pointer, word, late)]
    BY <2>1, <2>2, ToldEach
  <2> QED
    BY <2>3 DEF tolds
<1>4. /\ args.has \in BOOLEAN /\ args.power \in {"none", "on", "off"} /\ args.pointer \in Pointing
      /\ args.pointer.present \in BOOLEAN /\ args.pointer.at \in Int
      /\ args.wins \in [Windows -> Shows] /\ s.unit.visible_ \in BOOLEAN
  BY StatesOf DEF Requests, Pointing, Units
<1> HIDE DEF done
<1>5. /\ done \in States /\ done.told \in Tolds /\ SameTold(s, done)
      /\ done.told.frame \in [Windows -> Shows] /\ done.told.power \in {"unknown", "on", "off"}
      /\ done.told.pointer \in Pointing /\ done.told.word \in Int
      /\ done.told.overtaken \in BOOLEAN
  BY <1>2, StatesOf DEF ExecutedTo, Sound, Tolds
<1>6. stale \in BOOLEAN
  BY <1>4
<1>7. /\ frame \in [Windows -> Shows] /\ power \in {"unknown", "on", "off"}
      /\ pointer \in Pointing /\ word \in Int /\ late \in BOOLEAN
  <2>1. frame \in [Windows -> Shows] /\ power \in {"unknown", "on", "off"}
    BY <1>4, <1>5, OffTyped
  <2>2. pointer \in Pointing /\ word \in Int
    BY <1>4, <1>5
  <2>3. late \in BOOLEAN
    BY <1>5, <1>6, Zenon
  <2> QED
    BY <2>1, <2>2, <2>3
<1> HIDE DEF frame, power, pointer, word, late
<1>8. /\ tolds \in Tolds /\ tolds.refused = done.told.refused
      /\ tolds.frame = frame /\ tolds.power = power /\ tolds.pointer = pointer
      /\ tolds.word = word /\ tolds.overtaken = late
  BY <1>5, <1>7, Telled
<1> HIDE DEF tolds
<1>9. /\ r \in States /\ r.told = tolds /\ r.panel = done.panel /\ r.manager = done.manager
      /\ r.unit = done.unit /\ r.fails = done.fails /\ r.ok = done.ok
  BY <1>3, <1>5, <1>8 DEF States
<1>10. WindowsGood(r)
  <2>1. done.panel.wins = frame
    BY <1>1, <1>2, <1>5 DEF ExecutedTo, frame, SameTold, Good, WindowsGood
  <2> QED
    BY <1>2, <1>8, <1>9, <2>1 DEF WindowsGood, ExecutedTo, Sound, DarkOff
<1>11. PorchGood(r) /\ ColourGood(r) /\ UnitGood(r)
  BY <1>2, <1>8, <1>9 DEF ExecutedTo, Sound, PorchGood, ColourGood, UnitGood, ScansAt
<1>12. LightGood(r)
  <2>1. CacheGood(r)
    BY <1>2, <1>9 DEF ExecutedTo, Sound, CacheGood
  <2>2. CASE args.power = "none"
    <3>1. power = s.told.power /\ SameLight(s, done)
      BY <1>1, <1>2, <1>5, <2>2 DEF ExecutedTo, power, SameTold
    <3> QED
      BY <1>8, <1>9, <2>1, <3>1 DEF LightGood, SameLight, Good
  <2>3. CASE args.power # "none"
    <3>1. power = args.power
      BY <2>3 DEF power
    <3>2. "blank" \notin done.told.refused => done.panel.lit = (args.power = "on")
      BY <1>1, <1>2, <2>3 DEF ExecutedTo
    <3> QED
      BY <1>8, <1>9, <2>1, <3>1, <3>2 DEF LightGood
  <2> QED
    BY <2>2, <2>3
<1>13. PointerGood(r)
  <2>1. CASE reached
    <3>1. Wielded(done, args.pointer)
      BY <1>1, <1>2, <2>1 DEF ExecutedTo, Reached
    <3>2. pointer = args.pointer
      BY <2>1 DEF pointer
    <3>3. CASE args.pointer.present
      <4>1. late \/ word = args.pointer.at
        BY <2>1, <3>3 DEF late, word
      <4> QED
        BY <1>8, <1>9, <3>1, <3>2, <3>3, <4>1 DEF PointerGood, Wielded
    <3>4. CASE ~args.pointer.present
      BY <1>8, <1>9, <3>1, <3>2, <3>4 DEF PointerGood, Wielded
    <3> QED
      BY <3>3, <3>4
  <2>2. CASE ~reached
    <3>1. done.unit = s.unit /\ SameShown(s, done)
          /\ ("cursor" \in s.told.refused => "cursor" \in done.told.refused)
      BY <1>1, <1>2, <2>2 DEF ExecutedTo, Reached
    <3>2. pointer = s.told.pointer /\ word = s.told.word /\ late = s.told.overtaken
      BY <1>5, <2>2 DEF pointer, word, late, SameTold
    <3> QED
      BY <1>8, <1>9, <3>1, <3>2 DEF PointerGood, Good
  <2> QED
    BY <2>1, <2>2
<1>14. SlotsTo(s, r, args.pointer) /\ r.fails = s.fails
       /\ r.manager.porch_ = IF args.has /\ r.ok /\ args.rate # "none" THEN porchFor(args.rate)
                             ELSE s.manager.porch_
  BY <1>1, <1>2, <1>5, <1>9 DEF ExecutedTo, SlotsTo, SlotsKept, SameTold
<1> QED
  BY <1>9, <1>10, <1>11, <1>12, <1>13, <1>14 DEF CommitTo, Good

-----------------------------------------------------------------------------
(* The client's calls.                                                     *)

\* What holds of a commit depends on four of its fields.
LEMMA GoodOf ==
    ASSUME NEW s, NEW r, Good(s),
           r.panel = s.panel, r.manager = s.manager, r.unit = s.unit, r.told = s.told
    PROVE  Good(r)
BY DEF Good, WindowsGood, PorchGood, LightGood, CacheGood, ColourGood, UnitGood, ScansAt,
       PointerGood

LEMMA StateIs ==
    ASSUME NEW f \in SUBSET Calls
    PROVE  /\ State(f).panel = panel /\ State(f).manager = manager /\ State(f).unit = unit
           /\ State(f).told = told
           /\ State({}) \in States => State(f) \in States
           /\ Good(State({})) => Good(State(f))
<1>1. /\ State(f).panel = panel /\ State(f).manager = manager /\ State(f).unit = unit
      /\ State(f).told = told /\ State({}).panel = panel /\ State({}).manager = manager
      /\ State({}).unit = unit /\ State({}).told = told
  BY DEF State
<1>2. State({}) \in States => State(f) \in States
  <2>1. SUFFICES ASSUME State({}) \in States PROVE State(f) \in States
    OBVIOUS
  <2>2. panel \in Panels /\ manager \in Managers /\ unit \in Units /\ told \in Tolds
    BY <1>1, <2>1, StatesOf
  <2>3. TRUE \in BOOLEAN
    OBVIOUS
  <2> QED
    BY <2>2, <2>3, Zenon DEF State, States
<1>3. Good(State({})) => Good(State(f))
  BY <1>1, GoodOf
<1> QED
  BY <1>1, <1>2, <1>3

\* A call leaves the hardware, the manager and the unit as its commit did.
LEMMA EndsWell ==
    ASSUME NEW r \in States, Good(r), UNCHANGED setup,
           panel' = r.panel, manager' = r.manager, unit' = r.unit, told' = r.told
    PROVE  (State({}) \in States)' /\ Good(State({}))'
<1> DEFINE n == [panel |-> panel', manager |-> manager', unit |-> unit', told |-> told',
                 fails |-> {}, ok |-> TRUE]
<1>1. n.panel = r.panel /\ n.manager = r.manager /\ n.unit = r.unit /\ n.told = r.told
  OBVIOUS
<1>2. n \in States
  <2>1. /\ panel' \in Panels /\ manager' \in Managers /\ unit' \in Units /\ told' \in Tolds
    BY StatesOf
  <2>2. TRUE \in BOOLEAN /\ {} \in SUBSET Calls
    OBVIOUS
  <2> QED
    BY <2>1, <2>2, Zenon DEF States
<1>3. Good(n)
  <2> HIDE DEF n
  <2> QED
    BY <1>1, GoodOf
<1>4. State({})' = n
  BY DEF State
<1>5. setup' = setup
  OBVIOUS
<1> HIDE DEF n
<1>6. (State({}) \in States)'
  BY <1>2, <1>4 DEF States, Panels, Sprites, Managers, Units, Tolds, Pointing
<1>7. WindowsGood(State({}))' /\ PorchGood(State({}))' /\ LightGood(State({}))'
  BY <1>3, <1>4 DEF Good, WindowsGood, PorchGood, LightGood, CacheGood, Off
<1>8. ColourGood(State({}))'
  BY <1>3, <1>4, <1>5 DEF Good, ColourGood, Home, Wears
<1>9. UnitGood(n) /\ PointerGood(n)
  BY <1>3 DEF Good
<1>10. UnitGood(State({}))'
  BY <1>4, <1>9 DEF UnitGood, ScansAt, Clamp16
<1>11. PointerGood(State({}))'
  BY <1>4, <1>9 DEF PointerGood
<1> QED
  BY <1>6, <1>7, <1>8, <1>10, <1>11 DEF Good

\* The requests the calls make.
FramedTo(args, wins, pointer, config) ==
    /\ args \in Requests /\ args.has = TRUE /\ args.power = "none" /\ args.rate = config
    /\ args.wins = wins /\ args.pointer = pointer

LEMMA Framed ==
    ASSUME NEW wins \in [Windows -> Shows], NEW pointer \in Pointing,
           NEW config \in Configs \cup {"none"}, display.matrix \in AllMatrices,
           NEW args, args = FrameArgs(wins, pointer, config)
    PROVE  FramedTo(args, wins, pointer, config)
<1>1. TRUE \in BOOLEAN /\ "none" \in {"none", "on", "off"} /\ 0 \in Nat
  OBVIOUS
<1>2. args \in Requests
  BY <1>1, Zenon DEF FrameArgs, Requests
<1>3. args.has = TRUE
  BY Zenon DEF FrameArgs
<1> QED
  BY <1>2, <1>3 DEF FrameArgs, FramedTo

LEMMA NoPointerTyped == NoPointer \in Pointing /\ NoPointer.present = FALSE /\ Pictured(NoPointer)
<1>1. FALSE \in BOOLEAN /\ 0 \in Nat /\ 0 \in Int
  OBVIOUS
<1>2. NoPointer \in Pointing
  BY <1>1, Zenon DEF NoPointer, Pointing
<1>3. NoPointer.present = FALSE
  BY Zenon DEF NoPointer
<1> QED
  BY <1>2, <1>3 DEF Pictured

LEMMA ModesetFramed ==
    ASSUME NEW config \in Configs, display.matrix \in AllMatrices,
           NEW args, args = CreateModesetCommit(config)
    PROVE  /\ args \in Requests /\ args.has = TRUE /\ args.power = "on" /\ args.rate = config
           /\ args.pointer = NoPointer
<1> DEFINE frame == FrameArgs(Modeset, NoPointer, config)
<1>1. Modeset \in [Windows -> Shows] /\ config \in Configs \cup {"none"}
  BY HeadAssumption DEF Shows
<1>2. FramedTo(frame, Modeset, NoPointer, config)
  BY <1>1, NoPointerTyped, Framed
<1>3. args = [frame EXCEPT !.power = "on"]
  BY DEF CreateModesetCommit
<1> HIDE DEF frame
<1> QED
  BY <1>2, <1>3 DEF FramedTo, Requests

LEMMA PowerFramed ==
    ASSUME NEW mode \in {"on", "off"}, display.matrix \in AllMatrices,
           NEW args, args = PowerArgs(mode)
    PROVE  /\ args \in Requests /\ args.has = FALSE /\ args.pointer = NoPointer
<1> DEFINE frame == FrameArgs(Off, NoPointer, "none")
           a == [frame EXCEPT !.has = FALSE]
<1>1. FramedTo(frame, Off, NoPointer, "none")
  <2>1. "none" \in Configs \cup {"none"}
    OBVIOUS
  <2> QED
    BY <2>1, OffTyped, NoPointerTyped, Framed
<1>2. args = [a EXCEPT !.power = mode]
  BY Zenon DEF PowerArgs
<1> HIDE DEF frame
<1>3. a \in Requests /\ a.has = FALSE /\ a.pointer = NoPointer
  BY <1>1 DEF FramedTo, Requests
<1> HIDE DEF a
<1> QED
  BY <1>2, <1>3 DEF Requests

\* The requests the kernel refuses are among those a commit makes.
LEMMA RefusalsAre ==
    ASSUME Typed, NEW f \in Refusals PROVE f \in SUBSET Calls
<1>1. setup.aspect \in {"pointer", "colour", "rate"}
  BY HeadAssumption DEF Typed
<1>2. Refusable \subseteq Calls
  BY <1>1 DEF Refusable, Calls
<1> QED
  BY <1>2 DEF Refusals

\* A commit from where the head is.
LEMMA CommittedHere ==
    ASSUME IInv, NEW f \in Refusals, NEW args \in Requests, Pictured(args.pointer),
           args.has => args.power # "off", NEW overtaken \in BOOLEAN,
           NEW r, r = Commit(State(f), args, overtaken)
    PROVE  /\ CommitTo(State(f), r, args) /\ r \in States /\ Good(r)
           /\ r.manager.porch_ = IF args.has /\ r.ok /\ args.rate # "none"
                                   THEN porchFor(args.rate) ELSE porchFor(display.active)
<1>1. f \in SUBSET Calls
  BY RefusalsAre DEF IInv
<1>2. State(f) \in States /\ Good(State(f)) /\ State(f).manager = manager
  BY <1>1, StateIs DEF IInv, Typed
<1> HIDE DEF State
<1>3. CommitTo(State(f), r, args)
  BY <1>2, Committed
<1> QED
  BY <1>2, <1>3 DEF CommitTo, IInv

\* What is left to check once the head is as a commit left it.
LEMMA CallKeeps ==
    ASSUME UNCHANGED <<setup, plan>>, Typed, NEW r \in States, Good(r),
           panel' = r.panel, manager' = r.manager, unit' = r.unit, told' = r.told,
           (display \in Displays)', Pictured(display.pointer)',
           r.manager.porch_ = porchFor(display.active')
    PROVE  IInv'
<1>1. (State({}) \in States)' /\ Good(State({}))'
  BY EndsWell
<1>2. porchFor(display.active)' = porchFor(display.active')
  BY DEF porchFor
<1>3. setup.aspect' \in Aspects
  BY DEF Typed
<1>4. /\ plan'.made \in BOOLEAN
      /\ plan'.made => /\ plan'.frame \in [Windows -> Shows]
                       /\ plan'.pointer \in Pointing /\ Pictured(plan'.pointer)
  BY DEF Typed
<1>5. Typed'
  BY <1>1, <1>3, <1>4 DEF Typed, Shows, Pointing, Pictured
<1> QED
  BY <1>1, <1>2, <1>5 DEF IInv

LEMMA SetActiveConfigKeeps ==
    ASSUME IInv, NEW c \in Configs, NEW f \in Refusals, SetActiveConfig(c, f)
    PROVE  IInv' /\ unit'.slots = unit.slots
<1> DEFINE args == CreateModesetCommit(c)
           done == Commit(State(f), args, FALSE)
<1>1. Typed /\ display \in Displays /\ display.matrix \in AllMatrices
      /\ Pictured(display.pointer)
  BY DEF IInv, Typed, Displays
<1>2. /\ args \in Requests /\ args.has = TRUE /\ args.power = "on" /\ args.rate = c
      /\ args.pointer = NoPointer
  BY <1>1, ModesetFramed
<1>3. /\ Ends(done)
      /\ display' = IF done.ok THEN [display EXCEPT !.active = c, !.staged = "none"]
                    ELSE display
      /\ UNCHANGED <<setup, plan>>
  BY DEF SetActiveConfig, SetConfig
<1> HIDE DEF args
<1>4. /\ done \in States /\ Good(done) /\ CommitTo(State(f), done, args)
      /\ done.manager.porch_ = IF args.has /\ done.ok /\ args.rate # "none"
                                 THEN porchFor(args.rate) ELSE porchFor(display.active)
  <2>1. PICK overtaken \in BOOLEAN : overtaken = FALSE
    BY Zenon
  <2>2. done = Commit(State(f), args, overtaken)
    BY <2>1
  <2> HIDE DEF done
  <2> QED
    BY <1>2, <2>2, CommittedHere, NoPointerTyped
<1>5. /\ panel' = done.panel /\ manager' = done.manager /\ unit' = done.unit
      /\ told' = done.told
  BY <1>3 DEF Ends
<1> HIDE DEF done
<1>50. unit'.slots = unit.slots
  <2>1. State(f).unit = unit
    BY DEF State
  <2> QED
    BY <1>2, <1>4, <1>5, <2>1, NoPointerTyped DEF CommitTo, SlotsTo
<1>6. CASE done.ok
  <2>1. /\ display' \in Displays /\ display'.active = c
        /\ display'.pointer = display.pointer
    BY <1>1, <1>3, <1>6 DEF Displays
  <2>2. done.manager.porch_ = porchFor(display.active')
    BY <1>2, <1>4, <1>6, <2>1, PorchesAre
  <2>3. (display \in Displays)' /\ Pictured(display.pointer)'
    BY <1>1, <2>1 DEF Displays, Configs, Pointing, Pictured
  <2> QED
    BY <1>1, <1>3, <1>4, <1>5, <1>50, <2>2, <2>3, CallKeeps
<1>7. CASE ~done.ok
  <2>1. display' = display
    BY <1>3, <1>7
  <2>2. done.manager.porch_ = porchFor(display.active')
    BY <1>4, <1>7, <2>1
  <2>3. (display \in Displays)' /\ Pictured(display.pointer)'
    BY <1>1, <2>1 DEF Displays, Configs, Pointing, Pictured
  <2> QED
    BY <1>1, <1>3, <1>4, <1>5, <1>50, <2>2, <2>3, CallKeeps
<1> QED
  BY <1>6, <1>7

\* A call that only notes something for later.
LEMMA HeadLeft ==
    ASSUME IInv, UNCHANGED <<setup, panel, manager, unit, told>>
    PROVE  /\ (State({}) \in States)' /\ Good(State({}))'
           /\ manager'.porch_ = porchFor(display.active)
<1>1. State({}) \in States /\ Good(State({}))
  BY DEF IInv, Typed
<1>2. /\ State({}).panel = panel /\ State({}).manager = manager /\ State({}).unit = unit
      /\ State({}).told = told
  BY StateIs
<1> HIDE DEF State
<1> QED
  BY <1>1, <1>2, EndsWell DEF IInv

LEMMA NotedKeeps ==
    ASSUME IInv, UNCHANGED <<setup, panel, manager, unit, told>>,
           (display \in Displays)', Pictured(display.pointer)',
           display'.active = display.active,
           plan'.made \in BOOLEAN,
           plan'.made => /\ plan'.frame \in [Windows -> Shows]
                         /\ plan'.pointer \in Pointing /\ Pictured(plan'.pointer)
    PROVE  IInv'
<1>1. (State({}) \in States)' /\ Good(State({}))'
  BY HeadLeft
<1>2. (manager.porch_ = porchFor(display.active))'
  BY HeadLeft DEF porchFor
<1>3. Typed'
  BY <1>1 DEF IInv, Typed, Shows, Pointing, Pictured
<1> QED
  BY <1>1, <1>2, <1>3 DEF IInv

LEMMA DisplayNoted ==
    ASSUME IInv, UNCHANGED <<setup, panel, manager, unit, plan, told>>,
           (display \in Displays)', Pictured(display.pointer)',
           display'.active = display.active
    PROVE  IInv'
<1>1. /\ plan'.made \in BOOLEAN
      /\ plan'.made => /\ plan'.frame \in [Windows -> Shows]
                       /\ plan'.pointer \in Pointing /\ Pictured(plan'.pointer)
  BY DEF IInv, Typed
<1> QED
  BY <1>1, NotedKeeps

LEMMA QueueConfigKeeps ==
    ASSUME IInv, NEW c \in Configs, QueueConfig(c) PROVE IInv'
<1>1. display' = [display EXCEPT !.staged = c]
      /\ UNCHANGED <<setup, panel, manager, unit, plan, told>>
  BY DEF QueueConfig
<1>2. display \in Displays /\ Pictured(display.pointer)
  BY DEF IInv, Typed
<1>3. /\ display' \in Displays /\ display'.active = display.active
      /\ display'.pointer = display.pointer
  BY <1>1, <1>2 DEF Displays
<1>4. (display \in Displays)' /\ Pictured(display.pointer)'
  BY <1>2, <1>3 DEF Displays, Configs, Pointing, Pictured
<1> QED
  BY <1>1, <1>3, <1>4, DisplayNoted

LEMMA SetColorTransformKeeps ==
    ASSUME IInv, NEW m \in Matrices, SetColorTransform(m) PROVE IInv'
<1>1. display' = [display EXCEPT !.matrix = m]
      /\ UNCHANGED <<setup, panel, manager, unit, plan, told>>
  BY DEF SetColorTransform
<1>2. display \in Displays /\ Pictured(display.pointer) /\ m \in AllMatrices
  BY HeadAssumption DEF IInv, Typed
<1>3. /\ display' \in Displays /\ display'.active = display.active
      /\ display'.pointer = display.pointer
  BY <1>1, <1>2 DEF Displays
<1>4. (display \in Displays)' /\ Pictured(display.pointer)'
  BY <1>2, <1>3 DEF Displays, Configs, Pointing, Pictured
<1> QED
  BY <1>1, <1>3, <1>4, DisplayNoted

LEMMA PointersAre == ASSUME NEW p \in Pointers PROVE p \in Pointing /\ Pictured(p)
<1>1. CASE p = NoPointer
  BY <1>1, NoPointerTyped
<1>2. CASE p \in [present : {TRUE}, id : Images, at : Places]
  <2>1. Images \subseteq Nat \ {0} /\ Places \subseteq Int
    BY HeadAssumption
  <2> QED
    BY <1>2, <2>1 DEF Pointing, Pictured
<1> QED
  BY <1>1, <1>2 DEF Pointers

LEMMA SetPointerLayerKeeps ==
    ASSUME IInv, NEW p \in Pointers, SetPointerLayer(p) PROVE IInv'
<1>1. display' = [display EXCEPT !.pointer = p]
      /\ UNCHANGED <<setup, panel, manager, unit, plan, told>>
  BY DEF SetPointerLayer
<1>2. display \in Displays /\ p \in Pointing /\ Pictured(p)
  BY PointersAre DEF IInv, Typed
<1>3. display' \in Displays /\ display'.active = display.active /\ display'.pointer = p
  BY <1>1, <1>2 DEF Displays
<1>4. (display \in Displays)' /\ Pictured(display.pointer)'
  BY <1>2, <1>3 DEF Displays, Configs, Pointing, Pictured
<1> QED
  BY <1>1, <1>3, <1>4, DisplayNoted

LEMMA ValidateKeeps ==
    ASSUME IInv, NEW frame \in Plans, Validate(frame) PROVE IInv'
<1>1. /\ plan' = [made |-> TRUE, frame |-> frame, pointer |-> display.pointer,
                  moves |-> manager.cursor_move_seq_]
      /\ UNCHANGED <<setup, panel, manager, unit, display, told>>
  BY DEF Validate
<1>2. display \in Displays /\ Pictured(display.pointer) /\ display.pointer \in Pointing
  BY DEF IInv, Typed, Displays
<1>3. (display \in Displays)' /\ Pictured(display.pointer)'
  BY <1>1, <1>2 DEF Displays, Configs, Pointing, Pictured
<1>4. frame \in [Windows -> Shows]
  <2>1. frame \in Frames
    BY HeadAssumption DEF Plans
  <2>2. frame \in [Windows -> {"off", "a", "b"}]
    BY <2>1, HeadAssumption
  <2> QED
    BY <2>2 DEF Shows
<1>5. /\ plan'.made = TRUE /\ plan'.frame \in [Windows -> Shows]
      /\ plan'.pointer \in Pointing /\ Pictured(plan'.pointer)
  <2>1. plan'.made = TRUE
    BY <1>1, Zenon
  <2> QED
    BY <1>1, <1>2, <1>4, <2>1
<1>6. plan'.made \in BOOLEAN /\ display'.active = display.active
  BY <1>1, <1>5, Zenon
<1> QED
  BY <1>1, <1>3, <1>5, <1>6, NotedKeeps

LEMMA SetPowerModeKeeps ==
    ASSUME IInv, NEW mode \in {"on", "off"}, NEW f \in Refusals, SetPowerMode(mode, f)
    PROVE  IInv' /\ unit'.slots = unit.slots
<1> DEFINE args == CreateModesetCommit(LastRequested)
           start == State(f)
           resets == mode = "on" /\ ~manager.active_
           config == Commit(start, args, FALSE)
           base == IF resets THEN config ELSE start
           powered == Commit(base, PowerArgs(mode), FALSE)
           set == IF resets
                    THEN [display EXCEPT !.active = LastRequested, !.staged = "none"]
                    ELSE display
<1>1. Typed /\ display \in Displays /\ display.matrix \in AllMatrices
      /\ Pictured(display.pointer) /\ LastRequested \in Configs
  BY DEF IInv, Typed, Displays, LastRequested
<1>2. /\ IF resets /\ ~config.ok THEN Ends(config) /\ display' = display
         ELSE Ends(powered) /\ display' = set
      /\ UNCHANGED <<setup, plan>>
  BY DEF SetPowerMode, SetConfig
<1>3. PICK late \in BOOLEAN : late = FALSE
  BY Zenon
<1>4. /\ args \in Requests /\ args.has = TRUE /\ args.power = "on"
      /\ args.rate = LastRequested /\ args.pointer = NoPointer
  BY <1>1, ModesetFramed
<1> HIDE DEF args
<1>5. /\ config \in States /\ Good(config) /\ config.unit.slots = unit.slots
      /\ config.manager.porch_ = IF config.ok THEN porchFor(LastRequested)
                                 ELSE porchFor(display.active)
  <2>1. config = Commit(State(f), args, late)
    BY <1>3
  <2> HIDE DEF config
  <2>2. /\ config \in States /\ Good(config) /\ CommitTo(State(f), config, args)
        /\ config.manager.porch_ = IF args.has /\ config.ok /\ args.rate # "none"
                                     THEN porchFor(args.rate) ELSE porchFor(display.active)
    BY <1>4, <2>1, CommittedHere, NoPointerTyped
  <2>3. config.unit.slots = unit.slots
    <3>1. State(f).unit = unit
      BY DEF State
    <3> QED
      BY <1>4, <2>2, <3>1, NoPointerTyped DEF CommitTo, SlotsTo
  <2> QED
    BY <1>1, <1>4, <2>2, <2>3, PorchesAre
<1> HIDE DEF config
<1>6. /\ start \in States /\ Good(start) /\ start.manager.porch_ = porchFor(display.active)
      /\ start.unit = unit
  <2>1. f \in SUBSET Calls
    BY <1>1, RefusalsAre
  <2> QED
    BY <2>1, StateIs DEF IInv, Typed
<1> HIDE DEF start
<1>7. CASE resets /\ ~config.ok
  <2>1. /\ panel' = config.panel /\ manager' = config.manager /\ unit' = config.unit
        /\ told' = config.told /\ display' = display
    BY <1>2, <1>7 DEF Ends
  <2>2. (display \in Displays)' /\ Pictured(display.pointer)'
    BY <1>1, <2>1 DEF Displays, Configs, Pointing, Pictured
  <2>3. config.manager.porch_ = porchFor(display.active')
    BY <1>5, <1>7, <2>1
  <2> QED
    BY <1>1, <1>2, <1>5, <2>1, <2>2, <2>3, CallKeeps
<1>8. CASE ~(resets /\ ~config.ok)
  <2>1. /\ base \in States /\ Good(base) /\ base.manager.porch_ = porchFor(set.active)
        /\ base.unit.slots = unit.slots
    BY <1>1, <1>5, <1>6, <1>8 DEF Displays
  <2>2. set \in Displays /\ set.pointer = display.pointer
    BY <1>1 DEF Displays
  <2>3. Ends(powered) /\ display' = set
    BY <1>2, <1>8
  <2> HIDE DEF base, set
  <2>4. /\ PowerArgs(mode) \in Requests /\ PowerArgs(mode).has = FALSE
        /\ PowerArgs(mode).pointer = NoPointer
    BY <1>1, PowerFramed
  <2>5. powered = Commit(base, PowerArgs(mode), late)
    BY <1>3
  <2> HIDE DEF powered
  <2>6. CommitTo(base, powered, PowerArgs(mode))
    BY <2>1, <2>4, <2>5, Committed, NoPointerTyped
  <2>7. /\ powered \in States /\ Good(powered)
        /\ powered.manager.porch_ = porchFor(set.active)
        /\ powered.unit.slots = unit.slots
    BY <2>1, <2>4, <2>6, NoPointerTyped DEF CommitTo, SlotsTo
  <2>8. /\ panel' = powered.panel /\ manager' = powered.manager /\ unit' = powered.unit
        /\ told' = powered.told
    BY <2>3 DEF Ends
  <2>9. (display \in Displays)' /\ Pictured(display.pointer)'
    BY <1>1, <2>2, <2>3 DEF Displays, Configs, Pointing, Pictured
  <2> QED
    BY <1>1, <1>2, <2>3, <2>7, <2>8, <2>9, CallKeeps
<1> QED
  BY <1>7, <1>8

LEMMA PresentKeeps ==
    ASSUME IInv, NEW due \in BOOLEAN, NEW f \in Refusals, Present(due, f)
    PROVE  IInv' /\ SlotsKept(State({}), State({})')
<1> DEFINE config == IF due THEN display.staged ELSE "none"
           args == FrameArgs(plan.frame, plan.pointer, config)
           late == plan.moves # manager.cursor_move_seq_
           done == Commit(State(f), args, late)
<1>1. /\ plan.made /\ Ends(done) /\ plan' = NoPlan
      /\ display' = IF done.ok /\ config # "none"
                      THEN [display EXCEPT !.active = config, !.staged = "none"]
                      ELSE display
      /\ UNCHANGED setup
  BY DEF Present
<1>2. /\ Typed /\ display \in Displays /\ display.matrix \in AllMatrices
      /\ Pictured(display.pointer) /\ config \in Configs \cup {"none"}
      /\ plan.frame \in [Windows -> Shows] /\ plan.pointer \in Pointing
      /\ Pictured(plan.pointer)
  BY <1>1 DEF IInv, Typed, Displays
<1> HIDE DEF config
<1>3. FramedTo(args, plan.frame, plan.pointer, config)
  BY <1>2, Framed
<1>4. late \in BOOLEAN
  OBVIOUS
<1> HIDE DEF args, late
<1>5. /\ CommitTo(State(f), done, args) /\ done \in States /\ Good(done)
      /\ done.manager.porch_ = IF args.has /\ done.ok /\ args.rate # "none"
                                 THEN porchFor(args.rate) ELSE porchFor(display.active)
  BY <1>2, <1>3, <1>4, CommittedHere DEF FramedTo
<1> HIDE DEF done
<1>6. /\ panel' = done.panel /\ manager' = done.manager /\ unit' = done.unit
      /\ told' = done.told
  BY <1>1 DEF Ends
<1>7. /\ display' \in Displays /\ display'.pointer = display.pointer
      /\ done.manager.porch_ = porchFor(display'.active)
  BY <1>1, <1>2, <1>3, <1>5 DEF Displays, FramedTo
<1>8. Typed' /\ Good(State({}))'
  <2>1. (State({}) \in States)' /\ Good(State({}))'
    BY <1>1, <1>5, <1>6, EndsWell
  <2>2. (display \in Displays)' /\ Pictured(display.pointer)'
    BY <1>2, <1>7 DEF Displays, Configs, Pointing, Pictured
  <2>3. plan'.made = FALSE
    BY <1>1, Zenon DEF NoPlan
  <2> QED
    BY <1>1, <1>2, <2>1, <2>2, <2>3 DEF Typed
<1>9. (manager.porch_ = porchFor(display.active))'
  BY <1>6, <1>7 DEF porchFor
<1>10. SlotsKept(State({}), State({})')
  <2>1. State(f).unit = unit /\ State({}).unit = unit
    BY DEF State
  <2>2. State({})'.unit = unit'
    BY DEF State
  <2>3. SlotsKept(State(f), done)
    BY <1>5 DEF CommitTo, SlotsTo
  <2> QED
    BY <1>6, <2>1, <2>2, <2>3 DEF SlotsKept
<1> QED
  BY <1>8, <1>9, <1>10 DEF IInv

\* A move reaches the unit outside any commit, and is the pointer's last word.
LEMMA OnlyUnitGood ==
    ASSUME NEW s \in States, Good(s), NEW r, OnlyUnit(s, r)
    PROVE  WindowsGood(r) /\ PorchGood(r) /\ LightGood(r) /\ ColourGood(r)
<1>1. WindowsGood(r) /\ PorchGood(r)
  BY DEF Good, OnlyUnit, WindowsGood, PorchGood, SameLight, SamePorch, SameTold
<1>2. LightGood(r) /\ ColourGood(r)
  BY DEF Good, OnlyUnit, LightGood, CacheGood, ColourGood, SameLight, SameColour, SameTold
<1> QED
  BY <1>1, <1>2

LEMMA CountedMove ==
    ASSUME IInv, NEW f \in SUBSET Calls,
           NEW c, c = [State(f) EXCEPT !.manager.cursor_move_seq_ = @ + 1]
    PROVE  /\ c \in States /\ Good(c) /\ c.manager.porch_ = porchFor(display.active)
           /\ c.unit = unit
<1> DEFINE s == State(f)
           m == [s.manager EXCEPT !.cursor_move_seq_ = s.manager.cursor_move_seq_ + 1]
<1>1. s \in States /\ Good(s) /\ s.manager \in Managers /\ s.manager = manager /\ s.unit = unit
  BY StateIs, StatesOf DEF IInv, Typed
<1>2. c = [s EXCEPT !.manager = m]
  BY Zenon
<1> HIDE DEF s
<1>3. /\ m \in Managers /\ m.active_ = s.manager.active_ /\ m.porch_ = s.manager.porch_
      /\ m.cursor_shown_ = s.manager.cursor_shown_
      /\ m.last_color_matrix_ = s.manager.last_color_matrix_
      /\ m.csc_programmed_ = s.manager.csc_programmed_
      /\ m.boot_state_written_ = s.manager.boot_state_written_
  BY <1>1 DEF Managers
<1> HIDE DEF m
<1>4. /\ c \in States /\ c.manager = m /\ c.panel = s.panel /\ c.unit = s.unit
      /\ c.told = s.told
  BY <1>1, <1>2, <1>3 DEF States
<1>5. WindowsGood(c) /\ PorchGood(c) /\ LightGood(c)
  BY <1>1, <1>3, <1>4 DEF Good, WindowsGood, PorchGood, LightGood, CacheGood
<1>6. ColourGood(c)
  BY <1>1, <1>3, <1>4 DEF Good, ColourGood
<1>7. UnitGood(c) /\ PointerGood(c)
  BY <1>1, <1>3, <1>4 DEF Good, UnitGood, ScansAt, PointerGood
<1> QED
  BY <1>1, <1>3, <1>4, <1>5, <1>6, <1>7 DEF Good, IInv

LEMMA MoveCursorKeeps ==
    ASSUME IInv, NEW at \in Places, NEW f \in Refusals, MoveCursor(at, f)
    PROVE  IInv' /\ unit'.slots = unit.slots
<1> DEFINE counted == [State(f) EXCEPT !.manager.cursor_move_seq_ = @ + 1]
           moved == Move(counted, at)
           worded == [moved.told EXCEPT !.word = at, !.overtaken = FALSE]
           tolds == IF moved.ok THEN worded ELSE moved.told
           n == [moved EXCEPT !.told = tolds]
<1>1. /\ panel' = moved.panel /\ manager' = moved.manager /\ unit' = moved.unit
      /\ told' = tolds
      /\ UNCHANGED <<setup, display, plan>>
  BY DEF MoveCursor
<1>2. at \in Int /\ f \in SUBSET Calls /\ Typed /\ display \in Displays
      /\ Pictured(display.pointer)
  BY HeadAssumption, RefusalsAre DEF IInv, Typed
<1>3. /\ counted \in States /\ Good(counted) /\ counted.unit = unit
      /\ counted.manager.porch_ = porchFor(display.active)
  BY <1>2, CountedMove
<1> HIDE DEF counted
<1>4. /\ OnlyUnit(counted, moved) /\ UnitGood(moved) /\ moved.ok \in BOOLEAN
      /\ moved.unit.slots = counted.unit.slots
      /\ moved.unit.visible_ = counted.unit.visible_
      /\ moved.unit.image_id_ = counted.unit.image_id_
      /\ moved.ok => counted.unit.visible_ /\ moved.unit.x_ = at
      /\ ~moved.ok /\ "cursor" \notin moved.told.refused => ~counted.unit.visible_
  BY <1>2, <1>3, Moved DEF Good
<1> HIDE DEF moved
<1>5. moved \in States /\ moved.told \in Tolds /\ SameTold(counted, moved)
  BY <1>4, StatesOf DEF OnlyUnit
<1>6. /\ tolds \in Tolds /\ tolds.refused = moved.told.refused
      /\ tolds.frame = moved.told.frame /\ tolds.power = moved.told.power
      /\ tolds.pointer = moved.told.pointer
      /\ moved.ok => tolds.word = at
      /\ ~moved.ok => tolds = moved.told
  <2> DEFINE a == [moved.told EXCEPT !.word = at]
  <2>1. worded = [a EXCEPT !.overtaken = FALSE]
    BY Zenon
  <2>2. /\ a \in Tolds /\ a.refused = moved.told.refused /\ a.word = at
        /\ a.frame = moved.told.frame /\ a.power = moved.told.power
        /\ a.pointer = moved.told.pointer
    BY <1>2, <1>5 DEF Tolds
  <2> HIDE DEF a, worded
  <2>3. /\ worded \in Tolds /\ worded.refused = a.refused /\ worded.word = a.word
        /\ worded.frame = a.frame /\ worded.power = a.power /\ worded.pointer = a.pointer
    BY <2>1, <2>2 DEF Tolds
  <2> QED
    BY <1>5, <2>2, <2>3
<1> HIDE DEF tolds
<1>7. /\ n \in States /\ n.panel = moved.panel /\ n.manager = moved.manager
      /\ n.unit = moved.unit /\ n.told = tolds
  BY <1>5, <1>6 DEF States
<1> HIDE DEF n
<1>8. WindowsGood(n) /\ PorchGood(n) /\ LightGood(n) /\ ColourGood(n) /\ UnitGood(n)
  <2>1. WindowsGood(moved) /\ PorchGood(moved) /\ LightGood(moved) /\ ColourGood(moved)
    BY <1>3, <1>4, OnlyUnitGood
  <2>2. WindowsGood(n) /\ PorchGood(n) /\ LightGood(n) /\ ColourGood(n)
    BY <1>6, <1>7, <2>1 DEF WindowsGood, PorchGood, LightGood, CacheGood, ColourGood
  <2>3. UnitGood(n)
    BY <1>4, <1>6, <1>7 DEF UnitGood, ScansAt
  <2> QED
    BY <2>2, <2>3
<1>9. PointerGood(n)
  <2>1. PointerGood(counted)
    BY <1>3 DEF Good
  <2>2. /\ moved.told.pointer = counted.told.pointer
        /\ moved.manager.cursor_shown_ = counted.manager.cursor_shown_
        /\ "cursor" \in counted.told.refused => "cursor" \in moved.told.refused
        /\ moved.told.word = counted.told.word
        /\ moved.told.overtaken = counted.told.overtaken
    BY <1>4 DEF OnlyUnit, SameTold
  <2>3. CASE moved.ok
    BY <1>4, <1>6, <1>7, <2>1, <2>2, <2>3 DEF PointerGood
  <2>4. CASE ~moved.ok
    BY <1>4, <1>6, <1>7, <2>1, <2>2, <2>4 DEF PointerGood
  <2> QED
    BY <2>3, <2>4
<1>10. Good(n) /\ n.manager.porch_ = porchFor(display.active)
  BY <1>3, <1>4, <1>7, <1>8, <1>9 DEF Good, OnlyUnit, SamePorch
<1>11. (display \in Displays)' /\ Pictured(display.pointer)'
  BY <1>1, <1>2 DEF Displays, Configs, Pointing, Pictured
<1>12. n.manager.porch_ = porchFor(display.active')
  BY <1>1, <1>10
<1>13. IInv'
  BY <1>1, <1>2, <1>7, <1>10, <1>11, <1>12, CallKeeps
<1> QED
  BY <1>1, <1>3, <1>4, <1>13

-----------------------------------------------------------------------------
(* The invariant, and what it says.                                        *)

LEMMA InitIInv == ASSUME Init PROVE IInv
<1> DEFINE s == State({})
<1>1. /\ s.panel = panel /\ s.manager = manager /\ s.unit = unit /\ s.told = told
  BY DEF State
<1>2. /\ TRUE \in BOOLEAN /\ FALSE \in BOOLEAN /\ 0 \in Nat /\ 0 \in Int /\ 0 \in {0, 1}
      /\ "unseen" \in AllMatrices \cup {"unseen"} /\ "unknown" \in {"unknown", "on", "off"}
      /\ {} \in SUBSET Kinds /\ {} \in SUBSET Calls
      /\ "native" \in Configs /\ "none" \in Configs \cup {"none"} /\ "identity" \in AllMatrices
  BY DEF Configs, AllMatrices
<1>3. /\ panel \in Panels /\ panel.porch = 0 /\ panel.wins = Off /\ panel.sprite = NoSprite
  <2>1. panel \in [lit : BOOLEAN, porch : {0}, wins : {Off},
                   colour : IF setup.aspect = "colour" THEN {"boot", "leftover"} ELSE {"boot"},
                   sprite : {NoSprite}]
    BY DEF Init, NoSprite
  <2>2. /\ panel.porch = 0 /\ panel.wins = Off /\ panel.sprite = NoSprite
        /\ panel.lit \in BOOLEAN /\ panel.colour \in Colours
        /\ panel = [lit |-> panel.lit, porch |-> panel.porch, wins |-> panel.wins,
                    colour |-> panel.colour, sprite |-> panel.sprite]
    BY <2>1 DEF Colours
  <2>3. panel \in Panels
    BY <1>2, <2>2, OffTyped, Zenon DEF Panels
  <2> QED
    BY <2>2, <2>3
<1>4. /\ manager \in Managers /\ manager.active_ = TRUE /\ manager.porch_ = 0
      /\ manager.cursor_shown_ = FALSE /\ manager.last_color_matrix_ = "unseen"
      /\ manager.boot_state_written_ = FALSE
  <2>1. manager = [active_ |-> TRUE, porch_ |-> 0, cursor_shown_ |-> FALSE,
                   cursor_move_seq_ |-> 0, last_color_matrix_ |-> "unseen",
                   csc_programmed_ |-> FALSE, boot_state_written_ |-> FALSE]
    BY DEF Init
  <2>2. manager \in Managers
    BY <1>2, <2>1, Zenon DEF Managers
  <2>3. /\ manager.active_ = TRUE /\ manager.cursor_shown_ = FALSE
        /\ manager.boot_state_written_ = FALSE
    BY <2>1, Zenon
  <2>4. manager.porch_ = 0 /\ manager.last_color_matrix_ = "unseen"
    BY <2>1, Zenon
  <2> QED
    BY <2>2, <2>3, <2>4
<1>5. /\ unit \in Units /\ unit.at_ = 0 /\ unit.image_id_ = 0 /\ unit.visible_ = FALSE
  <2>1. unit = [slots |-> [i \in {0, 1} |-> 0], at_ |-> 0, image_id_ |-> 0,
                visible_ |-> FALSE, x_ |-> 0]
    BY DEF Init
  <2>2. [i \in {0, 1} |-> 0] \in [{0, 1} -> Nat]
    OBVIOUS
  <2>3. unit \in Units
    BY <1>2, <2>1, <2>2, Zenon DEF Units
  <2>4. unit.visible_ = FALSE
    BY <2>1, Zenon
  <2>5. unit.at_ = 0 /\ unit.image_id_ = 0
    BY <2>1, Zenon
  <2> QED
    BY <2>3, <2>4, <2>5
<1>6. /\ told \in Tolds /\ told.frame = Off /\ told.power = "unknown" /\ told.refused = {}
      /\ told.pointer.present = FALSE
  <2>1. told = [frame |-> Off, pointer |-> NoPointer, word |-> 0, overtaken |-> FALSE,
                power |-> "unknown", refused |-> {}]
    BY DEF Init
  <2>2. told \in Tolds
    BY <1>2, <2>1, OffTyped, NoPointerTyped, Zenon DEF Tolds
  <2>3. /\ told.frame = Off /\ told.power = "unknown" /\ told.refused = {}
        /\ told.pointer = NoPointer
    BY <2>1, Zenon
  <2> QED
    BY <2>2, <2>3, NoPointerTyped
<1>7. s \in States
  BY <1>2, <1>3, <1>4, <1>5, <1>6, Zenon DEF State, States
<1>8. /\ display \in Displays /\ display.active = "native" /\ display.pointer = NoPointer
  <2>1. display = [active |-> "native", staged |-> "none", matrix |-> "identity",
                   pointer |-> NoPointer]
    BY DEF Init
  <2>2. display \in Displays
    BY <1>2, <2>1, NoPointerTyped, Zenon DEF Displays
  <2> QED
    BY <2>1, <2>2
<1>9. plan.made = FALSE /\ setup.aspect \in Aspects
  <2>1. plan.made = FALSE
    BY Zenon DEF Init, NoPlan
  <2> QED
    BY <2>1 DEF Init
<1>10. Typed
  BY <1>7, <1>8, <1>9, NoPointerTyped DEF Typed
<1> HIDE DEF s
<1>11. WindowsGood(s) /\ PorchGood(s) /\ LightGood(s) /\ ColourGood(s)
  BY <1>1, <1>3, <1>4, <1>6 DEF WindowsGood, PorchGood, LightGood, CacheGood, ColourGood
<1>12. UnitGood(s) /\ PointerGood(s)
  <2>1. NoSprite.slot = 2 /\ panel.sprite.slot = 2
    BY <1>3 DEF NoSprite
  <2> QED
    BY <1>1, <1>3, <1>4, <1>5, <1>6, <2>1 DEF UnitGood, ScansAt, PointerGood, NoSprite
<1> QED
  BY <1>4, <1>8, <1>10, <1>11, <1>12 DEF IInv, Good, porchFor, s

\* No call writes the slot the unit scans.
Unscanned ==
    \A i \in {0, 1} : unit.slots'[i] # unit.slots[i]
        => ~(panel.sprite.on /\ panel.sprite.slot = i)

LEMMA PresentUnscanned ==
    ASSUME IInv, SlotsKept(State({}), State({})') PROVE Unscanned
<1>1. State({}).unit = unit /\ State({}).panel = panel /\ State({})'.unit = unit'
  BY DEF State
<1>2. panel.sprite.slot \in {unit.at_, 2}
  BY <1>1 DEF IInv, Good, UnitGood, ScansAt
<1>3. unit.at_ \in {0, 1}
  BY <1>1, StatesOf DEF IInv, Typed, Units
<1> HIDE DEF State
<1> QED
  BY <1>1, <1>2, <1>3 DEF SlotsKept, Unscanned

LEMMA NextKeeps == ASSUME IInv, [Next]_vars PROVE IInv' /\ Unscanned
<1>1. ASSUME NEW c \in Configs, NEW f \in Refusals, SetActiveConfig(c, f)
      PROVE  IInv' /\ Unscanned
  BY <1>1, SetActiveConfigKeeps DEF Unscanned
<1>2. ASSUME NEW c \in Configs, QueueConfig(c) PROVE IInv' /\ Unscanned
  BY <1>2, QueueConfigKeeps DEF Unscanned, QueueConfig
<1>3. ASSUME NEW mode \in {"on", "off"}, NEW f \in Refusals, SetPowerMode(mode, f)
      PROVE  IInv' /\ Unscanned
  BY <1>3, SetPowerModeKeeps DEF Unscanned
<1>4. ASSUME NEW m \in Matrices, SetColorTransform(m) PROVE IInv' /\ Unscanned
  BY <1>4, SetColorTransformKeeps DEF Unscanned, SetColorTransform
<1>5. ASSUME NEW p \in Pointers, SetPointerLayer(p) PROVE IInv' /\ Unscanned
  BY <1>5, SetPointerLayerKeeps DEF Unscanned, SetPointerLayer
<1>6. ASSUME NEW at \in Places, NEW f \in Refusals, MoveCursor(at, f)
      PROVE  IInv' /\ Unscanned
  BY <1>6, MoveCursorKeeps DEF Unscanned
<1>7. ASSUME NEW frame \in Plans, Validate(frame) PROVE IInv' /\ Unscanned
  BY <1>7, ValidateKeeps DEF Unscanned, Validate
<1>8. ASSUME NEW due \in BOOLEAN, NEW f \in Refusals, Present(due, f)
      PROVE  IInv' /\ Unscanned
  BY <1>8, PresentKeeps, PresentUnscanned
<1>9. CASE UNCHANGED vars
  <2>1. UNCHANGED <<setup, panel, manager, unit, display, plan, told>>
    BY <1>9 DEF vars
  <2>2. display \in Displays /\ Pictured(display.pointer)
    BY DEF IInv, Typed
  <2>3. (display \in Displays)' /\ Pictured(display.pointer)'
    BY <2>1, <2>2 DEF Displays, Configs, Pointing, Pictured
  <2> QED
    BY <2>1, <2>3, DisplayNoted DEF Unscanned
<1> QED
  BY <1>1, <1>2, <1>3, <1>4, <1>5, <1>6, <1>7, <1>8, <1>9 DEF Next

\* The head, the manager and the unit agree with each other and with what was
\* told last, whatever the client calls and the kernel refuses.
THEOREM HeadAgrees == Spec => []IInv
<1>1. Init => IInv
  BY InitIInv
<1>2. IInv /\ [Next]_vars => IInv'
  BY NextKeeps
<1> QED
  BY <1>1, <1>2, PTL DEF Spec

\* A lit panel shows exactly the frame it last accepted, at the rate the display
\* answers with, in the colours last asked for, and is lit as last asked, as far
\* as the kernel took the requests for each.
THEOREM HeadWearsWhatItIsTold == Spec => []HeadIsTrue
<1>1. IInv => HeadIsTrue
  <2> SUFFICES ASSUME IInv PROVE HeadIsTrue
    OBVIOUS
  <2>1. /\ State({}).panel = panel /\ State({}).manager = manager
        /\ State({}).told = told
    BY DEF State
  <2> HIDE DEF State
  <2>2. WindowsAreTrue /\ RateIsTrue
    BY <2>1 DEF IInv, Good, WindowsGood, PorchGood, WindowsAreTrue, RateIsTrue
  <2>3. LightIsTrue /\ ColourIsTrue
    BY <2>1 DEF IInv, Good, LightGood, ColourGood, LightIsTrue, ColourIsTrue
  <2> QED
    BY <2>2, <2>3 DEF HeadIsTrue
<1> QED
  BY <1>1, HeadAgrees, PTL

\* The sprite is on the panel exactly when the last frame had a pointer, with
\* that pointer's picture, at the place the client last gave it: re-arming after
\* dark, moves between frames and uploads keep it so until the head refuses.
THEOREM SpriteIsThePointer == Spec => []SpriteIsTrue
<1>1. IInv => SpriteIsTrue
  <2> SUFFICES ASSUME IInv PROVE SpriteIsTrue
    OBVIOUS
  <2>1. /\ State({}).panel = panel /\ State({}).manager = manager
        /\ State({}).unit = unit /\ State({}).told = told
    BY DEF State
  <2>2. UnitGood(State({})) /\ PointerGood(State({}))
    BY DEF IInv, Good
  <2> HIDE DEF State
  <2> QED
    BY <2>1, <2>2 DEF UnitGood, ScansAt, PointerGood, SpriteIsTrue
<1> QED
  BY <1>1, HeadAgrees, PTL

\* The slot the unit scans is never the one a picture is copied into, not even
\* after the unit refused the picture before.
THEOREM ScanIsNeverDrawnUnder == Spec => SlotsNeverDrawnUnderScan
<1>1. IInv /\ [Next]_vars => [Unscanned]_vars
  BY NextKeeps
<1> QED
  BY <1>1, HeadAgrees, PTL DEF Spec, SlotsNeverDrawnUnderScan, Unscanned
=============================================================================
