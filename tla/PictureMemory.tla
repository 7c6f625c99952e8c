--------------------------- MODULE PictureMemory ---------------------------
(***************************************************************************)
(* compositor/PictureMemory: what a drawn picture was drawn from, so that  *)
(* the next frame can tell whether it is the same picture.  A pure         *)
(* comparison: a memory is a value, and so is a group to be judged.        *)
(*                                                                         *)
(* A member is a record of                                                 *)
(*   serial      which layer it is, never reused                           *)
(*   source      which buffer (0: the buffer has no name)                  *)
(*   generation  which hand-over of the layer's content                    *)
(*   place       its source and destination rectangles (src, dst)          *)
(*   blend       alpha, premultiplied, opaque                              *)
(*   transform   its turn                                                  *)
(* Solid colours and effects are compared by the code in the same way as   *)
(* sources and transforms and are not told apart here.                     *)
(***************************************************************************)
EXTENDS Integers, Sequences

Nothing == [remembered |-> FALSE, size |-> 0, members |-> <<>>]

\* Remember(width, height, members); the width and height are one size here.
Remember(g) == [remembered |-> TRUE, size |-> g.size, members |-> g.members]

\* One member against the remembered one, the checks in the code's order.
\* With frames_aside the layer is what is compared, not the buffer.
MemberVerdict(m, r, frames_aside) ==
    IF frames_aside /\ m.serial = 0 THEN "nameless"
    ELSE IF frames_aside /\ m.serial # r.serial THEN "identity"
    ELSE IF ~frames_aside /\ m.source = 0 THEN "nameless"
    ELSE IF ~frames_aside /\ m.source # r.source THEN "identity"
    ELSE IF ~frames_aside /\ m.generation # r.generation THEN "frame"
    ELSE IF m.place # r.place THEN "geometry"
    ELSE IF m.blend # r.blend THEN "blend"
    ELSE IF m.transform # r.transform THEN "transform"
    ELSE "same"

\* Compare(): the verdict is the first difference found, member by member,
\* whatever the later members are.
Compare(mem, g, frames_aside) ==
    IF ~mem.remembered THEN "first_sight"
    ELSE IF Len(g.members) # Len(mem.members) THEN "shape"
    ELSE IF g.size # mem.size THEN "size"
    ELSE LET verdict(i) == MemberVerdict(g.members[i], mem.members[i], frames_aside)
             differing == {i \in 1..Len(g.members) : verdict(i) # "same"}
         IN  IF differing = {} THEN "same"
             ELSE verdict(CHOOSE i \in differing : \A j \in differing : i <= j)

Judge(mem, g) == Compare(mem, g, FALSE)

\* The same members in the same places, whichever frame of each.
SameButFrames(mem, g) == Compare(mem, g, TRUE) = "same"
=============================================================================
