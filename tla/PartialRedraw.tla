--------------------------- MODULE PartialRedraw ---------------------------
(***************************************************************************)
(* compositor/PartialRedraw: what of a buffer has to be drawn so that it   *)
(* holds a new picture, given what it holds.  Pure: what a buffer holds    *)
(* (Held), the damage seen (History) and a plan are values.                *)
(*                                                                         *)
(* A rectangle is an interval <<left, right>> of a row of pixels, empty    *)
(* when right <= left: edges, areas, joining and growth are what they are  *)
(* in two dimensions, with columns alone.  A member is a record of         *)
(*   serial, generation  which layer, and which hand-over of its content   *)
(*   src, dst            the part of its buffer shown, and where           *)
(*   blend               solid, colour, alpha, blending and corners        *)
(*   transform           its turn by a right angle                         *)
(*   turned              its turn by any other angle (0: none)             *)
(***************************************************************************)
EXTENDS Integers, Sequences, FiniteSets, FiniteSetsExt, SequencesExt

CONSTANTS Grain,              \* kColumnGrain
          PartPixels,         \* kPartPixels
          MostParts,          \* kMostParts
          MostPartialInARow,  \* kMostPartialInARow
          HistoryFrames,      \* DamageHistory::kFrames
          HistoryLayers       \* DamageHistory::kLayers

ASSUME PartialAssumption ==
    /\ Grain \in Nat \ {0} /\ PartPixels \in Nat /\ MostParts \in Nat \ {0}
    /\ MostPartialInARow \in Nat /\ HistoryFrames \in Nat \ {0}
    /\ HistoryLayers \in Nat \ {0}

(***************************************************************************)
(* Rectangles.                                                             *)
(***************************************************************************)
Width(r) == r[2] - r[1]
Empty(r) == r[2] <= r[1]
AreaOf(r) == IF Empty(r) THEN 0 ELSE Width(r)
Least(a, b) == IF a < b THEN a ELSE b
Most(a, b) == IF a > b THEN a ELSE b
Join(a, b) == <<Least(a[1], b[1]), Most(a[2], b[2])>>
Meet(a, b) == a[1] < b[2] /\ b[1] < a[2]
Growth(a, b) == AreaOf(Join(a, b)) - AreaOf(a) - AreaOf(b)
Down(v) == (v \div Grain) * Grain
Up(v) == ((v + Grain - 1) \div Grain) * Grain
Pixels(r) == r[1]..(r[2] - 1)

\* The box around some parts, and the pixels they come to.
Bounds(parts) == <<Min({p[1] : p \in Range(parts)}), Max({p[2] : p \in Range(parts)})>>
Area(parts) == FoldLeft(LAMBDA sum, p : sum + AreaOf(p), 0, parts)

(***************************************************************************)
(* Members.                                                                *)
(***************************************************************************)
\* The place is forgotten: a member that moved passes for the same.
MutSameButFrame(a, b) ==
    /\ a.serial = b.serial /\ a.src = b.src
    /\ a.blend = b.blend /\ a.transform = b.transform

\* Everything about a member but which frame of it.  The turn by an angle is
\* not among what is compared.
SameButFrame(a, b) ==
    /\ a.serial = b.serial /\ a.src = b.src /\ a.dst = b.dst
    /\ a.blend = b.blend /\ a.transform = b.transform

Scaled(m) == Width(m.src) # Width(m.dst)

\* A rectangle of the member's buffer as the part of the picture it lands on:
\* rounded outwards, grown by one where the filter reads neighbours, and never
\* outside the member.
Onto(r, m) ==
    LET w == Width(m.src)
        at(v) == m.dst[1] * w + (v - m.src[1]) * Width(m.dst)
        pad == IF Scaled(m) THEN 1 ELSE 0
    IN  <<Most((at(r[1]) \div w) - pad, m.dst[1]),
          Least((at(r[2]) + w - 1) \div w + pad, m.dst[2])>>

\* ClipTo(): a member cut down to the part of it that lands inside a bound,
\* its source trimmed in proportion (an unscaled member; a scaled one is only
\* cut for an engine that clips by itself).
ClipTo(bound, m) ==
    LET in == <<Most(m.dst[1], bound[1]), Least(m.dst[2], bound[2])>>
    IN  [drawn |-> ~Empty(in),
         src   |-> <<m.src[1] + in[1] - m.dst[1], m.src[2] - (m.dst[2] - in[2])>>,
         dst   |-> in]

(***************************************************************************)
(* Gather(): places as parts an engine can take.                           *)
(***************************************************************************)
JoinAt(parts, i, j) == RemoveAt([parts EXCEPT ![i] = Join(parts[i], parts[j])], j)

Pairs(parts) == {p \in (DOMAIN parts) \X (DOMAIN parts) : p[1] < p[2]}

\* The first pair in the code's order of looking.
FirstPair(pairs) ==
    CHOOSE p \in pairs : \A q \in pairs :
        p[1] < q[1] \/ (p[1] = q[1] /\ p[2] <= q[2])

\* Near ones are joined until no pair is near.
JoinNear(parts) ==
    LET near(ps) == {p \in Pairs(ps) :
                        \/ Meet(ps[p[1]], ps[p[2]])
                        \/ Growth(ps[p[1]], ps[p[2]]) <= PartPixels}
        step(ps, k) == IF near(ps) = {} THEN ps
                       ELSE LET p == FirstPair(near(ps)) IN JoinAt(ps, p[1], p[2])
    IN  FoldLeft(step, parts, parts)

\* A part no member lands in is joined to the one that grows least by it.
JoinEmpty(parts, members) ==
    LET draws(p) == \E k \in DOMAIN members : Meet(members[k].dst, p)
        idle(ps) == {i \in DOMAIN ps : ~draws(ps[i])}
        best(ps, i) ==
            LET first == IF i = 1 THEN 2 ELSE 1
                better == {j \in DOMAIN ps : j # i /\ draws(ps[j])
                              /\ Growth(ps[i], ps[j]) < Growth(ps[i], ps[first])}
            IN  IF better = {} THEN first
                ELSE CHOOSE j \in better : \A h \in better :
                        \/ Growth(ps[i], ps[j]) < Growth(ps[i], ps[h])
                        \/ Growth(ps[i], ps[j]) = Growth(ps[i], ps[h]) /\ j <= h
        step(ps, k) == IF idle(ps) = {} \/ Len(ps) = 1 THEN ps
                       ELSE LET i == Min(idle(ps))
                            IN  JoinAt(ps, Least(i, best(ps, i)), Most(i, best(ps, i)))
    IN  FoldLeft(step, parts, parts)

\* The pair that grows least is joined while there are too many.
JoinDown(parts) ==
    LET cheap(ps) == {p \in Pairs(ps) : \A q \in Pairs(ps) :
                         Growth(ps[p[1]], ps[p[2]]) <= Growth(ps[q[1]], ps[q[2]])}
        step(ps, k) == IF Len(ps) <= MostParts THEN ps
                       ELSE LET p == FirstPair(cheap(ps)) IN JoinAt(ps, p[1], p[2])
    IN  FoldLeft(step, parts, parts)

Gather(places, bounds, members, engine) ==
    LET cut(r) == <<Most(Down(r[1]), bounds[1]), Least(Up(r[2]), bounds[2])>>
        parts == SelectSeq([k \in DOMAIN places |-> cut(places[k])],
                           LAMBDA p : ~Empty(p))
        near == JoinNear(parts)
    IN  IF parts = <<>> THEN <<>>
        ELSE IF ~engine.draws_many_parts THEN <<Bounds(parts)>>
        ELSE JoinDown(IF engine.draws_empty_part THEN near
                                                 ELSE JoinEmpty(near, members))

(***************************************************************************)
(* DamageHistory: what each layer's clients said changed, frame by frame.  *)
(* history[s] is the sequence of [generation, damage] kept for layer s,    *)
(* the least recently heard from first in order; damage <<>> means all of  *)
(* it, one empty rectangle nothing.                                        *)
(***************************************************************************)
NoHistory == [frames |-> <<>>, order |-> <<>>]

KeepLast(s, n) == SubSeq(s, Most(1, Len(s) - n + 1), Len(s))

\* Record(): a frame already known is not recorded again.
Record(h, serial, generation, damage) ==
    LET order == Append(SelectSeq(h.order, LAMBDA s : s # serial), serial)
        known == IF serial \in DOMAIN h.frames THEN h.frames[serial] ELSE <<>>
        news == IF known # <<>> /\ Last(known).generation >= generation THEN known
                ELSE KeepLast(Append(known, [generation |-> generation,
                                             damage |-> damage]), HistoryFrames)
        kept == KeepLast(order, HistoryLayers)
    IN  [order  |-> kept,
         frames |-> [s \in Range(kept) |-> IF s = serial THEN news ELSE h.frames[s]]]

\* Frames from+1 .. to of a layer: unknown when one of them is not kept, whole
\* when one of them changed all of it, else the rectangles.
Between(h, serial, from, to) ==
    LET frames == IF serial \in DOMAIN h.frames THEN h.frames[serial] ELSE <<>>
        of(g) == SelectSeq(frames, LAMBDA f : f.generation = g)
        missing == {g \in (from + 1)..to : of(g) = <<>>}
        all == {g \in (from + 1)..to : of(g) # <<>> /\ of(g)[1].damage = <<>>}
        stops == missing \cup all
        rects(g) == SelectSeq(of(g)[1].damage, LAMBDA r : ~Empty(r))
    IN  IF stops # {} /\ Min(stops) \in missing
        THEN [known |-> FALSE, whole |-> FALSE, rects |-> <<>>]
        ELSE LET upto == IF stops = {} THEN to ELSE Min(stops) - 1
             IN  [known |-> TRUE, whole |-> stops # {},
                  rects |-> FlattenSeq([k \in 1..(upto - from) |-> rects(from + k)])]

(***************************************************************************)
(* Decide(), and SlotPictures: what one buffer holds.                      *)
(***************************************************************************)
NothingHeld == [valid |-> FALSE, size |-> 0, members |-> <<>>, run |-> 0,
                fence |-> FALSE]

\* The damage of one member since it was drawn, or why there is none to give.
MemberDamage(now, then, h) ==
    LET since == Between(h, now.serial, then.generation, now.generation)
    IN  IF now.serial = 0 \/ ~SameButFrame(now, then)
        THEN [ok |-> FALSE, rects |-> <<>>]
        ELSE IF now.generation < then.generation THEN [ok |-> FALSE, rects |-> <<>>]
        ELSE IF now.generation = then.generation THEN [ok |-> TRUE, rects |-> <<>>]
        ELSE IF now.transform # 0 \/ Empty(now.src) \/ ~since.known
        THEN [ok |-> FALSE, rects |-> <<>>]
        ELSE [ok |-> TRUE,
              rects |-> (IF since.whole THEN <<now.dst>> ELSE <<>>) \o
                        [k \in DOMAIN since.rects |-> Onto(since.rects[k], now)]]

Plan(kind, parts) == [kind |-> kind, parts |-> parts]

Decide(held, size, members, h, engine) ==
    LET bounds == <<0, size>>
        places == [k \in DOMAIN held.members |-> held.members[k].dst] \o
                  [k \in DOMAIN members |-> members[k].dst]
        full == Plan("full", Gather(places, bounds, members, engine))
        damage(k) == MemberDamage(members[k], held.members[k], h)
        parts == Gather(FlattenSeq([k \in DOMAIN members |-> damage(k).rects]),
                        bounds, members, engine)
    IN  IF ~held.valid \/ held.size # size THEN Plan("full", <<>>)
        ELSE IF ~engine.draws_scaled_in_part /\ \E k \in DOMAIN members : Scaled(members[k])
        THEN Plan("full", <<>>)
        ELSE IF \/ Len(held.members) # Len(members)
                \/ held.run >= MostPartialInARow
                \/ \E k \in DOMAIN members : ~damage(k).ok
        THEN full
        ELSE IF parts = <<>>
        THEN IF held.fence THEN Plan("unchanged", <<>>) ELSE Plan("full", <<>>)
        ELSE IF Area(parts) >= Area(full.parts) THEN full
        ELSE Plan("partial", parts)

\* SlotPictures::Drawn and Lost.
Drawn(held, size, members, plan, fence) ==
    [valid |-> TRUE, size |-> size, members |-> members, fence |-> fence,
     run |-> CASE plan.kind = "partial" -> held.run + 1
               [] plan.kind = "unchanged" -> held.run
               [] OTHER -> 0]

Lost(held) == [held EXCEPT !.valid = FALSE]
=============================================================================
