--------------------------- MODULE GpuSeatProofs ---------------------------
(***************************************************************************)
(* Why the composer's GPU draws no buffer the panel scans (GpuSeat), for   *)
(* any layers, any pictures and any number of frames: the rotation of the  *)
(* three buffers, in GpuExecutor's Begin, Finish and Keep, against the     *)
(* fences its Presented hands out.                                         *)
(*                                                                         *)
(* The buffer at at_ is the one last seated, and the next in turn is the   *)
(* only one a drawing begun may write.  The panel scans the one at at_, or *)
(* the one before it -- or, while a flip is in the air, the one after it,  *)
(* and then a drawing of it waits for that flip to land.  It gets further  *)
(* behind only once two commits are refused, and the flip of what          *)
(* Presented was told of puts everything right again when it lands: what   *)
(* the ring was before is not remembered in the invariant.                 *)
(***************************************************************************)
EXTENDS GpuSeat, SequenceTheorems, TLAPS

(***************************************************************************)
(* The invariant.                                                          *)
(***************************************************************************)
\* The fields of a run, of a drawing queued, and of what a buffer holds, that
\* the rotation is about.
IsRun(r) ==
    {"slot", "ready", "given_up", "refused"} \subseteq DOMAIN r /\ (r.refused => r.given_up)
IsQueued(j) ==
    j.state = "queued" /\ {"state", "slot", "ready"} \subseteq DOMAIN j
AllHeld(h) ==
    DOMAIN h = Slots /\ \A s \in Slots : "valid" \in DOMAIN h[s]

\* The drawings in flight are of one buffer, and all but the last were refused.
OneTarget(runs) ==
    /\ \E R : runs \in Seq(R)
    /\ \A k \in 1..Len(runs) :
          /\ IsRun(runs[k]) /\ runs[k].slot = Last(runs).slot
          /\ k # Len(runs) => runs[k].refused
AllWait(runs) == \A k \in 1..Len(runs) : runs[k].ready

\* The buffer before the one at at_.
Previous == (at + 2) % 3

Typed ==
    /\ at \in Slots /\ showing \in Slots \cup {-1} /\ begun_at \in Slots \cup {-1}
    /\ DOMAIN pixels = Slots /\ DOMAIN freed = Slots
    /\ AllHeld(held)
    /\ OneTarget(running)
    /\ job.state \in {"none", "queued", "taken", "refused"}
    /\ job.state = "queued" => IsQueued(job)
    /\ commits_refused \in Nat

\* What is seated is the buffer at at_ or the client's own target, and a flip in
\* the air shows what is seated.
Seated == seat.slot \in {-1, at} /\ air \in {<<>>, <<seat>>}

\* Presented was told of the buffer at at_, unless a commit was refused since, or
\* nothing was drawn yet.
Told ==
    commits_refused = 0 =>
        showing = at \/ (showing = -1 /\ seat.slot = -1 /\ panel.slot = -1)

\* The panel scans the buffer at at_, or the one before it that Presented knows to
\* be on screen; while a flip is in the air it may be the next one, freed then.
Scanned ==
    ~RingIsBehind =>
        IF air = <<>>
        THEN \/ panel.slot \in {-1, at}
             \/ panel.slot = Previous /\ showing = Previous /\ commits_refused = 1
        ELSE panel.slot = NextSlot => freed[NextSlot]

\* A drawing begun is of the next buffer, and waits for the flip if that is scanned.
Begun ==
    /\ job.state = "none" <=> begun_at = -1
    /\ job.state = "queued" =>
           job.slot = NextSlot /\ (~RingIsBehind /\ panel.slot = NextSlot => job.ready)
    /\ job.state = "taken" =>
           running = <<>> \/ (~Last(running).given_up /\ Last(running).slot = NextSlot)

\* A drawing given up still writes the next buffer, of which nothing is known then.
GivenUp ==
    running # <<>> /\ Last(running).given_up =>
        Last(running).slot = NextSlot /\ (held[NextSlot].valid => job.state = "refused")

\* The next buffer is kept for what it holds only when nothing is drawing it.
Kept ==
    draws /\ phase = "validated" /\ keep /\ ~reuse =>
        job.state = "none" /\ (running # <<>> => ~Last(running).given_up)

\* The drawings of the buffer on screen wait.
Waits ==
    ~RingIsBehind /\ running # <<>> /\ panel.slot = Last(running).slot => AllWait(running)

SeatInv ==
    Typed /\ Seated /\ Told /\ Scanned /\ Begun /\ GivenUp /\ Kept /\ Waits

(***************************************************************************)
(* The rotation, and the records.                                          *)
(***************************************************************************)
\* The three buffers take turns: the next one's previous is this one, and its next
\* is the previous of this one.
LEMMA Turn ==
    ASSUME NEW a \in Slots
    PROVE  /\ (a + 1) % 3 \in Slots /\ (a + 2) % 3 \in Slots
           /\ (a + 1) % 3 # a /\ (a + 2) % 3 # a /\ (a + 1) % 3 # (a + 2) % 3
           /\ (((a + 1) % 3) + 2) % 3 = a /\ (((a + 1) % 3) + 1) % 3 = (a + 2) % 3
  <1>1. a = 0 \/ a = 1 \/ a = 2
    BY DEF Slots
  <1> QED
    BY <1>1 DEF Slots

\* A run is of the drawing it is made of, and is given up just when it was refused.
LEMMA RunIs ==
    ASSUME NEW j, NEW refused \in BOOLEAN
    PROVE  /\ IsRun(Run(j, refused)) /\ Run(j, refused).slot = j.slot
           /\ Run(j, refused).ready = j.ready
           /\ Run(j, refused).given_up = refused /\ Run(j, refused).refused = refused
  BY DEF Run, IsRun

\* A sequence over some values is one over more values.
LEMMA SeqMonotone ==
    ASSUME NEW R, NEW S, R \subseteq S, NEW seq \in Seq(R)
    PROVE  seq \in Seq(S)
  <1>1. Len(seq) \in Nat /\ seq \in [1..Len(seq) -> R]
    BY LenProperties
  <1>2. seq \in [1..Len(seq) -> S]
    BY <1>1
  <1> QED
    BY <1>1, <1>2

\* No drawings in flight are all of one buffer.
LEMMA NoneInFlight == OneTarget(<<>>) /\ AllWait(<<>>)
  BY DEF OneTarget, AllWait

\* A drawing of the same buffer submitted after one that was refused.
LEMMA Submitted ==
    ASSUME NEW runs, OneTarget(runs), NEW r, IsRun(r),
           runs # <<>> => Last(runs).refused /\ Last(runs).slot = r.slot
    PROVE  LET more == Append(runs, r)
           IN  /\ OneTarget(more) /\ more # <<>> /\ Last(more) = r
               /\ AllWait(runs) /\ r.ready => AllWait(more)
  <1> DEFINE more == Append(runs, r)
  <1>1. PICK R : runs \in Seq(R)
    BY DEF OneTarget
  <1>2. runs \in Seq(R \cup {r}) /\ r \in R \cup {r}
    BY <1>1, SeqMonotone
  <1>3. /\ more \in Seq(R \cup {r}) /\ Len(more) = Len(runs) + 1 /\ Len(runs) \in Nat
        /\ more[Len(runs) + 1] = r
        /\ \A k \in 1..Len(runs) : more[k] = runs[k]
    BY <1>2, AppendProperties
  <1>4. more # <<>> /\ Last(more) = r
    BY <1>3 DEF Last
  <1>5. runs # <<>> <=> Len(runs) > 0
    BY <1>1, EmptySeq
  <1>6. \A k \in 1..Len(runs) : runs # <<>> /\ runs[k].slot = r.slot /\ runs[k].refused
    <2> TAKE k \in 1..Len(runs)
    <2>1. runs # <<>> /\ runs[k].slot = Last(runs).slot
      BY <1>3, <1>5 DEF OneTarget
    <2>2. CASE k = Len(runs)
      BY <2>1, <2>2 DEF Last
    <2>3. CASE k # Len(runs)
      BY <2>1, <2>3 DEF OneTarget
    <2> QED
      BY <2>1, <2>2, <2>3
  <1>7. ASSUME NEW k \in 1..Len(more)
        PROVE  IsRun(more[k]) /\ more[k].slot = r.slot /\ (k # Len(more) => more[k].refused)
    <2>1. CASE k = Len(runs) + 1
      BY <2>1, <1>3
    <2>2. CASE k \in 1..Len(runs)
      BY <2>2, <1>3, <1>6 DEF OneTarget
    <2> QED
      BY <2>1, <2>2, <1>3
  <1>8. OneTarget(more)
    <2> HIDE DEF more
    <2> QED
      BY <1>3, <1>4, <1>7 DEF OneTarget
  <1>9. ASSUME AllWait(runs), r.ready PROVE AllWait(more)
    <2> HIDE DEF more
    <2> SUFFICES ASSUME NEW k \in 1..Len(more) PROVE more[k].ready
      BY DEF AllWait
    <2> QED
      BY <1>3, <1>9 DEF AllWait
  <1> QED
    BY <1>4, <1>8, <1>9

\* The first drawing done, the others are as they were.
LEMMA FirstDone ==
    ASSUME NEW runs, OneTarget(runs), runs # <<>>
    PROVE  /\ OneTarget(Tail(runs))
           /\ Tail(runs) # <<>> => Last(Tail(runs)) = Last(runs)
           /\ AllWait(runs) => AllWait(Tail(runs))
  <1> DEFINE rest == Tail(runs)
  <1>1. PICK R : runs \in Seq(R)
    BY DEF OneTarget
  <1>2. /\ rest \in Seq(R) /\ Len(rest) = Len(runs) - 1 /\ Len(runs) \in Nat \ {0}
        /\ \A k \in 1..Len(rest) : rest[k] = runs[k + 1]
    BY <1>1, HeadTailProperties, EmptySeq
  <1>3. rest # <<>> => Len(rest) \in 1..Len(rest)
    BY <1>2, EmptySeq
  <1>4. rest # <<>> => Last(rest) = Last(runs)
    BY <1>2, <1>3 DEF Last
  <1> HIDE DEF rest
  <1>5. \A k \in 1..Len(rest) : k + 1 \in 1..Len(runs) /\ rest # <<>>
    BY <1>2, EmptySeq
  <1>6. ASSUME NEW k \in 1..Len(rest)
        PROVE  IsRun(rest[k]) /\ rest[k].slot = Last(rest).slot
               /\ (k # Len(rest) => rest[k].refused)
    <2>1. rest[k] = runs[k + 1] /\ k + 1 \in 1..Len(runs) /\ Last(rest) = Last(runs)
      BY <1>2, <1>4, <1>5
    <2>2. k # Len(rest) => k + 1 # Len(runs)
      BY <1>2
    <2> QED
      BY <2>1, <2>2 DEF OneTarget
  <1>7. OneTarget(rest)
    BY <1>2, <1>6 DEF OneTarget
  <1>8. AllWait(runs) => AllWait(rest)
    BY <1>2, <1>5 DEF AllWait
  <1> QED
    BY <1>4, <1>7, <1>8 DEF rest

\* Drawings with the same length, buffers and refusals are as much of one buffer.
LEMMA Alike ==
    ASSUME NEW runs, OneTarget(runs), NEW those, DOMAIN those = 1..Len(runs),
           those = [k \in DOMAIN those |-> those[k]],
           \A k \in 1..Len(runs) : IsRun(those[k]) /\ those[k].slot = runs[k].slot
                                   /\ those[k].refused = runs[k].refused
    PROVE  /\ OneTarget(those) /\ Len(those) = Len(runs) /\ Len(runs) \in Nat
           /\ those = <<>> <=> runs = <<>>
           /\ runs # <<>> => Last(those) = those[Len(runs)] /\ Len(runs) \in 1..Len(runs)
  <1>1. PICK R : runs \in Seq(R)
    BY DEF OneTarget
  <1> DEFINE T == {those[k] : k \in 1..Len(runs)}
  <1>2. Len(runs) \in Nat /\ those \in [1..Len(runs) -> T]
    BY <1>1
  <1>3. those \in Seq(T) /\ Len(those) = Len(runs)
    BY <1>2
  <1>4. (runs = <<>> <=> Len(runs) = 0) /\ (those = <<>> <=> Len(those) = 0)
    BY <1>1, <1>3, EmptySeq
  <1>5. runs # <<>> => Last(those) = those[Len(runs)] /\ Len(runs) \in 1..Len(runs)
    BY <1>2, <1>3, <1>4 DEF Last
  <1>6. ASSUME NEW k \in 1..Len(those)
        PROVE  IsRun(those[k]) /\ those[k].slot = Last(those).slot
               /\ (k # Len(those) => those[k].refused)
    <2>1. runs # <<>> /\ k \in 1..Len(runs)
      BY <1>2, <1>3, <1>4
    <2>2. runs[k].slot = runs[Len(runs)].slot /\ (k # Len(runs) => runs[k].refused)
      BY <2>1 DEF OneTarget, Last
    <2> QED
      BY <1>3, <1>5, <2>1, <2>2
  <1>7. OneTarget(those)
    <2> HIDE DEF T
    <2> QED
      BY <1>3, <1>6 DEF OneTarget
  <1> QED
    BY <1>2, <1>3, <1>4, <1>5, <1>7

\* The last drawing given up, and the drawings whose flip landed, change in nothing
\* else.
LEMMA RunChanged ==
    ASSUME NEW r, IsRun(r)
    PROVE  /\ LET lost == [r EXCEPT !.given_up = TRUE]
              IN  /\ IsRun(lost) /\ lost.given_up = TRUE /\ lost.slot = r.slot
                  /\ lost.ready = r.ready /\ lost.refused = r.refused
           /\ LET landed == [r EXCEPT !.ready = FALSE]
              IN  /\ IsRun(landed) /\ landed.given_up = r.given_up
                  /\ landed.slot = r.slot /\ landed.refused = r.refused
  BY DEF IsRun

LEMMA LastGivenUp ==
    ASSUME NEW runs, OneTarget(runs), runs # <<>>
    PROVE  LET lost == GiveUp(runs)
           IN  /\ OneTarget(lost) /\ lost # <<>>
               /\ Last(lost).given_up = TRUE /\ Last(lost).slot = Last(runs).slot
               /\ AllWait(runs) => AllWait(lost)
  <1> DEFINE lost == [runs EXCEPT ![Len(runs)].given_up = TRUE]
             ended == [runs[Len(runs)] EXCEPT !.given_up = TRUE]
  <1>1. GiveUp(runs) = lost
    BY DEF GiveUp
  <1>2. PICK R : runs \in Seq(R)
    BY DEF OneTarget
  <1>3. /\ Len(runs) \in Nat \ {0} /\ DOMAIN runs = 1..Len(runs)
        /\ \A k \in 1..Len(runs) : IsRun(runs[k])
    BY <1>2, EmptySeq DEF OneTarget
  <1>4. Len(runs) \in 1..Len(runs)
    BY <1>3
  <1>5. /\ DOMAIN lost = 1..Len(runs) /\ lost = [k \in DOMAIN lost |-> lost[k]]
        /\ lost[Len(runs)] = ended /\ \A k \in 1..Len(runs) : k # Len(runs) => lost[k] = runs[k]
    BY <1>3, <1>4
  <1>6. /\ IsRun(ended) /\ ended.given_up = TRUE /\ ended.slot = runs[Len(runs)].slot
        /\ ended.ready = runs[Len(runs)].ready /\ ended.refused = runs[Len(runs)].refused
    BY <1>3, <1>4, RunChanged
  <1> HIDE DEF lost, ended
  <1>7. \A k \in 1..Len(runs) :
            /\ IsRun(lost[k]) /\ lost[k].slot = runs[k].slot
            /\ lost[k].refused = runs[k].refused /\ lost[k].ready = runs[k].ready
    BY <1>3, <1>5, <1>6
  <1>8. OneTarget(lost) /\ Len(lost) = Len(runs) /\ lost # <<>> /\ Last(lost) = ended
    BY <1>5, <1>7, Alike
  <1>9. AllWait(runs) => AllWait(lost)
    BY <1>7, <1>8 DEF AllWait
  <1> QED
    BY <1>1, <1>6, <1>8, <1>9 DEF Last

LEMMA FlipLanded ==
    ASSUME NEW runs, OneTarget(runs)
    PROVE  LET landed == [k \in DOMAIN runs |-> [runs[k] EXCEPT !.ready = FALSE]]
           IN  /\ OneTarget(landed) /\ (landed = <<>> <=> runs = <<>>)
               /\ runs # <<>> => /\ Last(landed).given_up = Last(runs).given_up
                                 /\ Last(landed).slot = Last(runs).slot
  <1> DEFINE landed == [k \in DOMAIN runs |-> [runs[k] EXCEPT !.ready = FALSE]]
  <1>1. PICK R : runs \in Seq(R)
    BY DEF OneTarget
  <1>2. DOMAIN runs = 1..Len(runs)
    BY <1>1
  <1>3. /\ DOMAIN landed = 1..Len(runs) /\ landed = [k \in DOMAIN landed |-> landed[k]]
        /\ \A k \in 1..Len(runs) : landed[k] = [runs[k] EXCEPT !.ready = FALSE]
    BY <1>2
  <1> HIDE DEF landed
  <1>4. \A k \in 1..Len(runs) :
            /\ IsRun(landed[k]) /\ landed[k].slot = runs[k].slot
            /\ landed[k].refused = runs[k].refused /\ landed[k].given_up = runs[k].given_up
    <2> TAKE k \in 1..Len(runs)
    <2>1. IsRun(runs[k]) /\ landed[k] = [runs[k] EXCEPT !.ready = FALSE]
      BY <1>3 DEF OneTarget
    <2> QED
      BY <2>1, RunChanged
  <1>5. /\ OneTarget(landed) /\ (landed = <<>> <=> runs = <<>>)
        /\ runs # <<>> => Last(landed) = landed[Len(runs)] /\ Len(runs) \in 1..Len(runs)
    BY <1>3, <1>4, Alike
  <1>6. runs # <<>> => /\ Last(landed).given_up = Last(runs).given_up
                       /\ Last(landed).slot = Last(runs).slot
    BY <1>4, <1>5 DEF Last
  <1> QED
    BY <1>5, <1>6 DEF landed

\* A drawing queued whose flip landed changes in nothing else.
LEMMA JobChanged ==
    ASSUME NEW j, IsQueued(j)
    PROVE  LET landed == [j EXCEPT !.ready = FALSE]
           IN  IsQueued(landed) /\ landed.slot = j.slot /\ landed.ready = FALSE
  BY DEF IsQueued

\* Lost() forgets that a buffer's content is known, and touches no other buffer.
LEMMA LostIs ==
    ASSUME NEW h, NEW s \in Slots, AllHeld(h)
    PROVE  LET lost == [h EXCEPT ![s] = Lost(@)]
           IN  /\ AllHeld(lost) /\ ~lost[s].valid
               /\ \A o \in Slots \ {s} : lost[o] = h[o]
  BY DEF AllHeld, Lost

\* Drawn() touches no other buffer.
LEMMA DrawnIs ==
    ASSUME NEW h, NEW s \in Slots, NEW sz, NEW m, NEW p, NEW f, AllHeld(h)
    PROVE  LET drawn == [h EXCEPT ![s] = Drawn(@, sz, m, p, f)]
           IN  AllHeld(drawn)
  <1>1. "valid" \in DOMAIN Drawn(h[s], sz, m, p, f)
    BY DEF Drawn
  <1> QED
    BY <1>1 DEF AllHeld

\* A buffer of which nothing is known is never left as it is.
LEMMA UnknownIsDrawn ==
    ASSUME NEW h, NEW sz, NEW m, NEW hist, NEW e, ~h.valid
    PROVE  Decide(h, sz, m, hist, e).kind # "unchanged"
  BY DEF Decide, Plan

(***************************************************************************)
(* What the invariant says is not disturbed by a step that leaves alone    *)
(* what it speaks of.                                                      *)
(***************************************************************************)
seatVars == <<held, at, showing, freed, begun_at, job, running, seat,
              panel, air, commits_refused>>

LEMMA InitSeats == Init => SeatInv
  <1> SUFFICES ASSUME Init PROVE SeatInv
    OBVIOUS
  <1> USE DEF Init, NoJob, NoSeat
  <1>1. /\ at = 0 /\ NextSlot = 1 /\ showing = -1 /\ panel.slot = -1 /\ seat.slot = -1
        /\ air = <<>> /\ job.state = "none" /\ running = <<>>
        /\ begun_at = -1 /\ commits_refused = 0 /\ phase = "client"
    BY DEF NextSlot
  <1>2. Typed
    <2>1. AllHeld(held)
      BY DEF AllHeld, NothingHeld
    <2> QED
      BY <1>1, <2>1, NoneInFlight DEF Typed, Slots
  <1>3. Seated /\ Told /\ Scanned /\ Begun /\ GivenUp /\ Kept /\ Waits
    BY <1>1 DEF Seated, Told, Scanned, Begun, GivenUp, Kept, Waits, RingIsBehind
  <1> QED
    BY <1>2, <1>3 DEF SeatInv

\* The client's own steps, and a validation no present follows.
LEMMA OthersKeep ==
    ASSUME SeatInv, UNCHANGED seatVars, DOMAIN pixels' = DOMAIN pixels,
           Kept'
    PROVE  SeatInv'
  <1> USE DEF SeatInv, seatVars
  <1>1. Typed'
    BY DEF Typed
  <1>2. Seated' /\ Told' /\ Waits'
    BY DEF Seated, Told, Waits, RingIsBehind
  <1>3. NextSlot' = NextSlot /\ Previous' = Previous
    BY DEF NextSlot, Previous
  <1>4. Scanned'
    BY <1>3 DEF Scanned, RingIsBehind
  <1>5. Begun' /\ GivenUp'
    BY <1>3 DEF Begun, GivenUp, RingIsBehind
  <1> QED
    BY <1>1, <1>2, <1>4, <1>5

LEMMA ClientKeeps ==
    ASSUME SeatInv,
           \/ \E s \in Layers, d \in Damages : HandOver(s, d)
           \/ \E s \in Layers, p \in Places, t \in Turns : Arrange(s, p, t)
           \/ ValidateWithout \/ ValidatedInVain \/ UNCHANGED vars
    PROVE  SeatInv'
  <1>1. UNCHANGED seatVars /\ pixels' = pixels
    BY DEF HandOver, Arrange, ValidateWithout, ValidatedInVain, seatVars, vars,
           displayVars, executorVars, gpuVars, panelVars, counters
  <1>2. Kept'
    <2>1. CASE draws' = FALSE \/ phase' = "client"
      BY <2>1 DEF Kept
    <2>2. CASE UNCHANGED vars
      BY <1>1, <2>2 DEF Kept, SeatInv, seatVars, vars, displayVars
    <2>3. draws' = FALSE \/ phase' = "client" \/ UNCHANGED vars
      BY DEF HandOver, Arrange, ValidateWithout, ValidatedInVain, Touch
    <2> QED
      BY <2>1, <2>2, <2>3
  <1> QED
    BY <1>1, <1>2, OthersKeep

(***************************************************************************)
(* The validation: a drawing begun takes the place of the one before.      *)
(***************************************************************************)
\* What Begin does to the executor: nothing, or a drawing of the next buffer, the
\* one before given up.
LEMMA BeginTakesOver ==
    ASSUME SeatInv, NEW known, known = ForgetPending(held)
    PROVE  /\ AllHeld(known)
           /\ begun_at # -1 => ~known[NextSlot].valid
           /\ begun_at = -1 => known = held
  <1>1. AllHeld(held) /\ NextSlot \in Slots
    BY Turn DEF SeatInv, Typed, NextSlot
  <1> DEFINE lost == [held EXCEPT ![NextSlot] = Lost(@)]
  <1>2. known = IF begun_at # -1 THEN lost ELSE held
    BY DEF ForgetPending
  <1>3. AllHeld(lost) /\ ~lost[NextSlot].valid
    BY <1>1, LostIs
  <1> HIDE DEF lost
  <1> QED
    BY <1>1, <1>2, <1>3

LEMMA ValidateKeeps ==
    ASSUME SeatInv, ValidateForGpu
    PROVE  SeatInv'
  <1> DEFINE members == Members(scene)
             known == ForgetPending(held)
             decided == Decide(known[NextSlot], Size, members, history', Engine)
  <1>a. /\ UNCHANGED <<at, showing, freed, seat, panel, air, commits_refused, pixels>>
        /\ draws' = TRUE
    BY DEF ValidateForGpu, panelVars
  <1>b. NextSlot' = NextSlot /\ Previous' = Previous /\ NextSlot \in Slots
    BY <1>a, Turn DEF NextSlot, Previous, SeatInv, Typed
  <1>c. Seated' /\ Told' /\ Scanned'
    BY <1>a, <1>b DEF SeatInv, Seated, Told, Scanned, RingIsBehind
  <1>d. /\ AllHeld(known)
        /\ begun_at # -1 => ~known[NextSlot].valid
        /\ begun_at = -1 => known = held
    BY BeginTakesOver
  <1>1. CASE reuse' = TRUE /\ UNCHANGED <<held, job, running, begun_at>>
    <2>1. Kept'
      BY <1>1 DEF Kept
    <2>2. UNCHANGED seatVars /\ DOMAIN pixels' = DOMAIN pixels
      BY <1>1, <1>a DEF seatVars
    <2> QED
      BY <2>1, <2>2, OthersKeep
  <1>2. CASE /\ held' = known /\ reuse' = FALSE
             /\ decided.kind = "unchanged" /\ UNCHANGED <<job, running, begun_at>>
    <2>0. known[NextSlot].valid
      <3> HIDE DEF members, known
      <3> QED
        BY <1>2, UnknownIsDrawn
    <2> HIDE DEF members, known, decided
    <2>1. begun_at = -1 /\ held' = held /\ job.state = "none"
      BY <2>0, <1>2, <1>d DEF SeatInv, Begun
    <2>2. UNCHANGED seatVars /\ DOMAIN pixels' = DOMAIN pixels
      BY <1>2, <1>a, <2>1 DEF seatVars
    <2>3. held[NextSlot].valid
      BY <2>0, <2>1, <1>2
    <2>4. running # <<>> => ~Last(running).given_up
      BY <2>3, <2>1 DEF SeatInv, GivenUp
    <2>5. Kept'
      BY <2>1, <2>4, <1>2 DEF Kept
    <2> QED
      BY <2>2, <2>5, OthersKeep
  <1>3. CASE /\ held' = known /\ keep' = FALSE /\ begun_at' = NextSlot
             /\ running' = IF job.state = "taken" THEN GiveUp(running) ELSE running
             /\ \E parts, picture, droppable :
                   job' = [state |-> "queued", slot |-> NextSlot, parts |-> parts,
                           picture |-> picture, ready |-> freed[NextSlot],
                           droppable |-> droppable]
    <2> HIDE DEF members, known, decided
    <2>1. /\ IsQueued(job') /\ job'.state = "queued" /\ job'.slot = NextSlot
          /\ job'.ready = freed[NextSlot]
      BY <1>3 DEF IsQueued
    <2>2. OneTarget(running') /\ Waits' /\ GivenUp'
      <3>1. CASE job.state = "taken" /\ running # <<>>
        <4>1. running' = GiveUp(running) /\ OneTarget(running)
          BY <1>3, <3>1 DEF SeatInv, Typed
        <4>2. /\ OneTarget(running') /\ running' # <<>>
              /\ Last(running').slot = Last(running).slot
              /\ AllWait(running) => AllWait(running')
          BY <4>1, <3>1, LastGivenUp
        <4>3. Last(running).slot = NextSlot /\ ~held'[NextSlot].valid
          BY <1>3, <1>d, <3>1 DEF SeatInv, Begun
        <4>4. Waits'
          BY <3>1, <4>2, <1>a DEF SeatInv, Waits, RingIsBehind
        <4>5. GivenUp'
          BY <4>2, <4>3, <1>b DEF GivenUp
        <4> QED
          BY <4>2, <4>4, <4>5
      <3>2. CASE ~(job.state = "taken" /\ running # <<>>)
        <4>1. running' = running
          BY <1>3, <3>2 DEF GiveUp
        <4>2. running # <<>> /\ Last(running).given_up =>
                  Last(running).slot = NextSlot /\ ~held'[NextSlot].valid
          BY <1>3, <1>d, <3>2 DEF SeatInv, GivenUp, Begun
        <4>3. Waits'
          BY <4>1, <1>a DEF SeatInv, Waits, RingIsBehind
        <4>4. GivenUp'
          BY <4>1, <4>2, <1>b DEF GivenUp
        <4> QED
          BY <4>1, <4>3, <4>4 DEF SeatInv, Typed
      <3> QED
        BY <3>1, <3>2
    <2>5. Typed'
      BY <2>1, <2>2, <1>3, <1>a, <1>b, <1>d DEF SeatInv, Typed
    <2>6. ~RingIsBehind /\ panel.slot = NextSlot => freed[NextSlot]
      BY Turn DEF SeatInv, Typed, Scanned, NextSlot, Previous, Slots
    <2>7. Begun'
      <3>1. begun_at' # -1
        BY <1>3, <1>b DEF Slots
      <3> QED
        BY <2>1, <2>6, <3>1, <1>a, <1>b DEF Begun, RingIsBehind
    <2>8. Kept'
      BY <1>3 DEF Kept
    <2> QED
      BY <1>c, <2>2, <2>5, <2>7, <2>8 DEF SeatInv
  <1>4. \/ reuse' = TRUE /\ UNCHANGED <<held, job, running, begun_at>>
        \/ /\ held' = known /\ reuse' = FALSE
           /\ decided.kind = "unchanged" /\ UNCHANGED <<job, running, begun_at>>
        \/ /\ held' = known /\ keep' = FALSE /\ begun_at' = NextSlot
           /\ running' = IF job.state = "taken" THEN GiveUp(running) ELSE running
           /\ \E parts, picture, droppable :
                 job' = [state |-> "queued", slot |-> NextSlot, parts |-> parts,
                         picture |-> picture, ready |-> freed[NextSlot],
                         droppable |-> droppable]
    <2>1. BeginClientOnGpu(members, Recorded(members))
      BY DEF ValidateForGpu
    <2>2. history' = Recorded(members)
      BY <2>1 DEF BeginClientOnGpu
    <2> HIDE DEF members
    <2> QED
      BY <2>1, <2>2 DEF BeginClientOnGpu
  <1> QED
    BY <1>1, <1>2, <1>3, <1>4

(***************************************************************************)
(* The library's thread, the GPU and the panel.                            *)
(***************************************************************************)
\* The library's thread takes the drawing queued, or refuses it: those in flight were
\* refused, and are of the same buffer.
LEMMA WorkKeeps ==
    ASSUME SeatInv, Take \/ \E written \in BOOLEAN : Refuse(written)
    PROVE  SeatInv'
  <1>a. /\ UNCHANGED <<phase, draws, reuse, keep, held, at, showing, freed, begun_at, pixels,
                       seat, panel, air, commits_refused>>
        /\ MayTake
        /\ \/ running' = running /\ job'.state = "refused"
           \/ running' = Append(running, Run(job, TRUE)) /\ job'.state = "refused"
           \/ running' = Append(running, Run(job, FALSE)) /\ job'.state = "taken"
    <2>1. CASE Take
      BY <2>1 DEF Take, displayVars, executorVars, panelVars, counters
    <2>2. ASSUME NEW written \in BOOLEAN, Refuse(written)
          PROVE  <1>a!1 /\ <1>a!2 /\ <1>a!3
      BY <2>2 DEF Refuse, displayVars, executorVars, panelVars
    <2> QED
      BY <2>1, <2>2
  <1>b. NextSlot' = NextSlot /\ Previous' = Previous /\ (RingIsBehind' <=> RingIsBehind)
    BY <1>a DEF NextSlot, Previous, RingIsBehind
  <1>c. /\ job.state = "queued" /\ job.slot = NextSlot /\ begun_at # -1
        /\ ~RingIsBehind /\ panel.slot = NextSlot => job.ready
    BY <1>a DEF SeatInv, Begun, MayTake
  <1>d. OneTarget(running) /\ (running # <<>> => Last(running).refused)
    BY <1>a DEF SeatInv, Typed, MayTake, Last
  <1>e. running # <<>> => Last(running).given_up /\ Last(running).slot = NextSlot
    <2> SUFFICES ASSUME running # <<>> PROVE Last(running).given_up
      BY DEF SeatInv, GivenUp
    <2>1. PICK R : running \in Seq(R)
      BY <1>d DEF OneTarget
    <2>2. Len(running) \in 1..Len(running)
      BY <2>1, EmptySeq
    <2>3. IsRun(running[Len(running)])
      BY <1>d, <2>2 DEF OneTarget
    <2> QED
      BY <1>d, <2>3 DEF IsRun, Last
  <1>f. ASSUME NEW refused \in BOOLEAN, running' = Append(running, Run(job, refused))
        PROVE  /\ OneTarget(running') /\ running' # <<>>
               /\ Last(running').slot = NextSlot /\ Last(running').given_up = refused
               /\ Waits'
    <2> DEFINE run == Run(job, refused)
    <2>1. /\ IsRun(run) /\ run.slot = job.slot /\ run.ready = job.ready
          /\ run.given_up = refused
      BY RunIs
    <2> HIDE DEF run
    <2>2. /\ OneTarget(running') /\ running' # <<>> /\ Last(running') = run
          /\ AllWait(running) /\ run.ready => AllWait(running')
      <3>1. running' = Append(running, run)
        BY <1>f DEF run
      <3>2. running # <<>> => Last(running).refused /\ Last(running).slot = run.slot
        BY <1>c, <1>d, <1>e, <2>1
      <3> QED
        BY <1>d, <2>1, <3>1, <3>2, Submitted
    <2>3. Waits'
      <3> SUFFICES ASSUME ~RingIsBehind, panel.slot = NextSlot PROVE AllWait(running')
        BY <1>a, <1>b, <1>c, <2>1, <2>2 DEF Waits
      <3>1. AllWait(running)
        <4>1. CASE running = <<>>
          BY <4>1, NoneInFlight
        <4>2. CASE running # <<>>
          BY <4>2, <1>e DEF SeatInv, Waits
        <4> QED
          BY <4>1, <4>2
      <3> QED
        BY <1>c, <2>1, <2>2, <3>1
    <2> QED
      BY <1>c, <2>1, <2>2, <2>3
  <1>1. OneTarget(running') /\ Waits'
    BY <1>a, <1>b, <1>f DEF SeatInv, Typed, Waits
  <1>2. Typed'
    BY <1>a, <1>1 DEF SeatInv, Typed
  <1>3. Seated' /\ Told' /\ Scanned'
    BY <1>a, <1>b DEF SeatInv, Seated, Told, Scanned
  <1>4. Begun'
    BY <1>a, <1>b, <1>c, <1>f DEF Begun
  <1>5. GivenUp'
    BY <1>a, <1>b, <1>e, <1>f DEF GivenUp
  <1>6. Kept'
    BY <1>a, <1>c DEF SeatInv, Kept
  <1> QED
    BY <1>1, <1>2, <1>3, <1>4, <1>5, <1>6 DEF SeatInv

LEMMA DrawKeeps ==
    ASSUME SeatInv, Draw
    PROVE  SeatInv'
  <1>a. /\ UNCHANGED <<phase, draws, reuse, keep, held, at, showing, freed, begun_at, job,
                       seat, panel, air, commits_refused>>
        /\ running # <<>> /\ running' = Tail(running) /\ DOMAIN pixels' = DOMAIN pixels
    BY DEF Draw, displayVars, executorVars, panelVars, counters
  <1>b. NextSlot' = NextSlot /\ Previous' = Previous /\ (RingIsBehind' <=> RingIsBehind)
    BY <1>a DEF NextSlot, Previous, RingIsBehind
  <1>c. /\ OneTarget(running')
        /\ running' # <<>> => Last(running') = Last(running)
        /\ AllWait(running) => AllWait(running')
    BY <1>a, FirstDone DEF SeatInv, Typed
  <1>1. Typed'
    BY <1>a, <1>c DEF SeatInv, Typed
  <1>2. Seated' /\ Told' /\ Scanned'
    BY <1>a, <1>b DEF SeatInv, Seated, Told, Scanned
  <1>3. Begun' /\ GivenUp'
    BY <1>a, <1>b, <1>c DEF SeatInv, Begun, GivenUp
  <1>4. Kept' /\ Waits'
    BY <1>a, <1>b, <1>c DEF SeatInv, Kept, Waits
  <1> QED
    BY <1>1, <1>2, <1>3, <1>4 DEF SeatInv

\* The flip in the air shows the buffer at at_, which no drawing given up writes
\* and every other drawing of has ended; if Presented was told of it, no commit
\* refused before matters any more.
LEMMA LandKeeps ==
    ASSUME SeatInv, Land
    PROVE  SeatInv'
  <1>a. /\ UNCHANGED <<phase, draws, reuse, keep, held, at, showing, begun_at, pixels, seat>>
        /\ air # <<>> /\ panel' = air[1] /\ air' = <<>> /\ freed' = [s \in Slots |-> FALSE]
        /\ ~\E k \in DOMAIN running : ~running[k].given_up /\ running[k].slot = air[1].slot
        /\ commits_refused' = IF air[1].slot = showing THEN 0 ELSE commits_refused
    BY DEF Land, displayVars
  <1>b. NextSlot' = NextSlot /\ Previous' = Previous /\ NextSlot \in Slots /\ at # NextSlot
    BY <1>a, Turn DEF NextSlot, Previous, SeatInv, Typed
  <1>c. /\ OneTarget(running') /\ (running' = <<>> <=> running = <<>>)
        /\ running # <<>> => /\ Last(running').given_up = Last(running).given_up
                             /\ Last(running').slot = Last(running).slot
    <2>1. running' = [k \in DOMAIN running |-> [running[k] EXCEPT !.ready = FALSE]]
      BY DEF Land
    <2> QED
      BY <2>1, FlipLanded DEF SeatInv, Typed
  <1>d. job'.state = job.state /\
        (job.state = "queued" => IsQueued(job') /\ job'.slot = job.slot)
    <2>1. job' = IF job.state = "queued" THEN [job EXCEPT !.ready = FALSE] ELSE job
      BY DEF Land
    <2>2. CASE job.state = "queued"
      <3>1. IsQueued(job)
        BY <2>2 DEF SeatInv, Typed
      <3>2. IsQueued([job EXCEPT !.ready = FALSE])
            /\ [job EXCEPT !.ready = FALSE].slot = job.slot
        BY <3>1, JobChanged
      <3> QED
        BY <2>1, <2>2, <3>2 DEF IsQueued
    <2>3. CASE job.state # "queued"
      BY <2>1, <2>3
    <2> QED
      BY <2>2, <2>3
  <1>e. /\ panel' = seat /\ air[1] = seat
        /\ panel'.slot \in {-1, at} /\ panel'.slot # NextSlot
    <2>1. air = <<seat>> /\ seat.slot \in {-1, at}
      BY <1>a DEF SeatInv, Seated
    <2> QED
      BY <1>a, <1>b, <2>1 DEF Slots
  <1>1. Typed'
    BY <1>a, <1>c, <1>d DEF SeatInv, Typed
  <1>2. Seated' /\ Scanned'
    BY <1>a, <1>e DEF SeatInv, Seated, Scanned
  <1>3. Told'
    <2>1. CASE air[1].slot = showing
      BY <1>a, <1>e, <2>1 DEF Told
    <2>2. CASE air[1].slot # showing
      BY <1>a, <1>e, <2>2 DEF SeatInv, Told
    <2> QED
      BY <2>1, <2>2
  <1>4. Begun'
    BY <1>a, <1>b, <1>c, <1>d, <1>e DEF SeatInv, Begun
  <1>5. GivenUp' /\ Kept'
    BY <1>a, <1>b, <1>c, <1>d DEF SeatInv, GivenUp, Kept
  <1>6. Waits'
    <2> SUFFICES ASSUME running # <<>>, panel'.slot = Last(running).slot PROVE FALSE
      BY <1>c DEF Waits
    <2>1. PICK R : running \in Seq(R)
      BY DEF SeatInv, Typed, OneTarget
    <2>2. Len(running) \in DOMAIN running
      BY <2>1, EmptySeq
    <2>3. Last(running).given_up
      BY <1>a, <2>2 DEF Last
    <2>4. Last(running).slot = NextSlot
      BY <2>3 DEF SeatInv, GivenUp
    <2> QED
      BY <2>4, <1>e
  <1> QED
    BY <1>1, <1>2, <1>3, <1>4, <1>5, <1>6 DEF SeatInv

(***************************************************************************)
(* The present: what is drawn and seated, and the commit.                  *)
(***************************************************************************)
\* A picture reused, a drawing dropped or refused, and no drawing at all leave the
\* buffers where they are.
LEMMA StaysAt ==
    ASSUME SeatInv, Present, NEW taken, RingIsBehind => RingIsBehind',
           DrawReused(taken) \/ DrawDropped(taken) \/ DrawRefused(taken) \/ DrawNothing(taken)
    PROVE  /\ at' = at /\ AllHeld(held') /\ seat'.slot \in {-1, at}
           /\ begun_at' \in Slots \cup {-1}
           /\ job'.state \in {"none", "queued", "taken", "refused"}
           /\ job'.state = "queued" => IsQueued(job')
           /\ Begun' /\ GivenUp'
           /\ DrawRefused(taken) \/ DrawNothing(taken) => seat'.slot \in {-1, seat.slot}
  <1>a. UNCHANGED <<running, panel>> /\ NextSlot \in Slots
    BY Turn DEF Present, SeatInv, Typed, NextSlot
  <1>1. CASE /\ UNCHANGED <<at, held, begun_at, job>> /\ seat'.slot \in {-1, at}
             /\ DrawNothing(taken) => seat'.slot = -1
             /\ ~DrawRefused(taken)
    BY <1>a, <1>1 DEF SeatInv, Typed, Seated, Begun, GivenUp, NextSlot
  <1>2. CASE /\ UNCHANGED <<at, held>> /\ begun_at' = -1 /\ job' = NoJob
             /\ job.state = "queued" /\ seat'.slot = at
             /\ ~DrawRefused(taken) /\ ~DrawNothing(taken)
    BY <1>a, <1>2 DEF SeatInv, Typed, Seated, Begun, GivenUp, NextSlot, NoJob
  <1>3. CASE /\ UNCHANGED <<at, seat>> /\ begun_at' = -1 /\ job' = NoJob
             /\ held' = [held EXCEPT ![NextSlot] = Lost(@)]
    <2>1. AllHeld(held') /\ ~held'[NextSlot].valid
      BY <1>a, <1>3, LostIs DEF SeatInv, Typed
    <2>2. NextSlot' = NextSlot
      BY <1>3 DEF NextSlot
    <2>3. Begun' /\ GivenUp'
      BY <1>a, <1>3, <2>1, <2>2 DEF SeatInv, Begun, GivenUp, NoJob
    <2> QED
      BY <1>3, <2>1, <2>3 DEF SeatInv, Typed, Seated, NoJob
  <1>4. \/ /\ UNCHANGED <<at, held, begun_at, job>> /\ seat'.slot \in {-1, at}
           /\ DrawNothing(taken) => seat'.slot = -1
           /\ ~DrawRefused(taken)
        \/ /\ UNCHANGED <<at, held>> /\ begun_at' = -1 /\ job' = NoJob
           /\ job.state = "queued" /\ seat'.slot = at
           /\ ~DrawRefused(taken) /\ ~DrawNothing(taken)
        \/ /\ UNCHANGED <<at, seat>> /\ begun_at' = -1 /\ job' = NoJob
           /\ held' = [held EXCEPT ![NextSlot] = Lost(@)]
    <2>1. CASE DrawReused(taken)
      BY <2>1 DEF DrawReused, DrawRefused, DrawNothing, Seat
    <2>2. CASE DrawDropped(taken)
      BY <2>2 DEF DrawDropped, DrawRefused, DrawNothing, Seat
    <2>3. CASE DrawRefused(taken)
      BY <2>3 DEF DrawRefused
    <2>4. CASE DrawNothing(taken)
      BY <2>4 DEF DrawNothing, DrawRefused, NoSeat
    <2> QED
      BY <2>1, <2>2, <2>3, <2>4
  <1> QED
    BY <1>1, <1>2, <1>3, <1>4

\* A picture drawn or kept: the next buffer is this frame's, and nothing that was
\* given up draws it.
LEMMA MovesOn ==
    ASSUME SeatInv, Present, NEW taken, DrawNew(taken)
    PROVE  /\ at' = NextSlot /\ AllHeld(held') /\ seat'.slot = at' /\ begun_at' = -1
           /\ job'.state = "none" /\ Begun' /\ GivenUp'
  <1>a. UNCHANGED <<running, panel>> /\ NextSlot \in Slots
    BY Turn DEF Present, SeatInv, Typed, NextSlot
  <1>b. /\ at' = NextSlot /\ seat'.slot = at' /\ begun_at' = -1 /\ job'.state = "none"
        /\ held' = [held EXCEPT ![NextSlot] = Drawn(@, Size, pending, plan, TRUE)]
    BY DEF DrawNew, Seat, NoJob
  <1>1. AllHeld(held')
    BY <1>a, <1>b, DrawnIs DEF SeatInv, Typed
  <1>2. running # <<>> => ~Last(running).given_up
    <2>1. draws /\ phase = "validated" /\ ~reuse /\ (keep \/ job.state = "taken")
      BY DEF DrawNew, Present
    <2> QED
      BY <2>1 DEF SeatInv, Kept, Begun
  <1>3. Begun' /\ GivenUp'
    BY <1>a, <1>b, <1>2 DEF Begun, GivenUp
  <1> QED
    BY <1>b, <1>1, <1>3

\* Once the ring is behind, no present puts it right: only the flip that lands does.
LEMMA PresentCounts ==
    ASSUME SeatInv, PresentTaken \/ PresentRefused
    PROVE  RingIsBehind => RingIsBehind'
  <1>1. commits_refused' \in {commits_refused, commits_refused + 1}
    BY DEF PresentTaken, PresentRefused, Post, CommitRefused
  <1>2. commits_refused \in Nat
    BY DEF SeatInv, Typed
  <1> QED
    BY <1>1, <1>2 DEF RingIsBehind

LEMMA PresentKeeps ==
    ASSUME SeatInv, PresentTaken \/ PresentRefused
    PROVE  SeatInv'
  <1>a. /\ Present /\ air = <<>> /\ phase' = "client"
        /\ UNCHANGED <<running, pixels, panel>> /\ (RingIsBehind => RingIsBehind')
    BY PresentCounts DEF PresentTaken, PresentRefused, Present
  <1>b. Kept' /\ Waits'
    BY <1>a DEF SeatInv, Kept, Waits
  <1>c. /\ NextSlot \in Slots /\ Previous \in Slots /\ NextSlot # at /\ Previous # at
        /\ NextSlot # Previous
        /\ (NextSlot + 2) % 3 = at /\ (NextSlot + 1) % 3 = Previous
    BY Turn DEF NextSlot, Previous, SeatInv, Typed
  <1>d. ~RingIsBehind =>
            \/ panel.slot \in {-1, at}
            \/ panel.slot = Previous /\ showing = Previous /\ commits_refused = 1
    BY <1>a DEF SeatInv, Scanned
  <1>e. ASSUME NEW taken,
               DrawReused(taken) \/ DrawDropped(taken) \/ DrawRefused(taken)
                 \/ DrawNothing(taken)
        PROVE  /\ at' = at /\ AllHeld(held') /\ seat'.slot \in {-1, at}
               /\ begun_at' \in Slots \cup {-1}
               /\ job'.state \in {"none", "queued", "taken", "refused"}
               /\ job'.state = "queued" => IsQueued(job')
               /\ Begun' /\ GivenUp'
               /\ DrawRefused(taken) \/ DrawNothing(taken) => seat'.slot \in {-1, seat.slot}
    BY <1>a, <1>e, StaysAt
  <1>f. ASSUME NEW taken, DrawNew(taken)
        PROVE  /\ at' = NextSlot /\ AllHeld(held') /\ seat'.slot = at' /\ begun_at' = -1
               /\ job'.state = "none" /\ Begun' /\ GivenUp'
    BY <1>a, <1>f, MovesOn
  <1>1. CASE (DrawReused(TRUE) \/ DrawDropped(TRUE)) /\ Post(TRUE)
    <2>1. /\ commits_refused' = commits_refused /\ air' = <<seat'>> /\ showing' = at'
          /\ freed' = [s \in Slots |-> IF s = at' THEN FALSE
                                       ELSE IF s = showing THEN TRUE ELSE freed[s]]
      BY <1>1 DEF Post, Presented
    <2>2. /\ at' = at /\ AllHeld(held') /\ seat'.slot \in {-1, at}
          /\ begun_at' \in Slots \cup {-1}
          /\ job'.state \in {"none", "queued", "taken", "refused"}
          /\ job'.state = "queued" => IsQueued(job')
          /\ Begun' /\ GivenUp'
      BY <1>1, <1>e
    <2>3. Typed' /\ Seated' /\ Told'
      BY <1>a, <2>1, <2>2 DEF SeatInv, Typed, Seated, Told
    <2>4. Scanned'
      BY <1>a, <1>c, <1>d, <2>1, <2>2 DEF Scanned, NextSlot, Slots
    <2> QED
      BY <1>b, <2>2, <2>3, <2>4 DEF SeatInv
  <1>2. CASE DrawNew(TRUE) /\ Post(TRUE)
    <2>1. /\ commits_refused' = commits_refused /\ air' = <<seat'>> /\ showing' = at'
          /\ freed' = [s \in Slots |-> IF s = at' THEN FALSE
                                       ELSE IF s = showing THEN TRUE ELSE freed[s]]
      BY <1>2 DEF Post, Presented
    <2>2. /\ at' = NextSlot /\ AllHeld(held') /\ seat'.slot = at' /\ begun_at' = -1
          /\ job'.state = "none" /\ Begun' /\ GivenUp'
      BY <1>2, <1>f
    <2>3. Typed' /\ Seated' /\ Told'
      BY <1>a, <1>c, <2>1, <2>2 DEF SeatInv, Typed, Seated, Told
    <2>4. NextSlot' = Previous
      BY <1>c, <2>2 DEF NextSlot
    <2>5. Scanned'
      BY <1>a, <1>c, <1>d, <2>1, <2>2, <2>4 DEF Scanned, Slots
    <2> QED
      BY <1>b, <2>2, <2>3, <2>5 DEF SeatInv
  <1>3. CASE (DrawRefused(TRUE) \/ DrawNothing(TRUE)) /\ Post(FALSE)
    <2>1. /\ commits_refused' = commits_refused /\ air' = <<seat'>> /\ showing' = showing
          /\ freed' = freed
      BY <1>3 DEF Post
    <2>2. /\ at' = at /\ AllHeld(held') /\ seat'.slot \in {-1, at}
          /\ begun_at' \in Slots \cup {-1}
          /\ job'.state \in {"none", "queued", "taken", "refused"}
          /\ job'.state = "queued" => IsQueued(job')
          /\ Begun' /\ GivenUp' /\ seat'.slot \in {-1, seat.slot}
      BY <1>3, <1>e
    <2>3. Typed' /\ Seated' /\ Told'
      BY <1>a, <2>1, <2>2 DEF SeatInv, Typed, Seated, Told
    <2>4. Scanned'
      BY <1>a, <1>c, <1>d, <2>1, <2>2 DEF Scanned, NextSlot, Slots
    <2> QED
      BY <1>b, <2>2, <2>3, <2>4 DEF SeatInv
  <1>4. CASE CommitRefused /\ (DrawReused(FALSE) \/ DrawDropped(FALSE)
                              \/ DrawRefused(FALSE) \/ DrawNothing(FALSE))
    <2>1. commits_refused' = commits_refused + 1 /\ UNCHANGED <<air, freed, showing>>
      BY <1>4 DEF CommitRefused
    <2>2. /\ at' = at /\ AllHeld(held') /\ seat'.slot \in {-1, at}
          /\ begun_at' \in Slots \cup {-1}
          /\ job'.state \in {"none", "queued", "taken", "refused"}
          /\ job'.state = "queued" => IsQueued(job')
          /\ Begun' /\ GivenUp'
      BY <1>4, <1>e
    <2>3. Typed' /\ Seated' /\ Told'
      BY <1>a, <2>1, <2>2 DEF SeatInv, Typed, Seated, Told
    <2>4. Scanned'
      <3>1. ~RingIsBehind' => ~RingIsBehind /\ commits_refused # 1
        BY <1>a, <2>1 DEF RingIsBehind, SeatInv, Typed
      <3> QED
        BY <1>a, <1>d, <2>1, <2>2, <3>1 DEF Scanned
    <2> QED
      BY <1>b, <2>2, <2>3, <2>4 DEF SeatInv
  <1>5. CASE CommitRefused /\ DrawNew(FALSE)
    <2>1. commits_refused' = commits_refused + 1 /\ UNCHANGED <<air, freed, showing>>
      BY <1>5 DEF CommitRefused
    <2>2. /\ at' = NextSlot /\ AllHeld(held') /\ seat'.slot = at' /\ begun_at' = -1
          /\ job'.state = "none" /\ Begun' /\ GivenUp'
      BY <1>5, <1>f
    <2>3. Typed' /\ Seated' /\ Told'
      BY <1>a, <1>c, <2>1, <2>2 DEF SeatInv, Typed, Seated, Told
    <2>4. Previous' = at
      BY <1>c, <2>2 DEF Previous
    <2>5. ~RingIsBehind' => commits_refused = 0 /\ commits_refused' = 1 /\ ~RingIsBehind
      BY <2>1 DEF RingIsBehind, SeatInv, Typed
    <2>6. ~RingIsBehind' => panel.slot = -1 \/ (panel.slot = at /\ showing = at)
      BY <1>c, <1>d, <2>5 DEF SeatInv, Told, Typed, Slots
    <2>7. Scanned'
      BY <1>a, <2>1, <2>4, <2>5, <2>6 DEF Scanned
    <2> QED
      BY <1>b, <2>2, <2>3, <2>7 DEF SeatInv
  <1> QED
    BY <1>1, <1>2, <1>3, <1>4, <1>5 DEF PresentTaken, PresentRefused

(***************************************************************************)
(* The theorem.                                                            *)
(***************************************************************************)
LEMMA NextKeeps ==
    ASSUME SeatInv, [Next]_vars
    PROVE  SeatInv'
  <1>1. CASE \/ \E s \in Layers, d \in Damages : HandOver(s, d)
             \/ \E s \in Layers, p \in Places, t \in Turns : Arrange(s, p, t)
             \/ ValidateWithout \/ ValidatedInVain \/ UNCHANGED vars
    BY <1>1, ClientKeeps
  <1>2. CASE ValidateForGpu
    BY <1>2, ValidateKeeps
  <1>3. CASE Take \/ \E written \in BOOLEAN : Refuse(written)
    BY <1>3, WorkKeeps
  <1>4. CASE Draw
    BY <1>4, DrawKeeps
  <1>5. CASE PresentTaken \/ PresentRefused
    BY <1>5, PresentKeeps
  <1>6. CASE Land
    BY <1>6, LandKeeps
  <1> QED
    BY <1>1, <1>2, <1>3, <1>4, <1>5, <1>6 DEF Next

\* Only the GPU changes what a buffer holds, and it changes the one it was given.
LEMMA DrawnIsNotScanned ==
    ASSUME SeatInv, [Next]_vars, NEW s \in Slots, pixels'[s] # pixels[s]
    PROVE  /\ panel.slot = s => RingIsBehind
           /\ air # <<>> /\ air[1].slot = s =>
                 \E k \in DOMAIN running : ~running[k].given_up /\ running[k].slot = s
  <1>1. CASE Draw
    <2>1. running # <<>> /\ ~Head(running).ready /\ s = Head(running).slot
      BY <1>1 DEF Draw, SeatInv, Typed
    <2>2. PICK R : running \in Seq(R)
      BY DEF SeatInv, Typed, OneTarget
    <2>3. /\ Head(running) = running[1] /\ 1 \in 1..Len(running)
          /\ Len(running) \in DOMAIN running /\ Len(running) \in 1..Len(running)
      BY <2>1, <2>2, EmptySeq
    <2>4. Last(running).slot = s
      BY <2>1, <2>3 DEF SeatInv, Typed, OneTarget
    <2>5. panel.slot = s => RingIsBehind
      BY <2>1, <2>3, <2>4 DEF SeatInv, Waits, AllWait
    <2>6. ASSUME air # <<>>, air[1].slot = s
          PROVE  ~Last(running).given_up
      <3>1. s \in {-1, at} /\ at \in Slots
        BY <2>6 DEF SeatInv, Seated, Typed
      <3>2. Last(running).given_up => s = NextSlot
        BY <2>1, <2>4 DEF SeatInv, GivenUp
      <3> QED
        BY <3>1, <3>2, Turn DEF NextSlot, Slots
    <2> QED
      BY <2>3, <2>4, <2>5, <2>6 DEF Last
  <1>2. CASE ~Draw
    <2>1. pixels' = pixels
      BY <1>2 DEF Next, HandOver, Arrange, ValidateForGpu, ValidateWithout, ValidatedInVain,
           Take, Refuse, PresentTaken, PresentRefused, Present, Land, vars, gpuVars
    <2> QED
      BY <2>1
  <1> QED
    BY <1>1, <1>2

\* Whatever the library and the driver refuse and however often, the GPU writes the
\* buffer the panel scans only while two commits or more were refused since the panel
\* took up what Presented was told of, and the buffer of a posted flip only when the
\* flip waits for it (GpuExecutor: Begin, Finish, Keep, Presented).
THEOREM DrawnApartFromTheScan == Spec => NeverDrawnUnderScan
  <1>1. Init => SeatInv
    BY InitSeats
  <1>2. SeatInv /\ [Next]_vars => SeatInv'
    BY NextKeeps
  <1>3. SeatInv /\ [Next]_vars =>
            [\A s \in Slots : pixels'[s] # pixels[s] =>
                /\ panel.slot = s => RingIsBehind
                /\ air # <<>> /\ air[1].slot = s =>
                      \E k \in DOMAIN running :
                          ~running[k].given_up /\ running[k].slot = s]_vars
    BY DrawnIsNotScanned
  <1> QED
    BY <1>1, <1>2, <1>3, PTL DEF Spec, NeverDrawnUnderScan
=============================================================================
