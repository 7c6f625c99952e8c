-------------------------- MODULE ImageCacheProofs --------------------------
(***************************************************************************)
(* The safety of ImageCache for any finite set of buffers and any budget,  *)
(* number of slots and of drawings.  Neither half of ImagesHold is         *)
(* inductive: that a frame's images are there rests on whoever still       *)
(* refers to one -- the cache, or the images set aside -- remembering a    *)
(* frame at least as late (Claimed), on no two of them being one image     *)
(* (OnlyOnce), and on nothing being retired before the GPU is done with it *)
(* (Retired).                                                              *)
(***************************************************************************)
EXTENDS ImageCache, FiniteSetTheorems, WellFoundedInduction, TLAPS

Entry ==
    [image : Nat, alloc : Nat, last_frame : Nat, last_use : Nat, owner : Owners \union {"none"}]

Read == [handle : Handles, image : Nat, alloc : Nat]

Typed ==
    /\ entries_ \in [Handles -> Entry] /\ set_aside_ \in SUBSET Entry
    /\ tick_ \in Nat /\ frame_start_ \in 0..(tick_ + 1)
    /\ slots_ \in [Slots -> [busy : BOOLEAN, frame : Nat]] /\ next_slot_ \in Slots
    /\ frame_ \in 0..MaxFrames /\ retired_ \in Nat /\ gpu_done \in 0..frame_
    /\ pc \in {"idle", "compose"} /\ wanted \in SUBSET Handles /\ got \in SUBSET Read
    /\ alloc \in [Handles -> Nat] /\ images \in Nat /\ destroyed \in SUBSET (1..images)
    /\ uses \in [1..MaxFrames -> SUBSET Read]

\* An image kept, set aside or handed out is one that was made.
Made ==
    /\ \A h \in Cached : entries_[h].image \in 1..images /\ entries_[h].last_use <= tick_
    /\ \A e \in set_aside_ : e.image \in 1..images
    /\ \A f \in 1..frame_ : \A u \in uses[f] : u.image \in 1..images

\* An image is in one place: under one handle, set aside once, or destroyed.
OnlyOnce ==
    /\ \A h \in Cached : entries_[h].image \notin destroyed
    /\ \A h, k \in Cached : entries_[h].image = entries_[k].image => h = k
    /\ \A h \in Cached : \A e \in set_aside_ : e.image # entries_[h].image
    /\ \A e \in set_aside_ : e.image \notin destroyed
    /\ \A d, e \in set_aside_ : d.image = e.image => d = e

\* Whoever refers to an image a frame reads remembers that frame or a later one,
\* and what is destroyed was read by no frame after the last retired.
Claimed ==
    \A f \in 1..frame_ : \A u \in uses[f] :
        /\ \A h \in Cached : entries_[h].image = u.image => entries_[h].last_frame >= f
        /\ \A e \in set_aside_ : e.image = u.image => e.last_frame >= f
        /\ u.image \in destroyed => f <= retired_

Retired == retired_ <= gpu_done

\* What a drawing holds is in the cache, claimed for it and protected.
Holding ==
    /\ pc = "idle" => wanted = {} /\ got = {}
    /\ pc = "compose" => frame_ < MaxFrames
    /\ \A u \in got :
        /\ u.handle \in Cached \ wanted /\ entries_[u.handle].image = u.image
        /\ entries_[u.handle].last_frame > frame_
        /\ Protected(u.handle, frame_start_)

IInv == Typed /\ Made /\ OnlyOnce /\ Claimed /\ Retired /\ Holding

-----------------------------------------------------------------------------
\* NoEntry is told by its image, and is an entry like the others.
LEMMA EntryFacts ==
  ASSUME Typed, Made
  PROVE  /\ NoEntry \in Entry /\ NoEntry.image = 0
         /\ \A h \in Handles : h \in Cached <=> entries_[h].image # 0
         /\ \A h \in Handles : h \notin Cached => entries_[h] = NoEntry
         /\ Cached \in SUBSET Handles /\ IsFiniteSet(Cached)
<1>1. NoEntry \in Entry /\ NoEntry.image = 0
  BY DEF NoEntry, Entry
<1>2. \A h \in Handles : h \notin Cached => entries_[h] = NoEntry
  BY DEF Cached
<1>3. \A h \in Cached : entries_[h].image # 0
  BY DEF Made, Typed
<1>4. Cached \in SUBSET Handles
  BY DEF Cached
<1> QED
  BY <1>1, <1>2, <1>3, <1>4, CacheAssumption, FS_Subset

\* A set of naturals that is not empty has a least element.
LEMMA Least ==
  ASSUME NEW S \in SUBSET Nat, S # {}
  PROVE  \E m \in S : \A n \in S : m <= n
<1>1. IsWellFoundedOn(OpToRel(<, Nat), Nat)
  BY NatLessThanWellFounded
<1>2. PICK m \in S : \A n \in S : <<n, m>> \notin OpToRel(<, Nat)
  BY <1>1, WFMin
<1>3. \A n \in S : ~(n < m)
  BY <1>2 DEF OpToRel
<1> QED
  BY <1>3

\* MakeRoom keeps what is protected, and leaves room for one more unless it
\* leaves nothing but that.
LEMMA RoomMade ==
  ASSUME Typed, NEW keep \in SUBSET Handles, NEW start \in Nat
  PROVE  /\ MakeRoom(keep, start) \in SUBSET keep
         /\ \A h \in keep : Protected(h, start) => h \in MakeRoom(keep, start)
         /\ \/ Cardinality(MakeRoom(keep, start)) + 1 <= MostEntries
            \/ \A h \in MakeRoom(keep, start) : Protected(h, start)
<1> DEFINE Older(h) == {v \in Victims(keep, start) : entries_[v].last_use < entries_[h].last_use}
           over == Cardinality(keep) + 1 - MostEntries
           stays == MakeRoom(keep, start)
           open == {h \in stays : ~Protected(h, start)}
           ages == {entries_[h].last_use : h \in open}
<1>1. stays = {h \in keep : Protected(h, start) \/ Cardinality(Older(h)) >= over}
  BY DEF MakeRoom
<1>h. open \in SUBSET Handles
  BY <1>1
<1> HIDE DEF stays, Older, over
<1>2. /\ IsFiniteSet(keep) /\ Cardinality(keep) \in Nat
  BY CacheAssumption, FS_Subset, FS_CardinalityType
<1>3. ASSUME open # {}
      PROVE  Cardinality(stays) + 1 <= MostEntries
  <2>1. ages \in SUBSET Nat /\ ages # {}
    BY <1>h, <1>3 DEF Typed, Entry
  <2>2. PICK age \in ages : \A a \in ages : age <= a
    BY <2>1, Least
  <2>3. PICK v \in open : age = entries_[v].last_use
    BY <2>2
  <2>4. Older(v) \in SUBSET (keep \ stays)
    <3> SUFFICES ASSUME NEW w \in Older(v) PROVE w \in keep \ stays
      OBVIOUS
    <3>1. w \in keep /\ ~Protected(w, start) /\ entries_[w].last_use < age
      BY <2>3 DEF Victims, Older
    <3>2. ASSUME w \in stays PROVE FALSE
      <4>1. entries_[w].last_use \in ages
        BY <3>1, <3>2
      <4>2. age <= entries_[w].last_use
        BY <2>2, <4>1
      <4>3. age \in Nat /\ entries_[w].last_use \in Nat
        BY <2>1, <2>2, <4>1
      <4> HIDE DEF ages
      <4> QED
        BY <3>1, <4>2, <4>3
    <3> QED
      BY <3>1, <3>2
  <2>5. /\ IsFiniteSet(keep \ stays) /\ Cardinality(keep \ stays) \in Nat
        /\ Cardinality(keep \ stays) = Cardinality(keep) - Cardinality(keep \cap stays)
    BY <1>2, FS_Difference, FS_CardinalityType
  <2>6. keep \cap stays = stays /\ IsFiniteSet(stays) /\ Cardinality(stays) \in Nat
    BY <1>1, <1>2, FS_Subset, FS_CardinalityType
  <2>7. /\ Cardinality(Older(v)) \in Nat
        /\ Cardinality(Older(v)) <= Cardinality(keep \ stays)
    BY <2>4, <2>5, FS_Subset, FS_CardinalityType
  <2>8. Cardinality(Older(v)) >= over
    BY <1>1, <2>3
  <2>9. MostEntries \in Nat
    BY CacheAssumption
  <2> QED
    <3>1. Cardinality(keep \ stays) = Cardinality(keep) - Cardinality(stays)
      BY <2>5, <2>6
    <3>2. Cardinality(keep) + 1 - MostEntries <= Cardinality(keep \ stays)
      BY <1>2, <2>5, <2>7, <2>8, <2>9 DEF over
    <3> QED
      BY <1>2, <2>5, <2>6, <2>9, <3>1, <3>2
<1> QED
  BY <1>1, <1>3 DEF stays

-----------------------------------------------------------------------------
\* What any step does to the images: an entry keeps its image and remembers no
\* earlier frame, takes a new image, or loses it to those set aside (`aside'), of
\* which the ones that are `due' are destroyed.
Moves(aside, due) ==
    /\ entries_' \in [Handles -> Entry] /\ images' \in {images, images + 1}
    /\ aside \in SUBSET Entry /\ due \in SUBSET aside
    /\ \A k \in Handles :
        \/ entries_'[k] = NoEntry
        \/ /\ k \in Cached /\ entries_'[k].image = entries_[k].image
           /\ entries_'[k].last_frame >= entries_[k].last_frame
        \/ entries_'[k].image = images + 1 /\ images' = images + 1
    /\ \A j, k \in Handles :
        entries_'[j].image = images + 1 /\ entries_'[k].image = images + 1 => j = k
    /\ \A k \in Cached : entries_'[k].image = entries_[k].image \/ entries_[k] \in aside
    /\ \A e \in aside :
        \/ e \in set_aside_
        \/ \E k \in Cached : e = entries_[k] /\ entries_'[k].image # e.image
    /\ \A e \in due : e.last_frame <= retired_
    /\ set_aside_' = aside \ due /\ destroyed' = destroyed \union ImagesOf(due)
    /\ \A k \in Cached' : entries_'[k].last_use <= tick_'
    /\ UNCHANGED <<uses, frame_, retired_>>

\* Such a step keeps what the images rest on.
LEMMA MovesKeep ==
  ASSUME Typed, Made, OnlyOnce, Claimed, NEW aside, NEW due, Moves(aside, due)
  PROVE  Made' /\ OnlyOnce' /\ Claimed' /\ destroyed' \in SUBSET (1..images')
<1>a. /\ NoEntry.image = 0
      /\ \A h \in Handles : h \in Cached <=> entries_[h].image # 0
      /\ Cached \in SUBSET Handles
  BY EntryFacts
<1>b. \A e \in aside : e.image \in 1..images
  BY DEF Moves, Made
<1>c. \A h \in Cached' : h \in Handles /\ entries_'[h] # NoEntry
  BY DEF Cached
<1>d. \A h \in Cached' :
        \/ /\ h \in Cached /\ entries_'[h].image = entries_[h].image
           /\ entries_'[h].last_frame >= entries_[h].last_frame
        \/ entries_'[h].image = images + 1 /\ images' = images + 1
  BY <1>c DEF Moves
<1>e. images \in Nat /\ frame_ \in Nat /\ images' \in Nat /\ images <= images'
      /\ destroyed \in SUBSET (1..images)
  BY CacheAssumption DEF Typed, Moves
<1>f. \A i \in destroyed' : i \in destroyed \/ \E e \in due : e.image = i
  BY DEF Moves, ImagesOf
<1>g. \A e \in set_aside_' : e \in aside /\ e \notin due
  BY DEF Moves
<1>h. \A e \in due : e \in aside
  BY DEF Moves
\* An image set aside now is under no handle any more, nor was it destroyed.
<1>i. \A e \in aside : e.image \notin destroyed
  BY DEF Moves, OnlyOnce
<1>j. \A d, e \in aside : d.image = e.image => d = e
  BY DEF Moves, OnlyOnce
<1>k. \A e \in aside : \A h \in Cached' : e.image # entries_'[h].image
  <2> SUFFICES ASSUME NEW e \in aside, NEW h \in Cached', e.image = entries_'[h].image
               PROVE  FALSE
    OBVIOUS
  <2>1. h \in Cached /\ entries_'[h].image = entries_[h].image
    BY <1>b, <1>d, <1>e
  <2>2. CASE e \in set_aside_
    BY <2>1, <2>2 DEF OnlyOnce
  <2>3. CASE e \notin set_aside_
    <3>1. PICK k \in Cached : e = entries_[k] /\ entries_'[k].image # e.image
      BY <2>3 DEF Moves
    <3>2. k = h
      BY <2>1, <3>1 DEF OnlyOnce
    <3> QED
      BY <3>1, <3>2
  <2> QED
    BY <2>2, <2>3
<1>1. destroyed' \in SUBSET (1..images')
  <2> SUFFICES ASSUME NEW i \in destroyed' PROVE i \in 1..images'
    OBVIOUS
  <2>1. i \in 1..images
    BY <1>b, <1>e, <1>f, <1>h
  <2> QED
    BY <1>e, <2>1
<1>2. Made'
  <2>1. \A h \in Cached' : entries_'[h].image \in 1..images'
    BY <1>d, <1>e DEF Made
  <2>2. \A h \in Cached' : entries_'[h].last_use <= tick_'
    BY DEF Moves
  <2>3. \A e \in set_aside_' : e.image \in 1..images'
    BY <1>b, <1>e, <1>g
  <2>4. \A f \in 1..frame_' : \A u \in uses'[f] : u.image \in 1..images'
    <3>1. \A f \in 1..frame_ : \A u \in uses[f] : u.image \in 1..images
      BY DEF Made
    <3>2. 1..images \subseteq 1..images' /\ frame_' = frame_ /\ uses' = uses
      BY <1>e DEF Moves
    <3> QED
      BY <3>1, <3>2
  <2> QED
    BY <2>1, <2>2, <2>3, <2>4 DEF Made
<1>3. OnlyOnce'
  <2>1. \A h \in Cached' : entries_'[h].image \notin destroyed'
    <3> SUFFICES ASSUME NEW h \in Cached', entries_'[h].image \in destroyed' PROVE FALSE
      OBVIOUS
    <3>1. entries_'[h].image \in destroyed
      BY <1>f, <1>h, <1>k
    <3>2. h \in Cached /\ entries_'[h].image = entries_[h].image
      BY <1>d, <1>e, <3>1
    <3> QED
      BY <3>1, <3>2 DEF OnlyOnce
  <2>2. \A h, k \in Cached' : entries_'[h].image = entries_'[k].image => h = k
    <3> SUFFICES ASSUME NEW h \in Cached', NEW k \in Cached',
                        entries_'[h].image = entries_'[k].image
                 PROVE  h = k
      OBVIOUS
    <3>1. CASE entries_'[h].image = images + 1
      BY <1>c, <3>1 DEF Moves
    <3>2. CASE entries_'[h].image # images + 1
      <4>1. /\ h \in Cached /\ entries_'[h].image = entries_[h].image
            /\ k \in Cached /\ entries_'[k].image = entries_[k].image
        BY <1>d, <3>2
      <4> QED
        BY <4>1 DEF OnlyOnce
    <3> QED
      BY <3>1, <3>2
  <2>3. \A h \in Cached' : \A e \in set_aside_' : e.image # entries_'[h].image
    BY <1>g, <1>k
  <2>4. \A e \in set_aside_' : e.image \notin destroyed'
    BY <1>f, <1>g, <1>h, <1>i, <1>j
  <2>5. \A d, e \in set_aside_' : d.image = e.image => d = e
    BY <1>g, <1>j
  <2> QED
    BY <2>1, <2>2, <2>3, <2>4, <2>5 DEF OnlyOnce
<1>4. Claimed'
  <2> SUFFICES ASSUME NEW f \in 1..frame_, NEW u \in uses[f]
               PROVE  /\ \A h \in Cached' : entries_'[h].image = u.image
                                                => entries_'[h].last_frame >= f
                      /\ \A e \in set_aside_' : e.image = u.image => e.last_frame >= f
                      /\ u.image \in destroyed' => f <= retired_
    BY DEF Claimed, Moves
  <2>1. u.image \in 1..images
    BY DEF Made
  <2>2. ASSUME NEW h \in Cached', entries_'[h].image = u.image
        PROVE  entries_'[h].last_frame >= f
    <3>1. /\ h \in Cached /\ entries_'[h].image = entries_[h].image
          /\ entries_'[h].last_frame >= entries_[h].last_frame
      BY <1>d, <1>e, <2>1, <2>2
    <3>2. entries_[h].last_frame >= f
      BY <2>2, <3>1 DEF Claimed
    <3>3. entries_[h].last_frame \in Nat /\ entries_'[h].last_frame \in Nat
      BY <1>c, <3>1 DEF Typed, Moves, Entry
    <3> QED
      BY <1>e, <3>1, <3>2, <3>3
  <2>3. \A e \in aside : e.image = u.image => e.last_frame >= f
    BY DEF Claimed, Moves
  <2>4. u.image \in destroyed' => f <= retired_
    <3>1. CASE u.image \in destroyed
      BY <3>1 DEF Claimed
    <3>2. ASSUME NEW e \in due, e.image = u.image
          PROVE  f <= retired_
      <4>1. e.last_frame >= f /\ e.last_frame <= retired_
        BY <1>h, <2>3, <3>2 DEF Moves
      <4>2. e.last_frame \in Nat /\ retired_ \in Nat
        BY <1>h DEF Moves, Entry, Typed
      <4> QED
        BY <1>e, <4>1, <4>2
    <3> QED
      BY <1>f, <3>1, <3>2
  <2> QED
    BY <1>g, <2>2, <2>3, <2>4
<1> QED
  BY <1>1, <1>2, <1>3, <1>4

\* What asking for an image and the Retire behind it do to the rest.
Retires(aside, due) ==
    /\ due \in SUBSET aside /\ \A e \in due : e.last_frame <= retired_
    /\ set_aside_' = aside \ due /\ destroyed' = destroyed \union ImagesOf(due)
    /\ UNCHANGED <<uses, frame_, retired_>>

\* A known image stays where it is, claimed for its frame and asked for last.
LEMMA HitMoves ==
  ASSUME Typed, Made, NEW h \in Handles, NEW frame \in Nat, GetHit(h, frame),
         NEW due, Retires(set_aside_, due)
  PROVE  /\ Moves(set_aside_, due) /\ tick_' = tick_ + 1 /\ h \in Cached
         /\ \A k \in Handles : k # h => entries_'[k] = entries_[k]
         /\ entries_'[h].image = entries_[h].image /\ entries_[h].alloc = alloc[h]
         /\ entries_'[h].alloc = entries_[h].alloc
         /\ entries_'[h].last_frame >= frame /\ entries_'[h].last_use = tick_ + 1
<1>1. h \in Cached /\ tick_' = tick_ + 1 /\ images' = images /\ entries_[h].alloc = alloc[h]
  BY DEF GetHit, Hit, Cached
<1>2. /\ entries_[h] \in Entry /\ tick_ \in Nat /\ images \in Nat
      /\ Claim(h, frame) \in Nat
      /\ Claim(h, frame) >= frame /\ Claim(h, frame) >= entries_[h].last_frame
  BY DEF Typed, Entry, Claim
<1>3. entries_ \in [Handles -> Entry] /\ tick_ + 1 \in Nat
  BY DEF Typed
<1>4. entries_' = [entries_ EXCEPT ![h].last_frame = Claim(h, frame), ![h].last_use = tick_ + 1]
  BY DEF GetHit
<1>5. /\ entries_' \in [Handles -> Entry]
      /\ \A k \in Handles : k # h => entries_'[k] = entries_[k]
      /\ entries_'[h].image = entries_[h].image /\ entries_'[h].alloc = entries_[h].alloc
      /\ entries_'[h].last_frame = Claim(h, frame) /\ entries_'[h].last_use = tick_ + 1
  BY <1>2, <1>3, <1>4 DEF Entry
<1>6. \A k \in Handles : /\ entries_'[k].image = entries_[k].image
                         /\ entries_'[k].last_frame >= entries_[k].last_frame
  <2> SUFFICES ASSUME NEW k \in Handles
               PROVE  /\ entries_'[k].image = entries_[k].image
                      /\ entries_'[k].last_frame >= entries_[k].last_frame
    OBVIOUS
  <2>1. CASE k = h
    BY <1>2, <1>5, <2>1
  <2>2. CASE k # h
    BY <1>5, <2>2 DEF Typed, Entry
  <2> QED
    BY <2>1, <2>2
<1>7. \A k \in Handles : k \notin Cached => entries_'[k] = NoEntry
  BY <1>1, <1>5, EntryFacts
<1>8. \A k \in Cached' : entries_'[k].last_use <= tick_'
  <2> SUFFICES ASSUME NEW k \in Handles, k \in Cached' PROVE entries_'[k].last_use <= tick_'
    BY DEF Cached
  <2>1. CASE k = h
    BY <1>1, <1>2, <1>5, <2>1
  <2>2. CASE k # h
    <3>1. k \in Cached /\ entries_'[k] = entries_[k]
      BY <1>5, <2>2 DEF Cached
    <3> QED
      BY <1>1, <1>2, <3>1 DEF Made, Typed, Entry
  <2> QED
    BY <2>1, <2>2
<1>9. \A k \in Handles : entries_'[k].image # images + 1
  <2> SUFFICES ASSUME NEW k \in Handles PROVE entries_[k].image # images + 1
    BY <1>6
  <2> QED
    BY <1>2, EntryFacts DEF Made
<1>10. \A k \in Cached : entries_'[k].image = entries_[k].image
  BY <1>6, EntryFacts
<1>11. Moves(set_aside_, due)
  BY <1>1, <1>5, <1>6, <1>7, <1>8, <1>9, <1>10 DEF Moves, Retires, Typed
<1> QED
  BY <1>1, <1>2, <1>5, <1>11

\* When an image is not known, what goes is set aside, what is protected stays
\* but for a stale image of the same handle, and what is imported is new.
LEMMA MissMoves ==
  ASSUME Typed, Made, NEW h \in Handles, NEW frame \in Nat, NEW start \in Nat,
         NEW imported \in BOOLEAN, GetMiss(h, frame, start, imported),
         NEW due, Retires(set_aside_ \union LetGo(h, start), due)
  PROVE  /\ Moves(set_aside_ \union LetGo(h, start), due) /\ tick_' = tick_ + 1
         /\ \A k \in Cached : k # h /\ Protected(k, start) => entries_'[k] = entries_[k]
         /\ imported => entries_'[h] = [image |-> images + 1, alloc |-> alloc[h],
                                        last_frame |-> frame, last_use |-> tick_ + 1,
                                        owner |-> OwnerOf[h]]
<1> DEFINE new == [image |-> images + 1, alloc |-> alloc[h], last_frame |-> frame,
                   last_use |-> tick_ + 1, owner |-> OwnerOf[h]]
           stay == Stays(h, start)
           aside == set_aside_ \union LetGo(h, start)
<1>1. /\ tick_' = tick_ + 1 /\ tick_ \in Nat /\ images \in Nat
      /\ images' = IF imported THEN images + 1 ELSE images
  BY DEF GetMiss, Typed
<1>2. new \in Entry /\ new.image = images + 1 /\ new.last_use = tick_ + 1
  BY <1>1, CacheAssumption DEF Entry, Typed
<1>3. \A k \in Handles : entries_'[k] = IF k = h /\ imported THEN new
                                         ELSE IF k \in stay THEN entries_[k] ELSE NoEntry
  BY DEF GetMiss
<1>4. stay \in SUBSET (Cached \ {h})
      /\ \A k \in Cached \ {h} : Protected(k, start) => k \in stay
  BY RoomMade, EntryFacts DEF Stays
<1>5. LetGo(h, start) = {entries_[k] : k \in Cached \ stay}
  BY DEF LetGo
<1> HIDE DEF new, stay
<1>6. DOMAIN entries_' = Handles /\ entries_' \in [Handles -> Entry]
  <2>1. entries_' = [k \in Handles |-> entries_'[k]]
    BY DEF GetMiss
  <2>2. \A k \in Handles : entries_'[k] \in Entry
    BY <1>2, <1>3, EntryFacts DEF Typed
  <2> QED
    BY <2>1, <2>2
<1>7. aside \in SUBSET Entry
  BY <1>5, EntryFacts DEF Typed
<1>8. \A k \in Handles :
        \/ entries_'[k] = NoEntry
        \/ k \in Cached /\ k # h /\ entries_'[k] = entries_[k] /\ entries_[k].image \in 1..images
        \/ k = h /\ imported /\ entries_'[k] = new
  BY <1>3, <1>4, EntryFacts DEF Made
<1>9. \A j, k \in Handles :
        entries_'[j].image = images + 1 /\ entries_'[k].image = images + 1 => j = k
  BY <1>1, <1>8, EntryFacts
<1>10. \A k \in Cached : entries_'[k].image = entries_[k].image \/ entries_[k] \in aside
  BY <1>3, <1>4, <1>5, EntryFacts
<1>11. \A e \in aside : e \in set_aside_ \/ \E k \in Cached : e = entries_[k] /\ entries_'[k].image # e.image
  <2> SUFFICES ASSUME NEW k \in Cached \ stay PROVE entries_'[k].image # entries_[k].image
    BY <1>5
  <2>1. k \in Handles /\ entries_[k].image \in 1..images
    BY EntryFacts DEF Made
  <2>2. entries_'[k] = new \/ entries_'[k] = NoEntry
    BY <1>3, <2>1
  <2> QED
    BY <1>1, <1>2, <2>1, <2>2, EntryFacts
<1>12. \A k \in Cached' : entries_'[k].last_use <= tick_'
  <2> SUFFICES ASSUME NEW k \in Handles, entries_'[k] # NoEntry
               PROVE  entries_'[k].last_use <= tick_ + 1
    BY <1>1 DEF Cached
  <2>1. CASE entries_'[k] = new
    BY <1>1, <1>2, <2>1
  <2>2. CASE k \in Cached /\ entries_'[k] = entries_[k]
    BY <1>1, <2>2 DEF Made, Typed, Entry
  <2> QED
    BY <1>8, <2>1, <2>2
<1>13. \A k \in Handles :
        \/ entries_'[k] = NoEntry
        \/ /\ k \in Cached /\ entries_'[k].image = entries_[k].image
           /\ entries_'[k].last_frame >= entries_[k].last_frame
        \/ entries_'[k].image = images + 1 /\ images' = images + 1
  <2> SUFFICES ASSUME NEW k \in Handles, k \in Cached, entries_'[k] = entries_[k]
               PROVE  entries_'[k].last_frame >= entries_[k].last_frame
    BY <1>1, <1>2, <1>8
  <2> QED
    BY DEF Typed, Entry
<1>14. Moves(aside, due)
  BY <1>1, <1>6, <1>7, <1>9, <1>10, <1>11, <1>12, <1>13 DEF Moves, Retires
<1>15. \A k \in Cached : k # h /\ Protected(k, start) => entries_'[k] = entries_[k]
  BY <1>3, <1>4, EntryFacts
<1> QED
  BY <1>1, <1>3, <1>14, <1>15 DEF new

-----------------------------------------------------------------------------
LEMMA InitIInv == Init => IInv
<1> SUFFICES ASSUME Init PROVE IInv
  OBVIOUS
<1>1. Cached = {}
  BY DEF Init, Cached
<1>2. Typed
  <2>1. 0 \in Slots
    BY CacheAssumption DEF Slots
  <2>2. NoEntry \in Entry
    BY DEF NoEntry, Entry
  <2> QED
    BY <2>1, <2>2, CacheAssumption DEF Init, Typed
<1>3. Made /\ OnlyOnce /\ Claimed /\ Retired /\ Holding
  BY <1>1 DEF Init, Made, OnlyOnce, Claimed, Retired, Holding
<1> QED
  BY <1>2, <1>3 DEF IInv

\* A drawing begins: what it will hold is yet to be asked for, and no slot's
\* work is retired before the GPU is done with it.
LEMMA BeginsIInv ==
  ASSUME IInv, NEW hs \in SUBSET Handles, ComposeBegins(hs)
  PROVE  IInv'
<1>1. Cached' = Cached
  BY DEF ComposeBegins, Cached
<1>2. /\ slots_[next_slot_] \in [busy : BOOLEAN, frame : Nat]
      /\ slots_[next_slot_].busy => slots_[next_slot_].frame <= gpu_done
      /\ retired_' = IF slots_[next_slot_].busy /\ slots_[next_slot_].frame > retired_
                     THEN slots_[next_slot_].frame ELSE retired_
  BY DEF IInv, Typed, ComposeBegins
<1>3. /\ retired_' \in Nat /\ retired_ <= retired_' /\ retired_' <= gpu_done
  BY <1>2 DEF IInv, Typed, Retired
<1>4. slots_' \in [Slots -> [busy : BOOLEAN, frame : Nat]]
  BY DEF IInv, Typed, ComposeBegins
<1>5. Typed'
  BY <1>3, <1>4 DEF IInv, Typed, ComposeBegins
<1>6. Made' /\ OnlyOnce'
  BY <1>1 DEF IInv, Made, OnlyOnce, ComposeBegins
<1>7. Claimed'
  <2>1. \A f \in 1..frame_ : f <= retired_ => f <= retired_'
    BY <1>3 DEF IInv, Typed
  <2> QED
    BY <1>1, <2>1 DEF IInv, Claimed, ComposeBegins
<1>8. Retired' /\ Holding'
  BY <1>3 DEF IInv, Typed, Retired, Holding, ComposeBegins
<1> QED
  BY <1>5, <1>6, <1>7, <1>8 DEF IInv

\* A drawing asks for one more: what it holds stays put, being protected.
LEMMA GetsIInv ==
  ASSUME IInv, NEW h \in Handles, ComposeGets(h)
  PROVE  IInv'
<1> DEFINE new == [handle |-> h, image |-> entries_'[h].image, alloc |-> alloc[h]]
<1>0. /\ Typed /\ Made /\ OnlyOnce /\ Claimed /\ Retired /\ Holding
      /\ frame_ + 1 \in Nat /\ frame_start_ \in Nat /\ frame_start_ <= tick_ + 1
      /\ pc = "compose" /\ h \in wanted /\ frame_ < MaxFrames
      /\ got' = got \union {new} /\ wanted' = wanted \ {h}
      /\ UNCHANGED <<frame_start_, slots_, next_slot_, frame_, retired_, pc, alloc,
                     destroyed, uses, gpu_done>>
  BY CacheAssumption DEF IInv, Typed, Holding, ComposeGets, drawVars
<1>1. PICK aside :
        /\ Moves(aside, {}) /\ tick_' = tick_ + 1
        /\ \A k \in Cached : k # h /\ Protected(k, frame_start_) => entries_'[k] = entries_[k]
        /\ entries_'[h].image # 0 /\ entries_'[h].last_frame > frame_
        /\ entries_'[h].last_use = tick_ + 1
  <2>1. CASE GetHit(h, frame_ + 1) /\ UNCHANGED set_aside_
    <3>1. Retires(set_aside_, {})
      BY <1>0, <2>1 DEF Retires, ImagesOf
    <3>2. /\ Moves(set_aside_, {}) /\ tick_' = tick_ + 1 /\ h \in Cached
          /\ \A k \in Handles : k # h => entries_'[k] = entries_[k]
          /\ entries_'[h].image = entries_[h].image
          /\ entries_'[h].last_frame >= frame_ + 1 /\ entries_'[h].last_use = tick_ + 1
      BY <1>0, <2>1, <3>1, HitMoves
    <3>3. entries_'[h].last_frame \in Nat /\ frame_ \in Nat
      BY <1>0, <3>2 DEF Moves, Entry, Typed
    <3>4. entries_[h].image # 0 /\ Cached \in SUBSET Handles
      BY <1>0, <3>2, EntryFacts
    <3> QED
      BY <3>2, <3>3, <3>4
  <2>2. CASE /\ GetMiss(h, frame_ + 1, frame_start_, TRUE)
             /\ set_aside_' = set_aside_ \union LetGo(h, frame_start_)
    <3>1. Retires(set_aside_ \union LetGo(h, frame_start_), {})
      BY <1>0, <2>2 DEF Retires, ImagesOf
    <3>2. /\ Moves(set_aside_ \union LetGo(h, frame_start_), {}) /\ tick_' = tick_ + 1
          /\ \A k \in Cached : k # h /\ Protected(k, frame_start_) => entries_'[k] = entries_[k]
          /\ entries_'[h] = [image |-> images + 1, alloc |-> alloc[h],
                             last_frame |-> frame_ + 1, last_use |-> tick_ + 1,
                             owner |-> OwnerOf[h]]
      BY <1>0, <2>2, <3>1, MissMoves
    <3>3. images + 1 # 0 /\ frame_ + 1 > frame_
      BY <1>0 DEF Typed
    <3> QED
      BY <3>2, <3>3
  <2> QED
    BY <2>1, <2>2 DEF ComposeGets
<1>2. Made' /\ OnlyOnce' /\ Claimed' /\ destroyed' \in SUBSET (1..images')
  BY <1>0, <1>1, MovesKeep
<1>3. /\ entries_' \in [Handles -> Entry] /\ images' \in Nat /\ set_aside_' \in SUBSET Entry
  BY <1>0, <1>1 DEF Moves, Typed
<1>4. new \in Read
  BY <1>0, <1>3 DEF Read, Entry, Typed
<1>5. Typed'
  BY <1>0, <1>1, <1>2, <1>3, <1>4 DEF Typed
<1>6. h \in Cached'
  BY <1>1 DEF Cached, NoEntry
<1>7. Holding'
  <2> SUFFICES ASSUME NEW u \in got'
               PROVE  /\ u.handle \in Cached' \ wanted'
                      /\ entries_'[u.handle].image = u.image
                      /\ entries_'[u.handle].last_frame > frame_
                      /\ entries_'[u.handle].last_use >= frame_start_
    BY <1>0 DEF Holding, Protected
  <2>1. CASE u = new
    BY <1>0, <1>1, <1>6, <2>1
  <2>2. CASE u \in got
    <3>1. /\ u.handle \in Cached \ wanted /\ u.handle # h /\ u.handle \in Handles
          /\ entries_[u.handle].image = u.image /\ entries_[u.handle].last_frame > frame_
          /\ Protected(u.handle, frame_start_)
      BY <1>0, <2>2 DEF Holding, Cached
    <3>2. entries_'[u.handle] = entries_[u.handle]
      BY <1>1, <3>1
    <3> QED
      BY <1>0, <3>1, <3>2 DEF Cached, Protected
  <2> QED
    BY <1>0, <2>1, <2>2
<1> QED
  BY <1>0, <1>2, <1>5, <1>7 DEF IInv, Retired

\* What changes with the images alone while no drawing is put together.
LEMMA IdleIInv ==
  ASSUME IInv, NEW aside, NEW due, Moves(aside, due), pc' = "idle", wanted' = {}, got' = {},
         tick_' \in {tick_, tick_ + 1}, frame_start_' \in 0..(tick_' + 1),
         UNCHANGED <<slots_, next_slot_, alloc, gpu_done>>
  PROVE  IInv'
<1>1. Made' /\ OnlyOnce' /\ Claimed' /\ destroyed' \in SUBSET (1..images')
  BY MovesKeep DEF IInv
<1>2. /\ entries_' \in [Handles -> Entry] /\ images' \in Nat /\ set_aside_' \in SUBSET Entry
      /\ UNCHANGED <<uses, frame_, retired_>>
  BY DEF Moves, IInv, Typed
<1>3. Typed'
  <2>1. Typed /\ tick_' \in Nat
    BY DEF IInv, Typed
  <2> QED
    BY <1>1, <1>2, <2>1 DEF Typed
<1>4. Retired' /\ Holding'
  BY <1>2 DEF IInv, Retired, Holding
<1> QED
  BY <1>1, <1>3, <1>4 DEF IInv

\* An import turned down ends the drawing; what was let go for it stays so.
LEMMA RefusedIInv ==
  ASSUME IInv, NEW h \in Handles, ComposeRefused(h)
  PROVE  IInv'
<1>1. /\ Typed /\ Made /\ frame_ + 1 \in Nat /\ frame_start_ \in Nat
      /\ frame_start_ \in 0..(tick_ + 1) /\ tick_ \in Nat
      /\ GetMiss(h, frame_ + 1, frame_start_, FALSE)
  <2>1. Typed /\ Made /\ GetMiss(h, frame_ + 1, frame_start_, FALSE)
    BY DEF IInv, ComposeRefused
  <2>2. tick_ \in Nat /\ frame_start_ \in 0..(tick_ + 1) /\ frame_ \in 0..MaxFrames /\ MaxFrames \in Nat
    BY <2>1, CacheAssumption DEF Typed
  <2>3. frame_ + 1 \in Nat /\ frame_start_ \in Nat
    BY <2>2
  <2> QED
    BY <2>1, <2>2, <2>3
<1>2. Retires(set_aside_ \union LetGo(h, frame_start_), {})
  BY DEF Retires, ComposeRefused, ImagesOf, drawVars
<1>3. Moves(set_aside_ \union LetGo(h, frame_start_), {}) /\ tick_' = tick_ + 1
  BY <1>1, <1>2, MissMoves
<1>4. frame_start_' \in 0..(tick_' + 1)
  BY <1>1, <1>3 DEF ComposeRefused
<1> QED
  BY <1>3, <1>4, IdleIInv DEF ComposeRefused, drawVars

\* An import ahead of any frame claims nothing, and takes no claim away.
LEMMA PrepareIInv ==
  ASSUME IInv, NEW h \in Handles, NEW imported \in BOOLEAN, PrepareNow(h, imported)
  PROVE  IInv'
<1>1. /\ Typed /\ Made /\ tick_ \in Nat /\ tick_ + 1 \in Nat
      /\ pc = "idle" /\ wanted = {} /\ got = {}
      /\ frame_start_' = tick_ + 1
  BY DEF IInv, Typed, Holding, PrepareNow
<1>2. PICK aside, due : Moves(aside, due) /\ tick_' = tick_ + 1
  <2>1. CASE Hit(h)
    <3> DEFINE due == Due(set_aside_, retired_)
    <3>1. GetHit(h, 0) /\ Retires(set_aside_, due)
      BY <2>1 DEF PrepareNow, GetMiss, Retires, Due, drawVars
    <3>2. Moves(set_aside_, due) /\ tick_' = tick_ + 1
      BY <1>1, <3>1, HitMoves
    <3> QED
      BY <3>2
  <2>2. CASE ~Hit(h)
    <3> DEFINE aside == set_aside_ \union LetGo(h, tick_ + 1)
               due == Due(aside, retired_)
    <3>1. GetMiss(h, 0, tick_ + 1, imported) /\ Retires(aside, due)
      BY <2>2 DEF PrepareNow, GetHit, Retires, Due, drawVars
    <3>2. Moves(aside, due) /\ tick_' = tick_ + 1
      BY <1>1, <3>1, MissMoves
    <3> QED
      BY <3>2
  <2> QED
    BY <2>1, <2>2
<1> QED
  BY <1>1, <1>2, IdleIInv DEF PrepareNow, drawVars

\* A layer that goes leaves its images to the frames that read them.
LEMMA ForgetIInv ==
  ASSUME IInv, NEW o \in Owners, Forget(o)
  PROVE  IInv'
<1> DEFINE gone == {h \in Cached : entries_[h].owner = o}
           aside == set_aside_ \union {entries_[h] : h \in gone}
           due == Due(aside, retired_)
<1>1. /\ Typed /\ Made /\ pc = "idle" /\ wanted = {} /\ got = {}
  BY DEF IInv, Holding, Forget
<1>2. /\ \A k \in Handles : entries_'[k] = IF k \in gone THEN NoEntry ELSE entries_[k]
      /\ entries_' = [k \in Handles |-> entries_'[k]]
      /\ set_aside_' = aside \ due /\ destroyed' = destroyed \union ImagesOf(due)
      /\ UNCHANGED <<tick_, frame_start_, images, uses, frame_, retired_>>
  BY DEF Forget, drawVars
<1>3. /\ NoEntry \in Entry /\ NoEntry.image = 0
      /\ \A h \in Handles : h \in Cached <=> entries_[h].image # 0
      /\ \A h \in Handles : h \notin Cached => entries_[h] = NoEntry
      /\ Cached \in SUBSET Handles /\ gone \in SUBSET Cached
  BY <1>1, EntryFacts
<1>4. /\ images \in Nat /\ \A h \in Cached : entries_[h] \in Entry /\ entries_[h].image \in 1..images
  BY <1>1, <1>3 DEF Typed, Made
<1> HIDE DEF gone
<1>5. entries_' \in [Handles -> Entry] /\ aside \in SUBSET Entry
  BY <1>1, <1>2, <1>3, <1>4 DEF Typed
<1>6. \A k \in Handles : \/ entries_'[k] = NoEntry
                         \/ /\ k \in Cached /\ entries_'[k].image = entries_[k].image
                            /\ entries_'[k].last_frame >= entries_[k].last_frame
  BY <1>2, <1>3, <1>4 DEF Entry
<1>7. \A k \in Handles : entries_'[k].image # images + 1
  BY <1>2, <1>3, <1>4
<1>8. \A k \in Cached : entries_'[k].image = entries_[k].image \/ entries_[k] \in aside
  BY <1>2, <1>3
<1>9. \A e \in aside : e \in set_aside_ \/ \E k \in Cached : e = entries_[k] /\ entries_'[k].image # e.image
  BY <1>2, <1>3
<1>10. \A k \in Cached' : entries_'[k].last_use <= tick_'
  BY <1>1, <1>2, <1>3 DEF Made, Cached
<1>11. Moves(aside, due)
  BY <1>2, <1>5, <1>6, <1>7, <1>8, <1>9, <1>10 DEF Moves, Due
<1>12. tick_' = tick_ /\ frame_start_' \in 0..(tick_' + 1)
  BY <1>1, <1>2 DEF Typed
<1> QED
  BY <1>1, <1>11, <1>12, IdleIInv DEF Forget, drawVars

\* Retire destroys what no frame in flight may read any more.
LEMMA RetireIInv ==
  ASSUME IInv, Retire
  PROVE  IInv'
<1> DEFINE due == Due(set_aside_, retired_)
<1>1. /\ Typed /\ Made /\ pc = "idle" /\ wanted = {} /\ got = {}
  BY DEF IInv, Holding, Retire
<1>2. /\ set_aside_' = set_aside_ \ due /\ destroyed' = destroyed \union ImagesOf(due)
      /\ UNCHANGED <<entries_, tick_, frame_start_, images, uses, frame_, retired_>>
  BY DEF Retire, drawVars
<1>3. /\ \A h \in Handles : h \notin Cached => entries_[h] = NoEntry
      /\ NoEntry.image = 0 /\ Cached' = Cached /\ Cached \in SUBSET Handles
  BY <1>1, <1>2, EntryFacts DEF Cached
<1>4. \A k \in Handles : entries_[k].image # images + 1 /\ entries_[k].last_frame >= entries_[k].last_frame
  <2> SUFFICES ASSUME NEW k \in Handles
               PROVE  entries_[k].image # images + 1 /\ entries_[k].last_frame >= entries_[k].last_frame
    OBVIOUS
  <2>1. images \in Nat /\ entries_[k].last_frame \in Nat
    BY <1>1 DEF Typed, Entry
  <2> QED
    BY <1>1, <1>3, <2>1 DEF Made
<1>5. Moves(set_aside_, due)
  BY <1>1, <1>2, <1>3, <1>4 DEF Moves, Due, Typed, Made
<1>6. tick_' = tick_ /\ frame_start_' \in 0..(tick_' + 1)
  BY <1>1, <1>2 DEF Typed
<1> QED
  BY <1>1, <1>5, <1>6, IdleIInv DEF Retire, drawVars

\* A drawing submitted reads what it holds, each claimed for it.
LEMMA SubmitIInv ==
  ASSUME IInv, Submit
  PROVE  IInv'
<1>1. /\ Typed /\ Made /\ OnlyOnce /\ Claimed /\ Retired /\ Holding
      /\ pc = "compose" /\ wanted = {} /\ frame_ < MaxFrames
      /\ frame_ \in Nat /\ MaxFrames \in Nat /\ frame_' = frame_ + 1
      /\ frame_' \in 1..MaxFrames
      /\ uses' = [uses EXCEPT ![frame_ + 1] = got] /\ Cached' = Cached
      /\ UNCHANGED <<entries_, set_aside_, destroyed, images, retired_, gpu_done>>
  BY CacheAssumption DEF IInv, Typed, Holding, Submit, cacheVars, Cached
<1>2. /\ uses'[frame_'] = got
      /\ \A f \in 1..frame_ : uses'[f] = uses[f]
      /\ \A f \in 1..frame_' : f = frame_' \/ f \in 1..frame_
  BY <1>1 DEF Typed
<1>3. \A u \in got : u.image \in 1..images
  BY <1>1 DEF Holding, Made
<1>4. Typed'
  <2>1. next_slot_' \in Slots
    BY <1>1, CacheAssumption DEF Typed, Submit, Slots
  <2>2. slots_' \in [Slots -> [busy : BOOLEAN, frame : Nat]]
    BY <1>1 DEF Typed, Submit
  <2>3. uses' \in [1..MaxFrames -> SUBSET Read]
    BY <1>1 DEF Typed
  <2> QED
    BY <1>1, <2>1, <2>2, <2>3 DEF Typed, Submit, cacheVars
<1>5. Made'
  BY <1>1, <1>2, <1>3 DEF Made, Submit, cacheVars
<1>6. OnlyOnce'
  BY <1>1 DEF OnlyOnce
<1>7. Claimed'
  <2> SUFFICES ASSUME NEW f \in 1..frame_', NEW u \in uses'[f]
               PROVE  /\ \A h \in Cached : entries_[h].image = u.image
                                                => entries_[h].last_frame >= f
                      /\ \A e \in set_aside_ : e.image = u.image => e.last_frame >= f
                      /\ u.image \in destroyed => f <= retired_
    BY <1>1 DEF Claimed
  <2>1. CASE f \in 1..frame_
    BY <1>1, <1>2, <2>1 DEF Claimed
  <2>2. CASE f = frame_'
    <3>1. /\ u \in got /\ u.handle \in Cached /\ entries_[u.handle].image = u.image
          /\ entries_[u.handle].last_frame > frame_ /\ entries_[u.handle].last_frame \in Nat
      BY <1>1, <1>2, <2>2 DEF Holding, Typed, Entry, Cached
    <3>2. \A h \in Cached : entries_[h].image = u.image => h = u.handle
      BY <1>1, <3>1 DEF OnlyOnce
    <3>3. (\A e \in set_aside_ : e.image # u.image) /\ u.image \notin destroyed
      BY <1>1, <3>1 DEF OnlyOnce
    <3> QED
      BY <1>1, <2>2, <3>1, <3>2, <3>3
  <2> QED
    BY <1>2, <2>1, <2>2
<1>8. Retired' /\ Holding'
  BY <1>1 DEF Retired, Holding, Submit
<1> QED
  BY <1>4, <1>5, <1>6, <1>7, <1>8 DEF IInv

\* A drawing given up, the GPU and the clients touch no image.
LEMMA OthersIInv ==
  ASSUME IInv,
         ComposeFails \/ GpuFinishes \/ (\E h \in Handles : Reallocate(h)) \/ UNCHANGED vars
  PROVE  IInv'
<1>1. /\ Typed /\ Made /\ OnlyOnce /\ Claimed /\ Retired /\ Holding
      /\ UNCHANGED <<entries_, set_aside_, tick_, frame_start_, slots_, next_slot_, frame_,
                     retired_, images, destroyed, uses>>
      /\ Cached' = Cached
  BY DEF IInv, ComposeFails, GpuFinishes, Reallocate, vars, cacheVars, drawVars, Cached
<1>2. /\ pc' \in {"idle", "compose"} /\ gpu_done' \in 0..frame_ /\ gpu_done <= gpu_done'
      /\ alloc' \in [Handles -> Nat]
      /\ \/ pc' = "idle" /\ wanted' = {} /\ got' = {}
         \/ UNCHANGED <<pc, wanted, got>>
  BY <1>1, CacheAssumption
     DEF Typed, ComposeFails, GpuFinishes, Reallocate, vars, cacheVars, drawVars
<1>3. Typed'
  BY <1>1, <1>2 DEF Typed
<1>4. Made' /\ OnlyOnce' /\ Claimed'
  BY <1>1 DEF Made, OnlyOnce, Claimed
<1>5. Retired'
  BY <1>1, <1>2 DEF Retired, Typed
<1>6. Holding'
  BY <1>1, <1>2 DEF Holding, Protected
<1> QED
  BY <1>3, <1>4, <1>5, <1>6 DEF IInv

LEMMA NextIInv == IInv /\ [Next]_vars => IInv'
  BY BeginsIInv, GetsIInv, RefusedIInv, PrepareIInv, ForgetIInv, RetireIInv, SubmitIInv,
     OthersIInv DEF Next

\* For any set of buffers and any number of frames, an image is in one place,
\* whoever refers to it remembers the last frame that reads it, and a drawing's
\* images stay in the cache while it is put together (ImageCache::Get, Retire).
THEOREM ImagesAgree == Spec => []IInv
  BY InitIInv, NextIInv, PTL DEF Spec

-----------------------------------------------------------------------------
\* No image is destroyed under a frame the GPU has not finished, nor under the
\* drawing being put together (ImageCache::Retire, MakeRoom).
THEOREM ImagesAreHeld == Spec => []ImagesHold
<1>1. IInv => ImagesHold
  <2> SUFFICES ASSUME IInv PROVE ImagesHold
    OBVIOUS
  <2>1. NoneDestroyedInFlight
    <3> SUFFICES ASSUME NEW f \in (gpu_done + 1)..frame_, NEW u \in uses[f],
                        u.image \in destroyed
                 PROVE  FALSE
      BY DEF NoneDestroyedInFlight
    <3>1. f \in 1..frame_ /\ f > gpu_done /\ retired_ <= gpu_done /\ retired_ \in Nat
      BY DEF IInv, Typed, Retired
    <3>2. f <= retired_
      BY <3>1 DEF IInv, Claimed
    <3> QED
      BY <3>1, <3>2 DEF IInv, Typed
  <2>2. FrameKeepsItsImages
    BY DEF IInv, Holding, OnlyOnce, FrameKeepsItsImages
  <2> QED
    BY <2>1, <2>2 DEF ImagesHold
<1> QED
  BY <1>1, ImagesAgree, PTL

\* What a step hands to a drawing is the image of the allocation asked for.
LEMMA HandsOutNoneStale ==
  ASSUME IInv, [Next]_vars
  PROVE  NoStaleImage
<1> SUFFICES ASSUME NEW u \in got' \ got
             PROVE  \E h \in Handles :
                        entries_'[h].image = u.image /\ entries_'[h].alloc = alloc[u.handle]
  BY DEF NoStaleImage
<1>1. PICK h \in Handles : ComposeGets(h)
  BY DEF Next, vars, ComposeBegins, ComposeRefused, Reallocate, PrepareNow, ComposeFails,
         Submit, Retire, GpuFinishes, Forget
<1>2. /\ Typed /\ Made /\ frame_ + 1 \in Nat /\ frame_start_ \in Nat
      /\ u.handle = h /\ u.image = entries_'[h].image
      /\ UNCHANGED <<frame_, retired_, destroyed, uses>>
  BY <1>1, CacheAssumption DEF IInv, Typed, ComposeGets, drawVars
<1>3. entries_'[h].alloc = alloc[h]
  <2>1. CASE GetHit(h, frame_ + 1) /\ UNCHANGED set_aside_
    <3>1. Retires(set_aside_, {})
      BY <1>2, <2>1 DEF Retires, ImagesOf
    <3> QED
      BY <1>2, <2>1, <3>1, HitMoves
  <2>2. CASE /\ GetMiss(h, frame_ + 1, frame_start_, TRUE)
             /\ set_aside_' = set_aside_ \union LetGo(h, frame_start_)
    <3>1. Retires(set_aside_ \union LetGo(h, frame_start_), {})
      BY <1>2, <2>2 DEF Retires, ImagesOf
    <3>2. entries_'[h] = [image |-> images + 1, alloc |-> alloc[h], last_frame |-> frame_ + 1,
                          last_use |-> tick_ + 1, owner |-> OwnerOf[h]]
      BY <1>2, <2>2, <3>1, MissMoves
    <3> QED
      BY <3>2
  <2> QED
    BY <1>1, <2>1, <2>2 DEF ComposeGets
<1> QED
  BY <1>2, <1>3

\* What an import leaves in the cache: what stayed, and the new image.
LEMMA ImportKeepsBudget ==
  ASSUME IInv, NEW h \in Handles, NEW frame \in Nat, NEW start \in 0..(tick_ + 1),
         GetMiss(h, frame, start, TRUE), Cardinality(Cached') > MostEntries
  PROVE  \A k \in Cached' : entries_'[k].last_use >= start
<1> DEFINE stay == Stays(h, start)
<1>1. /\ Typed /\ Made /\ start \in Nat /\ tick_ \in Nat /\ MostEntries \in Nat
  BY CacheAssumption DEF IInv, Typed
<1>2. /\ stay \in SUBSET (Cached \ {h})
      /\ \/ Cardinality(stay) + 1 <= MostEntries
         \/ \A k \in stay : Protected(k, start)
  BY <1>1, RoomMade, EntryFacts DEF Stays
<1>3. /\ IsFiniteSet(stay) /\ Cardinality(stay) \in Nat /\ Cached \in SUBSET Handles
  BY <1>1, <1>2, EntryFacts, FS_Subset, FS_CardinalityType
<1>4. /\ \A k \in stay : k # h /\ k \in Handles /\ entries_'[k] = entries_[k]
      /\ entries_'[h].image = images + 1 /\ entries_'[h].last_use = tick_ + 1
      /\ \A k \in Handles : k # h /\ k \notin stay => entries_'[k] = NoEntry
  BY <1>2, <1>3 DEF GetMiss
<1> HIDE DEF stay
<1>5. Cached' = stay \union {h}
  <2>1. \A k \in stay : entries_'[k] # NoEntry
    BY <1>2, <1>4 DEF Cached
  <2>2. entries_'[h] # NoEntry
    BY <1>1, <1>4 DEF NoEntry, Typed
  <2> QED
    BY <1>4, <2>1, <2>2 DEF Cached
<1>6. Cardinality(Cached') = Cardinality(stay) + 1
  BY <1>3, <1>4, <1>5, FS_AddElement
<1>7. \A k \in stay : Protected(k, start)
  BY <1>1, <1>2, <1>3, <1>6
<1> QED
  BY <1>1, <1>4, <1>5, <1>7 DEF Protected

\* No step hands a drawing an image of another allocation than the one asked for,
\* and an import leaves the cache within its budget or with nothing in it but
\* what the drawing asked for (ImageCache::Get, MakeRoom).
THEOREM CacheStaysHonest == Spec => CacheIsHonest
<1>1. ASSUME IInv, [Next]_vars, images' # images, Cardinality(Cached') > MostEntries
      PROVE  \A h \in Cached' : entries_'[h].last_use >= frame_start_'
  <2>1. CASE \E h \in Handles : ComposeGets(h)
    <3>1. PICK h \in Handles : GetMiss(h, frame_ + 1, frame_start_, TRUE)
      BY <1>1, <2>1 DEF ComposeGets, GetHit
    <3>2. frame_ + 1 \in Nat /\ frame_start_ \in 0..(tick_ + 1) /\ frame_start_' = frame_start_
      BY <1>1, <2>1, CacheAssumption DEF IInv, Typed, ComposeGets
    <3> QED
      BY <1>1, <3>1, <3>2, ImportKeepsBudget
  <2>2. CASE \E h \in Handles, imported \in BOOLEAN : PrepareNow(h, imported)
    <3>1. PICK h \in Handles : GetMiss(h, 0, tick_ + 1, TRUE)
      BY <1>1, <2>2 DEF PrepareNow, GetHit, GetMiss
    <3>2. tick_ + 1 \in 0..(tick_ + 1) /\ frame_start_' = tick_ + 1
      BY <1>1, <2>2 DEF IInv, Typed, PrepareNow
    <3> QED
      BY <1>1, <3>1, <3>2, ImportKeepsBudget
  <2> QED
    BY <1>1, <2>1, <2>2
       DEF Next, vars, ComposeBegins, ComposeRefused, GetMiss, Reallocate, ComposeFails,
           Submit, Retire, GpuFinishes, Forget
<1>2. IInv /\ [Next]_vars => [NoStaleImage /\ BudgetKept]_vars
  BY <1>1, HandsOutNoneStale DEF BudgetKept
<1> QED
  BY <1>2, ImagesAgree, PTL DEF Spec, CacheIsHonest

=============================================================================
