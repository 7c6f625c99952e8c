---------------------------- MODULE MergePathMC ----------------------------
\* Small instances of MergePath: groups of one or two members.
EXTENDS MergePath

CONSTANTS frame, vic

MCThreads == {frame, vic}

Member(serial, source, generation, place) ==
    [serial |-> serial, source |-> source, generation |-> generation,
     place |-> place, blend |-> 0, transform |-> 0]

Turned(m, t) == [m EXCEPT !.transform = t]

\* One layer over its first frames in one buffer.
OneLayer == {[size |-> 1, members |-> <<Member(1, 1, n, 0)>>] : n \in 1..2}

\* Two frames of a layer, and two members turned differently.
MixedTurn ==
    OneLayer \union
    {[size |-> 1, members |-> <<Turned(Member(1, 1, 1, 0), 4), Member(2, 3, 1, 1)>>]}
=============================================================================
