--------------------------- MODULE DisplayContract ---------------------------
(***************************************************************************)
(* What a composer promises its client: the panel shows nothing but whole  *)
(* pictures of scenes the client described, each of them the scene as it   *)
(* was at the moment the panel took it.  How it gets there -- plans,       *)
(* windows, a target the client draws, a GPU -- is not part of it.         *)
(***************************************************************************)
VARIABLES scene,   \* the picture the client's layers describe, pixel by pixel
          panel    \* the picture the panel holds

\* The client changes what it describes; the panel keeps its picture.
Describe == panel' = panel

\* The panel takes the scene, which does not move under it.
Show == panel' = scene /\ scene' = scene

Spec == [][Describe \/ Show]_<<scene, panel>>
=============================================================================
