------------------------------- MODULE HeadMC -------------------------------
(* Two windows and three plans over them, two sprites, two places of which one
   is past sixteen bits.                                                    *)
EXTENDS Head, TLC

MCWindows == {1, 2}
MCFrames  == {(1 :> "a" @@ 2 :> "off"), (1 :> "a" @@ 2 :> "b"),
              (1 :> "off" @@ 2 :> "a")}
MCRefusals == [a \in Aspects |-> IF a = "pointer" THEN 1 ELSE 2]
MCModeset == 1 :> "modeset" @@ 2 :> "off"
=============================================================================
