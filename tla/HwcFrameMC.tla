----------------------------- MODULE HwcFrameMC -----------------------------
(* Scenes for HwcFrame on a panel two pixels wide. *)
EXTENDS HwcFrame

Layer(type, z, left, right, blend, effects) ==
    [type |-> type, z |-> z, frame |-> Rect(left, 0, right, 1),
     crop |-> Rect(0, 0, right - left, 1), blend |-> blend, effects |-> effects]

\* Three layers that let each other through, the last over half; a colour below
\* a picture with a pointer on top.
MCScenes ==
    {<<Layer("Device", 1, 0, 2, "premult", "none"),
       Layer("Device", 3, 0, 2, "premult", "none"),
       Layer("Device", 5, 1, 2, "premult", "none")>>,
     <<Layer("SolidColor", 1, 0, 2, "none", "none"),
       Layer("Device", 3, 0, 1, "none", "none"),
       Layer("Cursor", 5, 1, 2, "premult", "none")>>}
MCSetups == {<<2, FALSE>>, <<3, FALSE>>, <<2, TRUE>>}
MCKinds == {"blend", "alpha", "flip", "frame", "crop", "z", "effects", "type", "visible",
            "shape", "buffer", "life", "marks", "time"}
=============================================================================
