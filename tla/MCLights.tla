------------------------------ MODULE MCLights ------------------------------
(***************************************************************************)
(* Three modes, so that the next and the previous one differ, two levels   *)
(* of brightness, and images in flash that may name a fourth mode.         *)
(***************************************************************************)
EXTENDS Lights

MCFrame == 0..2
MCBrightness == {1, 100}
MCSavedModes == 0..3
=============================================================================
