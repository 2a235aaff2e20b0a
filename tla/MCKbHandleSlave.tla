-------------------------- MODULE MCKbHandleSlave --------------------------
(***************************************************************************)
(* A slave half of three keys: a letter, which is a keystroke under FN,    *)
(* and two FN keys, the second in a bitmap word of its own.                *)
(***************************************************************************)
EXTENDS KbHandleSlave

CONSTANT A

MCIndex == 0..2

Rule(code) == [layer_eq |-> {}, out_code |-> code]

MCRules == [i \in MCIndex |-> IF i = 0 THEN <<Rule(A)>> ELSE <<Rule(KeyFn)>>]

MCOrdinary == {A}
MCNoCodes == {}
MCKeystrokes == {<<0>>}
MCBitmaps == SUBSET MCIndex
MCRaceModes == BOOLEAN
=============================================================================
