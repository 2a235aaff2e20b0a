-------------------------- MODULE MCKbHandleMaster --------------------------
(***************************************************************************)
(* Two halves of two keys.  Left: a letter with a second code on layer 1,  *)
(* and FN.  Right: a shift key and the key of layer 1.  A word holds one   *)
(* key, so the copy of the slave's bitmap can be torn.                     *)
(***************************************************************************)
EXTENDS KbHandleMaster

CONSTANTS A, A1, Shift, Layer1

MCIndex == 0..3
MCOrdinary == {A, A1}
MCModifiers == {Shift}
MCLayers == {Layer1}

Rule(layers, code) == [layer_eq |-> layers, out_code |-> code]

MCRules == [i \in MCIndex |->
    CASE i = 0 -> <<Rule({Layer1}, A1), Rule({}, A)>>
      [] i = 1 -> <<Rule({}, KeyFn)>>
      [] i = 2 -> <<Rule({}, Shift)>>
      [] i = 3 -> <<Rule({}, Layer1)>>]

MCKeystrokes == {<<0>>}
MCBitmaps == SUBSET {0, 1}
=============================================================================
