---------------------------- MODULE MCMasterKeys ----------------------------
(***************************************************************************)
(* A right-hand master with three keys of its own in two words, a letter,  *)
(* FN and another letter, and two on the slave, a shift key and one that   *)
(* has no rule, over a table of three entries, an FN buffer of two and a   *)
(* report of one slot.                                                     *)
(***************************************************************************)
EXTENDS KbHandleMaster, BoardKeymaps

CONSTANTS A, B, Shift

MCIndex == 0..5
MCOrdinary == {A, B}
MCModifiers == {Shift}

Rule(code) == <<[layer_eq |-> {}, out_code |-> code]>>

MCRules == [i \in MCIndex |->
    CASE i = 0 -> Rule(Shift)   \* slave
      [] i = 3 -> Rule(A)       \* master
      [] i = 4 -> Rule(KeyFn)
      [] i = 5 -> Rule(B)
      [] OTHER -> <<>>]

MCKeystrokes == {<<3>>, <<3, 5>>}
MCMasterBitmaps == {{}, {0}, {1}, {0, 1}, {0, 2}, {0, 1, 2}}
MCSlaveBitmaps == {{}, {0, 1}}
=============================================================================
