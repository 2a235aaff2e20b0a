---------------------------- MODULE FnKeystrokes ----------------------------
(***************************************************************************)
(* The key engine with the FN keystrokes a board registers: keys go down   *)
(* and up in any order, a few at a time, and a keystroke whose indices are *)
(* those of the FN buffer runs its callback.  Both halves' keys reach the  *)
(* engine of the master by their index in the default keymap.              *)
(***************************************************************************)
EXTENDS KbEngine

CONSTANTS
    Registered,  \* the board's keystrokes: [cb, keys, code]
    FactoryReset,\* cb of bt_connect_factory_reset
    HeldMax      \* bound: keys held at a time

VARIABLE held    \* keys that are down

fnVars == <<engineVars, held>>

FnInit == EngineInit /\ held = {}

KeyDown ==
    /\ Cardinality(held) < HeldMax
    /\ \E i \in Index \ held : OnPress(i) /\ held' = held \cup {i}

KeyUp == \E i \in held : OnRelease(i) /\ held' = held \ {i}

FnNext == KeyDown \/ KeyUp

FnSpec == FnInit /\ [][FnNext]_fnVars

-----------------------------------------------------------------------------
(***************************************************************************)
(* A factory reset, which unpairs every host, runs only with FN and a key  *)
(* that a line of the keystroke file names for it: by its code, or by the  *)
(* comment behind its index.                                               *)
(***************************************************************************)
BaseCode(i) == Last(Rules[i]).out_code

FactoryResetMeant ==
    \A ks \in Registered :
        ks.keys \in fired /\ ks.cb = FactoryReset =>
            \E named \in Registered :
                /\ named.cb = FactoryReset
                /\ BaseCode(ks.keys[1]) = named.code
=============================================================================
