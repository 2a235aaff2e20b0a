--------------------------- MODULE MCFnKeystrokes ---------------------------
(***************************************************************************)
(* The choco board as it is configured, two keys held at a time.           *)
(***************************************************************************)
EXTENDS FnKeystrokes, BoardKeymaps

MCModifiers == {"LEFTCONTROL", "LEFTSHIFT", "RIGHTALT", "RIGHTGUI"}
MCOrdinary == UNION {Codes(ChocoKeymap[i]) : i \in DOMAIN ChocoKeymap}
                  \ (MCModifiers \cup LayerCode \cup {"FN"})
MCIndex == DOMAIN ChocoKeymap
MCKeystrokes == {ks.keys : ks \in ChocoKeystrokes}
=============================================================================
