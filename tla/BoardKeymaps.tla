---------------------------- MODULE BoardKeymaps ----------------------------
(***************************************************************************)
(* What the two boards configure: their default keymaps (mappings/*.h) and *)
(* FN keystrokes (keystrokes/*.h).  A key is named as in these files, a    *)
(* code of kb_keys.h by its name without KEY_.  Beyond layer 1 neither     *)
(* board has a layer, so a key has one rule or two.                        *)
(***************************************************************************)
EXTENDS Naturals, Sequences, TLC

LayerCode == {"LAYER1", "LAYER2", "LAYER3"}

RuleFor(layers, code) == [layer_eq |-> layers, out_code |-> code]

Key(code) == <<RuleFor({}, code)>>
Key2(code1, code) == <<RuleFor({"LAYER1"}, code1), RuleFor({}, code)>>

ChocoLeft == [
    KEY00 |-> Key("FN"), KEY01 |-> Key("ESCAPE"), KEY02 |-> Key("CAPSLOCK"),
    KEY10 |-> Key2("1_EXCLAMATION", "Q"),
    KEY11 |-> Key2("GRAVEACCENT_TILDE", "A"), KEY12 |-> Key("Z"),
    KEY20 |-> Key2("2_ATSIGN", "W"),
    KEY21 |-> Key2("BACKSLASH_VERTICALBAR", "S"), KEY22 |-> Key("X"),
    KEY30 |-> Key2("3_NUMBERSIGN", "E"),
    KEY31 |-> Key2("SEMICOLON_COLON", "D"), KEY32 |-> Key("C"),
    KEY40 |-> Key2("4_DOLLARSIGN", "R"),
    KEY41 |-> Key2("SQBRACKETL_CURBRACEL", "F"),
    KEY42 |-> Key2("MINUS_UNDERSCORE", "V"),
    KEY50 |-> Key2("5_PERCENTSIGN", "T"),
    KEY51 |-> Key2("SQBRACKETR_CURBRACER", "G"), KEY52 |-> Key("B"),
    KEY60 |-> Key("LAYER1"), KEY61 |-> Key("LEFTSHIFT"),
    KEY62 |-> Key("SPACEBAR"), KEY63 |-> Key("TAB")]

ChocoRight == [
    KEY70 |-> Key("BACKSPACE"), KEY71 |-> Key("ENTER"),
    KEY72 |-> Key("LAYER1"), KEY73 |-> Key("LEFTCONTROL"),
    KEY80 |-> Key2("6_CARET", "Y"), KEY81 |-> Key2("LEFTARROW", "H"),
    KEY82 |-> Key("N"), KEY90 |-> Key2("7_AMPERSAND", "U"),
    KEY91 |-> Key2("DOWNARROW", "J"), KEY92 |-> Key2("EQUALS_PLUS", "M"),
    KEY100 |-> Key2("8_STAR", "I"), KEY101 |-> Key2("UPARROW", "K"),
    KEY102 |-> Key("COMMA_LESSTHAN"), KEY110 |-> Key2("9_LPAREN", "O"),
    KEY111 |-> Key2("RIGHTARROW", "L"), KEY112 |-> Key("DOT_GREATERTHAN"),
    KEY120 |-> Key2("0_RPAREN", "P"), KEY121 |-> Key("APOSTROPHE_QUOTES"),
    KEY122 |-> Key("SLASH_QUESTIONMARK"), KEY130 |-> Key("FN"),
    KEY131 |-> Key("RIGHTALT"), KEY132 |-> Key("RIGHTGUI")]

ChocoOrder == <<
    "KEY50", "KEY51", "KEY52", "KEY63", "KEY62", "KEY61", "KEY60", "KEY40",
    "KEY41", "KEY42", "KEY30", "KEY31", "KEY32", "KEY20", "KEY21", "KEY22",
    "KEY10", "KEY11", "KEY12", "KEY00", "KEY01", "KEY02", "KEY80", "KEY81",
    "KEY82", "KEY70", "KEY71", "KEY72", "KEY73", "KEY90", "KEY91", "KEY92",
    "KEY100", "KEY101", "KEY102", "KEY110", "KEY111", "KEY112", "KEY120",
    "KEY121", "KEY122", "KEY130", "KEY131", "KEY132">>

-----------------------------------------------------------------------------
DactylLeft == [
    KEY00 |-> Key2("F11", "EQUALS_PLUS"), KEY01 |-> Key("TAB"),
    KEY02 |-> Key("CAPSLOCK"), KEY03 |-> Key("LEFTSHIFT"),
    KEY10 |-> Key2("F1", "1_EXCLAMATION"), KEY11 |-> Key("Q"),
    KEY12 |-> Key("A"), KEY13 |-> Key("Z"),
    KEY14 |-> Key("GRAVEACCENT_TILDE"), KEY20 |-> Key2("F2", "2_ATSIGN"),
    KEY21 |-> Key("W"), KEY22 |-> Key("S"), KEY23 |-> Key("X"),
    KEY24 |-> Key("FN"), KEY30 |-> Key2("F3", "3_NUMBERSIGN"),
    KEY31 |-> Key("E"), KEY32 |-> Key("D"), KEY33 |-> Key("C"),
    KEY34 |-> Key("LEFTARROW"), KEY40 |-> Key2("F4", "4_DOLLARSIGN"),
    KEY41 |-> Key("R"), KEY42 |-> Key("F"), KEY43 |-> Key("V"),
    KEY44 |-> Key("RIGHTARROW"), KEY50 |-> Key2("F5", "5_PERCENTSIGN"),
    KEY51 |-> Key("T"), KEY52 |-> Key("G"), KEY53 |-> Key("B"),
    KEY54 |-> Key("SPACEBAR"), KEY60 |-> Key("ESCAPE"),
    KEY61 |-> Key("BACKSPACE"), KEY70 |-> Key("LEFTCOMMAND"),
    KEY71 |-> Key("LEFTOPTION"), KEY72 |-> Key("LEFTCONTROL")]

DactylRight == [
    KEY80 |-> Key("RIGHTCOMMAND"), KEY81 |-> Key("RIGHTOPTION"),
    KEY82 |-> Key("RIGHTCONTROL"), KEY90 |-> Key("LAYER1"),
    KEY91 |-> Key("RETURN"), KEY100 |-> Key2("F6", "6_CARET"),
    KEY101 |-> Key("Y"), KEY102 |-> Key("H"), KEY103 |-> Key("N"),
    KEY104 |-> Key("SPACEBAR"), KEY110 |-> Key2("F7", "7_AMPERSAND"),
    KEY111 |-> Key("U"), KEY112 |-> Key("J"), KEY113 |-> Key("M"),
    KEY114 |-> Key("DOWNARROW"), KEY120 |-> Key2("F8", "8_STAR"),
    KEY121 |-> Key("I"), KEY122 |-> Key("K"),
    KEY123 |-> Key("COMMA_LESSTHAN"), KEY124 |-> Key("UPARROW"),
    KEY130 |-> Key2("F9", "9_LPAREN"), KEY131 |-> Key("O"),
    KEY132 |-> Key("L"), KEY133 |-> Key("DOT_GREATERTHAN"),
    KEY134 |-> Key("SQBRACKETL_CURBRACEL"),
    KEY140 |-> Key2("F10", "0_RPAREN"), KEY141 |-> Key("P"),
    KEY142 |-> Key("SEMICOLON_COLON"), KEY143 |-> Key("SLASH_QUESTIONMARK"),
    KEY144 |-> Key("SQBRACKETR_CURBRACER"),
    KEY150 |-> Key2("F12", "MINUS_UNDERSCORE"),
    KEY151 |-> Key("BACKSLASH_VERTICALBAR"),
    KEY152 |-> Key("APOSTROPHE_QUOTES"), KEY153 |-> Key("RIGHTSHIFT")]

\* NONE is a place of the scan without a key.
DactylOrder == <<
    "KEY70", "KEY71", "KEY72", "KEY61", "KEY54", "KEY50", "KEY51", "KEY52",
    "KEY53", "NONE", "KEY60", "KEY40", "KEY41", "KEY42", "KEY43", "KEY44",
    "KEY30", "KEY31", "KEY32", "KEY33", "KEY34", "KEY20", "KEY21", "KEY22",
    "KEY23", "KEY24", "KEY10", "KEY11", "KEY12", "KEY13", "KEY14", "KEY00",
    "KEY01", "KEY02", "KEY03", "KEY80", "KEY81", "KEY82", "KEY91", "KEY104",
    "KEY100", "KEY101", "KEY102", "KEY103", "NONE", "KEY90", "KEY110",
    "KEY111", "KEY112", "KEY113", "KEY114", "KEY120", "KEY121", "KEY122",
    "KEY123", "KEY124", "KEY130", "KEY131", "KEY132", "KEY133", "KEY134",
    "KEY140", "KEY141", "KEY142", "KEY143", "KEY144", "KEY150", "KEY151",
    "KEY152", "KEY153">>

-----------------------------------------------------------------------------
\* DEFAULT_KEYMAP: index -> rules
Keymap(left, right, order) ==
    [i \in 0..(Len(order) - 1) |->
        IF order[i + 1] = "NONE" THEN <<>> ELSE (left @@ right)[order[i + 1]]]

ChocoKeymap == Keymap(ChocoLeft, ChocoRight, ChocoOrder)
DactylKeymap == Keymap(DactylLeft, DactylRight, DactylOrder)

(***************************************************************************)
(* The FN keystrokes.  Their keys are one index of the keymap each; most   *)
(* lines write it as a key code, whose value is taken for the index.       *)
(***************************************************************************)
Letters == <<"A", "B", "C", "D", "E", "F", "G", "H", "I", "J", "K", "L", "M",
             "N", "O", "P", "Q", "R", "S", "T", "U", "V", "W", "X", "Y", "Z",
             "1_EXCLAMATION", "2_ATSIGN", "3_NUMBERSIGN", "4_DOLLARSIGN",
             "5_PERCENTSIGN", "6_CARET", "7_AMPERSAND", "8_STAR", "9_LPAREN",
             "0_RPAREN">>

\* kb_keys.h
CodeValue(code) ==
    CASE code = "BACKSLASH_VERTICALBAR" -> 49
      [] code = "SLASH_QUESTIONMARK" -> 56
      [] OTHER -> 3 + CHOOSE n \in 1..Len(Letters) : Letters[n] = code

\* A line with an index; code is the key its comment names.
At(cb, index, code) == [cb |-> cb, keys |-> <<index>>, code |-> code]

\* A line with a key code.
On(cb, code) == At(cb, CodeValue(code), code)

ChocoKeystrokes == {
    At("factory_reset", 17, "A"), At("start_advertising", 14, "S"),
    On("factory_reset", "H"), On("start_advertising", "J"),
    On("next_mode", "B"), On("prev_mode", "V"), On("set_brightness_min", "Q"),
    On("set_brightness_low", "W"), On("set_brightness_mid", "E"),
    On("set_brightness_high", "R"), On("set_brightness_max", "T"),
    On("toggle", "Z"), On("next_mode", "M"), On("prev_mode", "N"),
    On("set_brightness_min", "Y"), On("set_brightness_low", "U"),
    On("set_brightness_mid", "I"), On("set_brightness_high", "O"),
    On("set_brightness_max", "P"), On("toggle", "L")}

DactylKeystrokes == {
    On("factory_reset", "R"), On("start_advertising", "A"),
    On("factory_reset", "BACKSLASH_VERTICALBAR"),
    On("start_advertising", "P"), On("next_mode", "B"), On("prev_mode", "V"),
    On("set_brightness_min", "1_EXCLAMATION"),
    On("set_brightness_low", "2_ATSIGN"),
    On("set_brightness_mid", "3_NUMBERSIGN"),
    On("set_brightness_high", "4_DOLLARSIGN"),
    On("set_brightness_max", "5_PERCENTSIGN"), On("toggle", "Z"),
    On("next_mode", "N"), On("prev_mode", "M"),
    On("set_brightness_min", "6_CARET"),
    On("set_brightness_low", "7_AMPERSAND"),
    On("set_brightness_mid", "8_STAR"), On("set_brightness_high", "9_LPAREN"),
    On("set_brightness_max", "0_RPAREN"), On("toggle", "SLASH_QUESTIONMARK")}

-----------------------------------------------------------------------------
Codes(rules) == {rules[n].out_code : n \in 1..Len(rules)}

(***************************************************************************)
(* What the key engine's theorems assume of a keymap holds of both boards':*)
(* a key is FN, or one layer key, or neither, on all layers alike.         *)
(***************************************************************************)
ASSUME BoardsStable ==
    \A keymap \in {ChocoKeymap, DactylKeymap} : \A i \in DOMAIN keymap :
        \/ Codes(keymap[i]) \cap (LayerCode \cup {"FN"}) = {}
        \/ \E c \in LayerCode \cup {"FN"} : Codes(keymap[i]) = {c}
=============================================================================
