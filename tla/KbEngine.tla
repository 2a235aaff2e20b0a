------------------------------ MODULE KbEngine ------------------------------
(***************************************************************************)
(* The key engine of lib/keyboard/kb_handle/kb_handle_common.c: what one   *)
(* press or release callback does to the pressed-key table, the FN buffer, *)
(* the FN flag and the layer bits, and which table entries a HID report    *)
(* carries.  It is the part the master, slave and normal variants of       *)
(* kb_handle() share; the variants' modules extend this one.               *)
(*                                                                         *)
(* A key is known to the engine by its keymap index, a key code by the     *)
(* range of kb_keys.h it falls in: an ordinary code, one of the eight      *)
(* modifiers, KEY_FN, or KEY_LAYER1..3.  layer_modifiers is the set of     *)
(* layer codes whose bit is set.                                           *)
(***************************************************************************)
EXTENDS Naturals, Sequences, FiniteSets, SequencesExt

CONSTANTS
    Index,          \* keymap indices of all keys the engine is told about
    OrdinaryCodes,  \* codes below KEY_LEFTCONTROL (KEY_NOKEY included)
    ModifierCodes,  \* KEY_LEFTCONTROL .. KEY_RIGHTGUI
    KeyFn,          \* KEY_FN
    LayerCodes,     \* KEY_LAYER1 .. KEY_LAYER3
    Rules,          \* keymap: index -> sequence of [layer_eq, out_code]
    Keystrokes,     \* the registered FN keystrokes, each a sequence of indices
    FnMax,          \* CONFIG_KB_FN_KEYSTROKE_MAX_KEYS
    PressedMax,     \* PRESSED_KEYS_MAX_COUNT
    ReportSlots     \* key slots of the boot report (6)

NormalCodes == OrdinaryCodes \cup ModifierCodes       \* code < KEY_FN
KeyCodes == NormalCodes \cup {KeyFn} \cup LayerCodes

MapRule == [layer_eq : SUBSET LayerCodes, out_code : KeyCodes]

ASSUME EngineConstants ==
    /\ FnMax \in Nat \ {0}
    /\ PressedMax \in Nat \ {0}
    /\ ReportSlots \in Nat \ {0}
    /\ KeyFn \notin NormalCodes
    /\ KeyFn \notin LayerCodes
    /\ LayerCodes \cap NormalCodes = {}
    /\ OrdinaryCodes \cap ModifierCodes = {}
    /\ Rules \in [Index -> Seq(MapRule)]
    /\ Keystrokes \subseteq Seq(Index)

VARIABLES
    pressed_keys,     \* table of [index, code], oldest first
    fn_buff,          \* indices pressed under FN, oldest first
    fn_pressed,
    layer_modifiers,  \* layer bits that are set
    fired             \* keystrokes whose callback the last press ran

engineVars == <<pressed_keys, fn_buff, fn_pressed, layer_modifiers, fired>>

PressedKey == [index : Index, code : NormalCodes]

EngineTypeOK ==
    /\ pressed_keys \in Seq(PressedKey)
    /\ Len(pressed_keys) <= PressedMax
    /\ fn_buff \in Seq(Index)
    /\ Len(fn_buff) <= FnMax
    /\ fn_pressed \in BOOLEAN
    /\ layer_modifiers \in SUBSET LayerCodes
    /\ fired \in SUBSET Keystrokes

EngineInit ==
    /\ pressed_keys = <<>>
    /\ fn_buff = <<>>
    /\ fn_pressed = FALSE
    /\ layer_modifiers = {}
    /\ fired = {}

-----------------------------------------------------------------------------
(***************************************************************************)
(* kb_mapping_translate_key: key i becomes the code of the first rule for  *)
(* exactly the current layer bits, or of its last rule when none is; a key *)
(* without rules is not translated.                                        *)
(***************************************************************************)
RuleApplies(i, n) ==
    Rules[i][n].layer_eq = layer_modifiers \/ n = Len(Rules[i])

TranslatesTo(i, code) ==
    \E n \in 1..Len(Rules[i]) :
        /\ RuleApplies(i, n)
        /\ \A m \in 1..(n - 1) : ~ RuleApplies(i, m)
        /\ Rules[i][n].out_code = code

Untranslated(i) == Len(Rules[i]) = 0

\* The codes key i can ever become.
CodesOf(i) == {Rules[i][n].out_code : n \in 1..Len(Rules[i])}

\* In both default keymaps a key is a normal key, or KEY_FN, or one layer
\* key, on all layers alike.
ASSUME StableKeymap ==
    \A i \in Index : \/ CodesOf(i) \subseteq NormalCodes
                     \/ \E c \in {KeyFn} \cup LayerCodes : CodesOf(i) = {c}

fn_add(i) ==
    fn_buff' = IF Len(fn_buff) < FnMax THEN Append(fn_buff, i) ELSE fn_buff

\* Mutant: a key is never dropped from the FN buffer.
FnRemoveNothing(i) == UNCHANGED fn_buff

\* Drops the oldest entry of the key, if there is one.
fn_remove(i) ==
    \/ \E n \in 1..Len(fn_buff) :
          /\ fn_buff[n] = i
          /\ \A m \in 1..(n - 1) : fn_buff[m] # i
          /\ fn_buff' = RemoveAt(fn_buff, n)
    \/ /\ \A n \in 1..Len(fn_buff) : fn_buff[n] # i
       /\ UNCHANGED fn_buff

\* The callbacks run are those of the keystrokes equal to the whole buffer.
process_fn_buff == fired' = {ks \in Keystrokes : ks = fn_buff'}

\* Mutant: no check of the table's size.
AddUnchecked(key) == pressed_keys' = Append(pressed_keys, key)

add_normal_key(key) ==
    pressed_keys' = IF Len(pressed_keys) < PressedMax
                    THEN Append(pressed_keys, key) ELSE pressed_keys

\* Mutant: the entry is looked up by the key's present code.
RemoveByCode(i) ==
    \/ \E n \in 1..Len(pressed_keys) :
          /\ TranslatesTo(i, pressed_keys[n].code)
          /\ \A m \in 1..(n - 1) : ~ TranslatesTo(i, pressed_keys[m].code)
          /\ pressed_keys' = RemoveAt(pressed_keys, n)
    \/ /\ \A n \in 1..Len(pressed_keys) : ~ TranslatesTo(i, pressed_keys[n].code)
       /\ UNCHANGED pressed_keys

\* Mutant: the search ends before the newest entry.
RemoveButLast(i) ==
    \/ \E n \in 1..(Len(pressed_keys) - 1) :
          /\ pressed_keys[n].index = i
          /\ \A m \in 1..(n - 1) : pressed_keys[m].index # i
          /\ pressed_keys' = RemoveAt(pressed_keys, n)
    \/ /\ \A n \in 1..(Len(pressed_keys) - 1) : pressed_keys[n].index # i
       /\ UNCHANGED pressed_keys

\* Mutant: the last entry is moved into the hole.
RemoveBySwap(i) ==
    \/ \E n \in 1..Len(pressed_keys) :
          /\ pressed_keys[n].index = i
          /\ \A m \in 1..(n - 1) : pressed_keys[m].index # i
          /\ pressed_keys' = SubSeq([pressed_keys EXCEPT ![n] = Last(pressed_keys)],
                                    1, Len(pressed_keys) - 1)
    \/ /\ \A n \in 1..Len(pressed_keys) : pressed_keys[n].index # i
       /\ UNCHANGED pressed_keys

remove_normal_key(i) ==
    \/ \E n \in 1..Len(pressed_keys) :
          /\ pressed_keys[n].index = i
          /\ \A m \in 1..(n - 1) : pressed_keys[m].index # i
          /\ pressed_keys' = RemoveAt(pressed_keys, n)
    \/ /\ \A n \in 1..Len(pressed_keys) : pressed_keys[n].index # i
       /\ UNCHANGED pressed_keys

-----------------------------------------------------------------------------
(***************************************************************************)
(* on_press_default.                                                       *)
(***************************************************************************)
PressUntranslated(i) ==
    /\ Untranslated(i)
    /\ fired' = {}
    /\ UNCHANGED <<pressed_keys, fn_buff, fn_pressed, layer_modifiers>>

PressUnderFn(i) ==
    /\ \E code \in NormalCodes : TranslatesTo(i, code)
    /\ fn_pressed
    /\ fn_add(i)
    /\ process_fn_buff
    /\ UNCHANGED <<pressed_keys, fn_pressed, layer_modifiers>>

PressNormal(i) ==
    /\ \E code \in NormalCodes :
          /\ TranslatesTo(i, code)
          /\ add_normal_key([index |-> i, code |-> code])
    /\ ~ fn_pressed
    /\ fired' = {}
    /\ UNCHANGED <<fn_buff, fn_pressed, layer_modifiers>>

PressFn(i) ==
    /\ TranslatesTo(i, KeyFn)
    /\ fn_pressed' = TRUE
    /\ fired' = {}
    /\ UNCHANGED <<pressed_keys, fn_buff, layer_modifiers>>

PressLayer(i) ==
    /\ \E code \in LayerCodes :
          /\ TranslatesTo(i, code)
          /\ layer_modifiers' = layer_modifiers \cup {code}
    /\ fired' = {}
    /\ UNCHANGED <<pressed_keys, fn_buff, fn_pressed>>

OnPress(i) ==
    \/ PressUntranslated(i) \/ PressUnderFn(i) \/ PressNormal(i)
    \/ PressFn(i) \/ PressLayer(i)

(***************************************************************************)
(* on_release_default.                                                     *)
(***************************************************************************)
ReleaseUntranslated(i) ==
    /\ Untranslated(i)
    /\ UNCHANGED <<pressed_keys, fn_buff, fn_pressed, layer_modifiers>>

ReleaseUnderFn(i) ==
    /\ \E code \in NormalCodes : TranslatesTo(i, code)
    /\ fn_pressed
    /\ fn_remove(i)
    /\ UNCHANGED <<pressed_keys, fn_pressed, layer_modifiers>>

ReleaseNormal(i) ==
    /\ \E code \in NormalCodes : TranslatesTo(i, code)
    /\ ~ fn_pressed
    /\ remove_normal_key(i)
    /\ UNCHANGED <<fn_buff, fn_pressed, layer_modifiers>>

\* Mutant: the FN buffer is not emptied.
ReleaseFnOnly(i) ==
    /\ TranslatesTo(i, KeyFn)
    /\ fn_pressed' = FALSE
    /\ UNCHANGED <<pressed_keys, fn_buff, layer_modifiers>>

\* Mutant: the pressed-key table is emptied as well.
ReleaseFnAndKeys(i) ==
    /\ TranslatesTo(i, KeyFn)
    /\ fn_pressed' = FALSE
    /\ fn_buff' = <<>>
    /\ pressed_keys' = <<>>
    /\ UNCHANGED layer_modifiers

ReleaseFn(i) ==
    /\ TranslatesTo(i, KeyFn)
    /\ fn_pressed' = FALSE
    /\ fn_buff' = <<>>
    /\ UNCHANGED <<pressed_keys, layer_modifiers>>

\* Mutant: in FN mode the release of a layer key is lost.
ReleaseLayerOutsideFn(i) ==
    /\ \E code \in LayerCodes :
          /\ TranslatesTo(i, code)
          /\ layer_modifiers' = IF fn_pressed THEN layer_modifiers
                                ELSE layer_modifiers \ {code}
    /\ UNCHANGED <<pressed_keys, fn_buff, fn_pressed>>

ReleaseLayer(i) ==
    /\ \E code \in LayerCodes :
          /\ TranslatesTo(i, code)
          /\ layer_modifiers' = layer_modifiers \ {code}
    /\ UNCHANGED <<pressed_keys, fn_buff, fn_pressed>>

OnRelease(i) ==
    /\ fired' = {}
    /\ \/ ReleaseUntranslated(i) \/ ReleaseUnderFn(i) \/ ReleaseNormal(i)
       \/ ReleaseFn(i) \/ ReleaseLayer(i)

-----------------------------------------------------------------------------
(***************************************************************************)
(* handle_hid_report: the loop over pressed_keys stops right after the     *)
(* entry that fills the last key slot, so entries behind it are not in the *)
(* report, modifiers included.  The report is kept as the table entries it *)
(* is built from; its bytes are their codes.                               *)
(***************************************************************************)
OrdinaryUpTo(s, n) == {m \in 1..n : s[m].code \in OrdinaryCodes}

ReportEndsAt(n) ==
    /\ \A m \in 0..(n - 1) :
          Cardinality(OrdinaryUpTo(pressed_keys, m)) < ReportSlots
    /\ \/ n = Len(pressed_keys)
       \/ Cardinality(OrdinaryUpTo(pressed_keys, n)) = ReportSlots

IndicesIn(s) == {s[n].index : n \in 1..Len(s)}
=============================================================================
