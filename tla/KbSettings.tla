----------------------------- MODULE KbSettings -----------------------------
(***************************************************************************)
(* The keyboard settings of a master half (kb_settings.c) and the start-up *)
(* in main.c that brings them into use: the callback is registered, the    *)
(* settings are read from flash or set to their defaults and saved, the    *)
(* callback copies the thresholds the scan compares with, and only then is *)
(* the keyboard thread created.  A reset can come between any two steps;   *)
(* the image in flash survives it.  Nothing changes settings later.        *)
(*                                                                         *)
(* Of a key's calibration only the threshold is kept, and polling rate and *)
(* the slave's calibration, which nothing reads, are left out.  The image  *)
(* is longer than a packet to the slave (inter_kb_proto.h), so the send at *)
(* the end of the callback transfers nothing.                              *)
(***************************************************************************)
EXTENDS Integers, Sequences

CONSTANTS
    KeyCount,        \* CONFIG_KB_KEY_COUNT, keys of this half
    SlaveKeyCount,   \* CONFIG_KB_KEY_COUNT_SLAVE
    MasterIsLeft,    \* CONFIG_BT_CONNECT_MASTER_LEFT
    Rule,            \* kb_map_rule_t
    RulesMax,        \* CONFIG_KB_MAX_RULES_PER_KEY
    DefaultKeymap,   \* position -> rules of a key, the left half's keys first
    Minimum, Maximum, Percent, \* CONFIG_KB_SETTINGS_DEFAULT_...
    Modes, NormalMode,         \* enum kb_mode
    Version,         \* KB_SETTINGS_IMAGE_VERSION
    ImageSize,       \* sizeof(struct kb_settings_image)
    FlashImages,     \* what builds before this one can have saved
    None             \* no image, and no settings

Keys == 0..(KeyCount - 1)
SlaveKeys == 0..(SlaveKeyCount - 1)
LeftCount == IF MasterIsLeft THEN KeyCount ELSE SlaveKeyCount

RuleSets == {rules \in Seq(Rule) : Len(rules) <= RulesMax}

Contents == [mode : Modes, thresholds : [Keys -> Nat],
             mappings : [Keys -> RuleSets],
             mappings_slave : [SlaveKeys -> RuleSets]]

Image == [version : Nat, size : Nat, contents : Contents]

ASSUME SettingsConstants ==
    /\ KeyCount \in Nat \ {0}
    /\ SlaveKeyCount \in Nat
    /\ MasterIsLeft \in BOOLEAN
    /\ RulesMax \in Nat \ {0}
    /\ DefaultKeymap \in [0..(KeyCount + SlaveKeyCount - 1) -> Seq(Rule)]
    /\ Minimum \in Nat /\ Maximum \in Nat
    /\ Minimum < Maximum             \* BUILD_ASSERT
    /\ Percent \in 1..100
    /\ NormalMode \in Modes
    /\ Version \in Nat
    /\ ImageSize \in Nat
    /\ FlashImages \subseteq Image
    /\ None \notin Image
    /\ None \notin Contents

\* Both boards have as many keys on the left as on the right.
ASSUME HalvesEqual == SlaveKeyCount = KeyCount

VARIABLES
    main,               \* the next statement of main()
    settings,
    s_loaded_ok,
    on_settings_update, \* the callback is registered
    key_thresholds,     \* of kb_handle_common.c, what the scan compares with
    flash               \* the image under kb/blob

settingsVars ==
    <<main, settings, s_loaded_ok, on_settings_update, key_thresholds, flash>>

\* The C data as the loader leaves it.
Zero == [mode |-> NormalMode, thresholds |-> [k \in Keys |-> 0],
         mappings |-> [k \in Keys |-> <<>>],
         mappings_slave |-> [k \in SlaveKeys |-> <<>>]]

SettingsTypeOK ==
    /\ main \in {"connect", "handle", "settings", "save", "thread",
                 "running", "returned"}
    /\ settings \in Contents
    /\ s_loaded_ok \in BOOLEAN
    /\ on_settings_update \in BOOLEAN
    /\ key_thresholds \in [Keys -> Nat]
    /\ flash \in Image \cup {None}

SettingsInit ==
    /\ main = "connect"
    /\ settings = Zero
    /\ s_loaded_ok = FALSE
    /\ on_settings_update = FALSE
    /\ key_thresholds = [k \in Keys |-> 0]
    /\ flash \in FlashImages \cup {None}

-----------------------------------------------------------------------------
(***************************************************************************)
(* The keymap.  Rules are taken over from a longer array by keeping its    *)
(* last RulesMax entries, into the image and out of it alike.              *)
(***************************************************************************)
Keep(rules) ==
    IF Len(rules) > RulesMax
    THEN SubSeq(rules, Len(rules) - RulesMax + 1, Len(rules))
    ELSE rules

\* Mutant: both halves take the keymap from its start.
OwnPositionLeft(i) == i

\* Where kb_settings_load_default finds the rules of a key of either half.
OwnPosition(i) == IF MasterIsLeft THEN i ELSE LeftCount + i
SlavePosition(i) == IF MasterIsLeft THEN LeftCount + i ELSE i

\* The index under which on_press_default handles it.
EngineIndex(i, is_slave) == IF MasterIsLeft = is_slave THEN i + KeyCount ELSE i

\* kb_key_rules_into_kb_ruleset_pods, kb_ruleset_pods_into_runtime_pods
Pods(s) == [s EXCEPT !.mappings = [k \in Keys |-> Keep(s.mappings[k])],
                     !.mappings_slave =
                         [k \in SlaveKeys |-> Keep(s.mappings_slave[k])]]

DefaultThreshold == ((Maximum - Minimum) * Percent) \div 100 + Minimum

DefaultSettings ==
    [mode |-> NormalMode,
     thresholds |-> [k \in Keys |-> DefaultThreshold],
     mappings |-> [k \in Keys |-> Keep(DefaultKeymap[OwnPosition(k)])],
     mappings_slave |->
         [k \in SlaveKeys |-> Keep(DefaultKeymap[SlavePosition(k)])]]

-----------------------------------------------------------------------------
(***************************************************************************)
(* main().  usb_connect_init or bt_connect_init can fail, or a device not  *)
(* be ready; main() then returns, before there is a keyboard thread.       *)
(***************************************************************************)
Connect ==
    /\ main = "connect"
    /\ main' \in {"handle", "returned"}
    /\ UNCHANGED <<settings, s_loaded_ok, on_settings_update, key_thresholds,
                   flash>>

\* Mutant: kb_handle_init does not register the callback.
HandleInitBare ==
    /\ main = "handle"
    /\ main' = "settings"
    /\ UNCHANGED <<settings, s_loaded_ok, on_settings_update, key_thresholds,
                   flash>>

\* kb_handle_init
HandleInit ==
    /\ main = "handle"
    /\ on_settings_update' = TRUE
    /\ main' = "settings"
    /\ UNCHANGED <<settings, s_loaded_ok, key_thresholds, flash>>

\* on_settings_update of kb_handle_common.c, when it is registered
Update(s) ==
    key_thresholds' = IF on_settings_update THEN s.thresholds ELSE key_thresholds

\* What kb_settings_handler_set accepts.
Valid(img) == img # None /\ img.size = ImageSize /\ img.version = Version

\* Mutant: kb_settings_load_from_image forgets the mode.
LoadImageModeless ==
    /\ main = "settings"
    /\ Valid(flash)
    /\ settings' = [Pods(flash.contents) EXCEPT !.mode = settings.mode]
    /\ Update(settings')
    /\ s_loaded_ok' = TRUE
    /\ main' = "thread"
    /\ UNCHANGED <<on_settings_update, flash>>

\* kb_settings_init, kb_settings_handler_set: a valid image is found.
LoadImage ==
    /\ main = "settings"
    /\ Valid(flash)
    /\ settings' = Pods(flash.contents)
    /\ Update(settings')
    /\ s_loaded_ok' = TRUE
    /\ main' = "thread"
    /\ UNCHANGED <<on_settings_update, flash>>

\* kb_settings_load_default: none is found, or the settings subsystem, the
\* registration or the read fails.
LoadDefault ==
    /\ main = "settings"
    /\ settings' = DefaultSettings
    /\ Update(settings')
    /\ s_loaded_ok' = FALSE
    /\ main' = "save"
    /\ UNCHANGED <<on_settings_update, flash>>

\* kb_settings_build_image_from_runtime
BuildImage(s) == [version |-> Version, size |-> ImageSize, contents |-> Pods(s)]

\* kb_settings_save; a failure is logged.
SaveSettings ==
    /\ main = "save"
    /\ flash' \in {flash, BuildImage(settings)}
    /\ main' = "thread"
    /\ UNCHANGED <<settings, s_loaded_ok, on_settings_update, key_thresholds>>

\* k_thread_create
CreateThread ==
    /\ main = "thread"
    /\ main' = "running"
    /\ UNCHANGED <<settings, s_loaded_ok, on_settings_update, key_thresholds,
                   flash>>

SettingsReset ==
    /\ main' = "connect"
    /\ settings' = Zero
    /\ s_loaded_ok' = FALSE
    /\ on_settings_update' = FALSE
    /\ key_thresholds' = [k \in Keys |-> 0]
    /\ UNCHANGED flash

Main == \/ Connect \/ HandleInit \/ LoadImage \/ LoadDefault \/ SaveSettings
        \/ CreateThread

SettingsNext == Main \/ SettingsReset

SettingsSpec == SettingsInit /\ [][SettingsNext]_settingsVars

-----------------------------------------------------------------------------
(***************************************************************************)
(* The index the key engine gives a key, by which FN keystrokes name it,   *)
(* is its place in the default keymap, on either half: what the settings   *)
(* hold for the key are rules from there, and its fallback rule, the last, *)
(* is among them however many there are.                                   *)
(***************************************************************************)
RulesFrom(rules, position) ==
    LET all == DefaultKeymap[position]
    IN  /\ \E n \in 1..(Len(all) + 1) : rules = SubSeq(all, n, Len(all))
        /\ rules = <<>> => all = <<>>

KeymapAligned ==
    main \in {"save", "thread", "running"} /\ ~ s_loaded_ok =>
        /\ \A k \in Keys :
              RulesFrom(settings.mappings[k], EngineIndex(k, FALSE))
        /\ \A k \in SlaveKeys :
              RulesFrom(settings.mappings_slave[k], EngineIndex(k, TRUE))

(***************************************************************************)
(* The settings are remembered as SavedState says: a start uses the image  *)
(* in flash as it was saved, or the default when there is none of this     *)
(* version and size; the default may take the place of an image that could *)
(* not be read, but nothing else is ever saved, whenever a reset comes.    *)
(***************************************************************************)
InUse == IF main \in {"thread", "running"} THEN settings ELSE None

Remembered == INSTANCE SavedState
    WITH Value <- Contents,
         Default <- DefaultSettings,
         state <- InUse,
         saved <- IF Valid(flash) THEN flash.contents ELSE DefaultSettings,
         busy <- FALSE

SettingsRemembered == Remembered!SavedSpec
=============================================================================
