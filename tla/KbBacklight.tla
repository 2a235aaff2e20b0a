---------------------------- MODULE KbBacklight ----------------------------
(***************************************************************************)
(* The backlight of a half (kb_backlight_led_strip.c) with its saved state *)
(* (kb_backlight_settings.c).  FN keystrokes change it on the keyboard     *)
(* thread, statement by statement and without a lock, while the backlight  *)
(* thread draws and sends frames from it.  A reset can come at any point;  *)
(* the image in flash survives it.                                         *)
(*                                                                         *)
(* A mode is its index.  What a mode draws is left out, but not whether it *)
(* has been initialised since it was last deinitialised: its apply works   *)
(* on what init set up.  Speed is never changed.                           *)
(***************************************************************************)
EXTENDS Naturals

CONSTANTS
    ModeCount,   \* kb_bl_mode_count()
    Brightness,  \* levels the keystrokes set
    SavedModes,  \* mode indices an image in flash can have at first
    None         \* NULL, and no valid image

ModeIdx == 0..(ModeCount - 1)

\* backlight_state_img, of this version and size; all others are refused
Image == [on : BOOLEAN, brightness : Brightness, mode_idx : SavedModes]

Default == [on |-> TRUE, brightness |-> 100, mode_idx |-> 0]

ASSUME BacklightConstants ==
    /\ ModeCount \in Nat \ {0}
    /\ 100 \in Brightness
    /\ Brightness \subseteq 1..100
    /\ ModeIdx \subseteq SavedModes
    /\ SavedModes \subseteq Nat   \* an older build may have had more modes
    /\ None \notin Nat
    /\ None \notin Image

VARIABLES
    on, brightness, mode_idx, mode,  \* bl_state
    ready,      \* modes initialised and not deinitialised since
    flash,      \* the image saved under bl/blob
    op,         \* the next statement of the operation under way
    target,     \* mode_idx of the kb_backlight_set_mode under way
    up,         \* kb_backlight_init has returned
    bl,         \* where the backlight thread is in kb_backlight_handle
    drawing,    \* the mode whose apply it called for the present frame
    raced       \* history: an operation took a step during this frame

stateVars == <<on, brightness, mode_idx>>
modeVars == <<mode, ready>>
threadVars == <<bl, drawing>>
vars == <<stateVars, modeVars, flash, op, target, up, threadVars, raced>>

Ops == {"load", "boot", "select", "index", "init", "turn_on", "turn_off",
        "resave", "save", "idle"}

TypeOK ==
    /\ on \in BOOLEAN
    /\ brightness \in Brightness \cup {0}
    /\ mode_idx \in SavedModes
    /\ mode \in ModeIdx \cup {None}
    /\ ready \subseteq ModeIdx
    /\ flash \in Image \cup {None}
    /\ op \in Ops
    /\ target \in ModeIdx
    /\ up \in BOOLEAN
    /\ bl \in {"idle", "picked", "drawing", "sending"}
    /\ drawing \in ModeIdx \cup {None}
    /\ raced \in BOOLEAN

Init ==
    /\ on = FALSE
    /\ brightness = 0
    /\ mode_idx = 0
    /\ mode = None
    /\ ready = {}
    /\ flash \in Image \cup {None}
    /\ op = "load"
    /\ target = 0
    /\ up = FALSE
    /\ bl = "idle"
    /\ drawing = None
    /\ raced = FALSE

\* The operation's thread takes a step; a frame under way may notice.
Races == raced' = (raced \/ bl # "idle")

-----------------------------------------------------------------------------
(***************************************************************************)
(* Saving: kb_bl_settings_save builds the image and writes it; a failure   *)
(* is logged.                                                              *)
(***************************************************************************)
Runtime == [on |-> on, brightness |-> brightness, mode_idx |-> mode_idx]

SaveImage(image) == flash' \in {flash, image}

(***************************************************************************)
(* Start-up, on the main thread before the backlight thread is made.       *)
(***************************************************************************)
\* kb_backlight_settings_init, kb_bl_settings_set: a valid image is found.
LoadImage ==
    /\ op = "load"
    /\ flash # None
    /\ on' = flash.on
    /\ brightness' = flash.brightness
    /\ mode_idx' = flash.mode_idx
    /\ op' = "boot"
    /\ UNCHANGED <<modeVars, flash, target, up, threadVars, raced>>

\* None is found, or the settings subsystem fails.
LoadDefault ==
    /\ op = "load"
    /\ on' = Default.on
    /\ brightness' = Default.brightness
    /\ mode_idx' = Default.mode_idx
    /\ SaveImage(Default)
    /\ op' = "boot"
    /\ UNCHANGED <<modeVars, target, up, threadVars, raced>>

\* Mutant: the index found in the image is not checked.
BootModeUnchecked ==
    /\ op = "boot"
    /\ target' = mode_idx
    /\ op' = "select"
    /\ UNCHANGED <<stateVars, modeVars, flash, up, threadVars, raced>>

\* kb_backlight_init: kb_backlight_set_mode refuses an index that is no
\* mode's, and is called again with 0.
BootMode ==
    /\ op = "boot"
    /\ mode_idx' = IF mode_idx \in ModeIdx THEN mode_idx ELSE 0
    /\ target' = mode_idx'
    /\ op' = "select"
    /\ UNCHANGED <<on, brightness, modeVars, flash, up, threadVars, raced>>

-----------------------------------------------------------------------------
(***************************************************************************)
(* kb_backlight_set_mode.  Keystrokes come once kb_backlight_init has      *)
(* returned, so there is a mode; every mode has an init, a deinit and an   *)
(* apply.                                                                  *)
(***************************************************************************)
\* From a keystroke: the present mode is deinitialised first.
SetMode(idx) ==
    /\ op = "idle"
    /\ ready' = ready \ {mode}
    /\ target' = idx
    /\ op' = "select"
    /\ Races
    /\ UNCHANGED <<stateVars, mode, flash, up, threadVars>>

NextMode == SetMode((mode_idx + 1) % ModeCount)
PrevMode == SetMode((mode_idx + ModeCount - 1) % ModeCount)

SelectMode ==
    /\ op = "select"
    /\ mode' = target
    /\ op' = "index"
    /\ Races
    /\ UNCHANGED <<stateVars, ready, flash, target, up, threadVars>>

SelectIndex ==
    /\ op = "index"
    /\ mode_idx' = target
    /\ op' = "init"
    /\ Races
    /\ UNCHANGED <<on, brightness, modeVars, flash, target, up, threadVars>>

InitMode ==
    /\ op = "init"
    /\ ready' = IF on THEN ready \cup {mode} ELSE ready
    /\ op' = "save"
    /\ Races
    /\ UNCHANGED <<stateVars, mode, flash, target, up, threadVars>>

(***************************************************************************)
(* kb_backlight_set_brightness and kb_backlight_toggle.                    *)
(***************************************************************************)
\* Mutant: the new brightness is not saved.
SetBrightnessUnsaved(level) ==
    /\ op = "idle"
    /\ brightness' = level
    /\ Races
    /\ UNCHANGED <<on, mode_idx, modeVars, flash, op, target, up, threadVars>>

SetBrightness(level) ==
    /\ op = "idle"
    /\ brightness' = IF level < 1 THEN 1 ELSE IF level > 100 THEN 100 ELSE level
    /\ op' = "save"
    /\ Races
    /\ UNCHANGED <<on, mode_idx, modeVars, flash, target, up, threadVars>>

Toggle ==
    /\ op = "idle"
    /\ on' = ~ on
    /\ op' = IF on THEN "turn_off" ELSE "turn_on"
    /\ Races
    /\ UNCHANGED <<brightness, mode_idx, modeVars, flash, target, up, threadVars>>

\* Mutant: the mode is not initialised when the backlight is turned on.
TurnOnBare ==
    /\ op = "turn_on"
    /\ op' = "resave"
    /\ Races
    /\ UNCHANGED <<stateVars, modeVars, flash, target, up, threadVars>>

TurnOn ==
    /\ op = "turn_on"
    /\ ready' = ready \cup {mode}
    /\ op' = "resave"
    /\ Races
    /\ UNCHANGED <<stateVars, mode, flash, target, up, threadVars>>

TurnOff ==
    /\ op = "turn_off"
    /\ ready' = ready \ {mode}
    /\ op' = "resave"
    /\ Races
    /\ UNCHANGED <<stateVars, mode, flash, target, up, threadVars>>

\* kb_backlight_turn_on and _off save, and kb_backlight_toggle saves again.
Resave ==
    /\ op = "resave"
    /\ SaveImage(Runtime)
    /\ op' = "save"
    /\ Races
    /\ UNCHANGED <<stateVars, modeVars, target, up, threadVars>>

\* The last statement of every operation, and of the start-up.
SaveLast ==
    /\ op = "save"
    /\ SaveImage(Runtime)
    /\ op' = "idle"
    /\ up' = TRUE
    /\ Races
    /\ UNCHANGED <<stateVars, modeVars, target, threadVars>>

-----------------------------------------------------------------------------
(***************************************************************************)
(* The backlight thread: kb_backlight_handle.  It reads bl_state.on, later *)
(* bl_state.mode, and sends what apply drew; a call that comes too early   *)
(* or finds the backlight off does nothing.                                *)
(***************************************************************************)
FrameStarts ==
    /\ up
    /\ bl = "idle"
    /\ on
    /\ mode # None
    /\ bl' = "picked"
    /\ raced' = (op # "idle")
    /\ UNCHANGED <<stateVars, modeVars, flash, op, target, up, drawing>>

ApplyStarts ==
    /\ bl = "picked"
    /\ bl' = "drawing"
    /\ drawing' = mode
    /\ UNCHANGED <<stateVars, modeVars, flash, op, target, up, raced>>

ApplyEnds ==
    /\ bl = "drawing"
    /\ bl' = "sending"
    /\ UNCHANGED <<stateVars, modeVars, flash, op, target, up, drawing, raced>>

\* led_strip_update_rgb returns (LedStripDma).
FrameSent ==
    /\ bl = "sending"
    /\ bl' = "idle"
    /\ drawing' = None
    /\ UNCHANGED <<stateVars, modeVars, flash, op, target, up, raced>>

-----------------------------------------------------------------------------
\* RAM is as at first; the image in flash stays.
Restart ==
    /\ on' = FALSE
    /\ brightness' = 0
    /\ mode_idx' = 0
    /\ mode' = None
    /\ ready' = {}
    /\ op' = "load"
    /\ target' = 0
    /\ up' = FALSE
    /\ bl' = "idle"
    /\ drawing' = None
    /\ raced' = FALSE
    /\ UNCHANGED flash

Boot == LoadImage \/ LoadDefault \/ BootMode
Keystroke == \/ NextMode \/ PrevMode \/ Toggle
             \/ \E level \in Brightness : SetBrightness(level)
Operation == \/ SelectMode \/ SelectIndex \/ InitMode
             \/ TurnOn \/ TurnOff \/ Resave \/ SaveLast
DrawFrame == FrameStarts \/ ApplyStarts \/ ApplyEnds \/ FrameSent

Next == Boot \/ Keystroke \/ Operation \/ DrawFrame \/ Restart

Spec == Init /\ [][Next]_vars

-----------------------------------------------------------------------------
(***************************************************************************)
(* A frame that no operation overtook is drawn by the selected mode, after *)
(* that was initialised, and only while the backlight is on: however modes *)
(* were changed and the backlight toggled before, also a mode selected     *)
(* while it was off.  A frame that raced with an operation can be drawn by *)
(* a mode whose state is gone.                                             *)
(***************************************************************************)
FrameOfMode ==
    bl \in {"picked", "drawing", "sending"} /\ ~ raced =>
        /\ on
        /\ mode = mode_idx
        /\ mode \in ready
        /\ drawing \in {mode, None}

(***************************************************************************)
(* The state is remembered as SavedState says: what the next start would   *)
(* restore is the image in flash, with an index that is no mode's replaced *)
(* by 0, or the default when there is none.                                *)
(***************************************************************************)
Restored(image) ==
    IF image = None THEN Default
    ELSE [image EXCEPT !.mode_idx = IF @ \in ModeIdx THEN @ ELSE 0]

Remembered == INSTANCE SavedState
    WITH Value <- Image,
         state <- IF up THEN Runtime ELSE None,
         saved <- Restored(flash),
         busy <- up /\ op # "idle"

StateRemembered == Remembered!SavedSpec
=============================================================================
