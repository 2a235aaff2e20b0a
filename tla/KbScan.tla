------------------------------- MODULE KbScan -------------------------------
(***************************************************************************)
(* The settings and the enable-line scan together: get_kscan_bitmap of     *)
(* kb_handle_common.c polls from the keyboard thread, in the mode of the   *)
(* settings and with the thresholds copied from them.  A reset configures  *)
(* the lines anew.                                                         *)
(***************************************************************************)
EXTENDS KbSettings, KscanEnables

ASSUME OneLinePerKey == Lines = Keys

vars == <<settingsVars, scanVars>>

TypeOK == SettingsTypeOK /\ ScanTypeOK

Init == SettingsInit /\ ScanInit

\* get_kscan_bitmap: curr_down is cleared and the poll of the mode called.
GetBitmap ==
    /\ main = "running"
    /\ PollStarts(settings.mode # NormalMode)
    /\ UNCHANGED settingsVars

Poll == ScanStep(key_thresholds) /\ UNCHANGED settingsVars

StartUp == Main /\ UNCHANGED scanVars

Reset == SettingsReset /\ ScanReset

Next == StartUp \/ GetBitmap \/ Poll \/ Reset

Spec == Init /\ [][Next]_vars

-----------------------------------------------------------------------------
(***************************************************************************)
(* A poll that reads every key finds exactly the keys that were at or over *)
(* the thresholds of the settings in use, however the keyboard started and *)
(* whatever polls failed before.  Only a failed read can hide a key, and   *)
(* only a line left high by an earlier poll disturb one: a key that comes  *)
(* before it on its channel, for the poll lowers the line as it passes.    *)
(***************************************************************************)
Disturbed(k) == \E l \in found_high : l > k /\ Channel[l] = Channel[k]

BitmapExact ==
    Completed /\ ~ race =>
        \A k \in Lines \ misread :
            ~ Disturbed(k) => (k \in bitmap <=> travel[k] >= settings.thresholds[k])

(***************************************************************************)
(* In race mode a poll begun with no line high, and without a failed read, *)
(* returns a key that is pressed furthest of those over their thresholds,  *)
(* or -1 when there is none.                                               *)
(***************************************************************************)
RaceGreatest ==
    Completed /\ race /\ found_high = {} /\ misread = {} =>
        \/ result \in GreatestOf(settings.thresholds)
        \/ result = -1 /\ GreatestOf(settings.thresholds) = {}
=============================================================================
