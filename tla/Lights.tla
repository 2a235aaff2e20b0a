------------------------------- MODULE Lights -------------------------------
(***************************************************************************)
(* The backlight and the LED strip together: the backlight thread draws a  *)
(* frame of the selected mode and is inside ws2812_pwm_update_rgb until    *)
(* the strip's interrupts wake it, while keystrokes change the backlight   *)
(* and a reset can come at any point.                                      *)
(***************************************************************************)
EXTENDS KbBacklight, LedStripDma

\* A frame is known by the mode that drew it.
ASSUME FramesOfModes == Frame = ModeIdx

lightsVars == <<vars, stripVars>>

LightsInit == Init /\ StripInit

Keyboard == (Boot \/ Keystroke \/ Operation) /\ UNCHANGED stripVars

-----------------------------------------------------------------------------
\* The backlight thread, in kb_backlight_handle and the driver.
Draw == (FrameStarts \/ ApplyStarts) /\ UNCHANGED stripVars

UpdateRgb == ApplyEnds /\ Build(drawing)

Send == Update /\ UNCHANGED vars

\* Mutant: update_rgb does not wait for the transfer.
UpdateEndsEarly == TakeNothing /\ FrameSent

UpdateEnds == StopDma /\ FrameSent

BacklightThread == Draw \/ UpdateRgb \/ Send \/ UpdateEnds

Strip == (Transfer \/ TransferError \/ Isr) /\ UNCHANGED vars

PowerCycle == Restart /\ StripReset

LightsNext == Keyboard \/ BacklightThread \/ Strip \/ PowerCycle

LightsSpec == LightsInit /\ [][LightsNext]_lightsVars

\* The thread has the priority of the keyboard's and both yield; the DMA
\* makes progress and its interrupts are taken.
LightsFairSpec ==
    /\ LightsSpec
    /\ WF_lightsVars(BacklightThread)
    /\ WF_lightsVars(Transfer /\ UNCHANGED vars)
    /\ WF_lightsVars(Isr /\ UNCHANGED vars)

-----------------------------------------------------------------------------
(***************************************************************************)
(* The LEDs come to show the mode the user left the backlight in, whatever *)
(* keystrokes, resets and frames raced before, unless an error stopped the *)
(* driver.                                                                 *)
(***************************************************************************)
LeftIn(m) == up /\ op = "idle" /\ on /\ mode = m /\ ~ errored

Showing(m) == leds = [h \in {"first", "second"} |-> m]

ModeShown ==
    \A m \in ModeIdx : <>[]LeftIn(m) => <>[]Showing(m)
=============================================================================
