---------------------------- MODULE LightsProofs ----------------------------
(***************************************************************************)
(* Proofs about the backlight and the LED strip, each on its own for any   *)
(* number of modes and any set of frames, and that their composition is a  *)
(* behaviour of both.                                                      *)
(***************************************************************************)
EXTENDS Lights, TLAPS

-----------------------------------------------------------------------------
(***************************************************************************)
(* The backlight: FrameOfMode and StateRemembered.  No variable records    *)
(* what the operation under way has already done, so the invariant says it *)
(* for each next statement: which modes are initialised, which of mode and *)
(* mode_idx are the new ones, and what a start-up has restored.            *)
(***************************************************************************)
\* What each statement may rely on about the selected mode.
Statement ==
    /\ op \in {"load", "boot"} => mode = None /\ ~ up
    /\ op \in {"load", "boot", "select", "index", "init"} => ready = {}
    /\ op \in {"index", "init"} => mode = target
    /\ op = "init" => mode_idx = target
    /\ op \in {"turn_on", "turn_off", "resave", "save", "idle"} =>
          mode = mode_idx /\ mode_idx \in ModeIdx
    /\ op = "turn_on" => on /\ ready = {}
    /\ op = "turn_off" => ~ on /\ ready = {mode}
    /\ op \in {"resave", "save", "idle"} =>
          ready = IF on THEN {mode} ELSE {}

\* A start-up has loaded the saved state or the default.
Startup ==
    /\ op # "load" => Runtime \in Image
    /\ ~ up /\ op = "boot" => Restored(Runtime) \in {Restored(flash), Default}
    /\ ~ up /\ op \in {"select", "index", "init", "save"} =>
          Runtime \in {Restored(flash), Default} /\ mode_idx = target
    /\ ~ up => op \notin {"turn_on", "turn_off", "resave", "idle"}

\* A frame that is not raced began, and goes on, between operations; any
\* frame is drawn by a mode.
FrameAlone ==
    /\ ~ up => bl = "idle"
    /\ bl # "idle" => mode \in ModeIdx
    /\ bl \in {"drawing", "sending"} => drawing \in ModeIdx
    /\ bl \in {"idle", "picked"} => drawing = None
    /\ bl \in {"picked", "drawing", "sending"} /\ ~ raced =>
          op = "idle" /\ on /\ drawing \in {mode, None}

IInv == TypeOK /\ Statement /\ Startup /\ FrameAlone

-----------------------------------------------------------------------------
\* The index after and the one before are modes' indices.
LEMMA CyclicIndex ==
    ASSUME NEW i \in Nat
    PROVE  (i + 1) % ModeCount \in ModeIdx /\ (i + ModeCount - 1) % ModeCount \in ModeIdx
<1>1. ModeCount \in Nat /\ ModeCount > 0
  BY BacklightConstants
<1>2. i + 1 \in Nat /\ i + ModeCount - 1 \in Nat
  BY <1>1
<1>3. \A x \in Nat : x % ModeCount \in 0..(ModeCount - 1)
  BY <1>1
<1>. QED
  BY <1>2, <1>3 DEF ModeIdx

\* The default is an image, and is restored as it is; so is every image
\* that names a mode.
LEMMA DefaultImage == Default \in Image /\ Default.mode_idx \in ModeIdx
<1>1. 0 \in ModeIdx
  BY BacklightConstants DEF ModeIdx
<1>. QED
  BY <1>1, BacklightConstants DEF Default, Image

LEMMA RestoredImage ==
    ASSUME NEW image \in Image \cup {None}
    PROVE  /\ Restored(image) \in Image
           /\ Restored(image).mode_idx \in ModeIdx
           /\ image # None /\ image.mode_idx \in ModeIdx => Restored(image) = image
<1>1. CASE image = None
  BY <1>1, DefaultImage DEF Restored
<1>2. CASE image # None
  <2>1. image \in Image /\ 0 \in ModeIdx /\ ModeIdx \subseteq SavedModes
    BY <1>2, BacklightConstants DEF ModeIdx
  <2>2. Restored(image) = [image EXCEPT !.mode_idx =
                              IF image.mode_idx \in ModeIdx THEN image.mode_idx ELSE 0]
    BY <1>2 DEF Restored
  <2>. QED
    BY <2>1, <2>2 DEF Image
<1>. QED
  BY <1>1, <1>2

-----------------------------------------------------------------------------
LEMMA ZeroIndex == 0 \in ModeIdx /\ 0 \in SavedModes
<1>1. 0 \in ModeIdx
  BY BacklightConstants DEF ModeIdx
<1>. QED
  BY <1>1, BacklightConstants

LEMMA InitIInv == Init => IInv
  BY ZeroIndex DEF Init, IInv, TypeOK, Statement, Startup, FrameAlone, Ops

LEMMA BootIInv == IInv /\ Boot => IInv'
<1>. SUFFICES ASSUME IInv, Boot
              PROVE  IInv'
  OBVIOUS
<1>. USE DEF IInv, TypeOK, Statement, FrameAlone, Ops
<1>1. CASE LoadImage
  <2>1. flash \in Image /\ Runtime' = flash
    BY <1>1 DEF LoadImage, Runtime, Image, stateVars
  <2>2. TypeOK' /\ Statement' /\ FrameAlone'
    BY <1>1 DEF LoadImage, Image, modeVars, threadVars
  <2>3. Startup'
    BY <1>1, <2>1 DEF LoadImage, Startup
  <2>. QED
    BY <2>2, <2>3
<1>2. CASE LoadDefault
  <2>1. Runtime' = Default
    BY <1>2 DEF LoadDefault, Runtime, Default
  <2>2. TypeOK' /\ Statement' /\ FrameAlone'
    BY <1>2, DefaultImage, BacklightConstants
    DEF LoadDefault, SaveImage, Default, modeVars, threadVars, ModeIdx
  <2>3. Startup'
    BY <1>2, <2>1, DefaultImage, RestoredImage, BacklightConstants
    DEF LoadDefault, Startup
  <2>. QED
    BY <2>2, <2>3
<1>3. CASE BootMode
  <2>1. mode_idx' \in ModeIdx /\ ModeIdx \subseteq SavedModes
    BY <1>3, BacklightConstants DEF BootMode, ModeIdx
  <2>2. Runtime' = Restored(Runtime) /\ Runtime \in Image
    <3>1. Runtime \in Image /\ Runtime # None
      BY <1>3, BacklightConstants DEF BootMode, Startup
    <3>2. Runtime' = [Runtime EXCEPT !.mode_idx =
                         IF mode_idx \in ModeIdx THEN mode_idx ELSE 0]
      BY <1>3 DEF BootMode, Runtime
    <3>. QED
      BY <3>1, <3>2 DEF Restored, Runtime
  <2>3. TypeOK' /\ Statement' /\ FrameAlone'
    BY <1>3, <2>1 DEF BootMode, modeVars, threadVars
  <2>4. Startup'
    BY <1>3, <2>2, RestoredImage DEF BootMode, Startup
  <2>. QED
    BY <2>3, <2>4
<1>. QED
  BY <1>1, <1>2, <1>3 DEF Boot

-----------------------------------------------------------------------------
LEMMA KeystrokeIInv == IInv /\ Keystroke => IInv'
<1>. SUFFICES ASSUME IInv, Keystroke
              PROVE  IInv'
  OBVIOUS
<1>0. up /\ Runtime \in Image /\ op = "idle"
  BY DEF IInv, Startup, Keystroke, NextMode, PrevMode, SetMode, Toggle, SetBrightness
<1>. USE DEF IInv, TypeOK, Statement, Startup, FrameAlone, Ops
<1>1. ASSUME NEW idx \in ModeIdx, SetMode(idx)
      PROVE  IInv'
  <2>1. ready' = {}
    BY <1>1 DEF SetMode
  <2>. QED
    BY <1>0, <1>1, <2>1 DEF SetMode, Races, stateVars, threadVars, Runtime
<1>2. CASE NextMode \/ PrevMode
  <2>1. (mode_idx + 1) % ModeCount \in ModeIdx
        /\ (mode_idx + ModeCount - 1) % ModeCount \in ModeIdx
    BY CyclicIndex, BacklightConstants
  <2>. QED
    BY <1>1, <1>2, <2>1 DEF NextMode, PrevMode
<1>3. ASSUME NEW level \in Brightness, SetBrightness(level)
      PROVE  IInv'
  <2>1. brightness' = level /\ level \in Brightness
    BY <1>3, BacklightConstants DEF SetBrightness
  <2>2. Runtime' \in Image
    BY <1>0, <1>3, <2>1 DEF SetBrightness, Runtime, Image
  <2>. QED
    BY <1>0, <1>3, <2>1, <2>2 DEF SetBrightness, Races, modeVars, threadVars
<1>4. CASE Toggle
  <2>1. Runtime' \in Image /\ on' \in BOOLEAN
    BY <1>0, <1>4 DEF Toggle, Runtime, Image
  <2>. QED
    BY <1>0, <1>4, <2>1 DEF Toggle, Races, modeVars, threadVars
<1>. QED
  BY <1>2, <1>3, <1>4 DEF Keystroke

LEMMA OperationIInv == IInv /\ Operation => IInv'
<1>. SUFFICES ASSUME IInv, Operation
              PROVE  IInv'
  OBVIOUS
<1>0. Runtime \in Image
  BY DEF IInv, Startup, Operation, SelectMode, SelectIndex, InitMode,
     TurnOn, TurnOff, Resave, SaveLast
<1>. USE DEF IInv, TypeOK, Statement, FrameAlone, Ops, Races
<1>1. CASE SelectMode
  BY <1>0, <1>1 DEF SelectMode, stateVars, threadVars, Startup, Runtime
<1>2. CASE SelectIndex
  <2>1. target \in ModeIdx /\ ModeIdx \subseteq SavedModes
    BY BacklightConstants
  <2>2. Runtime' \in Image
    BY <1>0, <1>2, <2>1 DEF SelectIndex, Runtime, Image
  <2>3. ~ up => Runtime' = Runtime
    BY <1>2 DEF SelectIndex, Runtime, Startup
  <2>. QED
    BY <1>2, <2>1, <2>2, <2>3 DEF SelectIndex, modeVars, threadVars, Startup
<1>3. CASE InitMode
  BY <1>0, <1>3 DEF InitMode, stateVars, threadVars, Startup, Runtime
<1>4. CASE TurnOn
  BY <1>0, <1>4 DEF TurnOn, stateVars, threadVars, Startup, Runtime
<1>5. CASE TurnOff
  BY <1>0, <1>5 DEF TurnOff, stateVars, threadVars, Startup, Runtime
<1>6. CASE Resave
  BY <1>0, <1>6 DEF Resave, SaveImage, stateVars, modeVars, threadVars, Startup, Runtime
<1>7. CASE SaveLast
  BY <1>0, <1>7 DEF SaveLast, SaveImage, stateVars, modeVars, threadVars, Startup, Runtime
<1>. QED
  BY <1>1, <1>2, <1>3, <1>4, <1>5, <1>6, <1>7 DEF Operation

LEMMA FrameIInv == IInv /\ DrawFrame => IInv'
<1>. SUFFICES ASSUME IInv, DrawFrame
              PROVE  IInv'
  OBVIOUS
<1>. USE DEF IInv, TypeOK, Statement, Startup, FrameAlone, Ops,
         stateVars, modeVars, threadVars, Runtime
<1>1. CASE FrameStarts
  BY <1>1 DEF FrameStarts
<1>2. CASE ApplyStarts
  BY <1>2 DEF ApplyStarts
<1>3. CASE ApplyEnds
  BY <1>3 DEF ApplyEnds
<1>4. CASE FrameSent
  BY <1>4 DEF FrameSent
<1>. QED
  BY <1>1, <1>2, <1>3, <1>4 DEF DrawFrame

LEMMA RestartIInv == IInv /\ Restart => IInv'
  BY ZeroIndex DEF Restart, IInv, TypeOK, Statement, Startup, FrameAlone, Ops

LEMMA StutterIInv == IInv /\ UNCHANGED vars => IInv'
  BY DEF vars, stateVars, modeVars, threadVars, IInv, TypeOK, Statement,
     Startup, FrameAlone, Ops, Runtime

\* The invariant of the backlight.
THEOREM SpecIInv == Spec => []IInv
<1>1. IInv /\ [Next]_vars => IInv'
  BY BootIInv, KeystrokeIInv, OperationIInv, FrameIInv, RestartIInv, StutterIInv
  DEF Next
<1>. QED
  BY InitIInv, <1>1, PTL DEF Spec

\* Every variable of the backlight stays in its range.
THEOREM TypeCorrect == Spec => []TypeOK
<1>1. IInv => TypeOK
  BY DEF IInv
<1>. QED
  BY SpecIInv, <1>1, PTL

\* A frame that no operation overtook is drawn by the selected mode, which
\* has been initialised, while the backlight is on.
THEOREM FrameCorrect == Spec => []FrameOfMode
<1>1. IInv => FrameOfMode
  BY DEF IInv, TypeOK, FrameOfMode, Statement, FrameAlone
<1>. QED
  BY SpecIInv, <1>1, PTL

-----------------------------------------------------------------------------
(***************************************************************************)
(* The saved state implements SavedState.                                  *)
(***************************************************************************)
\* An operation that is up changes the image only by saving the state.
LEMMA RestoredRuntime ==
    ASSUME IInv, op \notin {"load", "boot"}, mode_idx \in ModeIdx
    PROVE  Runtime # None /\ Restored(Runtime) = Runtime
<1>1. Runtime \in Image /\ Runtime.mode_idx = mode_idx
  BY DEF IInv, Startup, Runtime
<1>. QED
  BY <1>1, RestoredImage, BacklightConstants

\* A step of the start-up restores the state or the default.
LEMMA BootRemembered ==
    ASSUME IInv, Boot
    PROVE  Remembered!SavedNext \/ UNCHANGED Remembered!savedVars
<1>1. ~ up /\ ~ up'
  BY DEF IInv, Statement, Boot, LoadImage, LoadDefault, BootMode
<1>2. Restored(flash)' \in {Restored(flash), Default}
  <2>1. flash' \in {flash, Default}
    BY DEF Boot, LoadImage, LoadDefault, BootMode, SaveImage
  <2>2. CASE flash' = flash
    BY <2>2 DEF Restored
  <2>3. CASE flash' = Default
    <3>1. Restored(flash)' = Restored(Default)
      BY <2>3 DEF Restored
    <3>. QED
      BY <3>1, DefaultImage, RestoredImage, BacklightConstants
  <2>. QED
    BY <2>1, <2>2, <2>3
<1>. QED
  BY <1>1, <1>2 DEF Remembered!SavedNext, Remembered!Forget, Remembered!savedVars

\* A keystroke begins an operation.
LEMMA KeystrokeRemembered ==
    ASSUME IInv, IInv', Keystroke
    PROVE  Remembered!SavedNext
<1>1. op = "idle" /\ op' # "idle" /\ up /\ up' /\ flash' = flash
  BY DEF IInv, Startup, Keystroke, NextMode, PrevMode, SetMode, SetBrightness, Toggle
<1>2. op' # "load" /\ Runtime \in Image /\ Runtime # None
  BY <1>1, BacklightConstants DEF IInv, Startup, Statement
<1>3. Runtime' \in Image
  BY <1>2 DEF IInv, Startup
<1>4. Restored(flash)' = Restored(flash)
  BY <1>1 DEF Restored
<1>. QED
  BY <1>1, <1>2, <1>3, <1>4 DEF Remembered!SavedNext, Remembered!Change

\* A step of an operation, or the end of the start-up.
LEMMA OperationRemembered ==
    ASSUME IInv, IInv', Operation
    PROVE  Remembered!SavedNext \/ UNCHANGED Remembered!savedVars
<1>0. Runtime \in Image /\ Runtime # None /\ op \notin {"idle", "load", "boot"}
  BY BacklightConstants DEF IInv, Startup, Operation, SelectMode, SelectIndex,
     InitMode, TurnOn, TurnOff, Resave, SaveLast
<1>1. CASE SelectMode \/ InitMode \/ TurnOn \/ TurnOff
  <2>1. flash' = flash /\ up' = up /\ Runtime' = Runtime /\ op' # "idle"
    BY <1>1 DEF SelectMode, InitMode, TurnOn, TurnOff, stateVars, Runtime
  <2>2. Restored(flash)' = Restored(flash)
    BY <2>1 DEF Restored
  <2>. QED
    BY <1>0, <2>1, <2>2 DEF Remembered!savedVars
<1>2. CASE SelectIndex
  <2>1. flash' = flash /\ up' = up /\ op' # "idle" /\ Runtime' \in Image
    BY <1>2 DEF SelectIndex, IInv, Startup
  <2>2. Restored(flash)' = Restored(flash)
    BY <2>1 DEF Restored
  <2>. QED
    BY <1>0, <2>1, <2>2
    DEF Remembered!savedVars, Remembered!SavedNext, Remembered!Change
<1>3. ASSUME flash' \in {flash, Runtime}, mode_idx \in ModeIdx
      PROVE  Restored(flash)' \in {Restored(flash), Runtime}
  <2>1. Restored(Runtime) = Runtime
    BY <1>0, <1>3, RestoredRuntime
  <2>2. CASE flash' = flash
    BY <2>2 DEF Restored
  <2>3. CASE flash' = Runtime
    <3>1. Restored(flash)' = Restored(Runtime)
      BY <2>3 DEF Restored
    <3>. QED
      BY <3>1, <2>1
  <2>. QED
    BY <1>3, <2>2, <2>3
<1>4. CASE Resave
  <2>1. up /\ up' /\ op' # "idle" /\ Runtime' = Runtime
        /\ Restored(flash)' \in {Restored(flash), Runtime}
    BY <1>3, <1>4 DEF Resave, SaveImage, stateVars, Runtime, IInv, Startup, Statement
  <2>. QED
    BY <1>0, <2>1 DEF Remembered!SavedNext, Remembered!Save
<1>5. CASE SaveLast
  <2>1. op = "save" /\ op' = "idle" /\ up' /\ Runtime' = Runtime
        /\ Restored(flash)' \in {Restored(flash), Runtime}
    BY <1>3, <1>5 DEF SaveLast, SaveImage, stateVars, Runtime, IInv, Statement
  <2>2. CASE up
    BY <1>0, <2>1, <2>2 DEF Remembered!SavedNext, Remembered!Save
  <2>3. CASE ~ up
    <3>1. Runtime \in {Restored(flash), Default}
      BY <2>1, <2>3 DEF IInv, Startup
    <3>. QED
      BY <1>0, <2>1, <2>3, <3>1 DEF Remembered!SavedNext, Remembered!Started
  <2>. QED
    BY <2>2, <2>3
<1>. QED
  BY <1>1, <1>2, <1>4, <1>5 DEF Operation

\* The state is remembered as SavedState says: a reset loses at most the
\* operation under way.
THEOREM StateIsRemembered == Spec => StateRemembered
<1>1. Init => Remembered!SavedInit
  <2>. SUFFICES ASSUME Init
                PROVE  Remembered!SavedInit
    OBVIOUS
  <2>1. ~ up /\ Restored(flash) \in Image
    BY RestoredImage DEF Init
  <2>. QED
    BY <2>1 DEF Remembered!SavedInit
<1>2. IInv /\ IInv' /\ [Next]_vars => [Remembered!SavedNext]_(Remembered!savedVars)
  <2>. SUFFICES ASSUME IInv, IInv', [Next]_vars
                PROVE  Remembered!SavedNext \/ UNCHANGED Remembered!savedVars
    OBVIOUS
  <2>1. ASSUME UNCHANGED <<stateVars, flash, op, up>>
        PROVE  UNCHANGED Remembered!savedVars
    BY <2>1 DEF stateVars, Runtime, Restored, Remembered!savedVars
  <2>2. CASE DrawFrame
    BY <2>1, <2>2 DEF DrawFrame, FrameStarts, ApplyStarts, ApplyEnds, FrameSent
  <2>3. CASE Restart
    <3>1. ~ up' /\ Restored(flash)' = Restored(flash)
      BY <2>3 DEF Restart, Restored
    <3>. QED
      BY <3>1 DEF Remembered!SavedNext, Remembered!Reset
  <2>4. CASE UNCHANGED vars
    BY <2>1, <2>4 DEF vars
  <2>. QED
    BY <2>2, <2>3, <2>4, BootRemembered, KeystrokeRemembered, OperationRemembered
    DEF Next
<1>. QED
  BY <1>1, <1>2, SpecIInv, PTL DEF Spec, StateRemembered, Remembered!SavedSpec

-----------------------------------------------------------------------------
(***************************************************************************)
(* The strip: update_rgb returns with the whole frame on the LEDs, and     *)
(* never touches the buffer under the DMA.  The invariant counts           *)
(* interrupts: until the thread is woken, every interrupt of the present   *)
(* transfer is either still a flag, or was the first (sem_release), or was *)
(* the second (the semaphore); and the second half was sent before the     *)
(* last flag was raised.                                                   *)
(***************************************************************************)
\* What is on the LEDs while a transfer without errors is under way.
SentSoFar ==
    /\ dma \in {"second", "done"} => leds["first"] = dma_buff
    /\ dma = "done" => leds["second"] = dma_buff

\* Where the interrupts of the present transfer are.
Interrupts ==
    /\ "error" \notin flags
    /\ "complete" \in flags => dma = "done"
    /\ "half" \in flags => dma \in {"second", "done"} /\ ~ sem_release
    /\ "half" \notin flags /\ dma \in {"second", "done"} => sem_release
    /\ dma = "first" => flags = {} /\ ~ sem_release
    /\ dma = "second" => "complete" \notin flags
    /\ ws_sem = 1 => dma = "done" /\ flags = {}
    /\ dma = "done" => "complete" \in flags \/ ws_sem = 1

Quiet == dma = "off" /\ ~ channel_busy /\ flags = {}

StripIInv ==
    /\ StripTypeOK
    /\ pc \in {"idle", "built", "reset", "ready"} => Quiet
    /\ pc \in {"reset", "ready"} => ws_sem = 0
    /\ pc = "ready" => ~ sem_release
    /\ pc = "wait" /\ ~ errored => dma # "off" /\ SentSoFar /\ Interrupts
    /\ pc = "woken" /\ ~ errored => dma = "done" /\ flags = {}
    /\ pc \in {"woken", "idle"} /\ ~ errored /\ dma_buff # Blank =>
          /\ leds["first"] = dma_buff
          /\ leds["second"] = dma_buff

-----------------------------------------------------------------------------
\* Types are kept by every step.
LEMMA NextStripType ==
    ASSUME StripTypeOK, [StripNext]_stripVars
    PROVE  StripTypeOK'
<1>. USE DEF StripTypeOK
<1>1. CASE \E f \in Frame : Build(f)
  BY <1>1 DEF Build
<1>2. CASE Thread
  BY <1>2 DEF Thread, Update, ResetSem, ClearRelease, StartDma, Take, StopDma
<1>3. CASE Transfer
  BY <1>3 DEF Transfer, HalfSent, AllSent
<1>4. CASE TransferError
  BY <1>4 DEF TransferError
<1>5. CASE Isr
  BY <1>5 DEF Isr, Serve
<1>6. CASE StripReset
  BY <1>6 DEF StripReset, Dark
<1>7. CASE UNCHANGED stripVars
  BY <1>7 DEF stripVars
<1>. QED
  BY <1>1, <1>2, <1>3, <1>4, <1>5, <1>6, <1>7 DEF StripNext

\* The invariant holds at the start: nothing has been sent.
LEMMA InitStripIInv ==
    ASSUME StripInit
    PROVE  StripIInv
  BY DEF StripInit, Dark, StripIInv, StripTypeOK, Quiet

\* The thread's own steps.
LEMMA ThreadKeeps ==
    ASSUME StripIInv, Thread \/ \E f \in Frame : Build(f), StripTypeOK'
    PROVE  StripIInv'
<1>. USE DEF StripIInv, Quiet
<1>1. CASE \E f \in Frame : Build(f)
  BY <1>1 DEF Build
<1>2. CASE ResetSem
  BY <1>2 DEF ResetSem
<1>3. CASE ClearRelease
  BY <1>3 DEF ClearRelease
<1>4. CASE StartDma
  <2>1. dma' = "first" /\ flags' = {} /\ ws_sem' = 0 /\ ~ sem_release'
    BY <1>4 DEF StartDma
  <2>. QED
    BY <1>4, <2>1 DEF StartDma, SentSoFar, Interrupts
<1>5. CASE Take
  BY <1>5 DEF Take, SentSoFar, Interrupts
<1>6. CASE StopDma
  BY <1>6 DEF StopDma
<1>. QED
  BY <1>1, <1>2, <1>3, <1>4, <1>5, <1>6 DEF Thread, Update

\* The transfer runs only while the thread waits for it.
LEMMA RunsOnlyInWait ==
    ASSUME StripIInv, dma \in {"first", "second"} \/ flags # {}
    PROVE  pc = "wait" \/ (pc = "woken" /\ errored)
  BY DEF StripIInv, Quiet, StripTypeOK

\* The DMA's and the interrupt's steps.
LEMMA TransferKeeps ==
    ASSUME StripIInv, Transfer \/ TransferError \/ Isr, StripTypeOK'
    PROVE  StripIInv'
<1>. USE DEF StripIInv
<1>1. pc = "wait" \/ (pc = "woken" /\ errored)
  BY RunsOnlyInWait DEF Transfer, HalfSent, AllSent, TransferError, Isr, Serve
<1>2. CASE HalfSent
  BY <1>1, <1>2 DEF HalfSent, SentSoFar, Interrupts, StripTypeOK
<1>3. CASE AllSent
  BY <1>1, <1>3 DEF AllSent, SentSoFar, Interrupts, StripTypeOK
<1>4. CASE TransferError
  BY <1>1, <1>4 DEF TransferError
<1>5. CASE Isr
  <2>1. CASE "half" \in flags
    BY <1>1, <1>5, <2>1 DEF Isr, Serve, SentSoFar, Interrupts, StripTypeOK
  <2>2. CASE "half" \notin flags
    <3>1. UNCHANGED <<pc, dma_buff, dma, leds, errored>> /\ flags' = {}
      BY <1>5, <2>2 DEF Isr, Serve
    <3>2. CASE errored
      BY <1>1, <3>1, <3>2
    <3>3. CASE ~ errored
      <4>1. "complete" \in flags
        BY <1>1, <1>5, <2>2, <3>3 DEF Isr, Serve, Interrupts, StripTypeOK
      <4>2. pc = "wait" /\ dma = "done" /\ sem_release
        BY <1>1, <2>2, <3>3, <4>1 DEF Interrupts
      <4>3. ws_sem' = 1 /\ UNCHANGED sem_release
        BY <1>5, <4>2 DEF Isr
      <4>. QED
        BY <3>1, <3>3, <4>2, <4>3 DEF SentSoFar, Interrupts
    <3>. QED
      BY <3>2, <3>3
  <2>. QED
    BY <2>1, <2>2
<1>. QED
  BY <1>2, <1>3, <1>4, <1>5 DEF Transfer

\* StripIInv is inductive.
LEMMA LedInductive ==
    ASSUME StripIInv, [StripNext]_stripVars
    PROVE  StripIInv'
<1>1. StripTypeOK'
  BY NextStripType DEF StripIInv
<1>2. CASE Thread \/ \E f \in Frame : Build(f)
  BY <1>1, <1>2, ThreadKeeps
<1>3. CASE Transfer \/ TransferError \/ Isr
  BY <1>1, <1>3, TransferKeeps
<1>4. CASE StripReset
  BY <1>1, <1>4 DEF StripReset, StripIInv, Quiet
<1>5. CASE UNCHANGED stripVars
  BY <1>1, <1>5 DEF stripVars, StripIInv, Quiet, SentSoFar, Interrupts
<1>. QED
  BY <1>2, <1>3, <1>4, <1>5 DEF StripNext

\* The driver's variables keep their types.
THEOREM LedTypeCorrect == StripSpec => []StripTypeOK
<1>1. StripInit => StripTypeOK
  BY DEF StripInit, Dark, StripTypeOK
<1>2. StripTypeOK /\ [StripNext]_stripVars => StripTypeOK'
  BY NextStripType
<1>. QED
  BY <1>1, <1>2, PTL DEF StripSpec

\* update_rgb returns with all of its frame on the LEDs.
THEOREM FrameWholeHolds == StripSpec => []FrameWhole
<1>1. StripInit => StripIInv
  BY InitStripIInv
<1>2. StripIInv /\ [StripNext]_stripVars => StripIInv'
  BY LedInductive
<1>3. StripIInv => FrameWhole
  BY DEF StripIInv, FrameWhole, StripTypeOK
<1>. QED
  BY <1>1, <1>2, <1>3, PTL DEF StripSpec

\* The buffer is not rebuilt under the DMA, nor a busy channel started.
THEOREM BufferQuietHolds == StripSpec => BufferQuiet
<1>1. StripInit => StripIInv
  BY InitStripIInv
<1>2. StripIInv /\ [StripNext]_stripVars => StripIInv'
  BY LedInductive
<1>3. StripIInv /\ [StripNext]_stripVars =>
        [/\ dma_buff' \notin {dma_buff, Blank} => ~ Reading
         /\ pc = "ready" /\ pc' = "wait" => ~ channel_busy]_stripVars
  <2>1. ASSUME StripIInv, StripNext
        PROVE  /\ dma_buff' \notin {dma_buff, Blank} => ~ Reading
               /\ pc = "ready" /\ pc' = "wait" => ~ channel_busy
    BY <2>1 DEF StripNext, StripReset, Build, Thread, Update, ResetSem, ClearRelease, StartDma, Take,
       StopDma, Transfer, HalfSent, AllSent, TransferError, Isr, StripIInv, Quiet,
       Reading
  <2>. QED
    BY <2>1
<1>. QED
  BY <1>1, <1>2, <1>3, PTL DEF StripSpec, BufferQuiet

(***************************************************************************)
(* No wake-up is lost.  While update_rgb waits for a transfer without      *)
(* errors, the DMA is running, or an interrupt is pending, or the          *)
(* semaphore has been given; and every step taken meanwhile uses up one of *)
(* the two halves to send and the interrupts they raise.  It is what is    *)
(* left of UpdateReturns when fairness is taken out of it.                 *)
(***************************************************************************)
WakeUpDue ==
    pc = "wait" /\ ~ errored => Reading \/ flags # {} \/ ws_sem = 1

One(b) == IF b THEN 1 ELSE 0

LeftToDo ==
    2 * One(dma = "first") + 2 * One(dma \in {"first", "second"})
        + One("half" \in flags) + One("complete" \in flags)

WakeUpNears ==
    [][pc = "wait" /\ pc' = "wait" /\ ~ errored' => LeftToDo' < LeftToDo]_stripVars

THEOREM WakeUpComes == StripSpec => []WakeUpDue /\ WakeUpNears
<1> DEFINE Nears == pc = "wait" /\ pc' = "wait" /\ ~ errored' => LeftToDo' < LeftToDo
<1>1. StripInit => StripIInv
  BY InitStripIInv
<1>2. StripIInv /\ [StripNext]_stripVars => StripIInv'
  BY LedInductive
<1>3. StripIInv => WakeUpDue
  <2> SUFFICES ASSUME StripIInv, pc = "wait", ~ errored
               PROVE  Reading \/ flags # {} \/ ws_sem = 1
    BY DEF WakeUpDue
  <2> QED
    BY DEF StripIInv, StripTypeOK, Interrupts, Reading
<1>4. StripIInv /\ [StripNext]_stripVars => [Nears]_stripVars
  <2> SUFFICES ASSUME StripIInv, StripNext, pc = "wait", pc' = "wait", ~ errored'
               PROVE  LeftToDo' < LeftToDo
    OBVIOUS
  <2>1. CASE HalfSent
    BY <2>1 DEF HalfSent, LeftToDo, One, StripIInv, Interrupts, StripTypeOK
  <2>2. CASE AllSent
    BY <2>2 DEF AllSent, LeftToDo, One, StripIInv, Interrupts, StripTypeOK
  <2>3. CASE Isr
    <3>1. UNCHANGED <<dma, errored>>
      BY <2>3 DEF Isr
    <3>2. "error" \notin flags /\ flags \subseteq {"half", "complete", "error"}
      BY <3>1 DEF StripIInv, Interrupts, StripTypeOK
    <3>3. \/ "half" \in flags /\ flags' = flags \ {"half"}
          \/ "half" \notin flags /\ "complete" \in flags /\ flags' = {}
      BY <2>3, <3>2 DEF Isr, Serve
    <3> QED
      BY <3>1, <3>3 DEF LeftToDo, One
  <2>4. ~ ((\E f \in Frame : Build(f)) \/ Thread \/ TransferError \/ StripReset)
    BY DEF Build, Thread, Update, ResetSem, ClearRelease, StartDma, Take, StopDma,
           TransferError, StripReset
  <2> QED
    BY <2>1, <2>2, <2>3, <2>4 DEF StripNext, Transfer
<1> QED
  BY <1>1, <1>2, <1>3, <1>4, PTL DEF StripSpec, WakeUpNears

-----------------------------------------------------------------------------
(***************************************************************************)
(* The two together.                                                       *)
(***************************************************************************)
LEMMA StepOfBacklight ==
    [LightsNext]_lightsVars => [Next]_vars
BY DEF LightsNext, lightsVars, Keyboard, BacklightThread, Draw, UpdateRgb, Send,
       UpdateEnds, Strip, PowerCycle, Next, DrawFrame

\* What is drawn is a frame.
LEMMA StepOfStrip ==
    IInv /\ [LightsNext]_lightsVars => [StripNext]_stripVars
<1> SUFFICES ASSUME IInv, [LightsNext]_lightsVars
             PROVE  [StripNext]_stripVars
  OBVIOUS
<1>1. CASE UpdateRgb
  <2>1. drawing \in Frame
    BY <1>1, FramesOfModes DEF UpdateRgb, ApplyEnds, IInv, FrameAlone
  <2> QED
    BY <1>1, <2>1 DEF UpdateRgb, StripNext
<1>2. CASE Send \/ UpdateEnds \/ Strip \/ PowerCycle
  BY <1>2 DEF Send, UpdateEnds, Strip, PowerCycle, StripNext, Thread
<1>3. CASE Keyboard \/ Draw \/ UNCHANGED lightsVars
  BY <1>3 DEF Keyboard, Draw, lightsVars
<1> QED
  BY <1>1, <1>2, <1>3 DEF LightsNext, BacklightThread

(***************************************************************************)
(* The backlight with its thread inside the driver is still a behaviour of *)
(* the backlight and of the strip, so what is proved of each holds of both *)
(* together, whatever resets and interrupts come.                          *)
(***************************************************************************)
THEOREM LightsImplement == LightsSpec => Spec /\ StripSpec
<1>1. LightsInit => Init /\ StripInit
  BY DEF LightsInit
<1>2. LightsSpec => Spec
  BY <1>1, StepOfBacklight, PTL DEF LightsSpec, Spec
<1>3. Spec => []IInv
  BY SpecIInv
<1> QED
  BY <1>1, <1>2, <1>3, StepOfStrip, PTL DEF LightsSpec, StripSpec
=============================================================================
