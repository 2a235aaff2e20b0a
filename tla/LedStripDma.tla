---------------------------- MODULE LedStripDma ----------------------------
(***************************************************************************)
(* The LED strip driver (ws2812_pwm_dma_stm32wb.c, ws2812_pwm_update_rgb): *)
(* the calling thread builds the DMA buffer, starts the transfer, and      *)
(* sleeps on a semaphore which the DMA interrupt gives; then it stops the  *)
(* transfer, and its caller may build the next frame in the same buffer.   *)
(* A transfer interrupts twice, half way and at its end, so the handler    *)
(* lets the first interrupt of a frame pass (sem_release) and gives the    *)
(* semaphore on the second.                                                *)
(*                                                                         *)
(* The peripheral and its HAL are external.  A HAL_DMA_IRQHandler call     *)
(* serves one flag, the half-transfer flag first; a transfer error ends    *)
(* the transfer.  The interrupt may be taken at any time after its flag is *)
(* raised, also after the next one is.                                     *)
(***************************************************************************)
EXTENDS Naturals

CONSTANTS
    Frame,   \* pixel arrays the caller asks for
    Blank    \* what the buffer and the LEDs hold before the first of them

ASSUME LedConstants == Blank \notin Frame

VARIABLES
    pc,           \* where the thread is in update_rgb
    dma_buff,     \* the frame the buffer encodes
    ws_sem,       \* count of the semaphore, limit 1
    sem_release,  \* one interrupt of this frame has been taken
    dma,          \* which half of the buffer the DMA is reading
    channel_busy, \* the HAL's state of the timer channel
    flags,        \* interrupt flags raised and not served
    leds,         \* half of the strip -> the frame it was last sent
    errored       \* history: the present frame's transfer had an error

stripVars == <<pc, dma_buff, ws_sem, sem_release, dma, channel_busy, flags,
               leds, errored>>

StripTypeOK ==
    /\ pc \in {"idle", "built", "reset", "ready", "wait", "woken"}
    /\ dma_buff \in Frame \cup {Blank}
    /\ ws_sem \in {0, 1}
    /\ sem_release \in BOOLEAN
    /\ dma \in {"off", "first", "second", "done"}
    /\ channel_busy \in BOOLEAN
    /\ flags \subseteq {"half", "complete", "error"}
    /\ leds \in [{"first", "second"} -> Frame \cup {Blank}]
    /\ errored \in BOOLEAN

Dark == [h \in {"first", "second"} |-> Blank]

StripInit ==
    /\ pc = "idle"
    /\ dma_buff = Blank
    /\ ws_sem = 0
    /\ sem_release = FALSE
    /\ dma = "off"
    /\ channel_busy = FALSE
    /\ flags = {}
    /\ leds = Dark
    /\ errored = FALSE

-----------------------------------------------------------------------------
(***************************************************************************)
(* The thread in ws2812_pwm_update_rgb.                                    *)
(***************************************************************************)
\* ws_build_buffer
Build(f) ==
    /\ pc = "idle"
    /\ dma_buff' = f
    /\ errored' = FALSE
    /\ pc' = "built"
    /\ UNCHANGED <<ws_sem, sem_release, dma, channel_busy, flags, leds>>

ResetSem ==
    /\ pc = "built"
    /\ ws_sem' = 0
    /\ pc' = "reset"
    /\ UNCHANGED <<dma_buff, sem_release, dma, channel_busy, flags, leds, errored>>

\* Mutant: sem_release keeps the value the last frame left.
KeepRelease ==
    /\ pc = "reset"
    /\ pc' = "ready"
    /\ UNCHANGED <<dma_buff, ws_sem, sem_release, dma, channel_busy, flags, leds,
                   errored>>

ClearRelease ==
    /\ pc = "reset"
    /\ sem_release' = FALSE
    /\ pc' = "ready"
    /\ UNCHANGED <<dma_buff, ws_sem, dma, channel_busy, flags, leds, errored>>

\* ws_start_dma: a busy channel starts nothing, and the result is ignored.
StartDma ==
    /\ pc = "ready"
    /\ pc' = "wait"
    /\ dma' = IF channel_busy THEN dma ELSE "first"
    /\ flags' = IF channel_busy THEN flags ELSE {}
    /\ channel_busy' = TRUE
    /\ UNCHANGED <<dma_buff, ws_sem, sem_release, leds, errored>>

\* Mutant: the call returns without waiting for its transfer.
TakeNothing ==
    /\ pc = "wait"
    /\ pc' = "idle"
    /\ UNCHANGED <<dma_buff, ws_sem, sem_release, dma, channel_busy, flags, leds,
                   errored>>

Take ==
    /\ pc = "wait"
    /\ ws_sem = 1
    /\ ws_sem' = 0
    /\ pc' = "woken"
    /\ UNCHANGED <<dma_buff, sem_release, dma, channel_busy, flags, leds, errored>>

StopDma ==
    /\ pc = "woken"
    /\ dma' = "off"
    /\ channel_busy' = FALSE
    /\ flags' = {}
    /\ pc' = "idle"
    /\ UNCHANGED <<dma_buff, ws_sem, sem_release, leds, errored>>

Update == ResetSem \/ ClearRelease \/ StartDma \/ Take

Thread == Update \/ StopDma

-----------------------------------------------------------------------------
(***************************************************************************)
(* The transfer: each half of the buffer is sent to its half of the strip. *)
(***************************************************************************)
HalfSent ==
    /\ dma = "first"
    /\ dma' = "second"
    /\ leds' = [leds EXCEPT !["first"] = dma_buff]
    /\ flags' = flags \cup {"half"}
    /\ UNCHANGED <<pc, dma_buff, ws_sem, sem_release, channel_busy, errored>>

AllSent ==
    /\ dma = "second"
    /\ dma' = "done"
    /\ leds' = [leds EXCEPT !["second"] = dma_buff]
    /\ flags' = flags \cup {"complete"}
    /\ UNCHANGED <<pc, dma_buff, ws_sem, sem_release, channel_busy, errored>>

TransferError ==
    /\ dma \in {"first", "second"}
    /\ dma' = "off"
    /\ flags' = flags \cup {"error"}
    /\ errored' = TRUE
    /\ UNCHANGED <<pc, dma_buff, ws_sem, sem_release, channel_busy, leds>>

Transfer == HalfSent \/ AllSent

\* Mutant: one interrupt serves all flags.
ServeAll ==
    /\ flags # {}
    /\ flags' = {}
    /\ channel_busy' = (channel_busy /\ flags = {"half"})

\* HAL_DMA_IRQHandler: the half-transfer flag goes first; the end of the
\* transfer and an error free the channel.
Serve ==
    \/ /\ "half" \in flags
       /\ flags' = flags \ {"half"}
       /\ UNCHANGED channel_busy
    \/ /\ "half" \notin flags
       /\ flags # {}
       /\ flags' = {}
       /\ channel_busy' = FALSE

\* Mutant: every interrupt gives, past the semaphore's limit.
IsrGivesAlways ==
    /\ Serve
    /\ ws_sem' = ws_sem + 1
    /\ UNCHANGED <<pc, dma_buff, sem_release, dma, leds, errored>>

\* ws2812_pwm_dma_isr
Isr ==
    /\ Serve
    /\ \/ /\ sem_release
          /\ ws_sem' = 1
          /\ UNCHANGED sem_release
       \/ /\ ~ sem_release
          /\ sem_release' = TRUE
          /\ UNCHANGED ws_sem
    /\ UNCHANGED <<pc, dma_buff, dma, leds, errored>>

\* A reset; the LEDs keep their colours as long as they have power.
StripReset ==
    /\ pc' = "idle"
    /\ dma_buff' = Blank
    /\ ws_sem' = 0
    /\ sem_release' = FALSE
    /\ dma' = "off"
    /\ channel_busy' = FALSE
    /\ flags' = {}
    /\ leds' \in {leds, Dark}
    /\ errored' = FALSE

StripNext ==
    \/ \E f \in Frame : Build(f)
    \/ Thread \/ Transfer \/ TransferError \/ Isr \/ StripReset

StripSpec == StripInit /\ [][StripNext]_stripVars

\* The thread is scheduled, the DMA makes progress, interrupts are taken.
StripFairSpec ==
    /\ StripSpec
    /\ WF_stripVars(Thread) /\ WF_stripVars(Transfer) /\ WF_stripVars(Isr)

-----------------------------------------------------------------------------
(***************************************************************************)
(* update_rgb returns only when the LEDs show the frame it was given, all  *)
(* of it: neither an interrupt of an earlier frame nor the half-transfer   *)
(* interrupt of this one wakes it.  So it is a whole frame that stays on   *)
(* them when no other is sent, because the backlight was turned off.       *)
(***************************************************************************)
FrameWhole ==
    pc \in {"woken", "idle"} /\ ~ errored /\ dma_buff # Blank =>
        leds = [h \in {"first", "second"} |-> dma_buff]

(***************************************************************************)
(* The buffer is never rebuilt while the DMA is reading it, nor is a       *)
(* transfer started while the HAL holds the channel, where its refusal     *)
(* would go unnoticed and the thread would sleep for ever.                 *)
(***************************************************************************)
Reading == dma \in {"first", "second"}

BufferQuiet ==
    [][/\ dma_buff' \notin {dma_buff, Blank} => ~ Reading
       /\ pc = "ready" /\ pc' = "wait" => ~ channel_busy]_stripVars

(***************************************************************************)
(* Every update_rgb returns, unless its transfer had an error: then one    *)
(* interrupt may be missing, and nothing wakes the backlight thread again. *)
(***************************************************************************)
UpdateReturns == pc = "wait" ~> pc = "idle" \/ errored
=============================================================================
