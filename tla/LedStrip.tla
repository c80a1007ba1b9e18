------------------------------ MODULE LedStrip ------------------------------
(***************************************************************************)
(* The driver of the LED strip (WS2812_DMA).  There are two buffers: while *)
(* the DMA channel sends one of them the other is drawn to.  The interrupt *)
(* at the end of a transfer starts an alarm, and its interrupt in turn     *)
(* releases the semaphore that the next show() waits for, so that the      *)
(* strip has had time to latch.                                            *)
(***************************************************************************)
EXTENDS Naturals

CONSTANTS Leds, Dark

VARIABLES
    buffers,   \* _buffers, drawn to
    drawing,   \* _draw_buffer_index
    dma,       \* the channel: "idle", "running" or "complete", its interrupt
               \* pending; and the buffer it was given last
    sem,       \* g_reset_delay_complete_sem
    alarm,     \* g_reset_delay_alarm_id, pending
    recent,    \* the last frame was less than MIN_FRAME_TIME_US ago
    show       \* show() has been called

ledVars == <<buffers, drawing, dma, sem, alarm, recent, show>>

-----------------------------------------------------------------------------
\* set_pixel and clear, on a buffer.
Painted(buffer, leds, paint) == [l \in Leds |-> IF l \in leds THEN paint ELSE buffer[l]]
Cleared == [l \in Leds |-> Dark]

\* Another frame so soon is left out.
ShowLimited ==
    /\ show /\ recent /\ show' = FALSE
    /\ UNCHANGED <<buffers, drawing, dma, sem, alarm, recent>>

\* Once the semaphore can be had, the buffer is sent and the other drawn to.
Show ==
    /\ show /\ ~recent /\ show' = FALSE
    /\ sem = 1 /\ sem' = 0
    /\ dma' = [state |-> "running", buffer |-> drawing]
    /\ drawing' = 1 - drawing
    /\ recent' = TRUE
    /\ UNCHANGED <<buffers, alarm>>

\* The hardware.
DmaEnds ==
    /\ dma.state = "running" /\ dma' = [dma EXCEPT !.state = "complete"]
    /\ UNCHANGED <<buffers, drawing, sem, alarm, recent, show>>

\* Mutant: nothing happens where there is no alarm to be had.
dma_complete_handlerAlarmOnly ==
    /\ dma.state = "complete" /\ dma' = [dma EXCEPT !.state = "idle"]
    /\ alarm' \in BOOLEAN
    /\ UNCHANGED <<buffers, drawing, sem, recent, show>>

\* Where there is no alarm to be had, the interrupt waits itself.
dma_complete_handler ==
    /\ dma.state = "complete" /\ dma' = [dma EXCEPT !.state = "idle"]
    /\ \/ alarm' = TRUE /\ UNCHANGED sem
       \/ alarm' = FALSE /\ sem' = 1
    /\ UNCHANGED <<buffers, drawing, recent, show>>

reset_delay_complete ==
    /\ alarm /\ alarm' = FALSE
    /\ sem' = 1
    /\ UNCHANGED <<buffers, drawing, dma, recent, show>>

FrameTime ==
    /\ recent /\ recent' = FALSE
    /\ UNCHANGED <<buffers, drawing, dma, sem, alarm, show>>

LedInit ==
    /\ buffers = [b \in {0, 1} |-> Cleared] /\ drawing = 0
    /\ dma = [state |-> "idle", buffer |-> 1] /\ sem = 1
    /\ alarm = FALSE /\ recent = FALSE

LedNext ==
    \/ ShowLimited \/ Show \/ DmaEnds \/ dma_complete_handler \/ reset_delay_complete \/ FrameTime

\* Interrupts are served, time passes, and show() goes on when it can.
LedFairness ==
    /\ WF_ledVars(Show) /\ WF_ledVars(ShowLimited) /\ WF_ledVars(DmaEnds)
    /\ WF_ledVars(dma_complete_handler) /\ WF_ledVars(reset_delay_complete)

-----------------------------------------------------------------------------
(* Properties *)

\* The semaphore always comes back, whether there is an alarm or not: the main
\* loop does not hang in show().
ShowReturns == show ~> ~show
=============================================================================
