------------------------------- MODULE Kernel -------------------------------
(***************************************************************************)
(* kernel_main (kernel/kernel.c) with the interrupts that cut into it      *)
(* (interrupts.c, isr.asm, timer.c, keyboard.c).  There is one processor:  *)
(* the main thread runs the start-up calls in order and then its endless   *)
(* loop; an IRQ handler runs between two of its steps when the interrupt   *)
(* flag is set.  All gates are interrupt gates, so a handler runs to its   *)
(* iretq undisturbed and is one step.  A CPU exception may come at any     *)
(* step; its report ends the run.                                          *)
(*                                                                         *)
(* External: the 8259 interrupt controller (irr latches edges, masked or   *)
(* not; an IRQ in service blocks itself and the ones after it until EOI),  *)
(* the 8253 timer and the 8042 keyboard controller (one output byte; a new *)
(* byte is an edge of IRQ1).                                               *)
(***************************************************************************)
EXTENDS Timer, Sequences

CONSTANTS
    MaxPit,      \* bound on the edges of the 8253
    MaxKeys,     \* bound on the bytes the keyboard sends
    Rows         \* rows of the screen

ASSUME EdgesAssumption == MaxPit \in Nat /\ MaxKeys \in Nat
ASSUME RowsAssumption == Rows \in Nat \ {0}

IRQ0 == 0
IRQ1 == 1
Irqs == {IRQ0, IRQ1}

(* The calls of kernel_main up to its loop, in order.                      *)
StartUp == << "fb_init", "intr_init", "mem_init", "fb_enable_double_buffering",
              "sysinfo_init", "keyboard_init", "timer_init", "ide_init",
              "pci_init", "process_init", "sti", "tests" >>

VARIABLES
    step,            \* the next call of StartUp, Len(StartUp) + 1 in the loop
    loop,            \* where in the loop, see KernelTypeOK
    interrupt_flag,
    mask, irr, in_service,   \* the 8259
    pit,             \* edges of the 8253 so far
    port, output, sent,      \* the 8042: enabled, full, bytes sent so far
    ready,           \* ghost: start-up calls done
    current_ticks, last_tick,
    screen, back_buffer,     \* what each row shows
    use_double_buffer,
    row,             \* the row that is drawn or copied next
    frame_counter,   \* pictures drawn
    halted           \* a CPU exception was reported

pic_vars == <<mask, irr, in_service>>
kbd_vars == <<port, output, sent>>
loop_vars == <<loop, current_ticks, last_tick, row, frame_counter>>
fb_vars == <<screen, back_buffer, use_double_buffer>>
kernel_vars == <<timer_vars, step, interrupt_flag, pic_vars, pit, kbd_vars, ready, loop_vars,
                 fb_vars, halted>>

(* What a row may show: the n-th picture of the debug panel (for 0 what    *)
(* the boot loader left), or one of the other contents.                    *)
Panel(n) == <<"panel", n>>
Black == <<"black", 0>>
Warning == <<"warning", 0>>
Report == <<"report", 0>>
HeapMemory == <<"heap memory", 0>>

(* ExitBootServices leaves interrupts disabled and the devices running.    *)
KernelInit ==
    /\ TimerInit
    /\ step = 1
    /\ loop = "read"
    /\ interrupt_flag = FALSE
    /\ mask \in SUBSET Irqs
    /\ irr = {} /\ in_service = {}
    /\ pit = 0
    /\ port = TRUE /\ output = FALSE /\ sent = 0
    /\ ready = {}
    /\ current_ticks = 0 /\ last_tick = 0
    /\ screen = [r \in 1 .. Rows |-> Panel(0)]
    /\ back_buffer = [r \in 1 .. Rows |-> HeapMemory]
    /\ use_double_buffer = FALSE
    /\ row = 1 /\ frame_counter = 0
    /\ halted = FALSE

-----------------------------------------------------------------------------
(* Devices                                                                 *)

pit_edge ==
    /\ pit < MaxPit
    /\ pit' = pit + 1
    /\ irr' = irr \cup {IRQ0}
    /\ UNCHANGED <<timer_vars, step, interrupt_flag, mask, in_service, kbd_vars, ready, loop_vars,
                   fb_vars, halted>>

(* The controller passes a byte on when its output is empty.               *)
key_edge ==
    /\ sent < MaxKeys
    /\ port /\ ~ output
    /\ sent' = sent + 1
    /\ output' = TRUE
    /\ irr' = irr \cup {IRQ1}
    /\ UNCHANGED <<timer_vars, step, interrupt_flag, mask, in_service, pit, port, ready, loop_vars,
                   fb_vars, halted>>

-----------------------------------------------------------------------------
(* The start-up calls                                                      *)

At(name) == ~ halted /\ step <= Len(StartUp) /\ StartUp[step] = name

Advance(name) ==
    /\ At(name)
    /\ step' = step + 1
    /\ ready' = ready \cup {name}
    /\ UNCHANGED <<timer_vars, pit, loop_vars, halted>>

(* Mutant: interrupts are enabled at once.                                 *)
intr_init_sti ==
    /\ Advance("intr_init")
    /\ mask' = Irqs
    /\ irr' = {}
    /\ in_service' = {}
    /\ interrupt_flag' = TRUE
    /\ UNCHANGED <<kbd_vars, fb_vars>>

(* pic_remap starts the 8259 afresh, then everything is masked.            *)
intr_init ==
    /\ Advance("intr_init")
    /\ mask' = Irqs
    /\ irr' = {}
    /\ in_service' = {}
    /\ UNCHANGED <<interrupt_flag, kbd_vars, fb_vars>>

(* Mutant: the output is not flushed, and IRQ1 not latched by the test.    *)
keyboard_init_noFlush ==
    /\ Advance("keyboard_init")
    /\ mask' = mask \ {IRQ1}
    /\ UNCHANGED <<interrupt_flag, irr, in_service, kbd_vars, fb_vars>>

(* The port is disabled, the output flushed, the configuration byte read   *)
(* and written, the port tested and enabled, IRQ1 unmasked.  The test      *)
(* result is polled, but it has been an edge of IRQ1 all the same.  With a *)
(* timeout or a failed test the port stays disabled and IRQ1 masked.       *)
keyboard_init ==
    /\ Advance("keyboard_init")
    /\ output' = FALSE
    /\ \/ port' = FALSE /\ UNCHANGED pic_vars
       \/ port' = FALSE /\ irr' = irr \cup {IRQ1} /\ UNCHANGED <<mask, in_service>>
       \/ /\ port' = TRUE
          /\ irr' = irr \cup {IRQ1}
          /\ mask' = mask \ {IRQ1}
          /\ UNCHANGED in_service
    /\ UNCHANGED <<interrupt_flag, sent, fb_vars>>

timer_init ==
    /\ Advance("timer_init")
    /\ mask' = mask \ {IRQ0}
    /\ UNCHANGED <<interrupt_flag, irr, in_service, kbd_vars, fb_vars>>

sti ==
    /\ Advance("sti")
    /\ interrupt_flag' = TRUE
    /\ UNCHANGED <<pic_vars, kbd_vars, fb_vars>>

(* The calls that leave interrupts, their devices and the screen alone.    *)
other_init ==
    /\ \E name \in {"fb_init", "mem_init", "sysinfo_init", "ide_init", "pci_init",
                    "process_init", "tests"} : Advance(name)
    /\ UNCHANGED <<interrupt_flag, pic_vars, kbd_vars, fb_vars>>

-----------------------------------------------------------------------------
(* The framebuffer                                                         *)

(* Mutant: the back buffer is not drawn into.                              *)
draw_front(picture) == screen' = picture /\ UNCHANGED back_buffer

(* fb_put_pixel, and all that is built on it, draws into the back buffer   *)
(* once there is one.                                                      *)
target == IF use_double_buffer THEN back_buffer ELSE screen

draw(picture) ==
    IF use_double_buffer
    THEN back_buffer' = picture /\ UNCHANGED screen
    ELSE screen' = picture /\ UNCHANGED back_buffer

(* The memory mem_alloc returns is not cleared.  Without it a warning is   *)
(* written over the top of the screen.                                     *)
fb_enable_double_buffering ==
    /\ Advance("fb_enable_double_buffering")
    /\ \/ use_double_buffer' = TRUE /\ UNCHANGED <<screen, back_buffer>>
       \/ draw([screen EXCEPT ![1] = Warning]) /\ UNCHANGED use_double_buffer
    /\ UNCHANGED <<interrupt_flag, pic_vars, kbd_vars>>

-----------------------------------------------------------------------------
(* The loop                                                                *)

InLoop(where) ==
    /\ ~ halted
    /\ step = Len(StartUp) + 1
    /\ loop = where
    /\ UNCHANGED <<timer_vars, step, interrupt_flag, pic_vars, pit, kbd_vars, ready,
                   use_double_buffer, halted>>

loop_read ==
    /\ InLoop("read")
    /\ current_ticks' = timer_ticks
    /\ loop' = "scheduler"
    /\ UNCHANGED <<last_tick, row, frame_counter, screen, back_buffer>>

(* scheduler(), see Process.                                               *)
loop_scheduler ==
    /\ InLoop("scheduler")
    /\ loop' = "render"
    /\ UNCHANGED <<current_ticks, last_tick, row, frame_counter, screen, back_buffer>>

(* Mutant: a tick is waited for too long.                                  *)
RenderDue_late == current_ticks - last_tick > 2

RenderDue == current_ticks - last_tick >= 2

(* debug_panel_render clears its buffer, then draws from top to bottom.    *)
loop_render ==
    /\ InLoop("render")
    /\ IF RenderDue
       THEN loop' = "draw" /\ draw([r \in 1 .. Rows |-> Black])
       ELSE loop' = "read" /\ UNCHANGED <<screen, back_buffer>>
    /\ row' = 1
    /\ UNCHANGED <<current_ticks, last_tick, frame_counter>>

debug_panel_render ==
    /\ InLoop("draw")
    /\ draw([target EXCEPT ![row] = Panel(frame_counter + 1)])
    /\ IF row < Rows
       THEN row' = row + 1 /\ UNCHANGED <<loop, frame_counter>>
       ELSE row' = 1 /\ loop' = "swap" /\ frame_counter' = frame_counter + 1
    /\ UNCHANGED <<current_ticks, last_tick>>

(* One row of the copy; without a back buffer there is nothing to copy.    *)
fb_swap_buffers ==
    /\ InLoop("swap")
    /\ screen' = IF use_double_buffer THEN [screen EXCEPT ![row] = back_buffer[row]] ELSE screen
    /\ IF use_double_buffer /\ row < Rows
       THEN row' = row + 1 /\ UNCHANGED loop
       ELSE row' = 1 /\ loop' = "swapped"
    /\ UNCHANGED <<current_ticks, last_tick, frame_counter, back_buffer>>

(* Mutant: the counter is read again.                                      *)
loop_swapped_reread ==
    /\ InLoop("swapped")
    /\ last_tick' = timer_ticks
    /\ loop' = "read"
    /\ UNCHANGED <<current_ticks, row, frame_counter, screen, back_buffer>>

loop_swapped ==
    /\ InLoop("swapped")
    /\ last_tick' = current_ticks
    /\ loop' = "read"
    /\ UNCHANGED <<current_ticks, row, frame_counter, screen, back_buffer>>

Main == intr_init \/ keyboard_init \/ timer_init \/ sti \/ other_init
        \/ fb_enable_double_buffering \/ loop_read \/ loop_scheduler \/ loop_render
        \/ debug_panel_render \/ fb_swap_buffers \/ loop_swapped

-----------------------------------------------------------------------------
(* Interrupts                                                              *)

(* The 8259 offers q: it is latched, not masked, and nothing at or above   *)
(* its priority is in service or, for q itself, latched.                   *)
Offered(q) ==
    /\ q \in irr \ mask
    /\ \A p \in in_service : p > q
    /\ \A p \in irr \ mask : p >= q

(* Mutant: no EOI.                                                         *)
pic_eoi_missing(q, served) == served

pic_eoi(q, served) == served \ {q}

keyboard_handler == output' = FALSE

(* isr_handler for a vector of the 8259: EOI first, then the handler.      *)
isr_handler(q) ==
    /\ interrupt_flag
    /\ Offered(q)
    /\ irr' = irr \ {q}
    /\ in_service' = pic_eoi(q, in_service \cup {q})
    /\ \/ q = IRQ0 /\ timer_handler /\ UNCHANGED output
       \/ q = IRQ1 /\ keyboard_handler /\ UNCHANGED timer_vars
    /\ UNCHANGED <<step, interrupt_flag, mask, pit, port, sent, ready, loop_vars,
                   fb_vars, halted>>

Interrupt == \E q \in Irqs : isr_handler(q)

(* A vector below 32, once the IDT is loaded: panic_report clears the      *)
(* screen, writes its report over it and stops for good with interrupts    *)
(* disabled.                                                               *)
panic_report ==
    /\ "intr_init" \in ready
    /\ ~ halted
    /\ halted' = TRUE
    /\ interrupt_flag' = FALSE
    /\ draw([r \in 1 .. Rows |-> Report])
    /\ UNCHANGED <<timer_vars, step, pic_vars, pit, kbd_vars, ready, loop_vars,
                   use_double_buffer>>

KernelNext == Main \/ Interrupt \/ panic_report \/ pit_edge \/ key_edge

(* Unless an exception stops it, the processor goes on: it takes an        *)
(* interrupt that stays offered, and interrupts do not keep the main       *)
(* thread from going on (a handler is far shorter than the 10 ms between   *)
(* two edges of the timer).                                                *)
KernelFairness == WF_kernel_vars(Main) /\ \A q \in Irqs : WF_kernel_vars(isr_handler(q))

KernelSpec == KernelInit /\ [][KernelNext]_kernel_vars /\ KernelFairness

-----------------------------------------------------------------------------
(* Properties                                                              *)

KernelTypeOK ==
    /\ step \in 1 .. Len(StartUp) + 1
    /\ loop \in {"read", "scheduler", "render", "draw", "swap", "swapped"}
    /\ mask \subseteq Irqs /\ irr \subseteq Irqs /\ in_service \subseteq Irqs
    /\ {interrupt_flag, port, output} \subseteq BOOLEAN
    /\ pit \in 0 .. MaxPit /\ sent \in 0 .. MaxKeys
    /\ timer_ticks \in Nat /\ system_uptime_seconds \in Nat
    /\ current_ticks \in Nat /\ last_tick \in Nat
    /\ row \in 1 .. Rows /\ frame_counter \in Nat
    /\ {use_double_buffer, halted} \subseteq BOOLEAN

(* "caller must execute sti after all devices are initialised"             *)
(* (interrupts.c:464): no handler runs before every device it or the main  *)
(* thread relies on is set up, whatever was latched or unmasked on the way.*)
HandlersFindDevicesReady ==
    [][Interrupt =>
         {"intr_init", "keyboard_init", "timer_init", "ide_init", "pci_init", "process_init"}
            \subseteq ready]_kernel_vars

(* The unsigned difference current_ticks - last_tick of the loop never     *)
(* wraps: the copies of the tick counter never run ahead of each other or  *)
(* of the counter, although the interrupt may fall between any two reads.  *)
TickCopiesOrdered ==
    /\ last_tick <= current_ticks
    /\ current_ticks <= timer_ticks
    /\ system_uptime_seconds = timer_ticks \div TicksPerSecond

(* "Double buffering for smoother UI rendering" (README.md:9): whatever    *)
(* the main loop is doing when the screen is looked at or an exception     *)
(* stops it, the screen never shows a picture half drawn, heap memory or   *)
(* the report: its upper rows are the newest picture, the others the one   *)
(* before, and it is torn like that only while rows are copied.  Without a *)
(* back buffer the report of an exception is all there is to see.          *)
ScreenWhole ==
    IF use_double_buffer
    THEN \E k \in 0 .. Rows :
            /\ \A r \in 1 .. Rows :
                  screen[r] = Panel(IF r <= k THEN frame_counter ELSE frame_counter - 1)
            /\ loop # "swap" => k = Rows
    ELSE halted => \A r \in 1 .. Rows : screen[r] = Report

(* The screen keeps up: two ticks after a picture another one is drawn.    *)
ScreenKeepsUp ==
    \A t \in 2 .. MaxPit : timer_ticks >= t ~> last_tick >= t - 1 \/ halted

(* Every tick the 8259 has latched is counted, every byte in the keyboard  *)
(* controller is read once the keyboard is enabled: no lost edge, missing  *)
(* EOI, stale byte or mask leaves a device waiting for ever, unless an     *)
(* exception stops the processor.                                          *)
TicksServed == IRQ0 \in irr ~> IRQ0 \notin irr \/ halted
KeysServed == (port /\ output) ~> ~ output \/ halted
=============================================================================
