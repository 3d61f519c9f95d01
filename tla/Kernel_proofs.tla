--------------------------- MODULE Kernel_proofs ---------------------------
(***************************************************************************)
(* Proofs about Kernel: the arithmetic of the main loop on copies of the   *)
(* tick counter, the order of start-up and what the screen shows, for      *)
(* every number of ticks per second, timer edges, keyboard bytes and rows. *)
(***************************************************************************)
EXTENDS Kernel, TLAPS

Counters ==
    /\ timer_ticks \in Nat /\ system_uptime_seconds \in Nat
    /\ current_ticks \in Nat /\ last_tick \in Nat

TickInv == Counters /\ TickCopiesOrdered

(* The whole seconds in one tick more.                                     *)
LEMMA DivStep ==
    ASSUME NEW t \in Nat, NEW n \in Nat \ {0}
    PROVE  (t + 1) \div n = IF (t + 1) % n = 0 THEN t \div n + 1 ELSE t \div n
<1> DEFINE q == t \div n
           r == t % n
<1>1. q \in Nat /\ r \in 0 .. n - 1 /\ t = n * q + r
  OBVIOUS
<1>2. CASE r + 1 < n
  <2>1. t + 1 = n * q + (r + 1) /\ r + 1 \in 1 .. n - 1
    BY <1>1, <1>2
  <2>2. (t + 1) \div n = q /\ (t + 1) % n = r + 1
    BY <2>1, <1>1
  <2> QED
    BY <2>1, <2>2
<1>3. CASE r + 1 = n
  <2> DEFINE p == q + 1
  <2>1. p \in Nat /\ t + 1 = n * p + 0 /\ 0 \in 0 .. n - 1
    BY <1>1, <1>3
  <2> HIDE DEF p, q, r
  <2>2. (t + 1) \div n = p /\ (t + 1) % n = 0
    BY <2>1
  <2> QED
    BY <2>2 DEF p, q
<1> QED
  BY <1>1, <1>2, <1>3

(* The handler of IRQ0 keeps the two counters in step.                     *)
LEMMA TimerStep ==
    ASSUME timer_ticks \in Nat, system_uptime_seconds = timer_ticks \div TicksPerSecond,
           timer_handler
    PROVE  /\ timer_ticks' = timer_ticks + 1
           /\ system_uptime_seconds' = timer_ticks' \div TicksPerSecond
BY DivStep, TicksPerSecondAssumption DEF timer_handler

(* IRQ0 and the reads of the main loop keep the copies of the tick counter *)
(* behind it.                                                              *)
LEMMA TickStep == TickInv /\ [KernelNext]_kernel_vars => TickInv'
<1> SUFFICES ASSUME TickInv, [KernelNext]_kernel_vars PROVE TickInv'
  OBVIOUS
<1> USE DEF TickInv, Counters, TickCopiesOrdered
<1>1. CASE UNCHANGED <<timer_vars, loop_vars>>
  BY <1>1 DEF timer_vars, loop_vars
<1>2. CASE loop_read
  BY <1>2 DEF loop_read, InLoop, timer_vars
<1>3. CASE loop_scheduler
  BY <1>3 DEF loop_scheduler, InLoop, timer_vars
<1>4. CASE loop_render \/ debug_panel_render \/ fb_swap_buffers \/ loop_swapped
  BY <1>4 DEF loop_render, debug_panel_render, fb_swap_buffers, loop_swapped, InLoop, timer_vars
<1>5. ASSUME NEW q \in Irqs, isr_handler(q) PROVE TickInv'
  <2>1. UNCHANGED <<current_ticks, last_tick>>
    BY <1>5 DEF isr_handler, loop_vars
  <2>2. CASE timer_handler
    <3>1. timer_ticks' = timer_ticks + 1
          /\ system_uptime_seconds' = timer_ticks' \div TicksPerSecond
      BY <2>2, TimerStep
    <3>2. system_uptime_seconds' \in Nat
      BY <2>2 DEF timer_handler
    <3> QED
      BY <2>1, <3>1, <3>2
  <2>3. CASE UNCHANGED timer_vars
    BY <2>1, <2>3 DEF timer_vars
  <2> QED
    BY <1>5, <2>2, <2>3 DEF isr_handler
<1>6. CASE intr_init \/ keyboard_init \/ timer_init \/ sti \/ other_init
           \/ fb_enable_double_buffering
  BY <1>1, <1>6 DEF intr_init, keyboard_init, timer_init, sti, other_init,
                    fb_enable_double_buffering, Advance
<1>7. CASE pit_edge \/ key_edge \/ panic_report
  BY <1>1, <1>7 DEF pit_edge, key_edge, panic_report
<1>8. CASE UNCHANGED kernel_vars
  BY <1>1, <1>8 DEF kernel_vars
<1> QED
  BY <1>2, <1>3, <1>4, <1>5, <1>6, <1>7, <1>8 DEF KernelNext, Main, Interrupt

(* The unsigned differences of the main loop never wrap, and the seconds   *)
(* are the whole seconds of the ticks, however interrupts interleave.      *)
THEOREM KernelTicksOrdered == KernelSpec => []TickCopiesOrdered
<1>1. KernelInit => TickInv
  BY TicksPerSecondAssumption
  DEF KernelInit, TimerInit, TickInv, Counters, TickCopiesOrdered
<1>2. TickInv => TickCopiesOrdered
  BY DEF TickInv
<1> QED
  BY <1>1, <1>2, TickStep, PTL DEF KernelSpec

-----------------------------------------------------------------------------
(* What start-up has done is what comes before the next call, and          *)
(* interrupts stay disabled up to sti, the eleventh call.                  *)
StartInv ==
    /\ step \in 1 .. Len(StartUp) + 1
    /\ \A i \in 1 .. Len(StartUp) : i < step => StartUp[i] \in ready
    /\ interrupt_flag => step > 11

(* Where sti and the switch to double buffering stand in kernel_main.      *)
LEMMA StartUpCalls ==
    /\ Len(StartUp) = 12
    /\ StartUp[2] = "intr_init" /\ StartUp[6] = "keyboard_init" /\ StartUp[7] = "timer_init"
    /\ StartUp[8] = "ide_init" /\ StartUp[9] = "pci_init" /\ StartUp[10] = "process_init"
    /\ \A i \in 1 .. 12 : StartUp[i] = "sti" <=> i = 11
    /\ \A i \in 1 .. 12 : StartUp[i] = "fb_enable_double_buffering" <=> i = 4
BY DEF StartUp

(* After one more call of kernel_main all calls before it have been made.  *)
LEMMA AdvanceStep ==
    ASSUME NEW name, StartInv, Advance(name)
    PROVE  /\ step' \in 1 .. Len(StartUp) + 1
           /\ \A i \in 1 .. Len(StartUp) : i < step' => StartUp[i] \in ready'
           /\ step' = step + 1
           /\ name = "sti" => step = 11
<1>1. step <= Len(StartUp) /\ StartUp[step] = name /\ step' = step + 1
      /\ ready' = ready \cup {name}
  BY DEF Advance, At
<1> QED
  BY <1>1, StartUpCalls DEF StartInv

(* No step of kernel_main, of a handler or of a device undoes what start-up *)
(* has done.                                                               *)
LEMMA StartStep == StartInv /\ [KernelNext]_kernel_vars => StartInv'
<1> SUFFICES ASSUME StartInv, [KernelNext]_kernel_vars PROVE StartInv'
  OBVIOUS
<1>1. CASE UNCHANGED <<step, interrupt_flag, ready>>
  BY <1>1 DEF StartInv
<1>2. ASSUME NEW name, Advance(name), UNCHANGED interrupt_flag PROVE StartInv'
  BY <1>2, AdvanceStep, StartUpCalls DEF StartInv
<1>3. CASE sti
  BY <1>3, AdvanceStep, StartUpCalls DEF StartInv, sti
<1>4. CASE intr_init \/ keyboard_init \/ timer_init \/ other_init
           \/ fb_enable_double_buffering
  BY <1>2, <1>4 DEF intr_init, keyboard_init, timer_init, other_init, fb_enable_double_buffering
<1>5. CASE loop_read \/ loop_scheduler \/ loop_render \/ debug_panel_render
           \/ fb_swap_buffers \/ loop_swapped
  BY <1>1, <1>5 DEF loop_read, loop_scheduler, loop_render, debug_panel_render,
                    fb_swap_buffers, loop_swapped, InLoop
<1>6. ASSUME NEW q \in Irqs, isr_handler(q) PROVE StartInv'
  BY <1>1, <1>6 DEF isr_handler
<1>7. CASE pit_edge \/ key_edge
  BY <1>1, <1>7 DEF pit_edge, key_edge
<1>9. CASE panic_report
  BY <1>9 DEF StartInv, panic_report
<1>8. CASE UNCHANGED kernel_vars
  BY <1>1, <1>8 DEF kernel_vars
<1> QED
  BY <1>3, <1>4, <1>5, <1>6, <1>7, <1>8, <1>9 DEF KernelNext, Main, Interrupt

(* No handler runs before the devices are set up ("caller must execute sti *)
(* after all devices are initialised", interrupts.c:464).                  *)
THEOREM KernelHandlersReady == KernelSpec => HandlersFindDevicesReady
<1>1. KernelInit => StartInv
  BY StartUpCalls DEF KernelInit, StartInv
<1>2. StartInv /\ [KernelNext]_kernel_vars =>
        [Interrupt => {"intr_init", "keyboard_init", "timer_init", "ide_init", "pci_init",
                       "process_init"} \subseteq ready]_kernel_vars
  <2> SUFFICES ASSUME StartInv, Interrupt
               PROVE  {"intr_init", "keyboard_init", "timer_init", "ide_init", "pci_init",
                       "process_init"} \subseteq ready
    OBVIOUS
  <2>1. step > 11
    BY DEF StartInv, Interrupt, isr_handler
  <2>2. \A i \in 1 .. 11 : StartUp[i] \in ready
    BY <2>1, StartUpCalls DEF StartInv
  <2> QED
    BY <2>2, StartUpCalls
<1> QED
  BY <1>1, <1>2, StartStep, PTL DEF KernelSpec, HandlersFindDevicesReady

-----------------------------------------------------------------------------
(* The two buffers along the main loop.  Up to the call that may turn      *)
(* double buffering on, nothing has been drawn; from then on a picture is  *)
(* completed in the back buffer before its first row is copied.            *)
Contents == {Panel(n) : n \in Nat} \cup {Black, Warning, Report, HeapMemory}

Buffers ==
    /\ row \in 1 .. Rows
    /\ frame_counter \in Nat
    /\ use_double_buffer \in BOOLEAN /\ halted \in BOOLEAN
    /\ screen \in [1 .. Rows -> Contents]
    /\ back_buffer \in [1 .. Rows -> Contents]

Before ==
    /\ step \in Nat \ {0}
    /\ step <= Len(StartUp) => loop = "read" /\ frame_counter = 0
    /\ step <= 4 => ~ use_double_buffer
    /\ step <= 4 /\ ~ halted => \A r \in 1 .. Rows : screen[r] = Panel(0)

Doubled ==
    /\ loop # "swap" => \A r \in 1 .. Rows : screen[r] = Panel(frame_counter)
    /\ loop = "swap" => \A r \in 1 .. Rows :
          screen[r] = Panel(IF r < row THEN frame_counter ELSE frame_counter - 1)
    /\ loop = "draw" /\ ~ halted =>
          \A r \in 1 .. row - 1 : back_buffer[r] = Panel(frame_counter + 1)
    /\ loop = "swap" /\ ~ halted => \A r \in 1 .. Rows : back_buffer[r] = Panel(frame_counter)

ScreenInv ==
    /\ Buffers
    /\ Before
    /\ use_double_buffer => Doubled
    /\ ~ use_double_buffer /\ halted => \A r \in 1 .. Rows : screen[r] = Report

(* What the screen shows is whole or torn where the copy stands.           *)
LEMMA ScreenInvImplies == ScreenInv => ScreenWhole
<1> SUFFICES ASSUME ScreenInv PROVE ScreenWhole
  OBVIOUS
<1>1. CASE use_double_buffer /\ loop = "swap"
  <2>1. row - 1 \in 0 .. Rows /\ \A r \in 1 .. Rows : r < row <=> r <= row - 1
    BY RowsAssumption DEF ScreenInv, Buffers
  <2>2. \A r \in 1 .. Rows :
           screen[r] = Panel(IF r <= row - 1 THEN frame_counter ELSE frame_counter - 1)
    BY <1>1, <2>1 DEF ScreenInv, Doubled
  <2> QED
    BY <1>1, <2>1, <2>2 DEF ScreenWhole
<1>2. CASE use_double_buffer /\ loop # "swap"
  <2>1. Rows \in 0 .. Rows
    BY RowsAssumption
  <2>2. \A r \in 1 .. Rows :
           screen[r] = Panel(IF r <= Rows THEN frame_counter ELSE frame_counter - 1)
    BY <1>2 DEF ScreenInv, Doubled
  <2> QED
    BY <1>2, <2>1, <2>2 DEF ScreenWhole
<1>3. CASE ~ use_double_buffer
  BY <1>3 DEF ScreenInv, ScreenWhole
<1> QED
  BY <1>1, <1>2, <1>3

(* Drawing, copying and an exception between any two rows keep the two     *)
(* buffers in step with the main loop.                                     *)
LEMMA ScreenStep == ScreenInv /\ [KernelNext]_kernel_vars => ScreenInv'
<1> SUFFICES ASSUME ScreenInv, [KernelNext]_kernel_vars PROVE ScreenInv'
  OBVIOUS
<1> USE RowsAssumption DEF ScreenInv, Buffers, Before, Doubled
<1>0. /\ \A n \in Nat : Panel(n) \in Contents
      /\ {Black, Warning, Report, HeapMemory} \subseteq Contents
  BY DEF Contents
<1>1. CASE UNCHANGED <<step, loop_vars, fb_vars, halted>>
  BY <1>1 DEF loop_vars, fb_vars
<1>2. ASSUME NEW name, Advance(name), UNCHANGED fb_vars PROVE ScreenInv'
  BY <1>2, StartUpCalls DEF Advance, At, loop_vars, fb_vars
<1>3. CASE intr_init \/ keyboard_init \/ timer_init \/ sti \/ other_init
  BY <1>2, <1>3 DEF intr_init, keyboard_init, timer_init, sti, other_init
<1>4. CASE fb_enable_double_buffering
  <2>1. step = 4 /\ step' = 5 /\ ~ halted /\ UNCHANGED <<loop, row, frame_counter, halted>>
    BY <1>4, StartUpCalls DEF fb_enable_double_buffering, Advance, At, loop_vars
  <2>2. CASE use_double_buffer' = TRUE /\ UNCHANGED <<screen, back_buffer>>
    BY <2>1, <2>2, StartUpCalls
  <2>3. CASE draw([screen EXCEPT ![1] = Warning]) /\ UNCHANGED use_double_buffer
    <3>1. screen' = [screen EXCEPT ![1] = Warning] /\ UNCHANGED <<back_buffer, use_double_buffer>>
      BY <2>1, <2>3 DEF draw
    <3>2. screen' \in [1 .. Rows -> Contents]
      BY <1>0, <3>1
    <3> QED
      BY <2>1, <3>1, <3>2, StartUpCalls
  <2> QED
    BY <1>4, <2>2, <2>3 DEF fb_enable_double_buffering
<1>5. CASE loop_read \/ loop_scheduler \/ loop_swapped
  <2>1. /\ UNCHANGED <<step, row, frame_counter, fb_vars, halted>>
        /\ step > Len(StartUp)
        /\ loop # "swap" /\ loop' \notin {"draw", "swap"}
    BY <1>5, StartUpCalls DEF loop_read, loop_scheduler, loop_swapped, InLoop, fb_vars
  <2> QED
    BY <2>1 DEF fb_vars
<1>6. CASE loop_render
  BY <1>0, <1>6, StartUpCalls DEF loop_render, InLoop, draw
<1>7. CASE debug_panel_render
  <2> DEFINE P == Panel(frame_counter + 1)
  <2>1. /\ loop = "draw" /\ ~ halted /\ step' = step /\ step = Len(StartUp) + 1
        /\ UNCHANGED <<use_double_buffer, halted>>
        /\ P \in Contents
    BY <1>0, <1>7 DEF debug_panel_render, InLoop
  <2> HIDE DEF P
  <2>2. IF row < Rows
        THEN row' = row + 1 /\ UNCHANGED <<loop, frame_counter>>
        ELSE row' = 1 /\ loop' = "swap" /\ frame_counter' = frame_counter + 1
    BY <1>7 DEF debug_panel_render
  <2>3. CASE ~ use_double_buffer
    <3>1. screen' = [screen EXCEPT ![row] = P] /\ UNCHANGED back_buffer
      BY <1>7, <2>3 DEF debug_panel_render, draw, target, P
    <3>2. screen' \in [1 .. Rows -> Contents]
      BY <2>1, <3>1
    <3> QED
      BY <2>1, <2>2, <2>3, <3>1, <3>2, StartUpCalls
  <2>4. CASE use_double_buffer
    <3>1. back_buffer' = [back_buffer EXCEPT ![row] = P] /\ UNCHANGED screen
      BY <1>7, <2>4 DEF debug_panel_render, draw, target, P
    <3>2. back_buffer' \in [1 .. Rows -> Contents] /\ \A r \in 1 .. row : back_buffer'[r] = P
      BY <2>1, <2>4, <3>1 DEF P
    <3>3. \A r \in 1 .. Rows : screen'[r] = Panel(frame_counter)
      BY <2>1, <2>4, <3>1
    <3>4. CASE row < Rows
      <4>1. row' = row + 1 /\ UNCHANGED <<loop, frame_counter>>
        BY <2>2, <3>4
      <4>2. row' \in 1 .. Rows
        BY <3>4, <4>1
      <4>3. \A r \in 1 .. row' - 1 : back_buffer'[r] = Panel(frame_counter' + 1)
        BY <3>2, <4>1 DEF P
      <4> QED
        BY <2>1, <2>4, <3>1, <3>2, <3>3, <4>1, <4>2, <4>3, StartUpCalls
    <3>5. CASE ~ row < Rows
      <4>1. row' = 1 /\ loop' = "swap" /\ frame_counter' = frame_counter + 1
        BY <2>2, <3>5
      <4>2. frame_counter' \in Nat /\ frame_counter' - 1 = frame_counter
        BY <4>1
      <4>3. \A r \in 1 .. Rows :
               screen'[r] = Panel(IF r < row' THEN frame_counter' ELSE frame_counter' - 1)
        BY <3>3, <4>1, <4>2
      <4>4. \A r \in 1 .. Rows : back_buffer'[r] = Panel(frame_counter')
        BY <3>2, <3>5, <4>1 DEF P
      <4> QED
        BY <2>1, <2>4, <3>1, <3>2, <4>1, <4>2, <4>3, <4>4, StartUpCalls
    <3> QED
      BY <3>4, <3>5
  <2> QED
    BY <2>3, <2>4
<1>8. CASE fb_swap_buffers
  <2>1. /\ loop = "swap" /\ ~ halted /\ step' = step /\ step = Len(StartUp) + 1
        /\ UNCHANGED <<use_double_buffer, halted, frame_counter, back_buffer>>
    BY <1>8 DEF fb_swap_buffers, InLoop
  <2>2. CASE ~ use_double_buffer
    <3>1. screen' = screen /\ row' = 1 /\ loop' = "swapped"
      BY <1>8, <2>2 DEF fb_swap_buffers
    <3> QED
      BY <2>1, <2>2, <3>1, StartUpCalls
  <2>3. CASE use_double_buffer
    <3>1. screen' = [screen EXCEPT ![row] = back_buffer[row]]
      BY <1>8, <2>3 DEF fb_swap_buffers
    <3>2. screen' \in [1 .. Rows -> Contents]
          /\ \A r \in 1 .. Rows :
                screen'[r] = Panel(IF r < row + 1 THEN frame_counter ELSE frame_counter - 1)
      BY <2>1, <2>3, <3>1
    <3>3. CASE row < Rows
      <4>1. row' = row + 1 /\ loop' = "swap"
        BY <1>8, <2>1, <2>3, <3>3 DEF fb_swap_buffers
      <4>2. row' \in 1 .. Rows
        BY <3>3, <4>1
      <4>3. \A r \in 1 .. Rows :
               screen'[r] = Panel(IF r < row' THEN frame_counter' ELSE frame_counter' - 1)
        BY <2>1, <3>2, <4>1
      <4> QED
        BY <2>1, <2>3, <3>2, <4>1, <4>2, <4>3, StartUpCalls
    <3>4. CASE ~ row < Rows
      <4>1. row' = 1 /\ loop' = "swapped"
        BY <1>8, <2>1, <2>3, <3>4 DEF fb_swap_buffers
      <4>2. \A r \in 1 .. Rows : screen'[r] = Panel(frame_counter)
        BY <3>2, <3>4
      <4> QED
        BY <2>1, <2>3, <3>2, <4>1, <4>2, StartUpCalls
    <3> QED
      BY <3>3, <3>4
  <2> QED
    BY <2>2, <2>3
<1>9. CASE panic_report
  BY <1>0, <1>9 DEF panic_report, draw, loop_vars
<1>10. CASE pit_edge \/ key_edge \/ Interrupt
  BY <1>1, <1>10 DEF pit_edge, key_edge, Interrupt, isr_handler
<1>11. CASE UNCHANGED kernel_vars
  BY <1>1, <1>11 DEF kernel_vars
<1> QED
  BY <1>3, <1>4, <1>5, <1>6, <1>7, <1>8, <1>9, <1>10, <1>11 DEF KernelNext, Main

(* The screen the boot loader left.                                        *)
LEMMA ScreenInit == KernelInit => ScreenInv
<1> SUFFICES ASSUME KernelInit PROVE ScreenInv
  OBVIOUS
<1>1. Panel(0) \in Contents /\ HeapMemory \in Contents
  BY DEF Contents
<1>2. /\ row = 1 /\ frame_counter = 0 /\ step = 1 /\ loop = "read"
      /\ use_double_buffer = FALSE /\ halted = FALSE
      /\ screen = [r \in 1 .. Rows |-> Panel(0)]
      /\ back_buffer = [r \in 1 .. Rows |-> HeapMemory]
  BY DEF KernelInit
<1>3. Buffers
  <2>1. screen \in [1 .. Rows -> Contents] /\ back_buffer \in [1 .. Rows -> Contents]
    BY <1>1, <1>2
  <2>2. row \in 1 .. Rows /\ frame_counter \in Nat
    BY <1>2, RowsAssumption
  <2>3. use_double_buffer \in BOOLEAN /\ halted \in BOOLEAN
    BY <1>2
  <2> QED
    BY <2>1, <2>2, <2>3 DEF Buffers
<1>4. Before
  BY <1>2, StartUpCalls DEF Before
<1> QED
  BY <1>2, <1>3, <1>4 DEF ScreenInv

(* With double buffering the screen never shows a picture half drawn, heap *)
(* memory or a panic report (framebuffer.c:198-214, interrupts.c:288).     *)
THEOREM KernelScreenWhole == KernelSpec => []ScreenWhole
BY ScreenInit, ScreenInvImplies, ScreenStep, PTL DEF KernelSpec

-----------------------------------------------------------------------------
(* The types of the variables no invariant above speaks of.                *)
Devices ==
    /\ loop \in {"read", "scheduler", "render", "draw", "swap", "swapped"}
    /\ mask \subseteq Irqs /\ irr \subseteq Irqs /\ in_service \subseteq Irqs
    /\ interrupt_flag \in BOOLEAN /\ port \in BOOLEAN /\ output \in BOOLEAN
    /\ pit \in 0 .. MaxPit /\ sent \in 0 .. MaxKeys

(* The devices and the place in the loop keep their types.                 *)
LEMMA DevicesStep == Devices /\ [KernelNext]_kernel_vars => Devices'
<1> SUFFICES ASSUME Devices, [KernelNext]_kernel_vars PROVE Devices'
  OBVIOUS
<1> USE DEF Devices
<1>1. CASE UNCHANGED <<loop, interrupt_flag, pic_vars, pit, kbd_vars>>
  BY <1>1 DEF pic_vars, kbd_vars
<1>2. CASE intr_init \/ keyboard_init \/ timer_init \/ sti \/ other_init
           \/ fb_enable_double_buffering
  BY <1>2 DEF intr_init, keyboard_init, timer_init, sti, other_init, fb_enable_double_buffering,
              Advance, loop_vars, pic_vars, kbd_vars, Irqs
<1>3. CASE loop_read \/ loop_scheduler \/ loop_render \/ debug_panel_render
           \/ fb_swap_buffers \/ loop_swapped
  BY <1>3 DEF loop_read, loop_scheduler, loop_render, debug_panel_render, fb_swap_buffers,
              loop_swapped, InLoop, pic_vars, kbd_vars
<1>4. ASSUME NEW q \in Irqs, isr_handler(q) PROVE Devices'
  BY <1>4 DEF isr_handler, pic_eoi, keyboard_handler, loop_vars
<1>5. CASE pit_edge
  BY <1>5, EdgesAssumption DEF pit_edge, kbd_vars, loop_vars, Irqs
<1>6. CASE key_edge
  BY <1>6, EdgesAssumption DEF key_edge, loop_vars, Irqs
<1>7. CASE panic_report
  BY <1>7 DEF panic_report, pic_vars, kbd_vars, loop_vars
<1>8. CASE UNCHANGED kernel_vars
  BY <1>1, <1>8 DEF kernel_vars, loop_vars
<1> QED
  BY <1>2, <1>3, <1>4, <1>5, <1>6, <1>7, <1>8 DEF KernelNext, Main, Interrupt

(* Every variable keeps its type: the loop of kernel_main never leaves its *)
(* own steps, nothing but IRQ 0 and 1 reaches the controller, and the row  *)
(* that is drawn or copied is one of the screen.                           *)
THEOREM KernelTypeCorrect == KernelSpec => []KernelTypeOK
<1>1. KernelInit => TickInv
  BY TicksPerSecondAssumption
  DEF KernelInit, TimerInit, TickInv, Counters, TickCopiesOrdered
<1>2. KernelInit => StartInv
  BY StartUpCalls DEF KernelInit, StartInv
<1>3. KernelInit => Devices
  <2>1. KernelInit => /\ interrupt_flag \in BOOLEAN /\ port \in BOOLEAN /\ output \in BOOLEAN
                      /\ mask \subseteq Irqs /\ irr \subseteq Irqs /\ in_service \subseteq Irqs
    BY DEF KernelInit
  <2>2. 0 \in 0 .. MaxPit /\ 0 \in 0 .. MaxKeys
    BY EdgesAssumption
  <2> QED
    BY <2>1, <2>2 DEF KernelInit, Devices
<1>4. TickInv /\ StartInv /\ ScreenInv /\ Devices => KernelTypeOK
  BY DEF TickInv, Counters, StartInv, ScreenInv, Buffers, Devices, KernelTypeOK
<1> QED
  BY <1>1, <1>2, <1>3, <1>4, ScreenInit, TickStep, StartStep, ScreenStep, DevicesStep, PTL
  DEF KernelSpec
=============================================================================
