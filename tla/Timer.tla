------------------------------- MODULE Timer -------------------------------
(***************************************************************************)
(* The system timer, kernel/modules/timer/timer.c: two counters that the   *)
(* handler of IRQ0 advances and the rest of the kernel reads.              *)
(***************************************************************************)
EXTENDS Naturals

CONSTANT TicksPerSecond      \* the 100 of timer_handler

ASSUME TicksPerSecondAssumption == TicksPerSecond \in Nat \ {0}

VARIABLES
    timer_ticks,
    system_uptime_seconds

timer_vars == <<timer_ticks, system_uptime_seconds>>

TimerInit == timer_ticks = 0 /\ system_uptime_seconds = 0

timer_handler ==
    /\ timer_ticks' = timer_ticks + 1
    /\ system_uptime_seconds' =
          IF (timer_ticks + 1) % TicksPerSecond = 0
          THEN system_uptime_seconds + 1
          ELSE system_uptime_seconds
=============================================================================
