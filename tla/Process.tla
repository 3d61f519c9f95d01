------------------------------ MODULE Process ------------------------------
(***************************************************************************)
(* The process table, kernel/modules/process/process.c, between the timer  *)
(* interrupt and the virtual memory manager.  Everything here runs on the  *)
(* kernel's only thread; the timer interrupt may fall between any two of   *)
(* its steps, so the scheduler, the one function that reads the clock, is  *)
(* two steps: the read and the update.  Memory comes from the abstract     *)
(* RegionAllocator that Vmm implements.                                    *)
(***************************************************************************)
EXTENDS Timer, FiniteSets

CONSTANTS
    MaxProcs,      \* MAX_PROCS
    StackPages,    \* pages of the stack a process gets
    FirstVaddr,    \* where next_vaddr starts
    MaxVaddr,      \* bound on next_vaddr
    MaxTicks       \* bound on timer_ticks

ASSUME MaxProcsAssumption == MaxProcs \in Nat \ {0}
ASSUME StackPagesAssumption == StackPages \in Nat \ {0}
ASSUME FirstVaddrAssumption == FirstVaddr \in Nat \ {0}

Slots == 1 .. MaxProcs
NULL == 0
Statuses == {"READY", "RUNNING", "TERMINATED"}

VARIABLES
    proc_table,    \* slot -> [pid, status, mem_base, run_time]
    last_time,
    current_time,  \* the scheduler's local copy of the clock
    pc,            \* the kernel's thread: "call" or inside the scheduler
    next_vaddr, regions,   \* the virtual memory manager
    born           \* ghost: last_time when the process in a slot was made

proc_vars == <<proc_table, last_time, current_time, pc, next_vaddr, regions, born>>

Vm == INSTANCE RegionAllocator
    WITH Counts <- {StackPages}, next <- next_vaddr, regions <- regions

-----------------------------------------------------------------------------
Unused == [pid |-> 0, status |-> "READY", mem_base |-> NULL, run_time |-> 0]

(* The table after process_init, which runs before interrupts are enabled. *)
ProcessInit ==
    /\ TimerInit
    /\ proc_table = [i \in Slots |-> Unused]
    /\ last_time = system_uptime_seconds
    /\ current_time = 0
    /\ pc = "call"
    /\ next_vaddr = FirstVaddr
    /\ regions = {}
    /\ born = [i \in Slots |-> 0]

UnusedSlots == { i \in Slots : proc_table[i].pid = 0 }

(* Mutant: PIDs of terminated processes count as unused.                   *)
UsedPids_running ==
    { proc_table[i].pid : i \in { j \in Slots : proc_table[j].status = "RUNNING" } }

UsedPids == { proc_table[i].pid : i \in Slots }

IsFirst(i, S) == i \in S /\ \A j \in S : i <= j

(* The first unused slot gets the lowest unused PID and its memory, NULL   *)
(* when vmm_alloc fails: the result is not looked at.                      *)
process_create ==
    \E i \in UnusedSlots, pid \in 1 .. MaxProcs :
        /\ pc = "call"
        /\ IsFirst(i, UnusedSlots)
        /\ IsFirst(pid, (1 .. MaxProcs) \ UsedPids)
        /\ \/ /\ next_vaddr + StackPages <= MaxVaddr
              /\ Vm!Alloc
           \/ UNCHANGED <<next_vaddr, regions>>
        /\ proc_table' = [proc_table EXCEPT ![i] =
              [pid |-> pid, status |-> "RUNNING", run_time |-> 0,
               mem_base |-> IF regions' = regions THEN NULL ELSE next_vaddr]]
        /\ born' = [born EXCEPT ![i] = last_time]
        /\ UNCHANGED <<timer_vars, last_time, current_time, pc>>

(* get_proc_by_pid finds an unused slot for pid 0.                         *)
kill_proc(pid) ==
    \E i \in Slots :
        /\ pc = "call"
        /\ IsFirst(i, { j \in Slots : proc_table[j].pid = pid })
        /\ proc_table' = [proc_table EXCEPT ![i].status = "TERMINATED"]
        /\ UNCHANGED <<timer_vars, last_time, current_time, pc, next_vaddr, regions, born>>

(* Mutant: the stack is not freed.                                         *)
process_check_and_free_leak ==
    /\ pc = "call"
    /\ proc_table' = [i \in Slots |->
          IF proc_table[i].status = "TERMINATED"
          THEN [proc_table[i] EXCEPT !.pid = 0] ELSE proc_table[i]]
    /\ UNCHANGED <<timer_vars, last_time, current_time, pc, next_vaddr, regions, born>>

process_check_and_free ==
    LET dead == { i \in Slots : proc_table[i].pid # 0 /\ proc_table[i].status = "TERMINATED" }
    IN  /\ pc = "call"
        /\ proc_table' = [i \in Slots |->
              IF i \in dead THEN [proc_table[i] EXCEPT !.pid = 0] ELSE proc_table[i]]
        /\ regions' = { r \in regions : \A i \in dead : r.vaddr # proc_table[i].mem_base }
        /\ UNCHANGED <<timer_vars, last_time, current_time, pc, next_vaddr, born>>

(* scheduler(), up to and including the call of timer_get_uptime_seconds.  *)
scheduler_read ==
    /\ pc = "call"
    /\ current_time' = system_uptime_seconds
    /\ pc' = "scheduler"
    /\ UNCHANGED <<timer_vars, proc_table, last_time, next_vaddr, regions, born>>

(* Mutants: the clock is read a second time; a second is noticed late.     *)
Charged_reread == system_uptime_seconds
SecondPassed_late == current_time > last_time + 1

Runs(p) == p.pid # 0 /\ p.status = "RUNNING"

SecondPassed == current_time > last_time

Elapsed == current_time - last_time

Charged == current_time

(* The rest of scheduler().                                                *)
scheduler_update ==
    /\ pc = "scheduler"
    /\ pc' = "call"
    /\ IF SecondPassed
       THEN /\ proc_table' = [i \in Slots |->
                  IF Runs(proc_table[i])
                  THEN [proc_table[i] EXCEPT !.run_time = @ + Elapsed]
                  ELSE proc_table[i]]
            /\ last_time' = Charged
       ELSE UNCHANGED <<proc_table, last_time>>
    /\ UNCHANGED <<timer_vars, current_time, next_vaddr, regions, born>>

timer_interrupt ==
    /\ timer_ticks < MaxTicks
    /\ timer_handler
    /\ UNCHANGED proc_vars

ProcessNext ==
    \/ process_create
    \/ \E pid \in 0 .. MaxProcs : kill_proc(pid)
    \/ process_check_and_free
    \/ scheduler_read
    \/ scheduler_update
    \/ timer_interrupt

ProcessSpec == ProcessInit /\ [][ProcessNext]_<<timer_vars, proc_vars>>

(* The main loop of kernel_main calls scheduler() on every iteration, and  *)
(* interrupt handlers return: a started scheduler finishes, and whatever   *)
(* else is called, the scheduler is called again.                          *)
ProcessFairness ==
    /\ WF_<<timer_vars, proc_vars>>(scheduler_update)
    /\ WF_<<timer_vars, proc_vars>>(scheduler_read)

FairProcessSpec == ProcessSpec /\ ProcessFairness

-----------------------------------------------------------------------------
(* Properties                                                              *)

Live == { i \in Slots : proc_table[i].pid # 0 }

ProcessTypeOK ==
    /\ timer_ticks \in Nat /\ system_uptime_seconds \in Nat
    /\ proc_table \in [Slots -> [pid : 0 .. MaxProcs, status : Statuses,
                                 mem_base : Nat, run_time : Nat]]
    /\ last_time \in Nat /\ current_time \in Nat
    /\ pc \in {"call", "scheduler"}
    /\ next_vaddr \in Nat
    /\ regions \subseteq [vaddr : Nat, pages : {StackPages}]
    /\ born \in [Slots -> Nat]

(* However processes are created, killed and cleaned up, no two of them    *)
(* have the same PID, so pkill and get reach the process that was meant.   *)
PidsUnique ==
    \A i, j \in Live : proc_table[i].pid = proc_table[j].pid => i = j

(* Memory follows the table: the regions in use are exactly the stacks of  *)
(* the processes in the table, and no two processes share one.  A slot     *)
(* that is freed and filled again leaks nothing and frees nothing twice.   *)
StacksOwned ==
    /\ regions = { [vaddr |-> proc_table[i].mem_base, pages |-> StackPages] :
                      i \in { j \in Live : proc_table[j].mem_base # NULL } }
    /\ \A i, j \in Live :
          proc_table[i].mem_base = proc_table[j].mem_base
             /\ proc_table[i].mem_base # NULL => i = j

(* A running process is charged every second exactly once: the seconds     *)
(* between the scheduler's last look at the clock before it was created    *)
(* and the latest one, whenever the timer interrupt falls.                 *)
RunTimeExact ==
    /\ last_time <= system_uptime_seconds
    /\ \A i \in Live : proc_table[i].status = "RUNNING" =>
          proc_table[i].run_time = last_time - born[i]

(* A terminated process stays terminated, and its run time stays as it is, *)
(* until its slot is given up.                                             *)
DeadStayDead ==
    [][\A i \in Live : proc_table[i].status = "TERMINATED" =>
          \/ proc_table'[i] = proc_table[i]
          \/ proc_table'[i].pid = 0]_<<timer_vars, proc_vars>>

(* The clock of the process table catches up with every second that has    *)
(* passed.                                                                 *)
SecondsCharged ==
    \A t \in 0 .. MaxTicks \div TicksPerSecond : system_uptime_seconds = t ~> last_time >= t
=============================================================================
