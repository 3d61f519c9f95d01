---------------------------- MODULE Shell_proofs ----------------------------
(***************************************************************************)
(* Proofs about process.c and about shell.c, which drives it.              *)
(*                                                                         *)
(* process.c, for every table size, stack size and clock rate: the         *)
(* properties are not inductive by themselves.  That a new stack is        *)
(* nobody else's needs the fact that every region lies below next_vaddr,   *)
(* and that last_time never overtakes the clock needs the same of the      *)
(* scheduler's local copy, whenever the timer interrupt falls.             *)
(*                                                                         *)
(* shell.c, for every length of the line and of the history and for        *)
(* everything that may be typed: the line editor, what the commands print, *)
(* and what they do to processes and memory.                               *)
(***************************************************************************)
EXTENDS Shell, WellFoundedInduction, TLAPS

-----------------------------------------------------------------------------
(* The process table                                                       *)

(* Regions end below the bump pointer, which is never NULL.                *)
RegionsBelow ==
    /\ next_vaddr # 0
    /\ \A r \in regions : r.vaddr < next_vaddr

(* The scheduler's copy of the clock is a past value of it.                *)
CopyBehindClock == current_time <= system_uptime_seconds

ProcessInv ==
    /\ ProcessTypeOK
    /\ PidsUnique
    /\ StacksOwned
    /\ RunTimeExact
    /\ RegionsBelow
    /\ CopyBehindClock

(* The zeroed table satisfies the invariant.                               *)
LEMMA ProcessInitInv == ProcessInit => ProcessInv
<1> SUFFICES ASSUME ProcessInit PROVE ProcessInv
  OBVIOUS
<1> USE FirstVaddrAssumption, MaxProcsAssumption
<1>1. Live = {}
  BY DEF ProcessInit, Live, Unused
<1>2. ProcessTypeOK
  BY DEF ProcessInit, TimerInit, ProcessTypeOK, Unused, Statuses, NULL
<1>3. PidsUnique /\ StacksOwned
  BY <1>1 DEF ProcessInit, PidsUnique, StacksOwned
<1>4. RunTimeExact /\ RegionsBelow /\ CopyBehindClock
  BY <1>1 DEF ProcessInit, TimerInit, RunTimeExact, RegionsBelow, CopyBehindClock
<1> QED
  BY <1>2, <1>3, <1>4 DEF ProcessInv

(* timer_handler moves the clock forward, by at most a second.             *)
LEMMA TimerForward ==
    ASSUME ProcessTypeOK, timer_handler
    PROVE  /\ timer_ticks' \in Nat /\ system_uptime_seconds' \in Nat
           /\ system_uptime_seconds <= system_uptime_seconds'
BY DEF ProcessTypeOK, timer_handler

(* process_create preserves the invariant.                                 *)
LEMMA CreateInv == ProcessInv /\ process_create => ProcessInv'
<1> SUFFICES ASSUME ProcessInv, process_create PROVE ProcessInv'
  OBVIOUS
<1> USE DEF ProcessInv
<1>1. PICK i \in UnusedSlots, pid \in 1 .. MaxProcs :
        /\ IsFirst(pid, (1 .. MaxProcs) \ UsedPids)
        /\ Vm!Alloc \/ UNCHANGED <<next_vaddr, regions>>
        /\ proc_table' = [proc_table EXCEPT ![i] =
              [pid |-> pid, status |-> "RUNNING", run_time |-> 0,
               mem_base |-> IF regions' = regions THEN NULL ELSE next_vaddr]]
        /\ born' = [born EXCEPT ![i] = last_time]
        /\ UNCHANGED <<timer_vars, last_time, current_time, pc>>
  BY DEF process_create
<1>2. i \in Slots /\ i \notin Live /\ pid \in 1 .. MaxProcs /\ pid \notin UsedPids
  BY <1>1 DEF UnusedSlots, IsFirst, Live
<1> DEFINE base == IF regions' = regions THEN NULL ELSE next_vaddr
<1>3. \/ /\ regions' = regions /\ next_vaddr' = next_vaddr
         /\ base = NULL
      \/ /\ regions' = regions \cup {[vaddr |-> next_vaddr, pages |-> StackPages]}
         /\ regions' # regions
         /\ next_vaddr' = next_vaddr + StackPages
         /\ base = next_vaddr
  <2>1. CASE UNCHANGED <<next_vaddr, regions>>
    BY <2>1
  <2>2. CASE Vm!Alloc
    <3>1. /\ regions' = regions \cup {[vaddr |-> next_vaddr, pages |-> StackPages]}
          /\ next_vaddr' = next_vaddr + StackPages
      BY <2>2 DEF Vm!Alloc
    <3>2. [vaddr |-> next_vaddr, pages |-> StackPages] \notin regions
      BY DEF RegionsBelow, ProcessTypeOK
    <3> QED
      BY <3>1, <3>2
  <2> QED
    BY <1>1, <2>1, <2>2
<1>4. next_vaddr \in Nat /\ next_vaddr # 0 /\ StackPages \in Nat /\ StackPages # 0
  BY StackPagesAssumption DEF ProcessTypeOK, RegionsBelow
<1>5. base \in Nat
  BY <1>3, <1>4 DEF NULL
<1> HIDE DEF base
<1>6. /\ proc_table' = [proc_table EXCEPT ![i] =
            [pid |-> pid, status |-> "RUNNING", run_time |-> 0, mem_base |-> base]]
      /\ born' = [born EXCEPT ![i] = last_time]
      /\ UNCHANGED <<timer_ticks, system_uptime_seconds, last_time, current_time, pc>>
  BY <1>1 DEF base, timer_vars
<1>7. /\ \A j \in Slots : j # i => proc_table'[j] = proc_table[j] /\ born'[j] = born[j]
      /\ proc_table'[i] = [pid |-> pid, status |-> "RUNNING", run_time |-> 0, mem_base |-> base]
      /\ born'[i] = last_time
      /\ Live' = Live \cup {i}
  <2>1. /\ \A j \in Slots : j # i => proc_table'[j] = proc_table[j] /\ born'[j] = born[j]
        /\ proc_table'[i] = [pid |-> pid, status |-> "RUNNING", run_time |-> 0, mem_base |-> base]
        /\ born'[i] = last_time
    BY <1>2, <1>6 DEF ProcessTypeOK
  <2>2. proc_table'[i].pid # 0
    BY <1>2, <2>1
  <2> QED
    BY <1>2, <2>1, <2>2 DEF Live
<1>8. ProcessTypeOK'
  <2>1. proc_table' \in [Slots -> [pid : 0 .. MaxProcs, status : Statuses,
                                   mem_base : Nat, run_time : Nat]]
    BY <1>2, <1>5, <1>6 DEF ProcessTypeOK, Statuses
  <2>2. regions' \subseteq [vaddr : Nat, pages : {StackPages}] /\ next_vaddr' \in Nat
    BY <1>3, <1>4 DEF ProcessTypeOK
  <2>3. born' \in [Slots -> Nat]
    BY <1>6 DEF ProcessTypeOK
  <2> QED
    BY <1>6, <2>1, <2>2, <2>3 DEF ProcessTypeOK
<1>9. PidsUnique'
  <2>1. \A j \in Live : proc_table[j].pid # pid
    BY <1>2 DEF UsedPids, Live
  <2> QED
    BY <1>2, <1>7, <2>1 DEF PidsUnique, Live
<1>10. \A j \in Live : proc_table[j].mem_base # NULL =>
          /\ [vaddr |-> proc_table[j].mem_base, pages |-> StackPages] \in regions
          /\ proc_table[j].mem_base < next_vaddr
  BY DEF StacksOwned, RegionsBelow
<1>11. StacksOwned'
  <2>1. \A j \in Live : proc_table'[j] = proc_table[j]
    BY <1>2, <1>7 DEF Live
  <2>2. ASSUME NEW j \in Live', NEW k \in Live',
               proc_table'[j].mem_base = proc_table'[k].mem_base,
               proc_table'[j].mem_base # NULL
        PROVE  j = k
    <3>1. CASE j \in Live /\ k \in Live
      BY <2>1, <2>2, <3>1 DEF StacksOwned
    <3>2. CASE j = i /\ k = i
      BY <3>2
    <3>3. CASE j = i /\ k \in Live
      <4>1. base = proc_table[k].mem_base /\ base # NULL
        BY <1>7, <2>1, <2>2, <3>3
      <4>2. proc_table[k].mem_base < next_vaddr /\ proc_table[k].mem_base = next_vaddr
        BY <1>3, <1>10, <3>3, <4>1
      <4> QED
        BY <4>2, <1>4
    <3>4. CASE j \in Live /\ k = i
      <4>1. base = proc_table[j].mem_base /\ base # NULL
        BY <1>7, <2>1, <2>2, <3>4
      <4>2. proc_table[j].mem_base < next_vaddr /\ proc_table[j].mem_base = next_vaddr
        BY <1>3, <1>10, <3>4, <4>1
      <4> QED
        BY <4>2, <1>4
    <3> QED
      BY <1>7, <3>1, <3>2, <3>3, <3>4
  <2> DEFINE Held == { j \in Live : proc_table[j].mem_base # NULL }
             Stack(j) == [vaddr |-> proc_table[j].mem_base, pages |-> StackPages]
  <2>3. regions = { Stack(j) : j \in Held }
    BY DEF StacksOwned
  <2>4. { j \in Live' : proc_table'[j].mem_base # NULL }
           = IF base = NULL THEN Held ELSE Held \cup {i}
    BY <1>2, <1>7, <2>1
  <2>5. regions' = { [vaddr |-> proc_table'[j].mem_base, pages |-> StackPages] :
                        j \in { k \in Live' : proc_table'[k].mem_base # NULL } }
    <3>1. \A j \in Held : [vaddr |-> proc_table'[j].mem_base, pages |-> StackPages] = Stack(j)
      BY <2>1
    <3>2. CASE base = NULL
      <4>1. regions' = regions
        BY <1>3, <1>4, <3>2 DEF NULL
      <4> QED
        BY <4>1, <2>3, <2>4, <3>1, <3>2
    <3>3. CASE base # NULL
      <4>1. regions' = regions \cup {[vaddr |-> base, pages |-> StackPages]}
        BY <1>3, <3>3
      <4>2. proc_table'[i].mem_base = base
        BY <1>7
      <4>3. { [vaddr |-> proc_table'[j].mem_base, pages |-> StackPages] : j \in Held }
               = regions
        BY <2>3, <3>1
      <4>4. { k \in Live' : proc_table'[k].mem_base # NULL } = Held \cup {i}
        BY <2>4, <3>3
      <4> HIDE DEF Held
      <4> QED
        BY <4>1, <4>2, <4>3, <4>4, Zenon
    <3> QED
      BY <3>2, <3>3
  <2> QED
    BY <2>2, <2>5 DEF StacksOwned
<1>12. RunTimeExact'
  <2>1. proc_table'[i].run_time = last_time' - born'[i]
    BY <1>6, <1>7 DEF ProcessTypeOK
  <2> QED
    BY <1>2, <1>6, <1>7, <2>1 DEF RunTimeExact, Live
<1>13. RegionsBelow'
  BY <1>3, <1>4 DEF RegionsBelow, ProcessTypeOK
<1>14. CopyBehindClock'
  BY <1>6 DEF CopyBehindClock
<1> QED
  BY <1>8, <1>9, <1>11, <1>12, <1>13, <1>14

(* kill_proc preserves the invariant: it changes one status only.          *)
LEMMA KillInv ==
    ASSUME NEW pid \in 0 .. MaxProcs
    PROVE  ProcessInv /\ kill_proc(pid) => ProcessInv'
<1> SUFFICES ASSUME ProcessInv, kill_proc(pid) PROVE ProcessInv'
  OBVIOUS
<1> USE DEF ProcessInv
<1>1. PICK i \in Slots :
        /\ proc_table' = [proc_table EXCEPT ![i].status = "TERMINATED"]
        /\ UNCHANGED <<timer_vars, last_time, current_time, pc, next_vaddr, regions, born>>
  BY DEF kill_proc
<1>2. \A j \in Slots :
        /\ proc_table'[j].pid = proc_table[j].pid
        /\ proc_table'[j].mem_base = proc_table[j].mem_base
        /\ proc_table'[j].run_time = proc_table[j].run_time
        /\ proc_table'[j].status = "RUNNING" => proc_table[j].status = "RUNNING"
  BY <1>1 DEF ProcessTypeOK
<1>3. Live' = Live
  BY <1>2 DEF Live
<1>4. ProcessTypeOK'
  BY <1>1 DEF ProcessTypeOK, Statuses, timer_vars
<1>5. PidsUnique'
  BY <1>2, <1>3 DEF PidsUnique, Live
<1>6. StacksOwned'
  <2>1. \A j \in Live : proc_table'[j].mem_base = proc_table[j].mem_base
    BY <1>2 DEF Live
  <2>2. { j \in Live' : proc_table'[j].mem_base # NULL }
          = { j \in Live : proc_table[j].mem_base # NULL }
    BY <1>3, <2>1
  <2>3. regions' = regions
    BY <1>1
  <2> QED
    BY <1>3, <2>1, <2>2, <2>3 DEF StacksOwned
<1>7. RunTimeExact' /\ RegionsBelow' /\ CopyBehindClock'
  BY <1>1, <1>2, <1>3 DEF RunTimeExact, RegionsBelow, CopyBehindClock, Live, timer_vars
<1> QED
  BY <1>4, <1>5, <1>6, <1>7

(* process_check_and_free preserves the invariant.                         *)
LEMMA CheckAndFreeInv == ProcessInv /\ process_check_and_free => ProcessInv'
<1> SUFFICES ASSUME ProcessInv, process_check_and_free PROVE ProcessInv'
  OBVIOUS
<1> USE DEF ProcessInv
<1> DEFINE dead == { i \in Slots : proc_table[i].pid # 0 /\ proc_table[i].status = "TERMINATED" }
<1>1. /\ proc_table' = [i \in Slots |->
            IF i \in dead THEN [proc_table[i] EXCEPT !.pid = 0] ELSE proc_table[i]]
      /\ regions' = { r \in regions : \A i \in dead : r.vaddr # proc_table[i].mem_base }
      /\ UNCHANGED <<timer_vars, last_time, current_time, pc, next_vaddr, born>>
  BY DEF process_check_and_free
<1>2. Live' = Live \ dead
  BY <1>1 DEF Live, ProcessTypeOK
<1>3. \A j \in Live' : proc_table'[j] = proc_table[j]
  BY <1>1, <1>2 DEF Live
<1>4. dead \subseteq Live
  BY DEF Live
<1>5. ProcessTypeOK'
  <2>1. proc_table' \in [Slots -> [pid : 0 .. MaxProcs, status : Statuses,
                                   mem_base : Nat, run_time : Nat]]
    <3>1. \A i \in Slots : [proc_table[i] EXCEPT !.pid = 0] \in
             [pid : 0 .. MaxProcs, status : Statuses, mem_base : Nat, run_time : Nat]
      BY MaxProcsAssumption DEF ProcessTypeOK
    <3> HIDE DEF dead
    <3> QED
      BY <1>1, <3>1 DEF ProcessTypeOK
  <2> QED
    BY <1>1, <2>1 DEF ProcessTypeOK, timer_vars
<1>6. PidsUnique'
  BY <1>2, <1>3 DEF PidsUnique
<1>7. StacksOwned'
  <2>1. \A j \in Live, k \in Live :
           proc_table[j].mem_base = proc_table[k].mem_base
              /\ proc_table[j].mem_base # NULL => j = k
    BY DEF StacksOwned
  <2>2. \A r : r \in regions <=>
           \E j \in Live : proc_table[j].mem_base # NULL
                             /\ r = [vaddr |-> proc_table[j].mem_base, pages |-> StackPages]
    BY DEF StacksOwned
  <2> HIDE DEF dead
  <2>3. ASSUME NEW r
        PROVE  r \in regions' <=>
           \E j \in Live' : proc_table'[j].mem_base # NULL
                             /\ r = [vaddr |-> proc_table'[j].mem_base, pages |-> StackPages]
    <3>1. ASSUME r \in regions'
          PROVE  \E j \in Live' : proc_table'[j].mem_base # NULL
                             /\ r = [vaddr |-> proc_table'[j].mem_base, pages |-> StackPages]
      <4>1. r \in regions /\ \A k \in dead : r.vaddr # proc_table[k].mem_base
        BY <1>1, <3>1
      <4>2. PICK j \in Live : proc_table[j].mem_base # NULL
                             /\ r = [vaddr |-> proc_table[j].mem_base, pages |-> StackPages]
        BY <2>2, <4>1
      <4>3. j \notin dead
        BY <4>1, <4>2
      <4> QED
        BY <1>2, <1>3, <4>2, <4>3
    <3>2. ASSUME NEW j \in Live', proc_table'[j].mem_base # NULL,
                 r = [vaddr |-> proc_table'[j].mem_base, pages |-> StackPages]
          PROVE  r \in regions'
      <4>1. j \in Live /\ j \notin dead /\ proc_table'[j] = proc_table[j]
        BY <1>2, <1>3
      <4>2. r \in regions
        BY <2>2, <3>2, <4>1
      <4>3. \A k \in dead : r.vaddr # proc_table[k].mem_base
        BY <1>4, <2>1, <3>2, <4>1
      <4> QED
        BY <1>1, <4>2, <4>3
    <3> QED
      BY <3>1, <3>2
  <2>4. regions' = { [vaddr |-> proc_table'[j].mem_base, pages |-> StackPages] :
                        j \in { k \in Live' : proc_table'[k].mem_base # NULL } }
    BY <2>3
  <2>5. \A j, k \in Live' :
           proc_table'[j].mem_base = proc_table'[k].mem_base
              /\ proc_table'[j].mem_base # NULL => j = k
    BY <1>2, <1>3, <2>1
  <2> QED
    BY <2>4, <2>5 DEF StacksOwned
<1>8. RunTimeExact'
  BY <1>1, <1>2, <1>3 DEF RunTimeExact, timer_vars
<1>9. RegionsBelow' /\ CopyBehindClock'
  BY <1>1 DEF RegionsBelow, CopyBehindClock, timer_vars
<1> QED
  BY <1>5, <1>6, <1>7, <1>8, <1>9

(* The update of the scheduler preserves the invariant.                    *)
LEMMA UpdateInv == ProcessInv /\ scheduler_update => ProcessInv'
<1> SUFFICES ASSUME ProcessInv, scheduler_update PROVE ProcessInv'
  OBVIOUS
<1> USE DEF ProcessInv
<1>1. /\ pc' = "call"
      /\ UNCHANGED <<timer_ticks, system_uptime_seconds, current_time, next_vaddr, regions, born>>
  BY DEF scheduler_update, timer_vars
<1>2. CASE SecondPassed
  <2>1. /\ proc_table' = [i \in Slots |->
              IF Runs(proc_table[i])
              THEN [proc_table[i] EXCEPT !.run_time = @ + Elapsed]
              ELSE proc_table[i]]
        /\ last_time' = current_time
    BY <1>2 DEF scheduler_update, Charged
  <2>2. /\ Elapsed = current_time - last_time
        /\ Elapsed \in Nat /\ last_time \in Nat /\ current_time \in Nat
    BY <1>2 DEF Elapsed, SecondPassed, ProcessTypeOK
  <2>3. \A j \in Slots :
          /\ proc_table'[j].pid = proc_table[j].pid
          /\ proc_table'[j].mem_base = proc_table[j].mem_base
          /\ proc_table'[j].status = proc_table[j].status
          /\ proc_table'[j].run_time = IF Runs(proc_table[j])
                THEN proc_table[j].run_time + Elapsed ELSE proc_table[j].run_time
    BY <2>1 DEF ProcessTypeOK
  <2>4. Live' = Live
    BY <2>3 DEF Live
  <2>5. proc_table' \in [Slots -> [pid : 0 .. MaxProcs, status : Statuses,
                                   mem_base : Nat, run_time : Nat]]
    BY <2>1, <2>2 DEF ProcessTypeOK
  <2>6. ProcessTypeOK'
    BY <1>1, <2>1, <2>2, <2>5 DEF ProcessTypeOK
  <2>7. PidsUnique'
    BY <2>3, <2>4 DEF PidsUnique, Live
  <2>8. StacksOwned'
    <3>1. \A j \in Live : proc_table'[j].mem_base = proc_table[j].mem_base
      BY <2>3 DEF Live
    <3>2. { j \in Live' : proc_table'[j].mem_base # NULL }
            = { j \in Live : proc_table[j].mem_base # NULL }
      BY <2>4, <3>1
    <3>3. regions' = regions
      BY <1>1
    <3> QED
      BY <2>4, <3>1, <3>2, <3>3 DEF StacksOwned
  <2>9. RunTimeExact'
    <3>1. ASSUME NEW j \in Live, proc_table'[j].status = "RUNNING"
          PROVE  proc_table'[j].run_time = last_time' - born'[j]
      <4>1. j \in Slots /\ Runs(proc_table[j]) /\ proc_table[j].status = "RUNNING"
        BY <2>3, <3>1 DEF Live, Runs
      <4>2. proc_table[j].run_time = last_time - born[j]
        BY <4>1 DEF RunTimeExact
      <4>3. proc_table[j].run_time \in Nat /\ born[j] \in Nat
        BY <4>1 DEF ProcessTypeOK
      <4>4. proc_table'[j].run_time = (last_time - born[j]) + (current_time - last_time)
        BY <2>2, <2>3, <4>1, <4>2
      <4> QED
        BY <1>1, <2>1, <2>2, <4>3, <4>4
    <3>2. last_time' <= system_uptime_seconds'
      BY <1>1, <2>1 DEF CopyBehindClock
    <3> QED
      BY <2>4, <3>1, <3>2 DEF RunTimeExact
  <2>10. RegionsBelow' /\ CopyBehindClock'
    BY <1>1 DEF RegionsBelow, CopyBehindClock
  <2> QED
    BY <2>6, <2>7, <2>8, <2>9, <2>10
<1>3. CASE ~ SecondPassed
  <2>1. UNCHANGED <<proc_table, last_time>>
    BY <1>3 DEF scheduler_update
  <2>2. Live' = Live
    BY <2>1 DEF Live
  <2> QED
    BY <1>1, <2>1, <2>2
    DEF ProcessTypeOK, PidsUnique, StacksOwned, RunTimeExact, RegionsBelow, CopyBehindClock
<1> QED
  BY <1>2, <1>3

(* Every step of the kernel preserves the invariant.                       *)
LEMMA ProcessStepInv ==
    ProcessInv /\ [ProcessNext]_<<timer_vars, proc_vars>> => ProcessInv'
<1> SUFFICES ASSUME ProcessInv, [ProcessNext]_<<timer_vars, proc_vars>>
             PROVE  ProcessInv'
  OBVIOUS
<1>1. CASE process_create
  BY <1>1, CreateInv
<1>2. CASE \E pid \in 0 .. MaxProcs : kill_proc(pid)
  BY <1>2, KillInv
<1>3. CASE process_check_and_free
  BY <1>3, CheckAndFreeInv
<1>4. CASE scheduler_read
  <2>1. /\ current_time' = system_uptime_seconds
        /\ pc' = "scheduler"
        /\ UNCHANGED <<timer_ticks, system_uptime_seconds, proc_table, last_time,
                       next_vaddr, regions, born>>
    BY <1>4 DEF scheduler_read, timer_vars
  <2>2. Live' = Live
    BY <2>1 DEF Live
  <2> QED
    BY <2>1, <2>2
    DEF ProcessInv, ProcessTypeOK, PidsUnique, StacksOwned, RunTimeExact, RegionsBelow, CopyBehindClock
<1>5. CASE scheduler_update
  BY <1>5, UpdateInv
<1>6. CASE timer_interrupt
  <2>1. /\ UNCHANGED <<proc_table, last_time, current_time, pc, next_vaddr, regions, born>>
        /\ timer_handler
    BY <1>6 DEF timer_interrupt, proc_vars
  <2>2. /\ timer_ticks' \in Nat /\ system_uptime_seconds' \in Nat
        /\ system_uptime_seconds <= system_uptime_seconds'
    BY <2>1, TimerForward DEF ProcessInv
  <2>3. Live' = Live
    BY <2>1 DEF Live
  <2> QED
    BY <2>1, <2>2, <2>3
    DEF ProcessInv, ProcessTypeOK, PidsUnique, StacksOwned, RunTimeExact, RegionsBelow, CopyBehindClock
<1>7. CASE UNCHANGED <<timer_vars, proc_vars>>
  <2>1. UNCHANGED <<timer_ticks, system_uptime_seconds, proc_table, last_time, current_time, pc,
                    next_vaddr, regions, born>>
    BY <1>7 DEF timer_vars, proc_vars
  <2>2. Live' = Live
    BY <2>1 DEF Live
  <2> QED
    BY <2>1, <2>2
    DEF ProcessInv, ProcessTypeOK, PidsUnique, StacksOwned, RunTimeExact, RegionsBelow, CopyBehindClock
<1> QED
  BY <1>1, <1>2, <1>3, <1>4, <1>5, <1>6, <1>7 DEF ProcessNext

(* The invariant holds in every reachable state.                           *)
LEMMA ProcessInvariant == ProcessSpec => []ProcessInv
BY ProcessInitInv, ProcessStepInv, PTL DEF ProcessSpec

(* Type correctness of the process table.                                  *)
THEOREM ProcessTypeCorrect == ProcessSpec => []ProcessTypeOK
<1>1. ProcessInv => ProcessTypeOK
  BY DEF ProcessInv
<1> QED
  BY <1>1, ProcessInvariant, PTL

(* No two processes ever have the same PID, for every table size.          *)
THEOREM ProcessPidsUnique == ProcessSpec => []PidsUnique
<1>1. ProcessInv => PidsUnique
  BY DEF ProcessInv
<1> QED
  BY <1>1, ProcessInvariant, PTL

(* The regions in use are exactly the stacks of the processes in the       *)
(* table, each of one process, for every table and stack size.             *)
THEOREM ProcessStacksOwned == ProcessSpec => []StacksOwned
<1>1. ProcessInv => StacksOwned
  BY DEF ProcessInv
<1> QED
  BY <1>1, ProcessInvariant, PTL

(* Run times are exact wherever the timer interrupt falls.                 *)
THEOREM ProcessRunTime == ProcessSpec => []RunTimeExact
<1>1. ProcessInv => RunTimeExact
  BY DEF ProcessInv
<1> QED
  BY <1>1, ProcessInvariant, PTL

(* A terminated process keeps its status and run time until its slot is    *)
(* given up, through calls of the scheduler and of kill.                   *)
THEOREM ProcessDeadStayDead == ProcessSpec => DeadStayDead
<1> DEFINE Kept == \A i \in Live : proc_table[i].status = "TERMINATED" =>
                      \/ proc_table'[i] = proc_table[i]
                      \/ proc_table'[i].pid = 0
<1>1. ProcessTypeOK /\ [ProcessNext]_<<timer_vars, proc_vars>>
        => [Kept]_<<timer_vars, proc_vars>>
  <2> SUFFICES ASSUME ProcessTypeOK, ProcessNext, NEW i \in Live,
                      proc_table[i].status = "TERMINATED"
               PROVE  proc_table'[i] = proc_table[i] \/ proc_table'[i].pid = 0
    OBVIOUS
  <2> USE DEF ProcessTypeOK, Live
  <2>1. CASE UNCHANGED proc_table
    BY <2>1
  <2>2. CASE process_create
    BY <2>2 DEF process_create, UnusedSlots
  <2>3. ASSUME NEW pid \in 0 .. MaxProcs, kill_proc(pid)
        PROVE  proc_table'[i] = proc_table[i]
    BY <2>3 DEF kill_proc
  <2>4. CASE process_check_and_free
    BY <2>4 DEF process_check_and_free
  <2>5. CASE scheduler_update
    BY <2>5 DEF scheduler_update, Runs
  <2> QED
    BY <2>1, <2>2, <2>3, <2>4, <2>5
    DEF ProcessNext, scheduler_read, timer_interrupt, proc_vars
<1> QED
  BY <1>1, ProcessTypeCorrect, PTL DEF ProcessSpec, DeadStayDead

-----------------------------------------------------------------------------
(* The shell                                                               *)

(* Keys, characters and lines: words that nothing is assumed about.        *)
Text == STRING \cup {"prompt", "text", "stack", "response", NUL}

-----------------------------------------------------------------------------
(* Loops                                                                   *)

(* A set of numbers that is not empty has a least one.                     *)
LEMMA LeastNumber ==
    ASSUME NEW S \in SUBSET Nat, S # {}
    PROVE  \E m \in S : \A x \in S : m <= x
<1>1. PICK m \in S : \A x \in S : ~ (<<x, m>> \in OpToRel(<, Nat))
  BY WFMin, NatLessThanWellFounded
<1>2. ASSUME NEW x \in S PROVE m <= x
  <2>1. <<x, m>> \in Nat \X Nat
    OBVIOUS
  <2>2. ~ (x < m)
    BY <1>1, <2>1 DEF OpToRel
  <2> QED
    BY <2>2
<1> QED
  BY <1>2

(* A loop reaches its end: what holds before it, and after every iteration *)
(* if it held before, holds at the end.                                    *)
LEMMA LoopInvariant ==
    ASSUME NEW n \in Nat, NEW Good \in SUBSET (0 .. n), 0 \in Good,
           \A k \in 1 .. n : k - 1 \in Good => k \in Good
    PROVE  n \in Good
<1> DEFINE Bad == (0 .. n) \ Good
<1>1. SUFFICES ASSUME Bad # {} PROVE FALSE
  OBVIOUS
<1>2. Bad \in SUBSET Nat
  OBVIOUS
<1> HIDE DEF Bad
<1>3. PICK m \in Bad : \A x \in Bad : m <= x
  BY <1>1, <1>2, LeastNumber
<1>4. m \in 1 .. n /\ m - 1 \in 0 .. n /\ ~ (m <= m - 1)
  BY DEF Bad
<1>5. m - 1 \in Bad
  BY <1>4 DEF Bad
<1> QED
  BY <1>3, <1>4, <1>5

(* There is a record of the values after each iteration of a loop.         *)
LoopRecorded(S, base, n, next) ==
    \E t \in [0 .. n -> S] : t[0] = base /\ \A k \in 1 .. n : t[k] = next[k][t[k - 1]]

(* A loop can be run.                                                      *)
LEMMA LoopRuns ==
    ASSUME NEW S, NEW base \in S, NEW n \in Nat, NEW next \in [1 .. n -> [S -> S]]
    PROVE  LoopRecorded(S, base, n, next)
<1> DEFINE Recorded(t, m) == t[0] = base /\ \A k \in 1 .. m : t[k] = next[k][t[k - 1]]
           Good == { m \in 0 .. n : \E t \in [0 .. m -> S] : Recorded(t, m) }
<1>1. 0 \in Good
  <2>1. [k \in 0 .. 0 |-> base] \in [0 .. 0 -> S] /\ Recorded([k \in 0 .. 0 |-> base], 0)
    OBVIOUS
  <2> HIDE DEF Recorded
  <2> QED
    BY <2>1
<1>2. ASSUME NEW m \in 1 .. n, m - 1 \in Good
      PROVE  m \in Good
  <2>1. PICK t \in [0 .. m - 1 -> S] : Recorded(t, m - 1)
    BY <1>2
  <2>2. t[m - 1] \in S /\ next[m][t[m - 1]] \in S
    OBVIOUS
  <2> DEFINE u == [k \in 0 .. m |-> IF k = m THEN next[m][t[m - 1]] ELSE t[k]]
  <2>3. u \in [0 .. m -> S]
    BY <2>2
  <2>4. u[0] = base
    BY <2>1
  <2>5. ASSUME NEW k \in 1 .. m PROVE u[k] = next[k][u[k - 1]]
    <3>1. u[k - 1] = t[k - 1]
      OBVIOUS
    <3>2. CASE k = m
      <4>1. u[k] = next[m][t[m - 1]]
        BY <3>2
      <4> HIDE DEF u
      <4> QED
        BY <3>1, <3>2, <4>1
    <3>3. CASE k # m
      <4>1. k \in 1 .. m - 1 /\ u[k] = t[k]
        BY <3>3
      <4> QED
        BY <2>1, <3>1, <4>1
    <3> QED
      BY <3>2, <3>3
  <2> HIDE DEF u
  <2>6. Recorded(u, m)
    BY <2>4, <2>5
  <2> HIDE DEF Recorded
  <2> QED
    BY <2>3, <2>6
<1> HIDE DEF Recorded
<1>3. n \in Good
  <2>1. Good \in SUBSET (0 .. n)
    OBVIOUS
  <2> HIDE DEF Good
  <2> QED
    BY <1>1, <1>2, <2>1, LoopInvariant
<1> QED
  BY <1>3 DEF Recorded, LoopRecorded

-----------------------------------------------------------------------------
(* Numbers typed                                                           *)

(* atoi gives every digit a value.                                         *)
LEMMA DigitValues ==
    ASSUME NEW c \in DigitChars
    PROVE  DigitValue(c) \in 0 .. 9
<1>1. PICK i \in 1 .. 10 : Digits[i] = c
  BY DEF DigitChars, Range, Digits
<1>2. \E n \in 0 .. 9 : Digits[n + 1] = c
  <2>1. i - 1 \in 0 .. 9 /\ (i - 1) + 1 = i
    OBVIOUS
  <2> HIDE DEF Digits
  <2> QED
    BY <1>1, <2>1
<1> QED
  BY <1>2 DEF DigitValue

(* The terminator of a line is no digit.                                   *)
LEMMA NulIsNoDigit == NUL \notin DigitChars
BY DEF NUL, DigitChars, Range, Digits

(* What atoi computes is a natural number.                                 *)
LEMMA ValueIsNat ==
    ASSUME NEW digits \in Seq(DigitChars)
    PROVE  Value(digits) \in Nat
<1> DEFINE n == Len(digits)
           next == [i \in 1 .. n |-> [x \in Nat |-> 10 * x + DigitValue(digits[i])]]
           F(v, i) == IF i = 0 THEN 0 ELSE 10 * v[i - 1] + DigitValue(digits[i])
           Recorded(v) == v = [i \in 0 .. n |-> F(v, i)]
           v == CHOOSE x : Recorded(x)
           S == Nat
           base == 0
<1>1. n \in Nat
  OBVIOUS
<1>2. ASSUME NEW i \in 1 .. n PROVE DigitValue(digits[i]) \in Nat
  <2>1. digits[i] \in DigitChars
    OBVIOUS
  <2>2. DigitValue(digits[i]) \in 0 .. 9
    BY <2>1, DigitValues
  <2> QED
    BY <2>2
<1> HIDE DEF n
<1>3. base \in S /\ next \in [1 .. n -> [S -> S]]
  BY <1>2
<1>4. PICK t \in [0 .. n -> S] : t[0] = base /\ \A k \in 1 .. n : t[k] = next[k][t[k - 1]]
  <2> HIDE DEF next, S, base
  <2>1. LoopRecorded(S, base, n, next)
    BY <1>1, <1>3, LoopRuns
  <2> QED
    BY <2>1 DEF LoopRecorded
<1>5. Recorded(t)
  <2>1. ASSUME NEW i \in 0 .. n PROVE t[i] = F(t, i)
    <3>1. CASE i = 0
      BY <1>4, <3>1
    <3>2. CASE i # 0
      <4>1. i \in 1 .. n /\ t[i - 1] \in Nat
        BY <1>1, <3>2
      <4>2. next[i][t[i - 1]] = 10 * t[i - 1] + DigitValue(digits[i])
        BY <4>1
      <4> QED
        BY <1>4, <4>1, <4>2, <3>2
    <3> QED
      BY <3>1, <3>2
  <2>2. t = [i \in 0 .. n |-> t[i]]
    OBVIOUS
  <2> HIDE DEF F
  <2> QED
    BY <2>1, <2>2
<1>6. Recorded(v)
  <2> HIDE DEF Recorded
  <2> QED
    BY <1>5
<1>7. Value(digits) = v[n]
  BY DEF Value, n
<1> HIDE DEF v
<1>8. \A i \in 0 .. n : v[i] = F(v, i)
  <2> HIDE DEF F
  <2> QED
    BY <1>6
<1> DEFINE Good == { i \in 0 .. n : v[i] \in Nat }
<1>9. 0 \in Good
  BY <1>1, <1>8
<1>10. ASSUME NEW k \in 1 .. n, k - 1 \in Good PROVE k \in Good
  <2>1. k \in 0 .. n /\ k # 0
    BY <1>1
  <2>2. v[k] = 10 * v[k - 1] + DigitValue(digits[k])
    BY <1>8, <2>1
  <2>3. v[k - 1] \in Nat
    BY <1>10
  <2>4. DigitValue(digits[k]) \in Nat
    BY <1>2
  <2> QED
    BY <2>1, <2>2, <2>3, <2>4
<1>11. n \in Good
  <2>1. Good \in SUBSET (0 .. n)
    OBVIOUS
  <2> HIDE DEF Good
  <2> QED
    BY <1>1, <1>9, <1>10, <2>1, LoopInvariant
<1> QED
  BY <1>7, <1>11

-----------------------------------------------------------------------------
(* The history                                                             *)

(* One line more: the history still ends with what was printed.            *)
LEMMA OneLineMore ==
    ASSUME NEW h \in Seq(Text), NEW p \in Seq(Text), NEW s \in Text
    PROVE  /\ add_to_history(h, s) \in Seq(Text)
           /\ EndsWith(h, p) => EndsWith(add_to_history(h, s), Append(p, s))
<1> DEFINE new == add_to_history(h, s)
           q == Append(p, s)
<1>1. MaxLines \in Nat /\ MaxLines # 0 /\ Len(h) \in Nat /\ Len(p) \in Nat
  BY MaxLinesAssumption
<1>2. /\ Len(q) = Len(p) + 1 /\ q[Len(p) + 1] = s
      /\ \A j \in 1 .. Len(p) : q[j] = p[j]
  OBVIOUS
<1>3. CASE Len(h) < MaxLines
  <2>1. new = Append(h, s)
    BY <1>3 DEF add_to_history
  <2>2. /\ new \in Seq(Text) /\ Len(new) = Len(h) + 1 /\ new[Len(h) + 1] = s
        /\ \A j \in 1 .. Len(h) : new[j] = h[j]
    BY <2>1
  <2> HIDE DEF new, q
  <2>3. ASSUME EndsWith(h, p) PROVE EndsWith(new, q)
    <3> DEFINE m == IF Len(p) < MaxLines THEN Len(p) ELSE MaxLines
               n == IF Len(q) < MaxLines THEN Len(q) ELSE MaxLines
    <3>1. /\ m \in Nat /\ m <= Len(h) /\ m <= Len(p)
          /\ \A i \in 0 .. m - 1 : h[Len(h) - i] = p[Len(p) - i]
      BY <1>1, <2>3 DEF EndsWith
    <3>2. n \in Nat /\ n <= m + 1 /\ n <= MaxLines
      BY <1>1, <1>2
    <3> HIDE DEF m, n
    <3>3. Len(new) \in n .. MaxLines
      BY <1>1, <1>3, <2>2, <3>1, <3>2
    <3>4. ASSUME NEW i \in 0 .. n - 1 PROVE new[Len(new) - i] = q[Len(q) - i]
      <4>1. CASE i = 0
        BY <1>1, <1>2, <2>2, <4>1
      <4>2. CASE i # 0
        <5>1. i - 1 \in 0 .. m - 1
          BY <3>1, <3>2, <4>2
        <5>2. /\ Len(new) - i = Len(h) - (i - 1) /\ Len(q) - i = Len(p) - (i - 1)
              /\ Len(h) - (i - 1) \in 1 .. Len(h) /\ Len(p) - (i - 1) \in 1 .. Len(p)
          BY <1>1, <1>2, <2>2, <3>1, <5>1
        <5>3. h[Len(h) - (i - 1)] = p[Len(p) - (i - 1)]
          BY <3>1, <5>1
        <5>4. new[Len(h) - (i - 1)] = h[Len(h) - (i - 1)]
          BY <2>2, <5>2
        <5>5. q[Len(p) - (i - 1)] = p[Len(p) - (i - 1)]
          BY <1>2, <5>2
        <5>6. new[Len(new) - i] = new[Len(h) - (i - 1)] /\ q[Len(q) - i] = q[Len(p) - (i - 1)]
          BY <5>2
        <5> QED
          BY <5>3, <5>4, <5>5, <5>6
      <4> QED
        BY <4>1, <4>2
    <3> QED
      BY <3>3, <3>4 DEF EndsWith, n
  <2> QED
    BY <2>2, <2>3 DEF new, q
<1>4. CASE ~ (Len(h) < MaxLines)
  <2>1. new = [i \in 1 .. MaxLines |-> IF i < MaxLines THEN h[i + 1] ELSE s]
    BY <1>4 DEF add_to_history
  <2>2. \A i \in 1 .. MaxLines : (IF i < MaxLines THEN h[i + 1] ELSE s) \in Text
    <3>1. \A i \in 1 .. MaxLines : i < MaxLines => i + 1 \in 1 .. Len(h)
      BY <1>1, <1>4
    <3>2. \A j \in 1 .. Len(h) : h[j] \in Text
      OBVIOUS
    <3> QED
      BY <3>1, <3>2
  <2>3. /\ new \in Seq(Text) /\ Len(new) = MaxLines /\ new[MaxLines] = s
        /\ \A j \in 1 .. MaxLines - 1 : new[j] = h[j + 1]
    <3> DEFINE G(i) == IF i < MaxLines THEN h[i + 1] ELSE s
    <3>1. new = [i \in 1 .. MaxLines |-> G(i)] /\ \A i \in 1 .. MaxLines : G(i) \in Text
      BY <2>1, <2>2
    <3>2. G(MaxLines) = s /\ \A j \in 1 .. MaxLines - 1 : G(j) = h[j + 1]
      BY <1>1
    <3> HIDE DEF G, new
    <3>3. new \in Seq(Text) /\ Len(new) = MaxLines /\ \A i \in 1 .. MaxLines : new[i] = G(i)
      BY <1>1, <3>1
    <3> QED
      BY <1>1, <3>2, <3>3
  <2> HIDE DEF new, q
  <2>4. ASSUME EndsWith(h, p) PROVE EndsWith(new, q)
    <3> DEFINE m == IF Len(p) < MaxLines THEN Len(p) ELSE MaxLines
               n == IF Len(q) < MaxLines THEN Len(q) ELSE MaxLines
    <3>1. /\ m \in Nat /\ m <= Len(h) /\ m <= Len(p) /\ Len(h) = MaxLines
          /\ \A i \in 0 .. m - 1 : h[Len(h) - i] = p[Len(p) - i]
      BY <1>1, <1>4, <2>4 DEF EndsWith
    <3>2. n \in Nat /\ n <= m + 1 /\ n <= MaxLines
      BY <1>1, <1>2
    <3> HIDE DEF m, n
    <3>3. Len(new) \in n .. MaxLines
      BY <1>1, <2>3, <3>2
    <3>4. ASSUME NEW i \in 0 .. n - 1 PROVE new[Len(new) - i] = q[Len(q) - i]
      <4>1. CASE i = 0
        BY <1>1, <1>2, <2>3, <4>1
      <4>2. CASE i # 0
        <5>1. i - 1 \in 0 .. m - 1 /\ i \in 1 .. MaxLines - 1
          BY <1>1, <3>1, <3>2, <4>2
        <5>2. /\ Len(new) - i = MaxLines - i /\ Len(q) - i = Len(p) - (i - 1)
              /\ (MaxLines - i) + 1 = Len(h) - (i - 1)
              /\ MaxLines - i \in 1 .. MaxLines - 1
              /\ Len(p) - (i - 1) \in 1 .. Len(p)
          BY <1>1, <1>2, <2>3, <3>1, <5>1
        <5>3. h[Len(h) - (i - 1)] = p[Len(p) - (i - 1)]
          BY <3>1, <5>1
        <5>4. new[MaxLines - i] = h[(MaxLines - i) + 1]
          BY <2>3, <5>2
        <5>5. q[Len(p) - (i - 1)] = p[Len(p) - (i - 1)]
          BY <1>2, <5>2
        <5>6. /\ new[Len(new) - i] = new[MaxLines - i]
              /\ h[(MaxLines - i) + 1] = h[Len(h) - (i - 1)]
              /\ q[Len(q) - i] = q[Len(p) - (i - 1)]
          BY <5>2
        <5> QED
          BY <5>3, <5>4, <5>5, <5>6
      <4> QED
        BY <4>1, <4>2
    <3> QED
      BY <3>3, <3>4 DEF EndsWith, n
  <2> QED
    BY <2>3, <2>4 DEF new, q
<1> QED
  BY <1>3, <1>4

(* The elements of a concatenation.                                        *)
LEMMA Concatenated ==
    ASSUME NEW p \in Seq(Text), NEW a \in Seq(Text)
    PROVE  /\ p \o a \in Seq(Text) /\ Len(p \o a) = Len(p) + Len(a)
           /\ \A j \in 1 .. Len(p) : (p \o a)[j] = p[j]
           /\ \A i \in 1 .. Len(a) : (p \o a)[Len(p) + i] = a[i]
OBVIOUS

(* A line more at the end of a list of lines.                              *)
LEMMA Longer ==
    ASSUME NEW p \in Seq(Text), NEW lines \in Seq(Text), NEW k \in 1 .. Len(lines)
    PROVE  /\ p \o SubSeq(lines, 1, k - 1) \in Seq(Text)
           /\ p \o SubSeq(lines, 1, k) = Append(p \o SubSeq(lines, 1, k - 1), lines[k])
<1> DEFINE a == SubSeq(lines, 1, k - 1)
           b == SubSeq(lines, 1, k)
           l == k - 1
           A == p \o a
           B == p \o b
           m == Len(p) + l
<1>1. /\ a \in Seq(Text) /\ Len(a) = l /\ \A j \in 1 .. l : a[j] = lines[j]
      /\ b \in Seq(Text) /\ Len(b) = k /\ \A j \in 1 .. k : b[j] = lines[j]
      /\ k \in Nat /\ l \in Nat /\ k = l + 1 /\ Len(p) \in Nat
  OBVIOUS
<1>2. lines[k] \in Text
  OBVIOUS
<1> HIDE DEF a, b, l
<1>3. /\ A \in Seq(Text) /\ Len(A) = m
      /\ \A j \in 1 .. Len(p) : A[j] = p[j]
      /\ \A i \in 1 .. l : A[Len(p) + i] = a[i]
  <2>1. a \in Seq(Text) /\ Len(a) = l
    BY <1>1
  <2>2. /\ A \in Seq(Text) /\ Len(A) = Len(p) + Len(a)
        /\ \A j \in 1 .. Len(p) : A[j] = p[j]
        /\ \A i \in 1 .. Len(a) : A[Len(p) + i] = a[i]
    BY <2>1, Concatenated
  <2> HIDE DEF A
  <2> QED
    BY <2>1, <2>2
<1>4. /\ B \in Seq(Text) /\ Len(B) = Len(p) + k
      /\ \A j \in 1 .. Len(p) : B[j] = p[j]
      /\ \A i \in 1 .. k : B[Len(p) + i] = b[i]
  <2>1. b \in Seq(Text) /\ Len(b) = k
    BY <1>1
  <2>2. /\ B \in Seq(Text) /\ Len(B) = Len(p) + Len(b)
        /\ \A j \in 1 .. Len(p) : B[j] = p[j]
        /\ \A i \in 1 .. Len(b) : B[Len(p) + i] = b[i]
    BY <2>1, Concatenated
  <2> HIDE DEF B
  <2> QED
    BY <2>1, <2>2
<1> HIDE DEF A, B
<1>5. Len(B) = m + 1 /\ m \in Nat
  BY <1>1, <1>4
<1>6. ASSUME NEW j \in 1 .. m PROVE B[j] = A[j]
  <2>1. CASE j <= Len(p)
    BY <1>1, <1>3, <1>4, <2>1
  <2>2. CASE ~ (j <= Len(p))
    <3>1. j - Len(p) \in 1 .. l /\ j - Len(p) \in 1 .. k /\ Len(p) + (j - Len(p)) = j
      BY <1>1, <2>2
    <3> DEFINE i == j - Len(p)
    <3> HIDE DEF i
    <3>2. i \in 1 .. l /\ i \in 1 .. k /\ Len(p) + i = j
      BY <3>1 DEF i
    <3>3. A[Len(p) + i] = a[i] /\ B[Len(p) + i] = b[i] /\ a[i] = lines[i] /\ b[i] = lines[i]
      BY <1>1, <1>3, <1>4, <3>2
    <3> QED
      BY <3>2, <3>3
  <2> QED
    BY <2>1, <2>2
<1>7. B[m + 1] = lines[k]
  <2>1. m + 1 = Len(p) + k /\ k \in 1 .. k
    BY <1>1
  <2>2. B[Len(p) + k] = b[k] /\ b[k] = lines[k]
    BY <1>1, <1>4, <2>1
  <2> QED
    BY <2>1, <2>2
<1> HIDE DEF m
<1>8. B = Append(A, lines[k])
  BY <1>2, <1>3, <1>4, <1>5, <1>6, <1>7
<1> QED
  BY <1>3, <1>8 DEF A, B, a, b

(* However many lines a command adds, the history ends with them and with  *)
(* what was there before.                                                  *)
LEMMA LinesAdded ==
    ASSUME NEW h \in Seq(Text), NEW p \in Seq(Text), NEW lines \in Seq(Text),
           EndsWith(h, p)
    PROVE  /\ Added(h, lines) \in Seq(Text)
           /\ EndsWith(Added(h, lines), p \o lines)
<1> DEFINE n == Len(lines)
           S == Seq(Text)
           F(v, i) == IF i = 0 THEN h ELSE add_to_history(v[i - 1], lines[i])
           Recorded(v) == v = [i \in 0 .. n |-> F(v, i)]
           v == CHOOSE x : Recorded(x)
<1>1. n \in Nat
  OBVIOUS
<1>2. \A i \in 1 .. n : lines[i] \in Text
  OBVIOUS
<1>3. Added(h, lines) = v[n]
  BY DEF Added
<1>4. /\ p \o SubSeq(lines, 1, 0) = p
      /\ p \o SubSeq(lines, 1, n) = p \o lines
  OBVIOUS
<1>5. \A k \in 1 .. n :
         /\ p \o SubSeq(lines, 1, k - 1) \in S
         /\ p \o SubSeq(lines, 1, k) = Append(p \o SubSeq(lines, 1, k - 1), lines[k])
  BY Longer
<1> HIDE DEF n
<1>6. \E x : Recorded(x)
  <2> DEFINE next == [i \in 1 .. n |-> [x \in S |-> add_to_history(x, lines[i])]]
             base == h
  <2>1. base \in S /\ next \in [1 .. n -> [S -> S]]
    <3>1. \A i \in 1 .. n : \A x \in S : add_to_history(x, lines[i]) \in S
      BY <1>2, OneLineMore
    <3> HIDE DEF S
    <3>2. next \in [1 .. n -> [S -> S]]
      BY <3>1
    <3> QED
      BY <3>2 DEF S
  <2>2. PICK t \in [0 .. n -> S] :
           t[0] = base /\ \A k \in 1 .. n : t[k] = next[k][t[k - 1]]
    <3> HIDE DEF S, next, base
    <3>1. LoopRecorded(S, base, n, next)
      BY <1>1, <2>1, LoopRuns
    <3> QED
      BY <3>1 DEF LoopRecorded
  <2> HIDE DEF S
  <2>3. ASSUME NEW i \in 0 .. n PROVE t[i] = F(t, i)
    <3>1. CASE i = 0
      BY <2>2, <3>1
    <3>2. CASE i # 0
      <4>1. i \in 1 .. n /\ t[i - 1] \in S
        BY <1>1, <3>2
      <4>2. next[i][t[i - 1]] = add_to_history(t[i - 1], lines[i])
        BY <4>1
      <4> HIDE DEF next
      <4> QED
        BY <2>2, <3>2, <4>1, <4>2
    <3> QED
      BY <3>1, <3>2
  <2>4. t = [i \in 0 .. n |-> t[i]]
    OBVIOUS
  <2> HIDE DEF F
  <2> QED
    BY <2>3, <2>4
<1>7. Recorded(v)
  <2> HIDE DEF Recorded
  <2> QED
    BY <1>6
<1> HIDE DEF v
<1>8. \A i \in 0 .. n : v[i] = F(v, i)
  <2> HIDE DEF F
  <2> QED
    BY <1>7
<1> DEFINE P(i) == p \o SubSeq(lines, 1, i)
           Good == { i \in 0 .. n : v[i] \in S /\ EndsWith(v[i], P(i)) }
<1>9. P(0) = p /\ P(n) = p \o lines
  BY <1>4
<1>10. \A k \in 1 .. n : P(k - 1) \in S /\ P(k) = Append(P(k - 1), lines[k])
  BY <1>5
<1> HIDE DEF P
<1>11. 0 \in Good
  BY <1>1, <1>8, <1>9
<1>12. ASSUME NEW k \in 1 .. n, k - 1 \in Good PROVE k \in Good
  <2>1. k \in 0 .. n /\ k # 0
    BY <1>1
  <2>2. v[k] = add_to_history(v[k - 1], lines[k])
    BY <1>8, <2>1
  <2>3. v[k - 1] \in S /\ EndsWith(v[k - 1], P(k - 1)) /\ P(k - 1) \in S
    BY <1>10, <1>12
  <2>4. lines[k] \in Text
    BY <1>2
  <2>5. v[k] \in S /\ EndsWith(v[k], Append(P(k - 1), lines[k]))
    BY <2>2, <2>3, <2>4, OneLineMore
  <2> QED
    BY <1>10, <2>1, <2>5
<1>13. n \in Good
  <2>1. Good \in SUBSET (0 .. n)
    OBVIOUS
  <2> HIDE DEF Good
  <2> QED
    BY <1>1, <1>11, <1>12, <2>1, LoopInvariant
<1> QED
  BY <1>3, <1>9, <1>13

-----------------------------------------------------------------------------
(* The inductive invariant                                                 *)

(* The line editor: what is typed fits, and nothing else is in the way.    *)
EditorInv ==
    /\ cmd_buf \in [0 .. MaxCmdLen - 1 -> Text]
    /\ line \in Seq(Text) /\ Len(line) < MaxCmdLen
    /\ keys \in Seq(Text)
    /\ LineEditorExact

OutputInv ==
    /\ terminal_history \in Seq(Text) /\ printed \in Seq(Text)
    /\ OutputShown

Stacks ==
    { [vaddr |-> proc_table[i].mem_base, pages |-> StackPages] :
         i \in { j \in Live : proc_table[j].mem_base # NULL } }

TestRegion == [vaddr |-> next_vaddr - TestPages, pages |-> TestPages]

(* While testmem has its memory, that is the latest region and there is    *)
(* nothing else beside the stacks; the rest is as between two commands.    *)
TestRegionLatest ==
    /\ next_vaddr \in Nat /\ next_vaddr > TestPages
    /\ regions = Stacks \cup {TestRegion}
    /\ \A s \in Stacks : s.vaddr < next_vaddr - TestPages

(* The invariant of the process table, apart from its regions.             *)
TableInv ==
    /\ timer_ticks \in Nat /\ system_uptime_seconds \in Nat
    /\ proc_table \in [Slots -> [pid : 0 .. MaxProcs, status : Statuses,
                                 mem_base : Nat, run_time : Nat]]
    /\ last_time \in Nat /\ current_time \in Nat
    /\ born \in [Slots -> Nat]
    /\ PidsUnique
    /\ \A i, j \in Live :
          proc_table[i].mem_base = proc_table[j].mem_base
             /\ proc_table[i].mem_base # NULL => i = j
    /\ RunTimeExact
    /\ CopyBehindClock

(* Between its two calls a command has done the first: a process is        *)
(* terminated and its slot still taken, or there is a region more.         *)
MemoryInv ==
    /\ pc = "call" /\ command \in {"none", "testmem", "pkill"}
    /\ \A i \in Live : 
          \/ proc_table[i].status = "RUNNING"
          \/ command = "pkill" /\ proc_table[i].status = "TERMINATED"
    /\ command = "testmem" => TableInv /\ TestRegionLatest
    /\ command # "testmem" => ProcessInv

ShellInv == EditorInv /\ OutputInv /\ MemoryInv

-----------------------------------------------------------------------------
(* What commands print                                                     *)

LEMMA Literals ==
    /\ "prompt" \in Text /\ "text" \in Text /\ "stack" \in Text /\ "response" \in Text
    /\ NUL \in Text
BY DEF Text

(* Lines of one kind.                                                      *)
LEMMA LinesPrinted ==
    ASSUME NEW n \in Nat
    PROVE  Texts(n) \in Seq(Text) /\ Unwritten(n) \in Seq(Text)
BY Literals DEF Texts, Unwritten

(* A command that has printed nothing yet.                                 *)
LEMMA EndsWithNothing ==
    ASSUME NEW h \in Seq(Text), NEW p \in Seq(Text), EndsWith(h, p)
    PROVE  EndsWith(h, << >>)
BY MaxLinesAssumption DEF EndsWith

(* The end of a command shows its response below what it has printed.      *)
LEMMA FinishOutput ==
    ASSUME OutputInv, NEW lines \in Seq(Text), Finish(lines)
    PROVE  OutputInv'
<1> DEFINE p == IF command = "none" THEN << >> ELSE printed
           all == lines \o <<"response">>
<1>1. terminal_history \in Seq(Text) /\ printed \in Seq(Text) /\ EndsWith(terminal_history, printed)
  BY DEF OutputInv, OutputShown
<1>2. all \in Seq(Text)
  BY Literals
<1>3. p \in Seq(Text) /\ EndsWith(terminal_history, p)
  BY <1>1, EndsWithNothing
<1>4. printed' = p \o all
  <2>1. CASE command = "none"
    BY <1>2, <2>1 DEF Finish
  <2>2. CASE command # "none"
    <3> DEFINE r == <<"response">>
    <3>1. r \in Seq(Text)
      BY Literals
    <3> HIDE DEF r
    <3>2. (printed \o lines) \o r = printed \o (lines \o r)
      BY <1>1, <3>1
    <3> QED
      BY <2>2, <3>2 DEF Finish, r
  <2> QED
    BY <2>1, <2>2
<1>5. terminal_history' = Added(terminal_history, all)
  BY DEF Finish, Show
<1>6. prompt_y' = Len(terminal_history')
  BY DEF Finish
<1> HIDE DEF p, all
<1>7. p \o all \in Seq(Text)
  BY <1>2, <1>3
<1>8. /\ terminal_history' \in Seq(Text) /\ printed' \in Seq(Text)
      /\ EndsWith(terminal_history', printed')
  BY <1>1, <1>2, <1>3, <1>4, <1>5, <1>7, LinesAdded
<1>9. EndsWith(terminal_history, printed)'
  BY <1>8 DEF EndsWith
<1> QED
  BY <1>6, <1>8, <1>9 DEF OutputInv, OutputShown

(* The first half of a command shows what it has printed.                  *)
LEMMA ContinueOutput ==
    ASSUME OutputInv, NEW lines \in Seq(Text), NEW w, w # "none", Continue(w, lines)
    PROVE  OutputInv'
<1>1. terminal_history \in Seq(Text) /\ EndsWith(terminal_history, << >>)
  BY EndsWithNothing DEF OutputInv, OutputShown
<1>2. << >> \in Seq(Text) /\ << >> \o lines = lines
  OBVIOUS
<1>3. /\ terminal_history' = Added(terminal_history, lines) /\ printed' = lines
      /\ command' # "none"
  BY DEF Continue, Show
<1>4. /\ terminal_history' \in Seq(Text)
      /\ EndsWith(terminal_history', << >> \o lines)
  BY <1>1, <1>2, <1>3, LinesAdded
<1>5. EndsWith(terminal_history', printed')
  BY <1>2, <1>3, <1>4
<1>6. EndsWith(terminal_history, printed)'
  BY <1>5 DEF EndsWith
<1> QED
  BY <1>3, <1>4, <1>6 DEF OutputInv, OutputShown

-----------------------------------------------------------------------------
(* The line editor                                                         *)

(* The line as execute_command reads it.                                   *)
LEMMA LineTerminated ==
    ASSUME EditorInv
    PROVE  /\ cmd_pos \in 0 .. MaxCmdLen - 1
           /\ Line \in [0 .. MaxCmdLen - 1 -> Text]
           /\ \A i \in 1 .. Len(line) : Line[i - 1] = line[i]
           /\ Line[cmd_pos] = NUL /\ Line[MaxCmdLen - 1] = NUL
<1>1. /\ cmd_pos = Len(line) /\ Len(line) \in Nat /\ Len(line) < MaxCmdLen
      /\ cmd_buf \in [0 .. MaxCmdLen - 1 -> Text]
      /\ cmd_buf[MaxCmdLen - 1] = NUL
      /\ \A i \in 1 .. Len(line) : cmd_buf[i - 1] = line[i]
  BY DEF EditorInv, LineEditorExact, StartsWith
<1>2. MaxCmdLen \in Nat /\ cmd_pos \in 0 .. MaxCmdLen - 1
  BY <1>1, MaxCmdLenAssumption
<1>3. Line \in [0 .. MaxCmdLen - 1 -> Text]
  BY <1>1, <1>2, Literals DEF Line
<1>4. ASSUME NEW i \in 1 .. Len(line) PROVE Line[i - 1] = line[i]
  BY <1>1, <1>2 DEF Line
<1>5. Line[cmd_pos] = NUL /\ Line[MaxCmdLen - 1] = NUL
  BY <1>1, <1>2 DEF Line
<1> QED
  BY <1>2, <1>3, <1>4, <1>5

(* A command leaves the line as it is or starts a new one.                 *)
LEMMA CommandEditor ==
    ASSUME EditorInv,
           cmd_buf' = cmd_buf \/ cmd_buf' = Line,
           keys' = keys \/ (keys # << >> /\ keys' = Tail(keys)),
           (cmd_pos' = 0 /\ line' = << >>) \/ (cmd_pos' = cmd_pos /\ line' = line)
    PROVE  EditorInv'
<1>1. /\ cmd_pos = Len(line) /\ Len(line) < MaxCmdLen /\ line \in Seq(Text)
      /\ cmd_buf \in [0 .. MaxCmdLen - 1 -> Text]
      /\ cmd_buf[MaxCmdLen - 1] = NUL
      /\ \A i \in 1 .. Len(line) : cmd_buf[i - 1] = line[i]
      /\ keys \in Seq(Text)
  BY DEF EditorInv, LineEditorExact, StartsWith
<1>2. /\ cmd_buf' \in [0 .. MaxCmdLen - 1 -> Text]
      /\ cmd_buf'[MaxCmdLen - 1] = NUL
      /\ \A i \in 1 .. Len(line) : cmd_buf'[i - 1] = line[i]
  BY <1>1, LineTerminated
<1>3. keys' \in Seq(Text)
  <2>1. keys \in Seq(Text)
    BY <1>1
  <2>2. keys # << >> => Tail(keys) \in Seq(Text)
    BY <2>1
  <2> QED
    BY <2>1, <2>2
<1>4. /\ cmd_pos' = Len(line') /\ Len(line') < MaxCmdLen /\ line' \in Seq(Text)
      /\ \A i \in 1 .. Len(line') : cmd_buf'[i - 1] = line'[i]
  <2>1. CASE cmd_pos' = 0 /\ line' = << >>
    <3>1. << >> \in Seq(Text) /\ Len(<< >>) = 0
      OBVIOUS
    <3>2. \A i \in 1 .. Len(line') : FALSE
      BY <2>1, <3>1
    <3> QED
      BY <2>1, <3>1, <3>2, MaxCmdLenAssumption
  <2>2. CASE cmd_pos' = cmd_pos /\ line' = line
    BY <1>1, <1>2, <2>2
  <2> QED
    BY <2>1, <2>2
<1> QED
  BY <1>2, <1>3, <1>4 DEF EditorInv, LineEditorExact, StartsWith

(* shell_putc does what the ideal editor does.                             *)
LEMMA PutcEditor == EditorInv /\ shell_putc => EditorInv'
<1> SUFFICES ASSUME EditorInv, shell_putc PROVE EditorInv'
  OBVIOUS
<1>1. /\ cmd_pos = Len(line) /\ Len(line) < MaxCmdLen /\ line \in Seq(Text)
      /\ cmd_buf \in [0 .. MaxCmdLen - 1 -> Text]
      /\ cmd_buf[MaxCmdLen - 1] = NUL
      /\ \A i \in 1 .. Len(line) : cmd_buf[i - 1] = line[i]
      /\ keys \in Seq(Text) /\ MaxCmdLen \in Nat /\ MaxCmdLen > 9 /\ Len(line) \in Nat
  BY MaxCmdLenAssumption DEF EditorInv, LineEditorExact, StartsWith
<1>2. keys # << >> /\ keys' = Tail(keys) /\ keys' \in Seq(Text) /\ Head(keys) \in Text
  BY <1>1 DEF shell_putc
<1>3. CASE /\ cmd_pos' = (IF cmd_pos > 0 THEN cmd_pos - 1 ELSE 0)
           /\ line' = (IF line = << >> THEN line ELSE Front(line))
           /\ cmd_buf' = cmd_buf
  <2>1. CASE line = << >>
    <3>1. Len(line) = 0
      BY <2>1
    <3>2. cmd_pos' = cmd_pos /\ line' = line
      BY <1>1, <1>3, <2>1, <3>1
    <3> QED
      BY <1>2, <1>3, <3>2, CommandEditor
  <2>2. CASE line # << >>
    <3>1. /\ Len(line) > 0
          /\ line' \in Seq(Text) /\ Len(line') = Len(line) - 1
          /\ \A i \in 1 .. Len(line) - 1 : line'[i] = line[i]
      BY <1>1, <1>3, <2>2 DEF Front
    <3>2. cmd_pos' = Len(line')
      BY <1>1, <1>3, <3>1
    <3>3. \A i \in 1 .. Len(line') : cmd_buf'[i - 1] = line'[i]
      BY <1>1, <1>3, <3>1
    <3>4. Len(line') < MaxCmdLen
      BY <1>1, <3>1
    <3> QED
      BY <1>1, <1>2, <1>3, <3>1, <3>2, <3>3, <3>4 DEF EditorInv, LineEditorExact, StartsWith
  <2> QED
    BY <2>1, <2>2
<1>4. CASE UNCHANGED <<cmd_buf, cmd_pos, line>>
  BY <1>2, <1>4, CommandEditor
<1>5. CASE /\ IF RoomLeft
              THEN /\ cmd_buf' = [cmd_buf EXCEPT ![cmd_pos] = Head(keys)]
                   /\ cmd_pos' = cmd_pos + 1
              ELSE UNCHANGED <<cmd_buf, cmd_pos>>
           /\ line' = IF Len(line) < MaxCmdLen - 1 THEN Append(line, Head(keys)) ELSE line
  <2>1. CASE RoomLeft
    <3>1. /\ Len(line) < MaxCmdLen - 1 /\ cmd_pos' = cmd_pos + 1
          /\ cmd_buf' = [cmd_buf EXCEPT ![cmd_pos] = Head(keys)]
          /\ line' = Append(line, Head(keys))
      BY <1>1, <1>5, <2>1 DEF RoomLeft
    <3>2. /\ line' \in Seq(Text) /\ Len(line') = Len(line) + 1
          /\ line'[Len(line) + 1] = Head(keys)
          /\ \A i \in 1 .. Len(line) : line'[i] = line[i]
      BY <1>1, <1>2, <3>1
    <3>3. /\ cmd_buf' \in [0 .. MaxCmdLen - 1 -> Text]
          /\ cmd_buf'[cmd_pos] = Head(keys)
          /\ \A k \in 0 .. MaxCmdLen - 1 : k # cmd_pos => cmd_buf'[k] = cmd_buf[k]
      BY <1>1, <1>2, <3>1
    <3>4. ASSUME NEW i \in 1 .. Len(line') PROVE cmd_buf'[i - 1] = line'[i]
      <4>1. CASE i = Len(line) + 1
        BY <1>1, <3>2, <3>3, <4>1
      <4>2. CASE i # Len(line) + 1
        <5>1. i \in 1 .. Len(line) /\ i - 1 \in 0 .. MaxCmdLen - 1 /\ i - 1 # cmd_pos
          BY <1>1, <3>2, <4>2
        <5> QED
          BY <1>1, <3>2, <3>3, <5>1
      <4> QED
        BY <4>1, <4>2
    <3>5. cmd_buf'[MaxCmdLen - 1] = NUL
      <4>1. MaxCmdLen - 1 \in 0 .. MaxCmdLen - 1 /\ MaxCmdLen - 1 # cmd_pos
        BY <1>1, <3>1
      <4> QED
        BY <1>1, <3>3, <4>1
    <3>6. cmd_pos' = Len(line') /\ Len(line') < MaxCmdLen
      BY <1>1, <3>1, <3>2
    <3> QED
      BY <1>2, <3>2, <3>3, <3>4, <3>5, <3>6 DEF EditorInv, LineEditorExact, StartsWith
  <2>2. CASE ~ RoomLeft
    <3>1. cmd_buf' = cmd_buf /\ cmd_pos' = cmd_pos /\ line' = line
      BY <1>1, <1>5, <2>2 DEF RoomLeft
    <3> QED
      BY <1>2, <3>1, CommandEditor
  <2> QED
    BY <2>1, <2>2
<1> QED
  BY <1>3, <1>4, <1>5 DEF shell_putc

-----------------------------------------------------------------------------
(* Commands                                                                *)

(* A scan of the buffer ends at the latest at its last cell.               *)
LEMMA ScanFinds ==
    ASSUME NEW b, NEW i \in 0 .. MaxCmdLen - 1, NEW passed, b[MaxCmdLen - 1] \notin passed
    PROVE  /\ Scan(b, i, passed) \in i .. MaxCmdLen - 1
           /\ b[Scan(b, i, passed)] \notin passed
           /\ \A k \in i .. Scan(b, i, passed) - 1 : b[k] \in passed
<1> DEFINE Ends == { j \in i .. MaxCmdLen - 1 : b[j] \notin passed }
<1>1. MaxCmdLen \in Nat /\ i \in Nat /\ MaxCmdLen - 1 \in Ends
  BY MaxCmdLenAssumption
<1>2. PICK m \in Ends : \A x \in Ends : m <= x
  <2>1. Ends \in SUBSET Nat /\ Ends # {}
    BY <1>1
  <2> HIDE DEF Ends
  <2> QED
    BY <2>1, LeastNumber
<1>3. m \in i .. MaxCmdLen - 1 /\ b[m] \notin passed
  BY <1>2
<1>4. ASSUME NEW k \in i .. m - 1 PROVE b[k] \in passed
  <2>1. k \in i .. MaxCmdLen - 1 /\ ~ (m <= k)
    BY <1>1, <1>3
  <2>2. k \notin Ends
    BY <1>2, <2>1
  <2> QED
    BY <2>1, <2>2
<1>5. \E j \in i .. MaxCmdLen - 1 : b[j] \notin passed /\ \A k \in i .. j - 1 : b[k] \in passed
  BY <1>3, <1>4
<1> HIDE DEF Ends
<1> QED
  BY <1>5 DEF Scan

(* An argument is a number, wherever in the buffer it is looked for.       *)
LEMMA AtoiIsNat ==
    ASSUME NEW b, b[MaxCmdLen - 1] = NUL, NEW i \in 0 .. MaxCmdLen - 1
    PROVE  atoi(b, i) \in Nat
<1> DEFINE end == Scan(b, i, DigitChars)
           digits == [k \in 1 .. end - i |-> b[i + k - 1]]
<1>1. /\ end \in i .. MaxCmdLen - 1 /\ \A k \in i .. end - 1 : b[k] \in DigitChars
  BY NulIsNoDigit, ScanFinds
<1> HIDE DEF end
<1>2. end - i \in Nat
  BY <1>1, MaxCmdLenAssumption
<1>3. \A k \in 1 .. end - i : i + k - 1 \in i .. end - 1
  BY <1>1, MaxCmdLenAssumption
<1>4. digits \in Seq(DigitChars)
  BY <1>1, <1>2, <1>3
<1> HIDE DEF digits
<1>5. Value(digits) \in Nat
  BY <1>4, ValueIsNat
<1>6. Value(digits) % NumberSpace \in Nat
  BY <1>5, NumberSpaceAssumption
<1> QED
  BY <1>6 DEF atoi, digits, end

(* ideread reads a number of sectors.                                      *)
LEMMA SectorCountIsNat ==
    ASSUME EditorInv
    PROVE  SectorCount(Line) \in Nat
<1> DEFINE b == Line
           i == Scan(b, 8, Range(b) \ {NUL, BLANK})
           n == IF b[i] = BLANK THEN atoi(b, i + 1) % 65536 ELSE 1
<1>1. b[MaxCmdLen - 1] = NUL
  BY LineTerminated
<1> HIDE DEF b
<1>2. i \in 8 .. MaxCmdLen - 1
  <2>1. 8 \in 0 .. MaxCmdLen - 1 /\ b[MaxCmdLen - 1] \notin Range(b) \ {NUL, BLANK}
    BY <1>1, MaxCmdLenAssumption
  <2> QED
    BY <2>1, ScanFinds
<1> HIDE DEF i
<1>3. n \in Nat
  <2>1. CASE b[i] = BLANK
    <3>1. i # MaxCmdLen - 1
      BY <1>1, <2>1 DEF NUL, BLANK
    <3>2. i + 1 \in 0 .. MaxCmdLen - 1
      BY <1>2, <3>1, MaxCmdLenAssumption
    <3>3. atoi(b, i + 1) \in Nat
      BY <1>1, <3>2, AtoiIsNat
    <3>4. atoi(b, i + 1) % 65536 \in Nat
      BY <3>3
    <3> QED
      BY <2>1, <3>4
  <2>2. CASE b[i] # BLANK
    BY <2>2
  <2> QED
    BY <2>1, <2>2
<1>4. SectorCount(b) = IF n > MaxSectors THEN MaxSectors ELSE n
  <2>1. ArgumentCell["ideread"] = 8
    BY DEF ArgumentCell
  <2> QED
    BY <2>1 DEF SectorCount, i
<1> HIDE DEF n
<1> QED
  BY <1>3, <1>4, LinesAssumption DEF b

(* The output starts with the prompt.                                      *)
LEMMA PromptFirst ==
    ASSUME NEW lines \in Seq(Text)
    PROVE  <<"prompt">> \o lines \in Seq(Text) /\ <<"prompt">> \in Seq(Text)
BY Literals

(* Every command prints some lines, and either ends or goes on.            *)
LEMMA CommandPrints ==
    ASSUME EditorInv, execute_command
    PROVE  /\ Enter
           /\ \E lines \in Seq(Text) :
                 \/ Finish(lines)
                 \/ \E w \in {"testmem", "pkill"} : Continue(w, lines)
<1>1. \A n \in Nat : <<"prompt">> \o Texts(n) \in Seq(Text)
                      /\ <<"prompt">> \o Unwritten(n) \in Seq(Text)
  BY LinesPrinted, PromptFirst
<1>2. <<"prompt">> \in Seq(Text)
  BY <1>1, Literals
<1>3. CASE help
  BY <1>2, <1>3 DEF help, Begin
<1>4. CASE info
  <2>1. 1 + InfoLines \in Nat
    BY LinesAssumption
  <2> QED
    BY <1>1, <1>4, <2>1 DEF info, Begin
<1>5. CASE testmem
  BY <1>1, <1>5 DEF testmem, Begin
<1>6. CASE spawn
  BY <1>2, <1>6 DEF spawn, Begin
<1>7. CASE get
  <2>1. (IF HasPid(Argument(Line, "get")) THEN 2 ELSE 0) \in Nat
    OBVIOUS
  <2> QED
    BY <1>1, <1>7, <2>1 DEF get, Begin
<1>8. CASE pkill
  BY <1>2, <1>8 DEF pkill, Begin
<1>9. CASE ideinfo
  BY <1>1, <1>9 DEF ideinfo, Begin
<1>10. CASE ideread
  <2>1. SectorCount(Line) * SectorLines \in Nat
    BY SectorCountIsNat, LinesAssumption
  <2> QED
    BY <1>1, <1>10, <2>1 DEF ideread, Begin
<1>11. CASE ideident
  <2>1. Unwritten(1) \o Texts(1) \in Seq(Text) /\ Unwritten(9) \in Seq(Text)
    BY LinesPrinted
  <2> QED
    BY <1>11, <2>1, PromptFirst DEF ideident, Begin
<1>12. CASE unknown
  BY <1>2, <1>12 DEF unknown
<1> QED
  BY <1>3, <1>4, <1>5, <1>6, <1>7, <1>8, <1>9, <1>10, <1>11, <1>12 DEF execute_command

-----------------------------------------------------------------------------
(* Processes and memory                                                    *)

(* A command that calls neither process nor memory management.             *)
LEMMA NoCallInv ==
    ASSUME MemoryInv, command = "none", command' = "none", NoProcessCall
    PROVE  MemoryInv'
<1>1. /\ pc = "call" /\ ProcessInv
      /\ \A i \in Live : proc_table[i].status = "RUNNING"
  BY DEF MemoryInv
<1>2. UNCHANGED <<timer_vars, proc_vars>>
  BY DEF NoProcessCall
<1>3. ProcessInv'
  BY <1>1, <1>2, ProcessStepInv
<1>4. pc' = pc /\ proc_table' = proc_table
  BY <1>2 DEF proc_vars
<1> QED
  BY <1>1, <1>3, <1>4 DEF MemoryInv, Live

(* spawn: a new process runs.                                              *)
LEMMA CreateMemory ==
    ASSUME MemoryInv, command = "none", command' = "none", process_create
    PROVE  MemoryInv'
<1>1. /\ pc = "call" /\ ProcessInv
      /\ \A i \in Live : proc_table[i].status = "RUNNING"
  BY DEF MemoryInv
<1>2. ProcessInv'
  BY <1>1, ProcessStepInv DEF ProcessNext
<1>3. PICK i \in Slots, pid \in 1 .. MaxProcs :
         /\ \E base : proc_table' = [proc_table EXCEPT ![i] =
               [pid |-> pid, status |-> "RUNNING", run_time |-> 0, mem_base |-> base]]
         /\ pc' = pc
  BY DEF process_create, UnusedSlots
<1>4. DOMAIN proc_table = Slots
  BY <1>1 DEF ProcessInv, ProcessTypeOK
<1>5. ASSUME NEW j \in Live' PROVE proc_table'[j].status = "RUNNING"
  <2>1. j \in Slots /\ proc_table'[j].pid # 0
    BY DEF Live
  <2>2. CASE j = i
    BY <1>3, <1>4, <2>1, <2>2
  <2>3. CASE j # i
    <3>1. proc_table'[j] = proc_table[j]
      BY <1>3, <1>4, <2>1, <2>3
    <3> QED
      BY <1>1, <2>1, <3>1 DEF Live
  <2> QED
    BY <2>2, <2>3
<1> QED
  BY <1>1, <1>2, <1>3, <1>5 DEF MemoryInv

(* The first call of pkill: one process is terminated, and it is the one   *)
(* with that PID.                                                          *)
LEMMA KillMemory ==
    ASSUME MemoryInv, command = "none", command' = "pkill", NEW pid, HasPid(pid), kill_proc(pid)
    PROVE  /\ MemoryInv'
           /\ \A j \in Slots : proc_table[j].pid # pid => proc_table'[j] = proc_table[j]
<1>1. /\ pc = "call" /\ ProcessInv
      /\ \A i \in Live : proc_table[i].status = "RUNNING"
  BY DEF MemoryInv
<1>2. pid \in 0 .. MaxProcs
  BY <1>1 DEF HasPid, ProcessInv, ProcessTypeOK
<1>3. ProcessInv'
  BY <1>1, <1>2, ProcessStepInv DEF ProcessNext
<1>4. PICK i \in Slots :
         /\ proc_table[i].pid = pid
         /\ proc_table' = [proc_table EXCEPT ![i].status = "TERMINATED"]
         /\ pc' = pc
  BY DEF kill_proc, IsFirst
<1>5. proc_table \in [Slots -> [pid : 0 .. MaxProcs, status : Statuses,
                                mem_base : Nat, run_time : Nat]]
  BY <1>1 DEF ProcessInv, ProcessTypeOK
<1>6. proc_table'[i].status = "TERMINATED"
  BY <1>4, <1>5
<1>7. ASSUME NEW j \in Slots, j # i PROVE proc_table'[j] = proc_table[j]
  BY <1>4, <1>5, <1>7
<1>8. ASSUME NEW j \in Live'
      PROVE  proc_table'[j].status = "RUNNING" \/ proc_table'[j].status = "TERMINATED"
  BY <1>1, <1>6, <1>7 DEF Live
<1>9. MemoryInv'
  BY <1>1, <1>3, <1>4, <1>8 DEF MemoryInv
<1> QED
  BY <1>4, <1>7, <1>9

(* The second call of pkill: no terminated process stays in the table.     *)
LEMMA CleanUpMemory ==
    ASSUME MemoryInv, command = "pkill", command' = "none", process_check_and_free
    PROVE  MemoryInv'
<1>1. /\ pc = "call" /\ ProcessInv
      /\ \A i \in Live : proc_table[i].status = "RUNNING" \/ proc_table[i].status = "TERMINATED"
  BY DEF MemoryInv
<1>2. ProcessInv'
  BY <1>1, ProcessStepInv DEF ProcessNext
<1> DEFINE dead == { i \in Slots : proc_table[i].pid # 0 /\ proc_table[i].status = "TERMINATED" }
<1>3. /\ proc_table' = [i \in Slots |->
            IF i \in dead THEN [proc_table[i] EXCEPT !.pid = 0] ELSE proc_table[i]]
      /\ pc' = pc
  BY DEF process_check_and_free
<1>4. proc_table \in [Slots -> [pid : 0 .. MaxProcs, status : Statuses,
                                mem_base : Nat, run_time : Nat]]
  BY <1>1 DEF ProcessInv, ProcessTypeOK
<1>5. ASSUME NEW j \in Live' PROVE proc_table'[j].status = "RUNNING"
  <2>1. j \in Slots /\ proc_table'[j].pid # 0
    BY DEF Live
  <2>2. j \notin dead
    <3>1. j \in dead => proc_table'[j].pid = 0
      BY <1>3, <1>4, <2>1
    <3> QED
      BY <2>1, <3>1
  <2>3. proc_table'[j] = proc_table[j]
    BY <1>3, <2>1, <2>2
  <2> QED
    BY <1>1, <2>1, <2>2, <2>3 DEF Live
<1> QED
  BY <1>1, <1>2, <1>3, <1>5 DEF MemoryInv

(* The first call of testmem: the new region is the latest.                *)
LEMMA TestAllocMemory ==
    ASSUME MemoryInv, command = "none", command' = "testmem", Vt!Alloc,
           UNCHANGED <<timer_vars, proc_table, last_time, current_time, pc, born>>
    PROVE  MemoryInv'
<1>1. /\ pc = "call" /\ ProcessInv
      /\ \A i \in Live : proc_table[i].status = "RUNNING"
  BY DEF MemoryInv
<1>2. /\ regions = Stacks /\ next_vaddr \in Nat /\ next_vaddr # 0
      /\ \A r \in regions : r.vaddr < next_vaddr
  BY <1>1 DEF ProcessInv, ProcessTypeOK, StacksOwned, RegionsBelow, Stacks
<1>3. /\ regions' = regions \cup {[vaddr |-> next_vaddr, pages |-> TestPages]}
      /\ next_vaddr' = next_vaddr + TestPages
  BY DEF Vt!Alloc
<1>4. Stacks' = Stacks /\ Live' = Live
  BY DEF Stacks, Live
<1>5. next_vaddr' - TestPages = next_vaddr /\ next_vaddr' \in Nat /\ next_vaddr' > TestPages
  BY <1>2, <1>3, TestPagesAssumption
<1>6. TestRegionLatest'
  <2>1. TestRegion' = [vaddr |-> next_vaddr, pages |-> TestPages]
    BY <1>5 DEF TestRegion
  <2>2. regions' = Stacks' \cup {TestRegion'}
    BY <1>2, <1>3, <1>4, <2>1
  <2>3. \A s \in Stacks' : s.vaddr < next_vaddr' - TestPages
    BY <1>2, <1>4, <1>5
  <2> QED
    BY <1>5, <2>2, <2>3 DEF TestRegionLatest
<1>7. TableInv
  BY <1>1 DEF ProcessInv, ProcessTypeOK, StacksOwned, TableInv
<1>8. TableInv'
  BY <1>4, <1>7 DEF TableInv, PidsUnique, RunTimeExact, CopyBehindClock, timer_vars
<1> QED
  BY <1>1, <1>4, <1>6, <1>8 DEF MemoryInv

(* The second call of testmem gives back that region and no other.         *)
LEMMA TestFreeMemory ==
    ASSUME MemoryInv, command = "testmem", command' = "none",
           regions' = { r \in regions : r.vaddr # next_vaddr - TestPages },
           UNCHANGED <<timer_vars, proc_table, last_time, current_time, pc, born, next_vaddr>>
    PROVE  MemoryInv'
<1>1. /\ pc = "call" /\ TableInv /\ TestRegionLatest
      /\ \A i \in Live : proc_table[i].status = "RUNNING"
  BY DEF MemoryInv
<1>2. Stacks' = Stacks /\ Live' = Live
  BY DEF Stacks, Live
<1>3. /\ Stacks \subseteq [vaddr : Nat, pages : {StackPages}]
  BY <1>1 DEF TableInv, Stacks, Live
<1>4. /\ next_vaddr \in Nat /\ next_vaddr > TestPages
      /\ regions = Stacks \cup {TestRegion}
      /\ \A s \in Stacks : s.vaddr < next_vaddr - TestPages
  BY <1>1 DEF TestRegionLatest
<1>5. regions' = Stacks
  <2>1. TestRegion.vaddr = next_vaddr - TestPages
    BY DEF TestRegion
  <2>2. next_vaddr - TestPages \in Nat
    BY <1>4, TestPagesAssumption
  <2>3. \A s \in Stacks : s.vaddr \in Nat /\ s.vaddr # next_vaddr - TestPages
    BY <1>3, <1>4, <2>2
  <2> QED
    BY <1>4, <2>1, <2>3
<1>6. TableInv'
  BY <1>1, <1>2 DEF TableInv, PidsUnique, RunTimeExact, CopyBehindClock, timer_vars
<1>7. RegionsBelow'
  <2>1. next_vaddr' = next_vaddr /\ next_vaddr # 0
    BY <1>4, TestPagesAssumption
  <2>2. \A s \in Stacks : s.vaddr < next_vaddr
    BY <1>3, <1>4, TestPagesAssumption
  <2> QED
    BY <1>5, <2>1, <2>2 DEF RegionsBelow
<1>8. StacksOwned'
  BY <1>2, <1>5, <1>6 DEF StacksOwned, Stacks, TableInv
<1>9. ProcessTypeOK'
  BY <1>1, <1>3, <1>4, <1>5, <1>6 DEF ProcessTypeOK, TableInv
<1>10. ProcessInv'
  BY <1>6, <1>7, <1>8, <1>9 DEF ProcessInv, TableInv
<1> QED
  BY <1>1, <1>2, <1>10 DEF MemoryInv

-----------------------------------------------------------------------------
(* The argument of pkill                                                   *)

(* The digits that were typed, and their number.                           *)
LEMMA ArgumentTyped ==
    ASSUME EditorInv, "pkill" \in Recognised(Line), line # Chars["pkill"]
    PROVE  Argument(Line, "pkill") = TypedPid
<1> DEFINE word == <<"p", "k", "i", "l", "l">>
           b == Line
           end == Scan(b, 6, DigitChars)
           rest == SubSeq(line, 7, Len(line))
           Prefix(n) == /\ \A k \in 1 .. n : rest[k] \in DigitChars
                        /\ n < Len(rest) => rest[n + 1] \notin DigitChars
           n == CHOOSE n \in 0 .. Len(rest) : Prefix(n)
<1>1. /\ cmd_pos \in 0 .. MaxCmdLen - 1 /\ cmd_pos = Len(line) /\ line \in Seq(Text)
      /\ \A i \in 1 .. Len(line) : b[i - 1] = line[i]
      /\ b[cmd_pos] = NUL /\ b[MaxCmdLen - 1] = NUL
  BY LineTerminated DEF EditorInv, LineEditorExact
<1>2. Chars["pkill"] = word /\ ArgumentCell["pkill"] = 6 /\ "pkill" \in WithArgument
  BY DEF Chars, ArgumentCell, WithArgument
<1>3. b[0] = "p" /\ b[1] = "k" /\ b[2] = "i" /\ b[3] = "l" /\ b[4] = "l"
  <2>1. StartsWith(b, word)
    BY <1>2 DEF Recognised
  <2>2. \A i \in 1 .. 5 : b[i - 1] = word[i]
    BY <2>1 DEF StartsWith
  <2> HIDE DEF b
  <2> QED
    BY <2>2
<1> HIDE DEF b
<1>4. cmd_pos >= 6
  <2>1. cmd_pos # 0 /\ cmd_pos # 1 /\ cmd_pos # 2 /\ cmd_pos # 3 /\ cmd_pos # 4
    BY <1>1, <1>3 DEF NUL
  <2>2. cmd_pos # 5
    <3> SUFFICES ASSUME cmd_pos = 5 PROVE line = word
      BY <1>2
    <3>1. Len(line) = 5 /\ \A i \in 1 .. 5 : line[i] = b[i - 1]
      BY <1>1
    <3>2. line[1] = b[0] /\ line[2] = b[1] /\ line[3] = b[2] /\ line[4] = b[3] /\ line[5] = b[4]
      BY <3>1
    <3>3. /\ line[1] = "p" /\ line[2] = "k" /\ line[3] = "i" /\ line[4] = "l"
          /\ line[5] = "l"
      BY <1>3, <3>2
    <3> QED
      BY <1>1, <3>1, <3>3
  <2>3. cmd_pos \in Nat
    BY <1>1, MaxCmdLenAssumption
  <2> QED
    BY <2>1, <2>2, <2>3
<1>5. /\ end \in 6 .. MaxCmdLen - 1 /\ b[end] \notin DigitChars
      /\ \A k \in 6 .. end - 1 : b[k] \in DigitChars
  <2>1. 6 \in 0 .. MaxCmdLen - 1 /\ b[MaxCmdLen - 1] \notin DigitChars
    BY <1>1, NulIsNoDigit, MaxCmdLenAssumption
  <2> QED
    BY <2>1, ScanFinds
<1> HIDE DEF end
<1>6. end <= cmd_pos
  <2>1. end > cmd_pos => b[cmd_pos] \in DigitChars
    BY <1>1, <1>4, <1>5, MaxCmdLenAssumption
  <2> QED
    BY <1>1, <1>5, <2>1, NulIsNoDigit, MaxCmdLenAssumption
<1>7. /\ rest \in Seq(Text) /\ Len(rest) = cmd_pos - 6
      /\ \A k \in 1 .. cmd_pos - 6 : rest[k] = b[5 + k]
  <2>1. /\ rest \in Seq(Text) /\ Len(rest) = cmd_pos - 6
        /\ \A k \in 1 .. cmd_pos - 6 : rest[k] = line[6 + k]
    BY <1>1, <1>4
  <2>2. ASSUME NEW k \in 1 .. cmd_pos - 6 PROVE line[6 + k] = b[5 + k]
    <3>1. 6 + k \in 1 .. Len(line) /\ (6 + k) - 1 = 5 + k
      BY <1>1, <1>4
    <3> QED
      BY <1>1, <3>1
  <2> QED
    BY <2>1, <2>2
<1> HIDE DEF rest
<1> DEFINE m == end - 6
<1>8. m \in 0 .. Len(rest) /\ m \in Nat /\ Len(rest) \in Nat
  BY <1>1, <1>5, <1>6, <1>7, MaxCmdLenAssumption
<1>9. Prefix(m)
  <2>1. ASSUME NEW k \in 1 .. m PROVE rest[k] \in DigitChars
    <3>1. k \in 1 .. cmd_pos - 6 /\ 5 + k \in 6 .. end - 1
      BY <1>1, <1>5, <1>6, MaxCmdLenAssumption
    <3> QED
      BY <1>5, <1>7, <3>1
  <2>2. ASSUME m < Len(rest) PROVE rest[m + 1] \notin DigitChars
    <3>1. m + 1 \in 1 .. cmd_pos - 6 /\ 5 + (m + 1) = end
      BY <1>1, <1>5, <1>6, <1>7, <2>2, MaxCmdLenAssumption
    <3> QED
      BY <1>5, <1>7, <3>1
  <2> QED
    BY <2>1, <2>2
<1> HIDE DEF m
<1>10. ASSUME NEW j \in 0 .. Len(rest), Prefix(j) PROVE j = m
  <2>1. CASE j < m
    <3>1. j < Len(rest) /\ j + 1 \in 1 .. m
      BY <1>8, <2>1
    <3> QED
      BY <1>9, <1>10, <3>1
  <2>2. CASE m < j
    <3>1. m < Len(rest) /\ m + 1 \in 1 .. j
      BY <1>8, <2>2
    <3> QED
      BY <1>9, <1>10, <3>1
  <2> QED
    BY <1>8, <2>1, <2>2
<1>11. n = m
  <2> HIDE DEF Prefix
  <2> QED
    BY <1>8, <1>9, <1>10
<1>12. SubSeq(rest, 1, m) = [k \in 1 .. end - 6 |-> b[6 + k - 1]]
  <2>1. /\ SubSeq(rest, 1, m) \in Seq(Text) /\ Len(SubSeq(rest, 1, m)) = m
        /\ \A k \in 1 .. m : SubSeq(rest, 1, m)[k] = rest[k]
    BY <1>7, <1>8
  <2>2. ASSUME NEW k \in 1 .. m PROVE rest[k] = b[6 + k - 1]
    <3>1. k \in 1 .. cmd_pos - 6 /\ 6 + k - 1 = 5 + k
      BY <1>1, <1>7, <1>8, MaxCmdLenAssumption
    <3> QED
      BY <1>7, <3>1
  <2> DEFINE digits == SubSeq(rest, 1, m)
  <2> HIDE DEF digits
  <2>3. digits = [k \in 1 .. m |-> digits[k]]
    BY <2>1 DEF digits
  <2>4. \A k \in 1 .. m : digits[k] = b[6 + k - 1]
    BY <2>1, <2>2 DEF digits
  <2>5. digits = [k \in 1 .. m |-> b[6 + k - 1]]
    BY <2>3, <2>4
  <2> QED
    BY <2>5 DEF digits, m
<1>13. TypedPid = Value(SubSeq(rest, 1, n)) % NumberSpace
  BY DEF TypedPid, rest
<1>14. Argument(b, "pkill") = Value([k \in 1 .. end - 6 |-> b[6 + k - 1]]) % NumberSpace
  BY <1>2 DEF Argument, atoi, end
<1> HIDE DEF n
<1> QED
  BY <1>11, <1>12, <1>13, <1>14 DEF b

-----------------------------------------------------------------------------
(* The invariant of the shell                                              *)

LEMMA ShellInitInv == ShellInit => ShellInv
<1> SUFFICES ASSUME ShellInit PROVE ShellInv
  OBVIOUS
<1>1. ProcessInv
  BY ProcessInitInv DEF ShellInit
<1>2. EditorInv
  <2>1. 0 \in Nat /\ MaxCmdLen - 1 \in 0 .. MaxCmdLen - 1 /\ 0 < MaxCmdLen
    BY MaxCmdLenAssumption
  <2>2. << >> \in Seq(Text) /\ Len(<< >>) = 0 /\ \A i \in 1 .. Len(<< >>) : FALSE
    OBVIOUS
  <2>3. cmd_buf \in [0 .. MaxCmdLen - 1 -> Text] /\ cmd_buf[MaxCmdLen - 1] = NUL
    BY <2>1, Literals DEF ShellInit
  <2>4. line = << >> /\ keys = << >> /\ cmd_pos = 0
    BY DEF ShellInit
  <2> QED
    BY <2>1, <2>2, <2>3, <2>4 DEF EditorInv, LineEditorExact, StartsWith
<1>3. OutputInv
  <2>1. << >> \in Seq(Text) /\ Len(<< >>) = 0
    OBVIOUS
  <2>2. terminal_history = << >> /\ printed = << >> /\ prompt_y = 0
    BY DEF ShellInit
  <2>3. EndsWith(terminal_history, printed)
    BY <2>1, <2>2, MaxLinesAssumption DEF EndsWith
  <2> QED
    BY <2>1, <2>2, <2>3 DEF OutputInv, OutputShown
<1>4. MemoryInv
  <2>1. Live = {}
    BY DEF ShellInit, ProcessInit, Live, Unused
  <2> QED
    BY <1>1, <2>1 DEF MemoryInv, ShellInit, ProcessInit
<1> QED
  BY <1>2, <1>3, <1>4 DEF ShellInv

(* What may be typed consists of keys.                                     *)
LEMMA ScriptsTyped == Scripts \subseteq Seq(Text)
<1> DEFINE Str == STRING
<1>1. Scripts \subseteq Seq(Str) /\ Str \subseteq Text
  BY ScriptsAssumption DEF Text
<1> HIDE DEF Str
<1> QED
  BY <1>1

(* A command is executed: processes and memory.                            *)
LEMMA CommandMemory ==
    ASSUME ShellInv, execute_command
    PROVE  MemoryInv'
<1>1. MemoryInv /\ command = "none"
  BY CommandPrints DEF ShellInv, Enter
<1>2. CASE help \/ info \/ get \/ ideinfo \/ ideread \/ ideident \/ unknown
  <2>1. command' = "none" /\ NoProcessCall
    BY <1>2 DEF help, info, get, ideinfo, ideread, ideident, unknown, Finish
  <2> QED
    BY <1>1, <2>1, NoCallInv
<1>3. CASE testmem
  <2>1. CASE Vt!Alloc /\ Continue("testmem", <<"prompt">> \o Texts(2))
    <3>1. /\ command' = "testmem"
          /\ UNCHANGED <<timer_vars, proc_table, last_time, current_time, pc, born>>
      BY <1>3, <2>1 DEF testmem, Continue
    <3> QED
      BY <1>1, <2>1, <3>1, TestAllocMemory
  <2>2. CASE Finish(<<"prompt">> \o Texts(2)) /\ UNCHANGED <<next_vaddr, regions>>
    <3>1. command' = "none" /\ NoProcessCall
      BY <1>3, <2>2 DEF testmem, Finish, NoProcessCall, proc_vars
    <3> QED
      BY <1>1, <3>1, NoCallInv
  <2> QED
    BY <1>3, <2>1, <2>2 DEF testmem
<1>4. CASE spawn
  <2>1. command' = "none" /\ (process_create \/ NoProcessCall)
    BY <1>4 DEF spawn, Finish
  <2> QED
    BY <1>1, <2>1, CreateMemory, NoCallInv
<1>5. CASE pkill
  <2> DEFINE pid == Argument(Line, "pkill")
  <2> HIDE DEF pid
  <2>1. \/ HasPid(pid) /\ kill_proc(pid) /\ command' = "pkill"
        \/ command' = "none" /\ NoProcessCall
    BY <1>5 DEF pkill, Finish, Continue, pid
  <2> QED
    BY <1>1, <2>1, KillMemory, NoCallInv
<1> QED
  BY <1>2, <1>3, <1>4, <1>5 DEF execute_command

(* A command is executed: the line and the output.                         *)
LEMMA CommandRest ==
    ASSUME ShellInv, execute_command
    PROVE  EditorInv' /\ OutputInv'
<1>1. EditorInv /\ OutputInv
  BY DEF ShellInv
<1>2. Enter
  BY <1>1, CommandPrints
<1>3. PICK lines \in Seq(Text) :
         Finish(lines) \/ \E w \in {"testmem", "pkill"} : Continue(w, lines)
  BY <1>1, CommandPrints
<1>4. OutputInv'
  <2>1. \A w \in {"testmem", "pkill"} : w # "none"
    OBVIOUS
  <2> QED
    BY <1>1, <1>3, <2>1, FinishOutput, ContinueOutput
<1>5. EditorInv'
  <2>1. (cmd_pos' = 0 /\ line' = << >>) \/ (cmd_pos' = cmd_pos /\ line' = line)
    BY <1>3 DEF Finish, Continue
  <2>2. cmd_buf' = Line /\ keys # << >> /\ keys' = Tail(keys)
    BY <1>2 DEF Enter
  <2> QED
    BY <1>1, <2>1, <2>2, CommandEditor
<1> QED
  BY <1>4, <1>5

(* The end of a command of two calls.                                      *)
LEMMA FinishRest ==
    ASSUME ShellInv, Finish(<< >>), UNCHANGED <<cmd_buf, keys>>
    PROVE  EditorInv' /\ OutputInv'
<1>1. EditorInv /\ OutputInv /\ << >> \in Seq(Text)
  BY DEF ShellInv
<1>2. OutputInv'
  BY <1>1, FinishOutput
<1>3. cmd_pos' = 0 /\ line' = << >> /\ cmd_buf' = cmd_buf /\ keys' = keys
  BY DEF Finish
<1>4. EditorInv'
  BY <1>1, <1>3, CommandEditor
<1> QED
  BY <1>2, <1>4

LEMMA ShellStepInv == ShellInv /\ [ShellNext]_all_vars => ShellInv'
<1> SUFFICES ASSUME ShellInv, [ShellNext]_all_vars PROVE ShellInv'
  OBVIOUS
<1>1. CASE shell_putc
  <2>1. EditorInv'
    BY <1>1, PutcEditor DEF ShellInv
  <2>2. OutputInv'
    <3>1. OutputInv /\ UNCHANGED <<terminal_history, prompt_y, command, printed>>
      BY <1>1 DEF ShellInv, shell_putc
    <3> QED
      BY <3>1 DEF OutputInv, OutputShown, EndsWith
  <2>3. MemoryInv'
    <3>1. MemoryInv /\ command = "none" /\ command' = "none" /\ NoProcessCall
      BY <1>1 DEF ShellInv, shell_putc
    <3> QED
      BY <3>1, NoCallInv
  <2> QED
    BY <2>1, <2>2, <2>3 DEF ShellInv
<1>2. CASE execute_command
  BY <1>2, CommandMemory, CommandRest DEF ShellInv
<1>3. CASE testmem_free
  <2>1. MemoryInv'
    <3>1. /\ MemoryInv /\ command = "testmem" /\ command' = "none"
          /\ regions' = { r \in regions : r.vaddr # next_vaddr - TestPages }
          /\ UNCHANGED <<timer_vars, proc_table, last_time, current_time, pc, born, next_vaddr>>
      BY <1>3 DEF ShellInv, testmem_free, Finish
    <3> QED
      BY <3>1, TestFreeMemory
  <2>2. Finish(<< >>) /\ UNCHANGED <<cmd_buf, keys>>
    BY <1>3 DEF testmem_free
  <2> QED
    BY <2>1, <2>2, FinishRest DEF ShellInv
<1>4. CASE pkill_free
  <2>1. MemoryInv'
    <3>1. MemoryInv /\ command = "pkill" /\ command' = "none" /\ process_check_and_free
      BY <1>4 DEF ShellInv, pkill_free, Finish
    <3> QED
      BY <3>1, CleanUpMemory
  <2>2. Finish(<< >>) /\ UNCHANGED <<cmd_buf, keys>>
    BY <1>4 DEF pkill_free
  <2> QED
    BY <2>1, <2>2, FinishRest DEF ShellInv
<1>5. CASE press
  <2>1. EditorInv'
    <3>1. EditorInv /\ keys' \in Seq(Text) /\ UNCHANGED <<cmd_buf, cmd_pos, line>>
      BY <1>5, ScriptsTyped DEF ShellInv, press
    <3> QED
      BY <3>1 DEF EditorInv, LineEditorExact, StartsWith
  <2>2. OutputInv'
    <3>1. OutputInv /\ UNCHANGED <<terminal_history, prompt_y, command, printed>>
      BY <1>5 DEF ShellInv, press
    <3> QED
      BY <3>1 DEF OutputInv, OutputShown, EndsWith
  <2>3. MemoryInv'
    <3>1. MemoryInv /\ command = "none" /\ command' = "none" /\ NoProcessCall
      BY <1>5 DEF ShellInv, press
    <3> QED
      BY <3>1, NoCallInv
  <2> QED
    BY <2>1, <2>2, <2>3 DEF ShellInv
<1>6. CASE UNCHANGED all_vars
  <2>1. EditorInv'
    <3>1. EditorInv /\ UNCHANGED <<cmd_buf, cmd_pos, line, keys>>
      BY <1>6 DEF ShellInv, all_vars, shell_vars
    <3> QED
      BY <3>1 DEF EditorInv, LineEditorExact, StartsWith
  <2>2. OutputInv'
    <3>1. OutputInv /\ UNCHANGED <<terminal_history, prompt_y, command, printed>>
      BY <1>6 DEF ShellInv, all_vars, shell_vars
    <3> QED
      BY <3>1 DEF OutputInv, OutputShown, EndsWith
  <2>3. MemoryInv'
    <3>1. /\ MemoryInv /\ command' = command
          /\ UNCHANGED <<timer_vars, proc_vars>>
      BY <1>6 DEF ShellInv, all_vars, shell_vars
    <3>2. ProcessInv => ProcessInv'
      BY <3>1, ProcessStepInv
    <3>3. TableInv => TableInv'
      BY <3>1 DEF TableInv, PidsUnique, RunTimeExact, CopyBehindClock, Live, timer_vars, proc_vars
    <3>4. TestRegionLatest => TestRegionLatest'
      BY <3>1 DEF TestRegionLatest, Stacks, TestRegion, Live, proc_vars
    <3>5. pc' = pc /\ proc_table' = proc_table
      BY <3>1 DEF proc_vars
    <3> QED
      BY <3>1, <3>2, <3>3, <3>4, <3>5 DEF MemoryInv, Live
  <2> QED
    BY <2>1, <2>2, <2>3 DEF ShellInv
<1> QED
  BY <1>1, <1>2, <1>3, <1>4, <1>5, <1>6 DEF ShellNext

LEMMA ShellInvariant == ShellSpec => []ShellInv
BY ShellInitInv, ShellStepInv, PTL DEF ShellSpec

-----------------------------------------------------------------------------
(* What the shell promises                                                 *)

(* For every length of the buffer and whatever is typed: cmd_buf and       *)
(* cmd_pos hold the line an ideal editor would, and the last cell of the   *)
(* buffer always ends it.                                                  *)
THEOREM ShellEditorExact == ShellSpec => []LineEditorExact
<1>1. ShellInv => LineEditorExact
  BY DEF ShellInv, EditorInv
<1> QED
  BY <1>1, ShellInvariant, PTL

(* For every number of lines of the history: what the latest command has   *)
(* printed is its end, in order, with the prompt below.                    *)
THEOREM ShellOutputShown == ShellSpec => []OutputShown
<1>1. ShellInv => OutputShown
  BY DEF ShellInv, OutputInv
<1> QED
  BY <1>1, ShellInvariant, PTL

(* For every table, stack size and size of the test region: between two    *)
(* commands every process in the table runs and only stacks are allocated. *)
THEOREM ShellNothingLeftBehind == ShellSpec => []NothingLeftBehind
<1>1. ShellInv => NothingLeftBehind
  BY DEF ShellInv, MemoryInv, ProcessInv, NothingLeftBehind
<1> QED
  BY <1>1, ShellInvariant, PTL

(* A step that terminates a process is the one of pkill.                   *)
LEMMA OnlyPkillTerminates ==
    ASSUME ShellInv, ShellNext, NEW i \in Live,
           proc_table[i].status = "RUNNING", proc_table'[i].status = "TERMINATED"
    PROVE  /\ "pkill" \in Recognised(Line)
           /\ HasPid(Argument(Line, "pkill"))
           /\ kill_proc(Argument(Line, "pkill")) /\ command' = "pkill"
<1>1. /\ MemoryInv /\ i \in Slots /\ proc_table[i].pid # 0
      /\ proc_table'[i] # proc_table[i]
  BY DEF ShellInv, Live
<1>2. proc_table' # proc_table
  BY <1>1
<1>3. ~ NoProcessCall
  BY <1>2 DEF NoProcessCall, proc_vars
<1>4. ~ process_create
  <2> SUFFICES ASSUME process_create PROVE FALSE
    OBVIOUS
  <2>1. PICK j \in UnusedSlots : \E p : proc_table' = [proc_table EXCEPT ![j] = p]
    BY DEF process_create
  <2>2. j # i
    BY <1>1, <2>1 DEF UnusedSlots
  <2> QED
    BY <1>1, <2>1, <2>2
<1>5. ~ process_check_and_free
  <2> SUFFICES ASSUME process_check_and_free PROVE FALSE
    OBVIOUS
  <2> DEFINE dead == { j \in Slots : proc_table[j].pid # 0 /\ proc_table[j].status = "TERMINATED" }
  <2>1. proc_table' = [j \in Slots |->
            IF j \in dead THEN [proc_table[j] EXCEPT !.pid = 0] ELSE proc_table[j]]
    BY DEF process_check_and_free
  <2>2. i \notin dead
    OBVIOUS
  <2> QED
    BY <1>1, <2>1, <2>2
<1>6. pkill
  BY <1>2, <1>3, <1>4, <1>5 DEF ShellNext, shell_putc, press, testmem_free, pkill_free,
     execute_command, help, info, testmem, spawn, get, ideinfo, ideread, ideident, unknown
<1> QED
  BY <1>3, <1>6 DEF pkill, Begin, Continue

(* For every length of the buffer and whatever it still holds of earlier   *)
(* lines: pkill with an argument terminates the process that was named.    *)
THEOREM ShellKillsAsTyped == ShellSpec => KillsAsTyped
<1> DEFINE AsTyped == \A i \in Live :
                         /\ proc_table[i].status = "RUNNING"
                         /\ proc_table'[i].status = "TERMINATED"
                         /\ line # Chars["pkill"]
                         => proc_table[i].pid = TypedPid
<1>1. ShellInv /\ [ShellNext]_all_vars => [AsTyped]_all_vars
  <2> SUFFICES ASSUME ShellInv, ShellNext, NEW i \in Live,
                      proc_table[i].status = "RUNNING",
                      proc_table'[i].status = "TERMINATED",
                      line # Chars["pkill"]
               PROVE  proc_table[i].pid = TypedPid
    OBVIOUS
  <2> DEFINE pid == Argument(Line, "pkill")
  <2>1. /\ "pkill" \in Recognised(Line)
        /\ HasPid(pid) /\ kill_proc(pid) /\ command' = "pkill"
    BY OnlyPkillTerminates
  <2>2. pid = TypedPid
    BY <2>1, ArgumentTyped DEF ShellInv
  <2> HIDE DEF pid
  <2>3. PICK j \in Slots :
           /\ proc_table[j].pid = pid
           /\ proc_table' = [proc_table EXCEPT ![j].status = "TERMINATED"]
    BY <2>1 DEF kill_proc, IsFirst
  <2>4. i = j
    <3>1. i \in Slots
      BY DEF Live
    <3>2. i # j => proc_table'[i] = proc_table[i]
      BY <2>3, <3>1
    <3> QED
      BY <3>2
  <2> QED
    BY <2>2, <2>3, <2>4
<1>2. ShellSpec => [][AsTyped]_all_vars
  BY <1>1, ShellInvariant, PTL DEF ShellSpec
<1> QED
  BY <1>2 DEF KillsAsTyped
=============================================================================
