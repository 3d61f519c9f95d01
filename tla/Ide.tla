-------------------------------- MODULE Ide --------------------------------
(***************************************************************************)
(* The IDE driver, kernel/modules/ide/ide.c: PIO commands with polling,    *)
(* against drives that answer late, fail or never answer.                  *)
(*                                                                         *)
(* The 256 words of a sector, or of IDENTIFY data, are represented by      *)
(* where they come from.  ide_last_status, ide_last_error and              *)
(* ide_irq_fired are left out: nothing reads them, IRQ 14 and 15 stay      *)
(* masked, and ide_irq_handler and ide_wait_ready have no caller.          *)
(***************************************************************************)
EXTENDS Integers, Sequences

CONSTANTS
    Attached,     \* the drives that exist, of 0 .. 3
    Floating,     \* the channels without a drive whose lines read all ones
    LbaSpace,     \* 2^28: sector numbers that fit the registers
    CountSpace,   \* 256: sector counts that fit the register
    Timeout,      \* status reads of ide_poll before it gives up
    Lbas, Counts, \* arguments of the transfers
    Payloads      \* contents of the buffers written

Drives == 0 .. 3
Channel(d) == d \div 2       \* IDE_PRIMARY_BASE, IDE_SECONDARY_BASE

ASSUME AttachedAssumption == Attached \subseteq Drives
ASSUME FloatingAssumption == \A d \in Attached : Channel(d) \notin Floating
ASSUME LbaSpaceAssumption == LbaSpace \in Nat \ {0}
ASSUME CountSpaceAssumption == CountSpace \in Nat \ {0}
ASSUME TimeoutAssumption == Timeout \in Nat \ {0}
ASSUME ArgumentsAssumption == Lbas \subseteq Nat /\ Counts \subseteq Nat

VARIABLES
    pc,        \* "init", "idle", or where in a call: "poll", "transfer", "flush", "settle"
    op,        \* the call: kind and arguments, sectors done, and whether the
               \* drive was idle when it got the command (ghost)
    polls,     \* count of ide_poll
    result,    \* what the last transfer returned
    buffer,    \* the caller's buffer after a read, by origin of the data
    present,   \* ide_primary_master and the other three flags
    sectors,   \* ide_primary_master_sectors and the others, by origin
    drive,     \* the drives
    disk,      \* what is on them, by origin
    gaveup     \* drives a poll has given up on (ghost)

ide_vars == <<pc, op, polls, result, buffer, present, sectors, drive, disk, gaveup>>

Garbage == <<"garbage">>
Sector(d, l) == <<"sector", d, l>>
IdentifyData(d) == <<"identify", d>>
Written(x, i) == <<"written", x, i>>
-----------------------------------------------------------------------------
(* The drives (external).  One is idle, busy with a command, or offers or  *)
(* wants a sector (data request).                                          *)

NoCommand == [kind |-> "none", lba |-> 0, left |-> 0]
Identify == [kind |-> "identify", lba |-> 0, left |-> 1]
Flush == [kind |-> "flush", lba |-> 0, left |-> 0]

Idle == [state |-> "idle", err |-> FALSE, cmd |-> NoCommand, got |-> Garbage]
Failed == [state |-> "idle", err |-> TRUE, cmd |-> NoCommand, got |-> Garbage]
Busy(c, word) == [state |-> "busy", err |-> FALSE, cmd |-> c, got |-> word]
Ready(c) == [state |-> "drq", err |-> FALSE, cmd |-> c, got |-> Garbage]

Status(d) ==
    IF d \in Attached
    THEN [bsy |-> drive[d].state = "busy", drq |-> drive[d].state = "drq", err |-> drive[d].err]
    ELSE [bsy |-> Channel(d) \in Floating, drq |-> Channel(d) \in Floating,
          err |-> Channel(d) \in Floating]

(* The status byte right after a command is 0 where there is no drive on a *)
(* channel that does not float.                                            *)
Answers(d) == d \in Attached \/ Channel(d) \in Floating

(* A command is ignored by a busy drive; ATA leaves open what it does to a *)
(* drive with a pending data request.                                      *)
Command(d, c) ==
    \/ /\ d \in Attached /\ drive[d].state # "busy"
       /\ drive' = [drive EXCEPT ![d] = Busy(c, Garbage)]
    \/ /\ d \in Attached => drive[d].state # "idle"
       /\ UNCHANGED drive

(* The next sector of a write goes to the medium.                          *)
Commits(d) == drive[d].cmd.kind = "write" /\ drive[d].got # Garbage

drive_answer(d) ==
    LET c    == drive[d].cmd
        more == c.kind = "identify" \/ (c.kind \in {"read", "write"} /\ c.left > 0)
    IN  /\ drive[d].state = "busy"
        /\ Commits(d) => c.lba - 1 < LbaSpace
        /\ ~ Commits(d) => c.lba < LbaSpace
        /\ disk' = IF Commits(d) THEN [disk EXCEPT ![d][c.lba - 1] = drive[d].got] ELSE disk
        /\ drive' = [drive EXCEPT ![d] = IF more THEN Ready(c) ELSE Idle]
        /\ UNCHANGED <<pc, op, polls, result, buffer, present, sectors, gaveup>>

drive_fail(d) ==
    /\ drive[d].state = "busy"
    /\ drive' = [drive EXCEPT ![d] = Failed]
    /\ UNCHANGED <<pc, op, polls, result, buffer, present, sectors, disk, gaveup>>

(* What 256 reads of the data register give, and the drive afterwards.     *)
DataFrom(d) ==
    LET c == drive[d].cmd
    IN  IF d \notin Attached \/ drive[d].state # "drq" \/ c.kind = "write" THEN Garbage
        ELSE IF c.kind = "identify" THEN IdentifyData(d)
        ELSE disk[d][c.lba]

AfterSector(d, word) ==
    LET c == drive[d].cmd
    IN  IF c.kind = "identify" \/ (c.kind = "read" /\ c.left = 1) THEN Idle
        ELSE Busy([kind |-> c.kind, lba |-> c.lba + 1, left |-> c.left - 1], word)

MoveData(d, word) ==
    drive' = IF d \in Attached /\ drive[d].state = "drq"
             THEN [drive EXCEPT ![d] = AfterSector(d, word)] ELSE drive
-----------------------------------------------------------------------------
(* ide_poll with advanced_check, the only form that is called.             *)

(* Mutant: giving up counts as success.                                    *)
PollResult_zeroOnTimeout(r) ==
    \/ polls = Timeout /\ r = 0
    \/ polls # Timeout /\ ~ Status(op.drive).bsy /\ Status(op.drive).err /\ r = -1
    \/ /\ polls # Timeout /\ ~ Status(op.drive).bsy /\ ~ Status(op.drive).err
       /\ Status(op.drive).drq /\ r = 0

GivesUp == polls = Timeout

(* ide_poll returns r in this state.                                       *)
PollResult(r) ==
    LET s == Status(op.drive)
    IN  \/ GivesUp /\ r = -1
        \/ ~ GivesUp /\ ~ s.bsy /\ s.err /\ r = -1
        \/ ~ GivesUp /\ ~ s.bsy /\ ~ s.err /\ s.drq /\ r = 0

Polling == pc \in {"poll", "settle"}

(* Mutant: a busy status is not counted.                                   *)
PollCount_notBusy == IF Status(op.drive).bsy THEN polls ELSE polls + 1

PollCount == polls + 1

poll_again ==
    /\ Polling /\ ~ GivesUp
    /\ Status(op.drive).bsy \/ ~ (Status(op.drive).err \/ Status(op.drive).drq)
    /\ polls' = PollCount
    /\ UNCHANGED <<pc, op, result, buffer, present, sectors, drive, disk, gaveup>>

NoteGivingUp == gaveup' = IF GivesUp THEN gaveup \cup {op.drive} ELSE gaveup

(* The poll before a sector; ide_init and ide_identify ignore its result.  *)
poll_done ==
    \E r \in {0, -1} :
        /\ pc = "poll" /\ PollResult(r)
        /\ IF r = 0 \/ op.kind \in {"init", "identify"}
           THEN pc' = "transfer" /\ UNCHANGED result
           ELSE pc' = "idle" /\ result' = -1
        /\ NoteGivingUp
        /\ polls' = 0
        /\ UNCHANGED <<op, buffer, present, sectors, drive, disk>>
-----------------------------------------------------------------------------
(* Detection and IDENTIFY                                                  *)

Call(kind, d, l, n, x) ==
    [kind |-> kind, drive |-> d, lba |-> l, count |-> n, data |-> x, i |-> 0,
     clean |-> d \notin Attached \/ drive[d].state = "idle"]

(* ide_init continues with the next drive, or returns.                     *)
NextDrive(d) == pc' = IF d + 1 \in Drives THEN "init" ELSE "idle"

Detected(d) == Answers(d)

(* ide_init, for the drive after the one in op: select, IDENTIFY, status.  *)
init_drive ==
    LET d == op.drive + 1
    IN  /\ pc = "init"
        /\ op' = Call("init", d, 0, 1, Garbage)
        /\ Command(d, Identify)
        /\ polls' = 0
        /\ IF Detected(d) THEN pc' = "poll" ELSE NextDrive(d)
        /\ UNCHANGED <<result, buffer, present, sectors, disk, gaveup>>

init_words ==
    LET d == op.drive
    IN  /\ pc = "transfer" /\ op.kind = "init"
        /\ present' = [present EXCEPT ![d] = TRUE]
        /\ sectors' = [sectors EXCEPT ![d] = DataFrom(d)]
        /\ MoveData(d, Garbage)
        /\ NextDrive(d)
        /\ UNCHANGED <<op, polls, result, buffer, disk, gaveup>>

ide_identify(d) ==
    /\ pc = "idle"
    /\ op' = Call("identify", d, 0, 1, Garbage)
    /\ Command(d, Identify)
    /\ polls' = 0
    /\ buffer' = << >>
    /\ pc' = IF Answers(d) THEN "poll" ELSE "idle"
    /\ UNCHANGED <<result, present, sectors, disk, gaveup>>

identify_words ==
    /\ pc = "transfer" /\ op.kind = "identify"
    /\ buffer' = <<DataFrom(op.drive)>>
    /\ MoveData(op.drive, Garbage)
    /\ pc' = "idle"
    /\ UNCHANGED <<op, polls, result, present, sectors, disk, gaveup>>
-----------------------------------------------------------------------------
(* ide_read_write_sectors                                                  *)

(* The registers keep the low bits; a drive reads the count 0 as the       *)
(* largest one.                                                            *)
RegisterLba(l) == l % LbaSpace
RegisterCount(n) == n % CountSpace
SectorsMeant(n) == IF RegisterCount(n) = 0 THEN CountSpace ELSE RegisterCount(n)

ide_read_write_sectors(kind, d, l, n, x) ==
    /\ pc = "idle"
    /\ op' = Call(kind, d, l, n, x)
    /\ buffer' = << >>
    /\ polls' = 0
    /\ \/ /\ n = 0 \/ ~ present[d]
          /\ result' = IF n = 0 THEN 0 ELSE -1
          /\ UNCHANGED <<pc, drive>>
       \/ /\ n # 0 /\ present[d]
          /\ Command(d, [kind |-> kind, lba |-> RegisterLba(l), left |-> SectorsMeant(n)])
          /\ pc' = "poll"
          /\ UNCHANGED result
    /\ UNCHANGED <<present, sectors, disk, gaveup>>

(* Mutant: the loop ends one sector early.                                 *)
LastSector_early == op.i + 2 >= op.count

LastSector == op.i + 1 = op.count

(* One turn of the loop after its poll: 256 words and 400 ns.              *)
transfer_sector ==
    LET d == op.drive
    IN  /\ pc = "transfer" /\ op.kind \in {"read", "write"}
        /\ \/ /\ op.kind = "read"
              /\ buffer' = Append(buffer, DataFrom(d))
              /\ MoveData(d, Garbage)
           \/ /\ op.kind = "write"
              /\ MoveData(d, Written(op.data, op.i))
              /\ UNCHANGED buffer
        /\ op' = [op EXCEPT !.i = @ + 1]
        /\ polls' = 0
        /\ pc' = IF ~ LastSector THEN "poll" ELSE IF op.kind = "read" THEN "idle" ELSE "flush"
        /\ result' = IF LastSector /\ op.kind = "read" THEN 0 ELSE result
        /\ UNCHANGED <<present, sectors, disk, gaveup>>

(* FLUSH CACHE, without waiting for the last sector ...                    *)
flush_cache ==
    /\ pc = "flush"
    /\ Command(op.drive, Flush)
    /\ pc' = "settle"
    /\ UNCHANGED <<op, polls, result, buffer, present, sectors, disk, gaveup>>

(* ... and a poll whose result is not looked at.                           *)
flush_done ==
    /\ pc = "settle"
    /\ \E r \in {0, -1} : PollResult(r)
    /\ pc' = "idle"
    /\ result' = 0
    /\ NoteGivingUp
    /\ polls' = 0
    /\ UNCHANGED <<op, buffer, present, sectors, drive, disk>>
-----------------------------------------------------------------------------
IdeInit ==
    /\ pc = "init"
    /\ drive = [d \in Attached |-> Idle]
    /\ disk = [d \in Attached |-> [l \in 0 .. LbaSpace - 1 |-> Sector(d, l)]]
    /\ op = [kind |-> "init", drive |-> -1, lba |-> 0, count |-> 1, data |-> Garbage,
              i |-> 0, clean |-> TRUE]
    /\ polls = 0 /\ result = 0 /\ buffer = << >>
    /\ present = [d \in Drives |-> FALSE]
    /\ sectors = [d \in Drives |-> Garbage]
    /\ gaveup = {}

Driver ==
    \/ init_drive \/ init_words \/ identify_words
    \/ poll_again \/ poll_done
    \/ transfer_sector \/ flush_cache \/ flush_done

Caller ==
    \E d \in Drives :
        \/ ide_identify(d)
        \/ \E l \in Lbas, n \in Counts :
              \/ ide_read_write_sectors("read", d, l, n, Garbage)
              \/ \E x \in Payloads : ide_read_write_sectors("write", d, l, n, x)

IdeNext == Driver \/ Caller \/ (\E d \in Attached : drive_answer(d) \/ drive_fail(d))

IdeSpec == IdeInit /\ [][IdeNext]_ide_vars

(* The driver runs on the main thread, and interrupt handlers return.      *)
(* Drives need not answer.                                                 *)
FairIdeSpec == IdeSpec /\ WF_ide_vars(Driver)
-----------------------------------------------------------------------------
(* Properties                                                              *)

(* The transfer in op has returned 0.                                      *)
Succeeded(kind) == pc = "idle" /\ op.kind = kind /\ result = 0 /\ op.count > 0

(* A read that returns 0 put the sectors asked for into the buffer, in     *)
(* order and from the right drive, however late the drive answers and      *)
(* whatever happened before, if the drive was idle when it got the command *)
(* and the sector number fits its 28 bits.  This includes counts that do   *)
(* not fit the 8-bit register.                                             *)
ReadExact ==
    Succeeded("read") /\ op.clean /\ op.lba < LbaSpace =>
        /\ op.drive \in Attached
        /\ buffer = [i \in 1 .. op.count |-> disk[op.drive][op.lba + i - 1]]

(* A write that returns 0, to a drive that was idle, has put every sector  *)
(* but the last on the medium: the flush at the end does not wait for the  *)
(* last one and nobody looks at its outcome.                               *)
WriteAllButLast ==
    Succeeded("write") /\ op.clean /\ op.lba < LbaSpace =>
        /\ op.drive \in Attached
        /\ \A i \in 0 .. op.count - 2 : disk[op.drive][op.lba + i] = Written(op.data, i)

(* A drive gets the command of a call while it is still at an earlier one  *)
(* only after a poll gave up on it: errors and completed transfers leave   *)
(* it idle.                                                                *)
CleanUnlessGaveUp == ~ op.clean => op.drive \in gaveup

(* Every call returns, whatever the drive does: no poll waits for ever.    *)
CallsReturn == pc # "idle" ~> pc = "idle"
=============================================================================
