------------------------------ MODULE Ide_proofs ------------------------------
(***************************************************************************)
(* Proofs about Ide: what the driver can rely on after a call, for every   *)
(* number of sectors, every time-out and every behaviour of the drives.    *)
(***************************************************************************)
EXTENDS Ide, TLAPS

Kinds == {"none", "init", "identify", "read", "write", "flush"}
Words == {Garbage} \cup { Written(x, i) : x \in Payloads, i \in Nat }
Origins == Words \cup { Sector(d, l) : d \in Attached, l \in Nat }

Commands == [kind : Kinds, lba : Int, left : Int]
DriveStates == [state : {"idle", "busy", "drq"}, err : BOOLEAN, cmd : Commands, got : Words]
Calls == [kind : {"init", "identify", "read", "write"}, drive : -1 .. 3, lba : Nat, count : Nat,
          data : Payloads \cup {Garbage}, i : Nat, clean : BOOLEAN]

IdeTypeOK ==
    /\ pc \in {"init", "idle", "poll", "transfer", "flush", "settle"}
    /\ op \in Calls
    /\ pc = "init" => op.drive + 1 \in Drives
    /\ pc \in {"poll", "transfer", "flush", "settle"} => op.drive \in Drives
    /\ op.kind = "write" => op.data \in Payloads
    /\ gaveup \subseteq Drives
    /\ drive \in [Attached -> DriveStates]
    /\ disk \in [Attached -> [0 .. LbaSpace - 1 -> Origins]]

(* Where a call is on its way.                                             *)
InCall == pc \in {"poll", "transfer", "flush", "settle"}

(* A drive with an error is idle; one that is not idle is at the command   *)
(* of the call, or a poll has given up on it.                              *)
DrivesAtRest ==
    \A d \in Attached :
        /\ drive[d].err => drive[d].state = "idle"
        /\ drive[d].state # "idle" => d \in gaveup \/ (InCall /\ d = op.drive)

(* Where the call is, for the transfers.                                   *)
Progress ==
    /\ op.kind \in {"read", "write"} /\ InCall => op.count > 0 /\ op.i <= op.count
    /\ op.kind \in {"read", "write"} /\ pc \in {"poll", "transfer"} => op.i < op.count
    /\ pc \in {"flush", "settle"} =>
          op.kind = "write" /\ op.i = op.count /\ op.drive \in Attached
    /\ pc = "transfer" /\ op.kind \in {"read", "write"} =>
          op.drive \in Attached /\ drive[op.drive].state = "drq"
    /\ pc = "transfer" /\ op.drive \in Attached => 
          drive[op.drive].state # "busy" \/ op.drive \in gaveup
    /\ \A kind \in {"read", "write"} :
          Succeeded(kind) => op.i = op.count /\ op.drive \in Attached

(* The call's own drive was idle when it got the command.                  *)
Mine == op.clean /\ op.drive \in Attached

AtTransfer(kind, c) ==
    /\ c.kind = kind
    /\ c.lba = RegisterLba(op.lba) + op.i
    /\ c.left = SectorsMeant(op.count) - op.i

(* The drive is where the call is: what it wants or offers is the sector   *)
(* the call is at, and what it has got and not yet written is the sector   *)
(* before.                                                                 *)
Tracking ==
    LET D == drive[op.drive]
    IN  Mine /\ D.state # "idle" =>
          \/ op.kind \in {"init", "identify"} /\ D.cmd.kind = "identify"
          \/ op.kind = "read" /\ AtTransfer("read", D.cmd) /\ D.cmd.left > 0
          \/ /\ op.kind = "write" /\ AtTransfer("write", D.cmd)
             /\ D.state = "drq" => D.cmd.left > 0 /\ D.got = Garbage
             /\ D.state = "busy" =>
                   D.got = IF op.i = 0 THEN Garbage ELSE Written(op.data, op.i - 1)
          \/ /\ op.kind = "write" /\ D.cmd.kind = "flush" /\ D.state = "busy"
             /\ pc \in {"settle", "idle"}

ReadSoFar ==
    Mine /\ op.kind = "read" /\ op.lba < LbaSpace =>
        buffer = [k \in 1 .. op.i |-> disk[op.drive][op.lba + k - 1]]

WrittenSoFar ==
    Mine /\ op.kind = "write" /\ op.lba < LbaSpace =>
        \A k \in 0 .. op.i - 1 :
            k < op.i - 1 \/ drive[op.drive].state = "drq" =>
                disk[op.drive][op.lba + k] = Written(op.data, k)

IdeInv ==
    /\ IdeTypeOK /\ DrivesAtRest /\ Progress /\ Tracking /\ ReadSoFar /\ WrittenSoFar
    /\ CleanUnlessGaveUp

-----------------------------------------------------------------------------
(* The operators of the model                                              *)

(* The drive reads a count as no more than was meant.                      *)
LEMMA MeantAtMost ==
    ASSUME NEW n \in Nat \ {0}
    PROVE  SectorsMeant(n) \in 1 .. n
<1> DEFINE q == n \div CountSpace
           r == n % CountSpace
<1>1. q \in Nat /\ r \in 0 .. CountSpace - 1 /\ n = CountSpace * q + r
  BY CountSpaceAssumption
<1>2. CASE r # 0
  <2>1. CountSpace * q \in Nat
    BY <1>1, CountSpaceAssumption
  <2> HIDE DEF q, r
  <2>2. r \in 1 .. n
    BY <1>1, <1>2, <2>1
  <2> QED
    BY <1>2, <2>2 DEF SectorsMeant, RegisterCount, r
<1>3. CASE r = 0
  <2> HIDE DEF q, r
  <2>1. q # 0
    BY <1>1, <1>3, CountSpaceAssumption
  <2> DEFINE p == q - 1
  <2>2. p \in Nat /\ q = p + 1
    BY <1>1, <2>1
  <2> HIDE DEF p
  <2>3. CountSpace * (p + 1) = CountSpace * p + CountSpace /\ CountSpace * p \in Nat
    BY <2>2, CountSpaceAssumption
  <2>4. CountSpace \in 1 .. n
    BY <1>1, <1>3, <2>2, <2>3, CountSpaceAssumption
  <2> QED
    BY <1>3, <2>4 DEF SectorsMeant, RegisterCount, r
<1> QED
  BY <1>2, <1>3

(* A sector number that fits the registers is not changed by them.         *)
LEMMA RegisterFits ==
    ASSUME NEW l \in Nat
    PROVE  RegisterLba(l) \in Nat /\ (l < LbaSpace => RegisterLba(l) = l)
<1>1. RegisterLba(l) \in Nat
  BY LbaSpaceAssumption DEF RegisterLba
<1>2. ASSUME l < LbaSpace PROVE l % LbaSpace = l
  <2>1. LbaSpace * 0 = 0 /\ LbaSpace \in Nat \ {0}
    BY LbaSpaceAssumption
  <2>2. 0 \in Nat /\ l = LbaSpace * 0 + l /\ l \in 0 .. LbaSpace - 1
    BY <1>2, <2>1
  <2> QED
    BY <2>1, <2>2
<1> QED
  BY <1>1, <1>2 DEF RegisterLba

(* A drive takes a command, ignores it, or is not there.                   *)
LEMMA CommandEffect ==
    ASSUME NEW d \in Drives, NEW c \in Commands, drive \in [Attached -> DriveStates], Command(d, c)
    PROVE  /\ drive' \in [Attached -> DriveStates]
           /\ \A e \in Attached : e # d => drive'[e] = drive[e]
           /\ d \in Attached => \/ drive'[d] = Busy(c, Garbage) /\ drive[d].state # "busy"
                                \/ drive'[d] = drive[d] /\ drive[d].state # "idle"
<1>1. Busy(c, Garbage) \in DriveStates
  BY DEF Busy, DriveStates, Words
<1>3. CASE d \in Attached /\ drive[d].state # "busy" /\ drive' = [drive EXCEPT ![d] = Busy(c, Garbage)]
  BY <1>1, <1>3
<1>4. CASE (d \in Attached => drive[d].state # "idle") /\ UNCHANGED drive
  BY <1>4
<1> QED
  BY <1>3, <1>4 DEF Command

(* A drive that offers or wants a sector moves on.                         *)
LEMMA MoveEffect ==
    ASSUME NEW d \in Drives, NEW word \in Words, drive \in [Attached -> DriveStates],
           MoveData(d, word)
    PROVE  /\ drive' \in [Attached -> DriveStates]
           /\ \A e \in Attached : e # d => drive'[e] = drive[e]
           /\ d \in Attached =>
                 drive'[d] = IF drive[d].state = "drq" THEN AfterSector(d, word) ELSE drive[d]
<1>1. ASSUME d \in Attached
      PROVE  AfterSector(d, word) \in DriveStates
  <2> DEFINE c == drive[d].cmd
             next == [kind |-> c.kind, lba |-> c.lba + 1, left |-> c.left - 1]
  <2>1. c \in Commands
    BY <1>1 DEF DriveStates
  <2>2. next \in Commands
    BY <2>1 DEF Commands
  <2>3. Idle \in DriveStates
    BY DEF Idle, NoCommand, DriveStates, Commands, Kinds, Words
  <2>4. Busy(next, word) \in DriveStates
    BY <2>2 DEF Busy, DriveStates
  <2> QED
    BY <2>3, <2>4 DEF AfterSector
<1>2. CASE d \in Attached /\ drive[d].state = "drq"
  BY <1>1, <1>2 DEF MoveData
<1>3. CASE ~ (d \in Attached /\ drive[d].state = "drq")
  BY <1>3 DEF MoveData
<1> QED
  BY <1>2, <1>3

(* What ide_poll returns says what it saw last.                            *)
LEMMA PollOutcome ==
    ASSUME NEW r, PollResult(r), op.drive \in Attached, ~ GivesUp
    PROVE  \/ r = 0 /\ drive[op.drive].state = "drq"
           \/ r = -1 /\ drive[op.drive].err /\ drive[op.drive].state # "busy"
BY DEF PollResult, Status

(* No poll of a channel without a drive ends well.                         *)
LEMMA PollNoDrive ==
    ASSUME NEW r, PollResult(r), op.drive \notin Attached
    PROVE  r = -1
BY DEF PollResult, Status

-----------------------------------------------------------------------------
(* The invariant                                                           *)

(* Nothing has been asked of any drive yet.                                *)
LEMMA IdeInitInv == IdeInit => IdeInv
<1> SUFFICES ASSUME IdeInit PROVE IdeInv
  OBVIOUS
<1>1. Idle \in DriveStates
  BY DEF Idle, NoCommand, DriveStates, Commands, Kinds, Words
<1>2. op \in Calls /\ op.kind = "init" /\ op.drive = -1 /\ op.clean /\ op.drive \notin Drives
  BY DEF IdeInit, Calls, Drives
<1>3. disk \in [Attached -> [0 .. LbaSpace - 1 -> Origins]]
  <2>1. \A d \in Attached, l \in 0 .. LbaSpace - 1 : Sector(d, l) \in Origins
    BY LbaSpaceAssumption DEF Origins
  <2> QED
    BY <2>1 DEF IdeInit
<1>4. \A d \in Attached : drive[d] = Idle
  BY DEF IdeInit
<1>5. IdeTypeOK
  <2>1. op.drive + 1 \in Drives
    BY <1>2 DEF Drives
  <2> QED
    BY <1>1, <1>2, <1>3, <2>1 DEF IdeInit, IdeTypeOK
<1>6. op.drive \notin Attached
  BY <1>2, AttachedAssumption
<1>7. DrivesAtRest
  <2>1. Idle.state = "idle"
    BY DEF Idle
  <2> QED
    BY <1>4, <2>1 DEF DrivesAtRest
<1>8. Progress /\ Tracking /\ ReadSoFar /\ WrittenSoFar /\ CleanUnlessGaveUp
  BY <1>2, <1>6 DEF IdeInit, Progress, Tracking, Mine, ReadSoFar, WrittenSoFar,
                    CleanUnlessGaveUp, InCall, Succeeded
<1> QED
  BY <1>5, <1>7, <1>8 DEF IdeInv

(* The command a call gives to its drive.                                  *)
CommandOf(kind, l, n) ==
    IF kind \in {"init", "identify"} THEN Identify
    ELSE [kind |-> kind, lba |-> RegisterLba(l), left |-> SectorsMeant(n)]

(* A call begins: no other drive changes, and its own takes the command    *)
(* unless a poll has given up on it.                                       *)
LEMMA CallBegins ==
    ASSUME IdeInv, pc \in {"init", "idle"}, pc' \in {"init", "idle", "poll"},
           NEW kind \in {"init", "identify", "read", "write"}, NEW d \in Drives,
           NEW l \in Nat, NEW n \in Nat, NEW x \in Payloads \cup {Garbage},
           kind = "write" => x \in Payloads, kind = "read" => buffer' = << >>,
           pc' = "init" => d + 1 \in Drives,
           kind \in {"read", "write"} =>
               /\ pc' = "poll" => n # 0
               /\ pc' = "idle" => n = 0 \/ result' = -1,
           op' = Call(kind, d, l, n, x),
           \/ UNCHANGED drive /\ pc' # "poll"
           \/ n # 0 /\ Command(d, CommandOf(kind, l, n)) /\ (d \in Attached => pc' = "poll"),
           UNCHANGED <<disk, gaveup>>
    PROVE  IdeInv'
<1>1. /\ drive \in [Attached -> DriveStates] /\ gaveup \subseteq Drives
      /\ disk \in [Attached -> [0 .. LbaSpace - 1 -> Origins]]
      /\ \A e \in Attached : drive[e].err => drive[e].state = "idle"
      /\ \A e \in Attached : drive[e].state # "idle" => e \in gaveup
  BY DEF IdeInv, IdeTypeOK, DrivesAtRest, InCall
<1>2. /\ op'.kind = kind /\ op'.drive = d /\ op'.lba = l /\ op'.count = n /\ op'.data = x
      /\ op'.i = 0 /\ op'.clean = (d \notin Attached \/ drive[d].state = "idle")
  BY DEF Call
<1>3. op' \in Calls
  <2>1. (d \notin Attached \/ drive[d].state = "idle") \in BOOLEAN /\ d \in -1 .. 3
    BY DEF Drives
  <2> QED
    BY <2>1 DEF Call, Calls
<1> DEFINE c == CommandOf(kind, l, n)
<1>4. n # 0 => /\ c \in Commands
               /\ kind \notin {"init", "identify"} => c.kind = kind /\ c.lba = RegisterLba(l)
                                                      /\ c.left = SectorsMeant(n) /\ c.left > 0
               /\ kind \in {"init", "identify"} => c.kind = "identify"
  <2>1. CASE kind \in {"init", "identify"}
    BY <2>1 DEF CommandOf, Identify, Commands, Kinds
  <2>2. CASE kind \in {"read", "write"}
    <3> SUFFICES ASSUME n # 0
                 PROVE  /\ c \in Commands /\ c.kind = kind /\ c.lba = RegisterLba(l)
                        /\ c.left = SectorsMeant(n) /\ c.left > 0
      BY <2>2
    <3>1. c = [kind |-> kind, lba |-> RegisterLba(l), left |-> SectorsMeant(n)]
      BY <2>2 DEF CommandOf
    <3>2. SectorsMeant(n) \in 1 .. n /\ RegisterLba(l) \in Nat
      BY MeantAtMost, RegisterFits
    <3> HIDE DEF c
    <3> QED
      BY <2>2, <3>1, <3>2 DEF Commands, Kinds
  <2> QED
    BY <2>1, <2>2
<1>5. /\ drive' \in [Attached -> DriveStates]
      /\ \A e \in Attached : e # d => drive'[e] = drive[e]
      /\ d \in Attached =>
            \/ n # 0 /\ pc' = "poll" /\ drive'[d] = Busy(c, Garbage) /\ drive[d].state # "busy"
            \/ drive'[d] = drive[d] /\ (drive[d].state # "idle" \/ pc' # "poll")
  <2>1. CASE UNCHANGED drive /\ pc' # "poll"
    BY <1>1, <2>1
  <2>2. CASE n # 0 /\ Command(d, c) /\ (d \in Attached => pc' = "poll")
    BY <1>1, <1>4, <2>2, CommandEffect
  <2> QED
    BY <2>1, <2>2
<1>6. /\ Busy(c, Garbage).state = "busy" /\ Busy(c, Garbage).cmd = c
      /\ Busy(c, Garbage).got = Garbage /\ Busy(c, Garbage).err = FALSE
  BY DEF Busy
<1> HIDE DEF c
<1>7. IdeTypeOK'
  BY <1>1, <1>2, <1>3, <1>5 DEF IdeTypeOK
<1>8. DrivesAtRest'
  BY <1>1, <1>2, <1>5, <1>6 DEF DrivesAtRest, InCall
<1>9. CleanUnlessGaveUp'
  BY <1>1, <1>2 DEF CleanUnlessGaveUp
<1>10. Mine' => \/ drive'[d] = Busy(c, Garbage) /\ n # 0
                \/ drive'[d].state = "idle"
  BY <1>2, <1>5 DEF Mine
<1>11. RegisterLba(l) \in Nat /\ SectorsMeant(n) \in Int
  <2>1. n % CountSpace \in Int /\ CountSpace \in Int
    BY CountSpaceAssumption
  <2> QED
    BY <2>1, RegisterFits DEF SectorsMeant, RegisterCount
<1>12. Tracking'
  <2> SUFFICES ASSUME Mine', drive'[d].state # "idle"
               PROVE  \/ kind \in {"init", "identify"} /\ c.kind = "identify"
                      \/ /\ kind \in {"read", "write"} /\ c.kind = kind
                         /\ c.lba = RegisterLba(l) + 0 /\ c.left = SectorsMeant(n) - 0
                         /\ c.left > 0 /\ drive'[d].state = "busy" /\ drive'[d].got = Garbage
    BY <1>2, <1>6, <1>10 DEF Tracking, AtTransfer
  <2> QED
    BY <1>4, <1>6, <1>10, <1>11
<1>13. ReadSoFar'
  <2>1. kind = "read" => buffer' = [k \in 1 .. 0 |-> disk'[op'.drive][op'.lba + k - 1]]
    OBVIOUS
  <2> QED
    BY <1>2, <2>1 DEF ReadSoFar
<1>14. WrittenSoFar'
  BY <1>2 DEF WrittenSoFar
<1>15. Progress'
  BY <1>2 DEF Progress, InCall, Succeeded
<1> QED
  BY <1>7, <1>8, <1>9, <1>12, <1>13, <1>14, <1>15 DEF IdeInv

(* ide_init selects the next drive and sends IDENTIFY.                     *)
LEMMA InitDriveInv == IdeInv /\ init_drive => IdeInv'
<1> SUFFICES ASSUME IdeInv, init_drive PROVE IdeInv'
  OBVIOUS
<1> DEFINE d == op.drive + 1
<1>1. pc = "init" /\ d \in Drives
  BY DEF init_drive, IdeInv, IdeTypeOK
<1>2. /\ op' = Call("init", d, 0, 1, Garbage) /\ Command(d, Identify)
      /\ UNCHANGED <<result, buffer, disk, gaveup>>
      /\ IF Detected(d) THEN pc' = "poll" ELSE NextDrive(d)
  BY DEF init_drive
<1> HIDE DEF d
<1>3. d \in Attached => pc' = "poll"
  BY <1>2 DEF Detected, Answers
<1>4. pc' \in {"init", "idle", "poll"} /\ (pc' = "init" => d + 1 \in Drives)
  BY <1>2 DEF NextDrive
<1>5. CommandOf("init", 0, 1) = Identify
  BY DEF CommandOf
<1> QED
  BY <1>1, <1>2, <1>3, <1>4, <1>5, CallBegins

(* ide_identify sends IDENTIFY.                                            *)
LEMMA IdentifyInv ==
    ASSUME IdeInv, NEW d \in Drives, ide_identify(d)
    PROVE  IdeInv'
<1>1. d \in Attached => pc' = "poll"
  BY DEF ide_identify, Answers
<1>2. CommandOf("identify", 0, 1) = Identify
  BY DEF CommandOf
<1>3. /\ pc = "idle" /\ pc' \in {"idle", "poll"} /\ op' = Call("identify", d, 0, 1, Garbage)
      /\ Command(d, Identify) /\ UNCHANGED <<disk, gaveup>>
  BY DEF ide_identify
<1>4. \/ UNCHANGED drive /\ pc' # "poll"
      \/ /\ 1 # 0 /\ Command(d, CommandOf("identify", 0, 1))
         /\ d \in Attached => pc' = "poll"
  BY <1>1, <1>2, <1>3
<1> QED
  BY <1>3, <1>4, CallBegins

(* ide_read_write_sectors checks its arguments and sends the command.      *)
LEMMA TransferBeginsInv ==
    ASSUME IdeInv, NEW kind \in {"read", "write"}, NEW d \in Drives, NEW l \in Lbas,
           NEW n \in Counts, NEW x \in Payloads \cup {Garbage}, kind = "write" => x \in Payloads,
           ide_read_write_sectors(kind, d, l, n, x)
    PROVE  IdeInv'
<1>1. l \in Nat /\ n \in Nat
  BY ArgumentsAssumption
<1>2. /\ pc = "idle" /\ op' = Call(kind, d, l, n, x) /\ buffer' = << >>
      /\ UNCHANGED <<disk, gaveup>>
  BY DEF ide_read_write_sectors
<1>3. CommandOf(kind, l, n)
        = [kind |-> kind, lba |-> RegisterLba(l), left |-> SectorsMeant(n)]
  BY DEF CommandOf
<1>4. \/ UNCHANGED drive /\ pc' = "idle" /\ (n = 0 \/ result' = -1)
      \/ n # 0 /\ Command(d, CommandOf(kind, l, n)) /\ pc' = "poll"
  BY <1>2, <1>3 DEF ide_read_write_sectors
<1> QED
  BY <1>1, <1>2, <1>4, CallBegins

(* ide_init and ide_identify read the words of IDENTIFY, ready or not.     *)
LEMMA WordsInv ==
    ASSUME IdeInv, pc = "transfer", op.kind \in {"init", "identify"}, MoveData(op.drive, Garbage),
           pc' \in {"init", "idle"}, pc' = "init" => op.drive + 1 \in Drives,
           UNCHANGED <<op, disk, gaveup>>
    PROVE  IdeInv'
<1> DEFINE d == op.drive
<1>1. /\ IdeTypeOK /\ d \in Drives /\ drive \in [Attached -> DriveStates]
  BY DEF IdeInv, IdeTypeOK
<1>2. /\ drive' \in [Attached -> DriveStates]
      /\ \A e \in Attached : e # d => drive'[e] = drive[e]
      /\ d \in Attached =>
            drive'[d] = IF drive[d].state = "drq" THEN AfterSector(d, Garbage) ELSE drive[d]
  <2>1. Garbage \in Words
    BY DEF Words
  <2> QED
    BY <1>1, <2>1, MoveEffect
<1>3. IdeTypeOK'
  BY <1>1, <1>2 DEF IdeTypeOK
<1>4. ASSUME d \in Attached, d \notin gaveup, drive[d].state = "drq"
      PROVE  drive'[d] = Idle
  <2>1. Mine
    BY <1>4 DEF Mine, IdeInv, CleanUnlessGaveUp
  <2>2. drive[d].cmd.kind = "identify"
    BY <1>4, <2>1 DEF IdeInv, Tracking
  <2> QED
    BY <1>2, <1>4, <2>2 DEF AfterSector
<1>5. Idle.state = "idle"
  BY DEF Idle
<1>6. ASSUME d \in Attached
      PROVE  /\ drive'[d].err => drive'[d].state = "idle"
             /\ drive'[d].state # "idle" => d \in gaveup
  <2>1. CASE drive[d].state = "drq"
    <3>1. AfterSector(d, Garbage).err = FALSE
      BY DEF AfterSector, Idle, Busy
    <3> QED
      BY <1>2, <1>4, <1>5, <1>6, <2>1, <3>1
  <2>2. CASE drive[d].state # "drq"
    <3>1. drive'[d] = drive[d]
      BY <1>2, <1>6, <2>2
    <3>2. drive[d].state \in {"idle", "busy", "drq"}
      BY <1>1, <1>6 DEF DriveStates
    <3>3. drive[d].state = "idle" \/ d \in gaveup
      BY <1>6, <2>2, <3>2 DEF IdeInv, Progress
    <3> QED
      BY <1>6, <3>1, <3>3 DEF IdeInv, DrivesAtRest
  <2> QED
    BY <2>1, <2>2
<1>7. DrivesAtRest'
  BY <1>2, <1>6 DEF IdeInv, DrivesAtRest
<1>8. Progress'
  BY DEF Progress, InCall, Succeeded
<1>9. Tracking'
  <2>1. ASSUME Mine, drive'[d].state # "idle"
        PROVE  drive'[d].cmd.kind = "identify"
    <3>1. drive[d].cmd.kind = "identify" \/ drive[d].state = "idle"
      BY <2>1 DEF Mine, IdeInv, Tracking
    <3>2. drive[d].state = "drq" => AfterSector(d, Garbage) = Idle
      BY <3>1 DEF AfterSector
    <3> QED
      BY <1>2, <1>5, <2>1, <3>1, <3>2 DEF Mine
  <2> QED
    BY <2>1 DEF Tracking, Mine
<1>10. ReadSoFar' /\ WrittenSoFar'
  BY DEF ReadSoFar, WrittenSoFar
<1>11. CleanUnlessGaveUp'
  BY DEF IdeInv, CleanUnlessGaveUp
<1> QED
  BY <1>3, <1>7, <1>8, <1>9, <1>10, <1>11 DEF IdeInv

(* A poll that is not over changes nothing but its count.                  *)
LEMMA SameInv ==
    ASSUME IdeInv, UNCHANGED <<pc, op, result, buffer, drive, disk, gaveup>>
    PROVE  IdeInv'
<1>1. IdeTypeOK'
  BY DEF IdeInv, IdeTypeOK
<1>2. DrivesAtRest'
  BY DEF IdeInv, DrivesAtRest, InCall
<1>3. Progress'
  BY DEF IdeInv, Progress, InCall, Succeeded
<1>4. Tracking'
  BY DEF IdeInv, Tracking, Mine, AtTransfer
<1>5. ReadSoFar' /\ WrittenSoFar' /\ CleanUnlessGaveUp'
  BY DEF IdeInv, ReadSoFar, WrittenSoFar, CleanUnlessGaveUp, Mine
<1> QED
  BY <1>1, <1>2, <1>3, <1>4, <1>5 DEF IdeInv

(* A poll before a sector ends: the drive is ready for the sector, or the  *)
(* call returns -1 with the drive idle or given up.                        *)
LEMMA PollDoneInv == IdeInv /\ poll_done => IdeInv'
<1> SUFFICES ASSUME IdeInv, NEW r \in {0, -1}, pc = "poll", PollResult(r),
                    IF r = 0 \/ op.kind \in {"init", "identify"}
                    THEN pc' = "transfer" /\ UNCHANGED result
                    ELSE pc' = "idle" /\ result' = -1,
                    NoteGivingUp, UNCHANGED <<op, buffer, drive, disk>>
             PROVE  IdeInv'
  BY DEF poll_done
<1>1. op.drive \in Drives /\ IdeTypeOK /\ gaveup' \subseteq Drives
  BY DEF IdeInv, IdeTypeOK, NoteGivingUp
<1>2. gaveup \subseteq gaveup' /\ (GivesUp => op.drive \in gaveup')
  BY DEF NoteGivingUp
<1>3. r = 0 => ~ GivesUp
  BY DEF PollResult
<1>4. ASSUME op.drive \in Attached, op.drive \notin gaveup'
      PROVE  \/ r = 0 /\ drive[op.drive].state = "drq"
             \/ r = -1 /\ drive[op.drive].state = "idle"
  <2>1. \/ r = 0 /\ drive[op.drive].state = "drq"
        \/ r = -1 /\ drive[op.drive].err
    BY <1>2, <1>4, PollOutcome
  <2> QED
    BY <1>4, <2>1 DEF IdeInv, DrivesAtRest
<1>5. r = 0 => op.drive \in Attached /\ drive[op.drive].state = "drq"
  <2>1. r = 0 => op.drive \in Attached
    BY PollNoDrive
  <2> QED
    BY <1>3, <2>1, PollOutcome
<1>6. IdeTypeOK'
  BY <1>1 DEF IdeTypeOK
<1>7. DrivesAtRest'
  <2>1. ASSUME NEW e \in Attached, drive[e].state # "idle"
        PROVE  e \in gaveup' \/ (InCall' /\ e = op.drive)
    <3>1. e \in gaveup \/ e = op.drive
      BY <2>1 DEF IdeInv, DrivesAtRest
    <3> QED
      BY <1>2, <1>4, <2>1, <3>1 DEF InCall
  <2> QED
    BY <2>1 DEF IdeInv, DrivesAtRest
<1>8. Progress'
  <2>1. op.kind \in {"read", "write"} => op.count > 0 /\ op.i <= op.count /\ op.i < op.count
    BY DEF IdeInv, Progress, InCall
  <2>2. pc' = "idle" => result' # 0
    OBVIOUS
  <2>3. pc' = "transfer" /\ op.drive \in Attached =>
           drive[op.drive].state # "busy" \/ op.drive \in gaveup'
    BY <1>4
  <2>4. pc' = "transfer" /\ op.kind \in {"read", "write"} => r = 0
    OBVIOUS
  <2> QED
    BY <1>5, <2>1, <2>2, <2>3, <2>4 DEF Progress, Succeeded
<1>9. Tracking'
  BY DEF IdeInv, Tracking, Mine, AtTransfer
<1>10. ReadSoFar' /\ WrittenSoFar' /\ CleanUnlessGaveUp'
  BY <1>2 DEF IdeInv, ReadSoFar, WrittenSoFar, CleanUnlessGaveUp, Mine
<1> QED
  BY <1>6, <1>7, <1>8, <1>9, <1>10 DEF IdeInv

(* After the last sector of a read, a drive that was idle is idle again.   *)
LEMMA LastReadIdle ==
    ASSUME IdeTypeOK, Progress, Tracking, pc = "transfer", op.kind = "read", Mine, LastSector
    PROVE  AfterSector(op.drive, Garbage) = Idle
<1> DEFINE D == drive[op.drive]
<1>1. D.state = "drq" /\ op.count > 0 /\ op.i \in Nat /\ op.count \in Nat
  BY DEF IdeTypeOK, Calls, Progress, InCall
<1>2. AtTransfer("read", D.cmd) /\ D.cmd.left > 0
  BY <1>1 DEF Tracking
<1>3. SectorsMeant(op.count) \in 1 .. op.count
  BY <1>1, MeantAtMost
<1>4. D.cmd.left = 1 /\ D.cmd.kind = "read"
  BY <1>1, <1>2, <1>3 DEF AtTransfer, LastSector
<1> QED
  BY <1>4 DEF AfterSector

(* One sector of a transfer that ends well goes where it should.           *)
LEMMA TransferSectorInv == IdeInv /\ transfer_sector => IdeInv'
<1> SUFFICES ASSUME IdeInv, transfer_sector PROVE IdeInv'
  OBVIOUS
<1> DEFINE d == op.drive
           word == IF op.kind = "read" THEN Garbage ELSE Written(op.data, op.i)
<1>1. /\ pc = "transfer" /\ op.kind \in {"read", "write"} /\ MoveData(d, word)
      /\ op' = [op EXCEPT !.i = @ + 1]
      /\ pc' = IF ~ LastSector THEN "poll" ELSE IF op.kind = "read" THEN "idle" ELSE "flush"
      /\ op.kind = "read" => buffer' = Append(buffer, DataFrom(d))
      /\ UNCHANGED <<disk, gaveup>>
  BY DEF transfer_sector
<1>2. /\ IdeTypeOK /\ Progress /\ Tracking /\ DrivesAtRest /\ CleanUnlessGaveUp
      /\ ReadSoFar /\ WrittenSoFar
  BY DEF IdeInv
<1>3. /\ op \in Calls /\ op.i \in Nat /\ op.count \in Nat /\ op.i < op.count
      /\ d \in Drives /\ d \in Attached /\ drive[d].state = "drq"
  BY <1>1, <1>2 DEF IdeTypeOK, Calls, Progress
<1>4. /\ op'.kind = op.kind /\ op'.drive = d /\ op'.lba = op.lba /\ op'.count = op.count
      /\ op'.data = op.data /\ op'.clean = op.clean /\ op'.i = op.i + 1 /\ op' \in Calls
  BY <1>1, <1>3 DEF Calls
<1>5. word \in Words
  BY <1>1, <1>2, <1>3 DEF Words, IdeTypeOK
<1>6. /\ drive' \in [Attached -> DriveStates]
      /\ \A e \in Attached : e # d => drive'[e] = drive[e]
      /\ drive'[d] = AfterSector(d, word)
  <2>1. drive \in [Attached -> DriveStates]
    BY <1>2 DEF IdeTypeOK
  <2> HIDE DEF word
  <2> QED
    BY <1>1, <1>3, <1>5, <2>1, MoveEffect
<1>7. LastSector <=> op.i + 1 = op.count
  BY DEF LastSector
<1>8. IdeTypeOK'
  BY <1>1, <1>2, <1>4, <1>6 DEF IdeTypeOK
<1>9. /\ drive[d].cmd.lba \in Int /\ drive[d].cmd.left \in Int
      /\ RegisterLba(op.lba) \in Nat /\ SectorsMeant(op.count) \in 1 .. op.count
      /\ op.lba \in Nat
  <2>1. drive[d] \in DriveStates /\ op.lba \in Nat
    BY <1>2, <1>3 DEF IdeTypeOK, Calls
  <2> QED
    BY <1>3, <2>1, MeantAtMost, RegisterFits DEF DriveStates, Commands
<1>10. CASE op.kind = "read"
  <2>1. word = Garbage
    BY <1>10
  <2>2. Mine /\ LastSector => drive'[d] = Idle
    BY <1>1, <1>2, <1>6, <1>10, <2>1, LastReadIdle
  <2>3. AfterSector(d, word).err = FALSE
    BY DEF AfterSector, Idle, Busy
  <2>4. Idle.state = "idle"
    BY DEF Idle
  <2>5. drive'[d].state # "idle" => d \in gaveup \/ InCall'
    BY <1>1, <1>2, <1>3, <1>10, <2>2, <2>4 DEF Mine, CleanUnlessGaveUp, InCall
  <2>6. DrivesAtRest'
    BY <1>1, <1>2, <1>4, <1>6, <2>3, <2>5 DEF DrivesAtRest
  <2>7. Progress'
    <3>1. \/ pc' = "poll" /\ op.i + 1 < op.count
          \/ pc' = "idle" /\ op.i + 1 = op.count
      BY <1>1, <1>3, <1>7, <1>10
    <3> QED
      BY <1>3, <1>4, <1>10, <3>1 DEF Progress, InCall, Succeeded
  <2>8. Mine => AtTransfer("read", drive[d].cmd) /\ drive[d].cmd.left > 0
    BY <1>2, <1>3, <1>10 DEF Tracking
  <2>9. Tracking'
    <3> SUFFICES ASSUME Mine, drive'[d].state # "idle"
                 PROVE  /\ drive'[d].cmd.kind = "read"
                        /\ drive'[d].cmd.lba = RegisterLba(op.lba) + (op.i + 1)
                        /\ drive'[d].cmd.left = SectorsMeant(op.count) - (op.i + 1)
                        /\ drive'[d].cmd.left > 0
      BY <1>4, <1>10 DEF Tracking, Mine, AtTransfer
    <3> DEFINE c == drive[d].cmd
               next == [kind |-> c.kind, lba |-> c.lba + 1, left |-> c.left - 1]
    <3>1. c.kind = "read" /\ c.left # 1 /\ drive'[d] = Busy(next, word)
      BY <1>6, <2>4, <2>8 DEF AfterSector, AtTransfer
    <3>2. drive'[d].cmd = next
      BY <3>1 DEF Busy
    <3>3. /\ c.lba = RegisterLba(op.lba) + op.i /\ c.left = SectorsMeant(op.count) - op.i
          /\ c.left > 0
      BY <2>8 DEF AtTransfer
    <3>4. next.kind = "read" /\ next.lba = c.lba + 1 /\ next.left = c.left - 1
      BY <3>1
    <3> HIDE DEF c, next
    <3>5. next.lba = RegisterLba(op.lba) + (op.i + 1) /\ next.left > 0
          /\ next.left = SectorsMeant(op.count) - (op.i + 1)
      BY <1>3, <1>9, <3>1, <3>3, <3>4 DEF c
    <3> QED
      BY <3>1, <3>2, <3>4, <3>5 DEF c
  <2>10. ReadSoFar'
    <3> SUFFICES ASSUME Mine, op.lba < LbaSpace
                 PROVE  buffer' = [k \in 1 .. op.i + 1 |-> disk[d][op.lba + k - 1]]
      BY <1>1, <1>4 DEF ReadSoFar, Mine
    <3>1. buffer = [k \in 1 .. op.i |-> disk[d][op.lba + k - 1]]
      BY <1>2, <1>10 DEF ReadSoFar
    <3>2. DataFrom(d) = disk[d][op.lba + op.i]
      <4>1. drive[d].cmd.kind = "read" /\ drive[d].cmd.lba = op.lba + op.i
        BY <1>9, <2>8, RegisterFits DEF AtTransfer
      <4> QED
        BY <1>3, <4>1 DEF DataFrom
    <3> DEFINE F(k) == disk[d][op.lba + k - 1]
    <3>3. F(op.i + 1) = DataFrom(d)
      BY <1>3, <1>9, <3>2
    <3> HIDE DEF F
    <3>4. Append([k \in 1 .. op.i |-> F(k)], F(op.i + 1)) = [k \in 1 .. op.i + 1 |-> F(k)]
      BY <1>3
    <3> QED
      BY <1>1, <1>10, <3>1, <3>3, <3>4 DEF F
  <2>11. WrittenSoFar' /\ CleanUnlessGaveUp'
    BY <1>1, <1>2, <1>4, <1>10 DEF WrittenSoFar, CleanUnlessGaveUp
  <2> QED
    BY <1>8, <2>6, <2>7, <2>9, <2>10, <2>11 DEF IdeInv
<1>11. CASE op.kind = "write"
  <2>1. word = Written(op.data, op.i)
    BY <1>11
  <2>2. InCall' /\ pc' \in {"poll", "flush"}
    BY <1>1, <1>11 DEF InCall
  <2>3. AfterSector(d, word).err = FALSE
    BY DEF AfterSector, Idle, Busy
  <2>4. DrivesAtRest'
    BY <1>1, <1>2, <1>4, <1>6, <2>2, <2>3 DEF DrivesAtRest
  <2>5. Progress'
    BY <1>1, <1>3, <1>4, <1>7, <1>11 DEF Progress, InCall, Succeeded
  <2>6. Mine => AtTransfer("write", drive[d].cmd) /\ drive[d].cmd.left > 0
    BY <1>2, <1>3, <1>11 DEF Tracking
  <2> DEFINE c == drive[d].cmd
             next == [kind |-> c.kind, lba |-> c.lba + 1, left |-> c.left - 1]
  <2>7. Mine => c.kind = "write" /\ drive'[d] = Busy(next, word)
    BY <1>6, <2>6 DEF AfterSector, AtTransfer
  <2>8. /\ Busy(next, word).state = "busy" /\ Busy(next, word).cmd = next
        /\ Busy(next, word).got = word
    BY DEF Busy
  <2>9. next.kind = c.kind /\ next.lba = c.lba + 1 /\ next.left = c.left - 1
    OBVIOUS
  <2> HIDE DEF next
  <2>10. Tracking'
    <3>1. ASSUME Mine'
          PROVE  /\ op'.kind = "write" /\ drive'[op'.drive].state = "busy"
                 /\ drive'[op'.drive].cmd.kind = "write"
                 /\ drive'[op'.drive].cmd.lba = RegisterLba(op'.lba) + op'.i
                 /\ drive'[op'.drive].cmd.left = SectorsMeant(op'.count) - op'.i
                 /\ drive'[op'.drive].got = Written(op'.data, op'.i - 1) /\ op'.i # 0
      <4>1. Mine
        BY <1>4, <3>1 DEF Mine
      <4>2. c.lba = RegisterLba(op.lba) + op.i /\ c.left = SectorsMeant(op.count) - op.i
        BY <2>6, <4>1 DEF AtTransfer
      <4>3. /\ next.lba = RegisterLba(op.lba) + (op.i + 1)
            /\ next.left = SectorsMeant(op.count) - (op.i + 1)
        BY <1>3, <1>9, <2>9, <4>2
      <4> QED
        <5>1. drive'[op'.drive] = Busy(next, word) /\ c.kind = "write"
          BY <1>4, <2>7, <4>1
        <5> HIDE DEF c, word
        <5>2. word = Written(op'.data, op'.i - 1) /\ op'.i # 0
          <6>1. op'.i - 1 = op.i /\ op'.i # 0
            BY <1>3, <1>4
          <6>2. op'.data = op.data
            BY <1>4
          <6> QED
            BY <2>1, <6>1, <6>2
        <5>3. /\ next.lba = RegisterLba(op'.lba) + op'.i
              /\ next.left = SectorsMeant(op'.count) - op'.i
          BY <1>4, <4>3
        <5> QED
          BY <1>4, <1>11, <2>8, <2>9, <5>1, <5>2, <5>3
    <3>2. "busy" # "drq"
      OBVIOUS
    <3> QED
      BY <3>1, <3>2 DEF Tracking, AtTransfer
  <2>11. WrittenSoFar'
    <3>1. ASSUME Mine', op'.lba < LbaSpace, NEW k \in 0 .. op'.i - 1,
                 k < op'.i - 1 \/ drive'[op'.drive].state = "drq"
          PROVE  disk'[op'.drive][op'.lba + k] = Written(op'.data, k)
      <4>1. Mine /\ op.lba < LbaSpace /\ disk' = disk
        BY <1>1, <1>4, <3>1 DEF Mine
      <4>2. k \in 0 .. op.i - 1
        BY <1>3, <1>4, <2>7, <2>8, <3>1, <4>1
      <4>3. disk[d][op.lba + k] = Written(op.data, k)
        BY <1>2, <1>3, <1>11, <4>1, <4>2 DEF WrittenSoFar
      <4> QED
        BY <1>4, <4>1, <4>3
    <3> QED
      BY <3>1 DEF WrittenSoFar
  <2>12. ReadSoFar' /\ CleanUnlessGaveUp'
    BY <1>1, <1>2, <1>4, <1>11 DEF ReadSoFar, CleanUnlessGaveUp
  <2> QED
    BY <1>8, <2>4, <2>5, <2>10, <2>11, <2>12 DEF IdeInv
<1> QED
  BY <1>1, <1>10, <1>11

(* FLUSH CACHE is sent while the last sector may still be on its way.      *)
LEMMA FlushCacheInv == IdeInv /\ flush_cache => IdeInv'
<1> SUFFICES ASSUME IdeInv, flush_cache PROVE IdeInv'
  OBVIOUS
<1> DEFINE d == op.drive
<1>1. /\ pc = "flush" /\ Command(d, Flush) /\ pc' = "settle"
      /\ UNCHANGED <<op, result, buffer, disk, gaveup>>
  BY DEF flush_cache
<1>2. /\ IdeTypeOK /\ Progress /\ Tracking /\ DrivesAtRest /\ CleanUnlessGaveUp
      /\ ReadSoFar /\ WrittenSoFar
  BY DEF IdeInv
<1>3. /\ op.kind = "write" /\ op.i = op.count /\ d \in Attached /\ d \in Drives
      /\ op.count \in Nat /\ op.count > 0
  BY <1>1, <1>2 DEF Progress, IdeTypeOK, Calls, InCall
<1>4. /\ drive' \in [Attached -> DriveStates]
      /\ \A e \in Attached : e # d => drive'[e] = drive[e]
      /\ drive'[d] = Busy(Flush, Garbage) \/ drive'[d] = drive[d]
  <2>1. Flush \in Commands
    BY DEF Flush, Commands, Kinds
  <2>2. drive \in [Attached -> DriveStates]
    BY <1>2 DEF IdeTypeOK
  <2> QED
    BY <1>1, <1>3, <2>1, <2>2, CommandEffect
<1>5. /\ Busy(Flush, Garbage).state = "busy" /\ Busy(Flush, Garbage).err = FALSE
      /\ Busy(Flush, Garbage).cmd.kind = "flush"
  BY DEF Busy, Flush
<1>6. IdeTypeOK'
  BY <1>1, <1>2, <1>3, <1>4 DEF IdeTypeOK
<1>7. DrivesAtRest'
  BY <1>1, <1>2, <1>4, <1>5 DEF DrivesAtRest, InCall
<1>8. Progress'
  BY <1>1, <1>3 DEF Progress, InCall, Succeeded
<1>9. Tracking'
  <2>1. CASE drive'[d] = Busy(Flush, Garbage)
    BY <1>1, <1>3, <1>5, <2>1 DEF Tracking
  <2>2. CASE drive'[d] = drive[d]
    BY <1>1, <1>2, <2>2 DEF Tracking, Mine, AtTransfer
  <2> QED
    BY <1>4, <2>1, <2>2
<1>10. WrittenSoFar'
  <2>1. drive'[d].state = "drq" => drive[d].state = "drq"
    BY <1>4, <1>5
  <2> QED
    BY <1>1, <1>2, <2>1 DEF WrittenSoFar, Mine
<1>11. ReadSoFar' /\ CleanUnlessGaveUp'
  BY <1>1, <1>2 DEF ReadSoFar, CleanUnlessGaveUp, Mine
<1> QED
  BY <1>6, <1>7, <1>8, <1>9, <1>10, <1>11 DEF IdeInv

(* The poll after FLUSH CACHE ends: a drive that was idle wants no further *)
(* sector, so that it has failed, or the poll has given up.                *)
LEMMA FlushDoneInv == IdeInv /\ flush_done => IdeInv'
<1> SUFFICES ASSUME IdeInv, NEW r \in {0, -1}, PollResult(r), pc = "settle", pc' = "idle",
                    NoteGivingUp, UNCHANGED <<op, buffer, drive, disk>>
             PROVE  IdeInv'
  BY DEF flush_done
<1> DEFINE d == op.drive
<1>1. /\ IdeTypeOK /\ Progress /\ Tracking /\ DrivesAtRest /\ CleanUnlessGaveUp
      /\ ReadSoFar /\ WrittenSoFar
  BY DEF IdeInv
<1>2. /\ op.kind = "write" /\ op.i = op.count /\ d \in Attached /\ d \in Drives
      /\ op.count \in Nat /\ op.count > 0
  BY <1>1 DEF Progress, IdeTypeOK, Calls, InCall
<1>3. /\ gaveup \subseteq gaveup' /\ (GivesUp => d \in gaveup') /\ gaveup' \subseteq Drives
  BY <1>1, <1>2 DEF NoteGivingUp, IdeTypeOK
<1>4. ASSUME d \notin gaveup' PROVE drive[d].state = "idle"
  <2>1. Mine /\ ~ GivesUp
    BY <1>1, <1>2, <1>3, <1>4 DEF CleanUnlessGaveUp, Mine
  <2>2. drive[d].state = "drq" \/ drive[d].err
    BY <1>2, <2>1, PollOutcome
  <2>3. ASSUME drive[d].state = "drq" PROVE FALSE
    <3>1. AtTransfer("write", drive[d].cmd) /\ drive[d].cmd.left > 0
      BY <1>1, <1>2, <2>1, <2>3 DEF Tracking
    <3>2. SectorsMeant(op.count) \in 1 .. op.count
      BY <1>2, MeantAtMost
    <3> QED
      BY <1>2, <3>1, <3>2 DEF AtTransfer
  <2> QED
    BY <1>1, <1>2, <2>2, <2>3 DEF DrivesAtRest
<1>5. IdeTypeOK'
  BY <1>1, <1>3 DEF IdeTypeOK
<1>6. DrivesAtRest'
  BY <1>1, <1>3, <1>4 DEF DrivesAtRest
<1>7. Progress'
  BY <1>2 DEF Progress, InCall, Succeeded
<1>8. Tracking'
  BY <1>1 DEF Tracking, Mine, AtTransfer
<1>9. ReadSoFar' /\ WrittenSoFar' /\ CleanUnlessGaveUp'
  BY <1>1, <1>3 DEF ReadSoFar, WrittenSoFar, CleanUnlessGaveUp, Mine
<1> QED
  BY <1>5, <1>6, <1>7, <1>8, <1>9 DEF IdeInv

(* A drive writes the sector it has got, and goes on with its command.     *)
LEMMA DriveAnswerInv ==
    ASSUME IdeInv, NEW d \in Attached, drive_answer(d)
    PROVE  IdeInv'
<1> DEFINE c    == drive[d].cmd
           more == c.kind = "identify" \/ (c.kind \in {"read", "write"} /\ c.left > 0)
<1>1. /\ drive[d].state = "busy"
      /\ Commits(d) => c.lba - 1 < LbaSpace
      /\ disk' = IF Commits(d) THEN [disk EXCEPT ![d][c.lba - 1] = drive[d].got] ELSE disk
      /\ drive' = [drive EXCEPT ![d] = IF more THEN Ready(c) ELSE Idle]
      /\ UNCHANGED <<pc, op, result, buffer, gaveup>>
  BY DEF drive_answer
<1>2. /\ IdeTypeOK /\ Progress /\ Tracking /\ DrivesAtRest /\ CleanUnlessGaveUp
      /\ ReadSoFar /\ WrittenSoFar
  BY DEF IdeInv
<1>3. /\ drive \in [Attached -> DriveStates] /\ c \in Commands /\ drive[d].got \in Words
      /\ disk \in [Attached -> [0 .. LbaSpace - 1 -> Origins]]
      /\ op.lba \in Nat /\ op.i \in Nat
  BY <1>2 DEF IdeTypeOK, DriveStates, Calls
<1>4. Ready(c) \in DriveStates /\ Idle \in DriveStates
  BY <1>3 DEF Ready, Idle, NoCommand, DriveStates, Commands, Kinds, Words
<1>5. /\ Ready(c).state = "drq" /\ Ready(c).err = FALSE /\ Ready(c).cmd = c
      /\ Ready(c).got = Garbage
      /\ Idle.state = "idle" /\ Idle.err = FALSE
  BY DEF Ready, Idle
<1>6. /\ drive' \in [Attached -> DriveStates]
      /\ \A e \in Attached : e # d => drive'[e] = drive[e]
      /\ drive'[d] = IF more THEN Ready(c) ELSE Idle
  BY <1>1, <1>3, <1>4
<1> HIDE DEF more
<1>7. /\ disk' \in [Attached -> [0 .. LbaSpace - 1 -> Origins]]
      /\ \A e \in Attached : e # d => disk'[e] = disk[e]
  <2>1. drive[d].got \in Origins
    BY <1>3 DEF Origins
  <2>2. CASE Commits(d)
    <3>1. [disk[d] EXCEPT ![c.lba - 1] = drive[d].got] \in [0 .. LbaSpace - 1 -> Origins]
      BY <1>3, <2>1
    <3>2. disk' = [disk EXCEPT ![d] = [disk[d] EXCEPT ![c.lba - 1] = drive[d].got]]
      BY <1>1, <2>2
    <3> QED
      BY <1>3, <3>1, <3>2
  <2> QED
    BY <1>1, <1>3, <2>2
<1>8. IdeTypeOK'
  BY <1>1, <1>2, <1>6, <1>7 DEF IdeTypeOK
<1>9. DrivesAtRest'
  BY <1>1, <1>2, <1>5, <1>6 DEF DrivesAtRest, InCall
<1>10. Progress'
  <2>1. ASSUME pc = "transfer", op.kind \in {"read", "write"}
        PROVE  op.drive \in Attached /\ op.drive # d /\ drive[op.drive].state = "drq"
    BY <1>1, <1>2, <2>1 DEF Progress
  <2>2. \A e \in Attached : drive'[e].state = "busy" => drive[e].state = "busy"
    BY <1>1, <1>5, <1>6
  <2> QED
    BY <1>1, <1>2, <1>6, <2>1, <2>2 DEF Progress, InCall, Succeeded
<1>11. Tracking'
  <2>1. CASE op.drive # d
    BY <1>1, <1>2, <1>6, <2>1 DEF Tracking, Mine, AtTransfer
  <2>2. CASE op.drive = d /\ Mine
    <3>1. CASE ~ more
      BY <1>1, <1>5, <1>6, <2>2, <3>1 DEF Tracking
    <3>2. CASE more
      <4>1. drive'[d] = Ready(c)
        BY <1>6, <3>2
      <4>2. \/ op.kind \in {"init", "identify"} /\ c.kind = "identify"
            \/ op.kind = "read" /\ AtTransfer("read", c) /\ c.left > 0
            \/ op.kind = "write" /\ AtTransfer("write", c)
        BY <1>1, <1>2, <2>2, <3>2 DEF Tracking, more
      <4>3. c.kind = "write" => c.left > 0
        BY <3>2 DEF more
      <4> HIDE DEF c
      <4> QED
        BY <1>1, <1>5, <2>2, <4>1, <4>2, <4>3 DEF Tracking, AtTransfer
    <3> QED
      BY <3>1, <3>2
  <2>3. CASE ~ Mine
    BY <1>1, <2>3 DEF Tracking, Mine
  <2> QED
    BY <2>1, <2>2, <2>3
<1>12. ReadSoFar'
  <2>1. CASE op.drive # d
    BY <1>1, <1>2, <1>7, <2>1 DEF ReadSoFar, Mine
  <2>2. CASE op.drive = d /\ Mine /\ op.kind = "read"
    <3>1. c.kind = "read"
      BY <1>1, <1>2, <2>2 DEF Tracking, AtTransfer
    <3>2. disk' = disk
      BY <1>1, <3>1 DEF Commits
    <3> QED
      BY <1>1, <1>2, <3>2 DEF ReadSoFar, Mine
  <2> QED
    BY <1>1, <2>1, <2>2 DEF ReadSoFar, Mine
<1>13. WrittenSoFar'
  <2>1. CASE op.drive # d
    BY <1>1, <1>2, <1>6, <1>7, <2>1 DEF WrittenSoFar, Mine
  <2>2. ASSUME op.drive = d, Mine, op.kind = "write", op.lba < LbaSpace,
               NEW k \in 0 .. op.i - 1, k < op.i - 1 \/ drive'[d].state = "drq"
        PROVE  disk'[d][op.lba + k] = Written(op.data, k)
    <3>1. RegisterLba(op.lba) = op.lba /\ op.i # 0
      BY <1>3, <2>2, RegisterFits
    <3>2. k < op.i - 1 => disk[d][op.lba + k] = Written(op.data, k)
      BY <1>2, <2>2 DEF WrittenSoFar
    <3>3. CASE AtTransfer("write", c) /\ drive[d].got = Written(op.data, op.i - 1)
      <4>1. c.lba - 1 = op.lba + (op.i - 1) /\ c.kind = "write"
        BY <1>3, <3>1, <3>3 DEF AtTransfer
      <4>2. Commits(d)
        BY <3>3, <4>1 DEF Commits, Written, Garbage
      <4>3. c.lba - 1 \in 0 .. LbaSpace - 1
        BY <1>1, <1>3, <2>2, <4>1, <4>2, LbaSpaceAssumption
      <4>4. disk'[d] = [disk[d] EXCEPT ![c.lba - 1] = Written(op.data, op.i - 1)]
        BY <1>1, <1>3, <3>3, <4>2
      <4>5. CASE k = op.i - 1
        <5>1. disk'[d][c.lba - 1] = Written(op.data, op.i - 1)
          BY <1>3, <4>3, <4>4
        <5> QED
          BY <4>1, <4>5, <5>1
      <4>6. CASE k # op.i - 1
        <5>1. k < op.i - 1 /\ op.lba + k # c.lba - 1
          BY <1>3, <2>2, <4>1, <4>6
        <5>2. op.lba + k \in 0 .. LbaSpace - 1
          BY <1>3, <2>2, <4>1, <4>3, <5>1, LbaSpaceAssumption
        <5>3. disk'[d][op.lba + k] = disk[d][op.lba + k]
          BY <1>3, <4>4, <5>1, <5>2
        <5> QED
          BY <3>2, <5>1, <5>3
      <4> QED
        BY <4>5, <4>6
    <3>4. CASE c.kind = "flush"
      <4>1. ~ more /\ ~ Commits(d)
        BY <3>4 DEF more, Commits
      <4>2. drive'[d].state = "idle" /\ disk' = disk
        BY <1>1, <1>5, <1>6, <4>1
      <4> QED
        BY <2>2, <3>2, <4>2
    <3> QED
      BY <1>1, <1>2, <2>2, <3>1, <3>3, <3>4 DEF Tracking
  <2> QED
    BY <1>1, <2>1, <2>2 DEF WrittenSoFar, Mine
<1>14. CleanUnlessGaveUp'
  BY <1>1, <1>2 DEF CleanUnlessGaveUp
<1> QED
  BY <1>8, <1>9, <1>10, <1>11, <1>12, <1>13, <1>14 DEF IdeInv

(* A command that fails leaves its drive idle.                             *)
LEMMA DriveFailInv ==
    ASSUME IdeInv, NEW d \in Attached, drive_fail(d)
    PROVE  IdeInv'
<1>1. /\ drive[d].state = "busy" /\ drive' = [drive EXCEPT ![d] = Failed]
      /\ UNCHANGED <<pc, op, result, buffer, disk, gaveup>>
  BY DEF drive_fail
<1>2. /\ IdeTypeOK /\ Progress /\ Tracking /\ DrivesAtRest /\ CleanUnlessGaveUp
      /\ ReadSoFar /\ WrittenSoFar
  BY DEF IdeInv
<1>4. Failed \in DriveStates /\ Failed.state = "idle"
  BY DEF Failed, NoCommand, DriveStates, Commands, Kinds, Words
<1>5. /\ drive' \in [Attached -> DriveStates]
      /\ \A e \in Attached : e # d => drive'[e] = drive[e]
      /\ drive'[d] = Failed
  <2>1. drive \in [Attached -> DriveStates]
    BY <1>2 DEF IdeTypeOK
  <2> QED
    BY <1>1, <1>4, <2>1
<1>6. IdeTypeOK'
  BY <1>1, <1>2, <1>5 DEF IdeTypeOK
<1>7. DrivesAtRest'
  BY <1>1, <1>2, <1>4, <1>5 DEF DrivesAtRest, InCall
<1>8. Progress'
  <2>1. ASSUME pc = "transfer", op.kind \in {"read", "write"}
        PROVE  op.drive \in Attached /\ op.drive # d /\ drive[op.drive].state = "drq"
    BY <1>1, <1>2, <2>1 DEF Progress
  <2>2. \A e \in Attached : drive'[e].state = "busy" => drive[e].state = "busy"
    BY <1>1, <1>4, <1>5
  <2> QED
    BY <1>1, <1>2, <1>5, <2>1, <2>2 DEF Progress, InCall, Succeeded
<1>9. Tracking'
  <2>1. CASE op.drive # d
    BY <1>1, <1>2, <1>5, <2>1 DEF Tracking, Mine, AtTransfer
  <2>2. CASE op.drive = d
    BY <1>1, <1>4, <1>5, <2>2 DEF Tracking
  <2> QED
    BY <2>1, <2>2
<1>10. WrittenSoFar'
  <2>1. \A e \in Attached : drive'[e].state = "drq" => drive[e].state = "drq"
    BY <1>4, <1>5
  <2> QED
    BY <1>1, <1>2, <2>1 DEF WrittenSoFar, Mine
<1>11. ReadSoFar' /\ CleanUnlessGaveUp'
  BY <1>1, <1>2 DEF ReadSoFar, CleanUnlessGaveUp, Mine
<1> QED
  BY <1>6, <1>7, <1>8, <1>9, <1>10, <1>11 DEF IdeInv

(* Every step of the driver, its callers and the drives.                   *)
LEMMA IdeStepInv == IdeInv /\ [IdeNext]_ide_vars => IdeInv'
<1> SUFFICES ASSUME IdeInv, [IdeNext]_ide_vars PROVE IdeInv'
  OBVIOUS
<1>1. CASE init_drive
  BY <1>1, InitDriveInv
<1>2. CASE init_words
  <2>1. op.drive + 1 \in Drives \/ pc' # "init"
    BY <1>2 DEF init_words, NextDrive
  <2>2. /\ pc = "transfer" /\ op.kind = "init" /\ MoveData(op.drive, Garbage)
        /\ pc' \in {"init", "idle"} /\ UNCHANGED <<op, disk, gaveup>>
    BY <1>2 DEF init_words, NextDrive
  <2> QED
    BY <2>1, <2>2, WordsInv
<1>3. CASE identify_words
  BY <1>3, WordsInv DEF identify_words
<1>4. CASE poll_again
  BY <1>4, SameInv DEF poll_again
<1>5. CASE poll_done
  BY <1>5, PollDoneInv
<1>6. CASE transfer_sector
  BY <1>6, TransferSectorInv
<1>7. CASE flush_cache
  BY <1>7, FlushCacheInv
<1>8. CASE flush_done
  BY <1>8, FlushDoneInv
<1>9. CASE Caller
  <2>1. ASSUME NEW d \in Drives, ide_identify(d) PROVE IdeInv'
    BY <2>1, IdentifyInv
  <2>2. ASSUME NEW d \in Drives, NEW l \in Lbas, NEW n \in Counts,
               ide_read_write_sectors("read", d, l, n, Garbage)
        PROVE  IdeInv'
    <3>1. "read" \in {"read", "write"} /\ Garbage \in Payloads \cup {Garbage}
      OBVIOUS
    <3> QED
      BY <2>2, <3>1, TransferBeginsInv
  <2>3. ASSUME NEW d \in Drives, NEW l \in Lbas, NEW n \in Counts, NEW x \in Payloads,
               ide_read_write_sectors("write", d, l, n, x)
        PROVE  IdeInv'
    <3>1. "write" \in {"read", "write"} /\ x \in Payloads \cup {Garbage}
      OBVIOUS
    <3> QED
      BY <2>3, <3>1, TransferBeginsInv
  <2> QED
    BY <1>9, <2>1, <2>2, <2>3 DEF Caller
<1>10. ASSUME NEW d \in Attached, drive_answer(d) PROVE IdeInv'
  BY <1>10, DriveAnswerInv
<1>11. ASSUME NEW d \in Attached, drive_fail(d) PROVE IdeInv'
  BY <1>11, DriveFailInv
<1>12. CASE UNCHANGED ide_vars
  BY <1>12, SameInv DEF ide_vars
<1> QED
  BY <1>1, <1>2, <1>3, <1>4, <1>5, <1>6, <1>7, <1>8, <1>9, <1>10, <1>11, <1>12
  DEF IdeNext, Driver

(* The invariant holds whatever the drives do.                             *)
THEOREM IdeInvariant == IdeSpec => []IdeInv
BY IdeInitInv, IdeStepInv, PTL DEF IdeSpec

-----------------------------------------------------------------------------
(* What a caller may rely on                                               *)

(* A read that returns 0 has put the sectors asked for into the caller's   *)
(* buffer: ide_read_write_sectors, with any count and any time-out.        *)
THEOREM IdeReadExact == IdeSpec => []ReadExact
<1>1. IdeInv => ReadExact
  <2> SUFFICES ASSUME IdeInv, Succeeded("read"), op.clean, op.lba < LbaSpace
               PROVE  /\ op.drive \in Attached
                      /\ buffer = [i \in 1 .. op.count |-> disk[op.drive][op.lba + i - 1]]
    BY DEF ReadExact
  <2>1. op.kind = "read" /\ op.i = op.count /\ op.drive \in Attached
    BY DEF IdeInv, Progress, Succeeded
  <2> QED
    BY <2>1 DEF IdeInv, ReadSoFar, Mine
<1> QED
  BY <1>1, IdeInvariant, PTL

(* A write that returns 0 has put all sectors but the last on the medium:  *)
(* only the last one may still be lost, between the loop of                *)
(* ide_read_write_sectors and its flush.                                   *)
THEOREM IdeWriteAllButLast == IdeSpec => []WriteAllButLast
<1>1. IdeInv => WriteAllButLast
  <2> SUFFICES ASSUME IdeInv, Succeeded("write"), op.clean, op.lba < LbaSpace
               PROVE  /\ op.drive \in Attached
                      /\ \A i \in 0 .. op.count - 2 :
                            disk[op.drive][op.lba + i] = Written(op.data, i)
    BY DEF WriteAllButLast
  <2>1. op.kind = "write" /\ op.i = op.count /\ op.drive \in Attached /\ op.count \in Nat
    BY DEF IdeInv, IdeTypeOK, Calls, Progress, Succeeded
  <2>2. \A i \in 0 .. op.count - 2 : i \in 0 .. op.count - 1 /\ i < op.count - 1
    BY <2>1
  <2>3. Mine /\ WrittenSoFar
    BY <2>1 DEF IdeInv, Mine
  <2> QED
    BY <2>1, <2>2, <2>3 DEF WrittenSoFar
<1> QED
  BY <1>1, IdeInvariant, PTL

(* Only a poll that gave up leaves a drive in the middle of a command for  *)
(* the next call to run into.                                              *)
THEOREM IdeCleanUnlessGaveUp == IdeSpec => []CleanUnlessGaveUp
BY IdeInvariant, PTL DEF IdeInv

=============================================================================
