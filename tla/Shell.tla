------------------------------- MODULE Shell -------------------------------
(***************************************************************************)
(* The shell, kernel/modules/shell/shell.c, on the process table, as its   *)
(* source stands: the Makefile does not build it at this commit.  A line   *)
(* is edited in cmd_buf, which is never cleared: a shorter line leaves the *)
(* characters of a longer one behind its terminator.  Drawing and wording  *)
(* are left out; a line of the history is what it is: the prompt with the  *)
(* command, a text, the response, or what the stack held.  The IDE         *)
(* commands only print here, see Ide for what they do to the drive.  The   *)
(* scheduler and the timer change nothing but run times, which the shell   *)
(* prints: they are in Process.                                            *)
(***************************************************************************)
EXTENDS Process, SequencesExt

CONSTANTS
    MaxCmdLen,     \* MAX_CMD_LEN
    MaxLines,      \* MAX_LINES
    InfoLines,     \* segments of the system information string
    TestPages,     \* pages testmem asks for
    MaxSectors,    \* sectors that fit buf of ideread
    SectorLines,   \* lines ideread prints for a sector
    NumberSpace,   \* values of a uint64_t
    Scripts        \* what may be typed at a time: sequences of keys

ASSUME MaxLinesAssumption == MaxLines \in Nat \ {0}
ASSUME MaxCmdLenAssumption == MaxCmdLen \in Nat /\ MaxCmdLen > 9
ASSUME TestPagesAssumption == TestPages \in Nat \ {0}
ASSUME LinesAssumption == InfoLines \in Nat /\ MaxSectors \in Nat /\ SectorLines \in Nat
ASSUME NumberSpaceAssumption == NumberSpace \in Nat \ {0}
ASSUME ScriptsAssumption == Scripts \subseteq Seq(STRING)

NUL == "nul"
BLANK == "blank"
BACKSPACE == "backspace"
ENTER == "enter"

VARIABLES
    cmd_buf, cmd_pos,
    terminal_history,  \* the lines in use; history_lines is its length
    prompt_y,          \* in lines below the top
    command,           \* "none", or the command between two of its calls
    crashed,           \* the stack was overwritten and the kernel is lost
    keys,              \* external: keys pressed and not yet handled
    line,              \* ghost: the characters of the line being typed
    printed            \* ghost: all lines of the latest command

shell_vars == <<cmd_buf, cmd_pos, terminal_history, prompt_y, command, crashed,
                keys, line, printed>>

all_vars == <<timer_vars, proc_vars, shell_vars>>

ShellInit ==
    /\ ProcessInit
    /\ cmd_buf = [i \in 0 .. MaxCmdLen - 1 |-> NUL]
    /\ cmd_pos = 0
    /\ terminal_history = << >>
    /\ prompt_y = 0
    /\ command = "none"
    /\ crashed = FALSE
    /\ keys = << >>
    /\ line = << >>
    /\ printed = << >>

-----------------------------------------------------------------------------
(* Reading the buffer                                                      *)

Chars == [ help |-> <<"h", "e", "l", "p">>,
           info |-> <<"i", "n", "f", "o">>,
           testmem |-> <<"t", "e", "s", "t", "m", "e", "m">>,
           spawn |-> <<"s", "p", "a", "w", "n">>,
           get |-> <<"g", "e", "t">>,
           pkill |-> <<"p", "k", "i", "l", "l">>,
           ideinfo |-> <<"i", "d", "e", "i", "n", "f", "o">>,
           ideread |-> <<"i", "d", "e", "r", "e", "a", "d">>,
           ideident |-> <<"i", "d", "e", "i", "d", "e", "n", "t">> ]

(* The commands that take an argument are recognised by their first        *)
(* letters, the others by strcmp.                                          *)
WithArgument == {"get", "pkill", "ideread"}

StartsWith(b, s) == \A i \in 1 .. Len(s) : b[i - 1] = s[i]

strcmp(b, s) == StartsWith(b, s) /\ b[Len(s)] = NUL

Recognised(b) ==
    { w \in DOMAIN Chars :
        IF w \in WithArgument THEN StartsWith(b, Chars[w]) ELSE strcmp(b, Chars[w]) }

(* Mutant: one offset for all commands.                                    *)
ArgumentCell_same == [get |-> 8, pkill |-> 8, ideread |-> 8]

(* Where the argument is read: one cell behind the word and its blank,     *)
(* whether the line is that long or not.                                   *)
ArgumentCell == [get |-> 4, pkill |-> 6, ideread |-> 8]

Digits == <<"0", "1", "2", "3", "4", "5", "6", "7", "8", "9">>

DigitChars == Range(Digits)

DigitValue(c) == CHOOSE n \in 0 .. 9 : Digits[n + 1] = c

Value(digits) ==
    LET v[i \in 0 .. Len(digits)] ==
            IF i = 0 THEN 0 ELSE 10 * v[i - 1] + DigitValue(digits[i])
    IN  v[Len(digits)]

(* The first cell from i on whose character is not to be passed over.      *)
Scan(b, i, passed) ==
    CHOOSE j \in i .. MaxCmdLen - 1 :
        b[j] \notin passed /\ \A k \in i .. j - 1 : b[k] \in passed

(* A number that is too long wraps around.                                 *)
atoi(b, i) ==
    LET end == Scan(b, i, DigitChars)
    IN  Value([k \in 1 .. end - i |-> b[i + k - 1]]) % NumberSpace

Argument(b, w) == atoi(b, ArgumentCell[w])

(* The second argument of ideread, cut to what buf holds.                  *)
SectorCount(b) ==
    LET i == Scan(b, ArgumentCell["ideread"], Range(b) \ {NUL, BLANK})
        n == IF b[i] = BLANK THEN atoi(b, i + 1) % 65536 ELSE 1
    IN  IF n > MaxSectors THEN MaxSectors ELSE n

-----------------------------------------------------------------------------
(* Mutant: the shift stops one line early and the last line is lost.       *)
add_to_history_early(lines, s) ==
    IF Len(lines) < MaxLines THEN Append(lines, s)
    ELSE [i \in 1 .. MaxLines |->
             IF i < MaxLines - 1 THEN lines[i + 1] ELSE s]

add_to_history(lines, s) ==
    IF Len(lines) < MaxLines THEN Append(lines, s)
    ELSE [i \in 1 .. MaxLines |->
             IF i < MaxLines THEN lines[i + 1] ELSE s]

Added(history, lines) ==
    LET h[n \in 0 .. Len(lines)] ==
            IF n = 0 THEN history ELSE add_to_history(h[n - 1], lines[n])
    IN  h[Len(lines)]

Show(lines) == terminal_history' = Added(terminal_history, lines)

Texts(n) == [i \in 1 .. n |-> "text"]

(* ideinfo and ideident pass the address of msg where append_str takes a   *)
(* position in it: that is beyond its end, nothing is ever appended.       *)
Unwritten(n) == [i \in 1 .. n |-> "stack"]

(* execute_command up to the dispatch: the line is terminated and its      *)
(* prompt is the first line of the output.                                 *)
Line == [cmd_buf EXCEPT ![cmd_pos] = NUL]

Enter ==
    /\ ~ crashed
    /\ command = "none"
    /\ keys # << >>
    /\ Head(keys) = ENTER
    /\ cmd_pos > 0
    /\ cmd_buf' = Line
    /\ keys' = Tail(keys)

Begin(w) == w \in Recognised(Line) /\ Enter

(* The end of execute_command: the response, the reset and shell_render.   *)
Finish(lines) ==
    /\ Show(lines \o <<"response">>)
    /\ printed' = (IF command = "none" THEN lines ELSE printed \o lines) \o <<"response">>
    /\ cmd_pos' = 0
    /\ line' = << >>
    /\ prompt_y' = Len(terminal_history')
    /\ command' = "none"

(* The command makes a call and goes on.                                   *)
Continue(w, lines) ==
    /\ Show(lines)
    /\ printed' = lines
    /\ command' = w
    /\ UNCHANGED <<cmd_pos, line, prompt_y>>

NoProcessCall == UNCHANGED <<timer_vars, proc_vars>>

(* 100 bytes are copied into the 80 of response.                           *)
help ==
    /\ Begin("help")
    /\ Finish(<<"prompt">>)
    /\ crashed' \in BOOLEAN
    /\ NoProcessCall

info ==
    /\ Begin("info")
    /\ Finish(<<"prompt">> \o Texts(1 + InfoLines))
    /\ NoProcessCall /\ UNCHANGED crashed

Vt == INSTANCE RegionAllocator
    WITH Counts <- {TestPages}, next <- next_vaddr, regions <- regions

testmem ==
    /\ Begin("testmem")
    /\ \/ /\ next_vaddr + TestPages <= MaxVaddr
          /\ Vt!Alloc
          /\ Continue("testmem", <<"prompt">> \o Texts(2))
       \/ /\ Finish(<<"prompt">> \o Texts(2))
          /\ UNCHANGED <<next_vaddr, regions>>
    /\ UNCHANGED <<timer_vars, proc_table, last_time, current_time, pc, born, crashed>>

testmem_free ==
    /\ command = "testmem"
    /\ regions' = { r \in regions : r.vaddr # next_vaddr - TestPages }
    /\ Finish(<< >>)
    /\ UNCHANGED <<timer_vars, proc_table, last_time, current_time, pc, born,
                   next_vaddr, cmd_buf, keys, crashed>>

(* With a full table process_create returns 0, which is printed as the PID.*)
spawn ==
    /\ Begin("spawn")
    /\ \/ process_create
       \/ UnusedSlots = {} /\ NoProcessCall
    /\ Finish(<<"prompt">>)
    /\ UNCHANGED crashed

(* get_proc_by_pid.                                                        *)
HasPid(pid) == \E i \in Slots : proc_table[i].pid = pid

get ==
    /\ Begin("get")
    /\ Finish(<<"prompt">> \o Texts(IF HasPid(Argument(Line, "get")) THEN 2 ELSE 0))
    /\ NoProcessCall /\ UNCHANGED crashed

pkill ==
    LET pid == Argument(Line, "pkill")
    IN  /\ Begin("pkill")
        /\ \/ /\ HasPid(pid)
              /\ kill_proc(pid)
              /\ Continue("pkill", <<"prompt">>)
           \/ /\ ~ HasPid(pid)
              /\ Finish(<<"prompt">>)
              /\ NoProcessCall
        /\ UNCHANGED crashed

(* Mutant: the clean-up is left to somebody else.                          *)
pkill_free_later ==
    /\ command = "pkill"
    /\ Finish(<< >>)
    /\ UNCHANGED <<timer_vars, proc_vars, cmd_buf, keys, crashed>>

pkill_free ==
    /\ command = "pkill"
    /\ process_check_and_free
    /\ Finish(<< >>)
    /\ UNCHANGED <<cmd_buf, keys, crashed>>

ideinfo ==
    /\ Begin("ideinfo")
    /\ Finish(<<"prompt">> \o Unwritten(5))
    /\ NoProcessCall /\ UNCHANGED crashed

ideread ==
    /\ Begin("ideread")
    /\ \E n \in {0, SectorCount(Line) * SectorLines} : Finish(<<"prompt">> \o Texts(n))
    /\ NoProcessCall /\ UNCHANGED crashed

(* Two lines for a drive that is not there, nine for one that is.          *)
ideident ==
    /\ Begin("ideident")
    /\ \E lines \in {Unwritten(1) \o Texts(1), Unwritten(9)} : Finish(<<"prompt">> \o lines)
    /\ NoProcessCall /\ UNCHANGED crashed

unknown ==
    /\ Enter
    /\ Recognised(Line) = {}
    /\ Finish(<<"prompt">>)
    /\ NoProcessCall /\ UNCHANGED crashed

execute_command ==
    \/ help \/ info \/ testmem \/ spawn \/ get \/ pkill
    \/ ideinfo \/ ideread \/ ideident \/ unknown

-----------------------------------------------------------------------------
(* Mutant: the last cell may be filled.                                    *)
RoomLeft_all == cmd_pos < MaxCmdLen

RoomLeft == cmd_pos < MaxCmdLen - 1

(* shell_putc for any key but ENTER on a line that is not empty.           *)
shell_putc ==
    /\ ~ crashed
    /\ command = "none"
    /\ keys # << >>
    /\ keys' = Tail(keys)
    /\ \/ /\ Head(keys) = BACKSPACE
          /\ cmd_pos' = IF cmd_pos > 0 THEN cmd_pos - 1 ELSE 0
          /\ line' = IF line = << >> THEN line ELSE Front(line)
          /\ UNCHANGED cmd_buf
       \/ /\ Head(keys) = ENTER
          /\ cmd_pos = 0
          /\ UNCHANGED <<cmd_buf, cmd_pos, line>>
       \/ /\ Head(keys) \notin {BACKSPACE, ENTER}
          /\ IF RoomLeft
             THEN /\ cmd_buf' = [cmd_buf EXCEPT ![cmd_pos] = Head(keys)]
                  /\ cmd_pos' = cmd_pos + 1
             ELSE UNCHANGED <<cmd_buf, cmd_pos>>
          /\ line' = IF Len(line) < MaxCmdLen - 1 THEN Append(line, Head(keys)) ELSE line
    /\ UNCHANGED <<terminal_history, prompt_y, command, crashed, printed>>
    /\ NoProcessCall

(* Somebody types: a whole line or a part of one.                          *)
press ==
    /\ keys = << >>
    /\ command = "none"
    /\ keys' \in Scripts
    /\ UNCHANGED <<cmd_buf, cmd_pos, terminal_history, prompt_y, command, crashed, line, printed>>
    /\ NoProcessCall

ShellNext == shell_putc \/ execute_command \/ testmem_free \/ pkill_free \/ press

ShellSpec == ShellInit /\ [][ShellNext]_all_vars

-----------------------------------------------------------------------------
(* Properties                                                              *)

(* The buffer holds the line as an editor with a limit of MAX_CMD_LEN - 1  *)
(* characters would keep it, through backspaces, overlong lines and        *)
(* earlier commands; and its last cell is never filled, so that even a     *)
(* command that reads on behind its terminator stops inside the buffer.    *)
LineEditorExact ==
    /\ cmd_pos = Len(line)
    /\ StartsWith(cmd_buf, line)
    /\ cmd_buf[MaxCmdLen - 1] = NUL

(* The PID the user typed: the digits that follow the word and a blank, as *)
(* a number of 64 bits.                                                    *)
TypedPid ==
    LET rest == SubSeq(line, 7, Len(line))
        n == CHOOSE n \in 0 .. Len(rest) :
                 /\ \A k \in 1 .. n : rest[k] \in DigitChars
                 /\ n < Len(rest) => rest[n + 1] \notin DigitChars
    IN  Value(SubSeq(rest, 1, n)) % NumberSpace

(* pkill terminates the process whose PID was typed and no other, whatever *)
(* stands behind the line in the buffer.  The one exception is the bare    *)
(* word: the code skips its terminator and takes the PID of an earlier     *)
(* line, even of one that was erased and never executed.                   *)
KillsAsTyped ==
    [][\A i \in Live :
          /\ proc_table[i].status = "RUNNING"
          /\ proc_table'[i].status = "TERMINATED"
          /\ line # Chars["pkill"]
          => proc_table[i].pid = TypedPid]_all_vars

(* Between two commands no process is left terminated, so that get, which  *)
(* prints READY for every status but one, is never asked about a dead one; *)
(* and the regions in use are exactly the stacks in the table: neither     *)
(* pkill, of whatever PID, nor testmem leaves memory behind.               *)
NothingLeftBehind ==
    command = "none" =>
        /\ \A i \in Live : proc_table[i].status = "RUNNING"
        /\ StacksOwned

(* The history ends with the latest MaxLines of the lines, or all of them. *)
EndsWith(history, lines) ==
    LET n == IF Len(lines) < MaxLines THEN Len(lines) ELSE MaxLines
        h == Len(history)
    IN  /\ h \in n .. MaxLines
        /\ \A i \in 0 .. n - 1 : history[h - i] = lines[Len(lines) - i]

(* What the latest command printed stands at the bottom of the history, in *)
(* order; only its oldest lines have scrolled away, and the prompt is      *)
(* right below.                                                            *)
OutputShown ==
    /\ EndsWith(terminal_history, printed)
    /\ command = "none" => prompt_y = Len(terminal_history)
=============================================================================
