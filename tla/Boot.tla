-------------------------------- MODULE Boot --------------------------------
(***************************************************************************)
(* EfiMain in bootloader/bootloader.c: loading the kernel (see Elf) and    *)
(* handing over the memory map.                                            *)
(*                                                                         *)
(* The firmware (external) owns a memory map that has a key and a length;  *)
(* allocations and the firmware's own timer events change it, and          *)
(* ExitBootServices succeeds only for the current key.  GetMemoryMap       *)
(* refuses a buffer it is told is too small and sets the size; whether it  *)
(* sets the key as well is left to the firmware.  The loader looks at no   *)
(* result before ExitBootServices but the one of load_kernel.  Sizes are   *)
(* counted in descriptors.                                                 *)
(***************************************************************************)
EXTENDS Elf

CONSTANTS
    Slack,        \* descriptors in the 4096 bytes added to the first size
    MaxLen,       \* bound on the length of the map
    MaxChanges,   \* bound on the changes of the map
    Files         \* what kernel.elf may be

ASSUME SlackAssumption == Slack \in Nat
ASSUME MaxLenAssumption == MaxLen \in Nat \ {0}
ASSUME MaxChangesAssumption == MaxChanges \in Nat
ASSUME FilesAssumption == Files \subseteq File

VARIABLES
    pc,           \* the next call of EfiMain
    kernel_file,  \* kernel.elf on the volume
    image,        \* memory from where the kernel was loaded on
    next,         \* i of the loop over the program headers
    kernel_entry, \* relative to image
    unread,       \* ghost: the segments whose Read failed
    fw,           \* the firmware's map: [key, len]
    changes,      \* how often it has changed
    mmap_size,    \* the loader's variable, in and out of GetMemoryMap
    map_key,
    capacity,     \* what was really allocated for mmap, 0 for NULL
    buf,          \* what the buffer holds: [key, len] of the map written
    info_size,    \* info->mmap_size
    exited,       \* boot services are gone
    overrun,      \* ghost: the firmware was made to write past the buffer
    burst,        \* ghost: the map outgrew the slack between two calls
    refused       \* ghost: the map when the first ExitBootServices failed

load_vars == <<kernel_file, image, next, kernel_entry, unread>>

boot_vars == <<pc, load_vars, fw, changes, mmap_size, map_key, capacity, buf, info_size,
               exited, overrun, burst, refused>>

(* No key: what map_key holds before GetMemoryMap has set it.              *)
NoKey == 0
NoMap == [key |-> NoKey, len |-> 0]

Ended == {"kernel", "hung", "crashed"}

BootInit ==
    /\ pc = "load_kernel"
    /\ kernel_file \in Files
    /\ image = << >>
    /\ next = 1
    /\ kernel_entry = 0
    /\ unread = {}
    /\ fw \in [key : {1}, len : 1 .. MaxLen]
    /\ changes = 0
    /\ mmap_size = 0
    /\ map_key = NoKey
    /\ capacity = 0
    /\ buf = NoMap
    /\ info_size = 0
    /\ exited = FALSE
    /\ overrun = FALSE
    /\ burst = FALSE
    /\ refused = NoMap

-----------------------------------------------------------------------------
(* The firmware                                                            *)

Change ==
    /\ changes < MaxChanges
    /\ changes' = changes + 1
    /\ \E n \in 1 .. MaxLen :
          /\ n \in {fw.len, fw.len + 1} \/ n + 1 = fw.len
          /\ fw' = [key |-> fw.key + 1, len |-> n]

(* An allocation changes the map or fits into what is there.               *)
MayChange == Change \/ UNCHANGED <<fw, changes>>

(* A timer event of the firmware, between any two calls of the loader.     *)
firmware_event ==
    /\ ~ exited
    /\ pc \notin Ended
    /\ Change
    /\ UNCHANGED <<pc, load_vars, mmap_size, map_key, capacity, buf, info_size,
                   exited, overrun, burst, refused>>

(* GetMemoryMap(&mmap_size, mmap, &map_key, ...).                          *)
GetMemoryMap ==
    \/ /\ fw.len > mmap_size
       /\ mmap_size' = fw.len
       /\ map_key' \in {map_key, fw.key}
       /\ UNCHANGED <<buf, overrun>>
    \/ /\ fw.len <= mmap_size
       /\ capacity = 0
       /\ UNCHANGED <<mmap_size, map_key, buf, overrun>>
    \/ /\ fw.len <= mmap_size
       /\ capacity # 0
       /\ mmap_size' = fw.len
       /\ map_key' = fw.key
       /\ buf' = fw
       /\ overrun' = (overrun \/ fw.len > capacity)

-----------------------------------------------------------------------------
(* The loader                                                              *)

(* The file does not open, it is no ELF file, nothing is to be loaded, or  *)
(* there are no pages: EfiMain stops.  Results of Read are not looked at:  *)
(* a header that was not read is what the stack held, and is refused as    *)
(* well or leads astray; so may more headers than phdrs has room for.      *)
load_refused ==
    /\ pc = "load_kernel"
    /\ pc' \in {"hung", "crashed"}
    /\ UNCHANGED <<load_vars, fw, changes, mmap_size, map_key, capacity, buf, info_size,
                   exited, overrun, burst, refused>>

Acceptable(file) == file.magic /\ Segments(file) # {}

load_kernel ==
    /\ pc = "load_kernel"
    /\ Acceptable(kernel_file)
    /\ image' = Fresh(kernel_file)
    /\ pc' = "load_segment"
    /\ MayChange
    /\ UNCHANGED <<kernel_file, next, kernel_entry, unread, mmap_size, map_key, capacity,
                   buf, info_size, exited, overrun, burst, refused>>

(* The second loop; a segment that is written past the allocated pages may *)
(* destroy what the firmware or the loader needs to go on.                 *)
load_segment ==
    /\ pc = "load_segment"
    /\ next \in DOMAIN kernel_file.phdrs
    /\ \/ next \notin Segments(kernel_file) /\ UNCHANGED <<pc, image, unread>>
       \/ /\ next \in Segments(kernel_file)
          /\ \E readable \in BOOLEAN :
                /\ image' = LoadSegment(image, kernel_file, next, readable)
                /\ unread' = IF readable THEN unread ELSE unread \cup {next}
          /\ pc' \in {pc} \cup (IF Spills(kernel_file, next) THEN {"crashed"} ELSE {})
    /\ next' = next + 1
    /\ UNCHANGED <<kernel_file, kernel_entry, fw, changes, mmap_size, map_key, capacity, buf,
                   info_size, exited, overrun, burst, refused>>

load_done ==
    /\ pc = "load_segment"
    /\ next \notin DOMAIN kernel_file.phdrs
    /\ kernel_entry' = kernel_file.entry - min_vaddr(kernel_file)
    /\ pc' = "get_size"
    /\ UNCHANGED <<kernel_file, image, next, unread, fw, changes, mmap_size, map_key, capacity,
                   buf, info_size, exited, overrun, burst, refused>>

get_size ==
    /\ pc = "get_size"
    /\ GetMemoryMap
    /\ pc' = "alloc_map"
    /\ UNCHANGED <<load_vars, fw, changes, capacity, info_size, exited, burst, refused>>

(* Mutant: the slack is added after the allocation.                        *)
alloc_map_noSlack ==
    /\ pc = "alloc_map"
    /\ mmap_size' = mmap_size + Slack
    /\ capacity' = mmap_size
    /\ MayChange
    /\ pc' = "get_map"
    /\ UNCHANGED <<load_vars, map_key, buf, info_size, exited, overrun, burst, refused>>

(* A failed AllocatePool leaves mmap NULL.                                 *)
alloc_map ==
    /\ pc = "alloc_map"
    /\ mmap_size' = mmap_size + Slack
    /\ \/ capacity' = mmap_size + Slack /\ MayChange
       \/ capacity' = 0 /\ UNCHANGED <<fw, changes>>
    /\ pc' = "get_map"
    /\ UNCHANGED <<load_vars, map_key, buf, info_size, exited, overrun, burst, refused>>

get_map ==
    /\ pc = "get_map"
    /\ GetMemoryMap
    /\ burst' = (fw.len > mmap_size)
    /\ pc' = "alloc_info"
    /\ UNCHANGED <<load_vars, fw, changes, capacity, info_size, exited, refused>>

(* With a failed AllocatePool the loader writes through an uninitialized   *)
(* pointer.                                                                *)
alloc_info ==
    /\ pc = "alloc_info"
    /\ \/ pc' = "exit" /\ info_size' = mmap_size /\ MayChange
       \/ pc' = "crashed" /\ UNCHANGED <<info_size, fw, changes>>
    /\ UNCHANGED <<load_vars, mmap_size, map_key, capacity, buf, exited, overrun, burst, refused>>

exit_boot_services ==
    /\ pc = "exit"
    /\ IF map_key = fw.key
       THEN pc' = "kernel" /\ exited' = TRUE /\ UNCHANGED refused
       ELSE pc' = "get_map_again" /\ refused' = fw /\ UNCHANGED exited
    /\ UNCHANGED <<load_vars, fw, changes, mmap_size, map_key, capacity, buf, info_size,
                   overrun, burst>>

(* Mutant: the map is not read again.                                      *)
get_map_again_skipped ==
    /\ pc = "get_map_again"
    /\ pc' = "exit_again"
    /\ UNCHANGED <<load_vars, fw, changes, mmap_size, map_key, capacity, buf, info_size,
                   exited, overrun, burst, refused>>

get_map_again ==
    /\ pc = "get_map_again"
    /\ GetMemoryMap
    /\ pc' = "exit_again"
    /\ UNCHANGED <<load_vars, fw, changes, capacity, info_size, exited, burst, refused>>

(* Mutants: the result is not looked at; the retry is repeated for ever.   *)
exit_again_unchecked ==
    /\ pc = "exit_again"
    /\ pc' = "kernel"
    /\ exited' = (map_key = fw.key)
    /\ UNCHANGED <<load_vars, fw, changes, mmap_size, map_key, capacity, buf, info_size,
                   overrun, burst, refused>>
exit_again_repeats ==
    /\ pc = "exit_again"
    /\ IF map_key = fw.key
       THEN pc' = "kernel" /\ exited' = TRUE
       ELSE pc' = "get_map_again" /\ UNCHANGED exited
    /\ UNCHANGED <<load_vars, fw, changes, mmap_size, map_key, capacity, buf, info_size,
                   overrun, burst, refused>>

exit_again ==
    /\ pc = "exit_again"
    /\ IF map_key = fw.key
       THEN pc' = "kernel" /\ exited' = TRUE
       ELSE pc' = "hung" /\ UNCHANGED exited
    /\ UNCHANGED <<load_vars, fw, changes, mmap_size, map_key, capacity, buf, info_size,
                   overrun, burst, refused>>

Loader ==
    \/ load_kernel \/ load_refused \/ load_segment \/ load_done \/ get_size
    \/ alloc_map \/ get_map \/ alloc_info \/ exit_boot_services \/ get_map_again \/ exit_again

BootNext == Loader \/ firmware_event

(* EfiMain is straight-line code: it keeps going while the firmware's      *)
(* events interrupt it.                                                    *)
BootSpec == BootInit /\ [][BootNext]_boot_vars /\ WF_boot_vars(Loader)

-----------------------------------------------------------------------------
(* Properties                                                              *)

BootTypeOK ==
    /\ pc \in Ended \cup {"load_kernel", "load_segment", "get_size", "alloc_map", "get_map",
                          "alloc_info", "exit", "get_map_again", "exit_again"}
    /\ kernel_file \in Files
    /\ unread \subseteq Segments(kernel_file)
    /\ next \in Nat /\ kernel_entry \in Int
    /\ fw \in [key : Nat, len : 1 .. MaxLen]
    /\ buf \in [key : Nat, len : 0 .. MaxLen]
    /\ mmap_size \in Nat /\ capacity \in Nat /\ info_size \in Nat /\ map_key \in Nat
    /\ changes \in 0 .. MaxChanges
    /\ exited \in BOOLEAN /\ overrun \in BOOLEAN /\ burst \in BOOLEAN
    /\ refused \in [key : Nat, len : 0 .. MaxLen]

(* The kernel that is entered is the one in the file: a readable file in   *)
(* the ELF format whose headers all fit is in memory as it was linked,     *)
(* file bytes and cleared rest of every segment, whatever order and gaps   *)
(* the segments have, and the entry point is the linked one.  A segment    *)
(* that could not be read, or was overwritten by another one, is entered   *)
(* all the same.                                                           *)
ImageExact ==
    pc = "kernel" =>
        /\ kernel_file.magic
        /\ LET At(v) == v - min_vaddr(kernel_file)
           IN  \A i \in Segments(kernel_file) :
                  LET p == kernel_file.phdrs[i]
                  IN  /\ unread = {} /\ WellFormed(kernel_file)
                         /\ Len(kernel_file.phdrs) <= MaxPhdrs =>
                            \A v \in p.vaddr .. p.vaddr + p.memsz - 1 :
                                image[At(v)] = Linked(p, v)
                      /\ Covers(p, kernel_file.entry) => kernel_entry = At(kernel_file.entry)

(* Memory that was not allocated for the kernel is overwritten only for a  *)
(* file whose segment is longer than its memory, which the loader does not *)
(* compare.                                                                *)
SpillNeedsLongSegment ==
    image # << >> =>
        \/ \A a \in DOMAIN image \ Allocated(kernel_file) : image[a] = Before
        \/ \E i \in Segments(kernel_file) :
              kernel_file.phdrs[i].filesz > kernel_file.phdrs[i].memsz

(* The kernel is entered only after boot services have ended, and unless   *)
(* the loader had no buffer or was refused the map (it grew by more than   *)
(* the slack, or beyond its first length before the retry), the buffer     *)
(* holds the firmware's final map and the size misses no descriptor of it; *)
(* without a retry the size is exact.                                      *)
KernelGetsCurrentMap ==
    pc = "kernel" =>
        /\ exited
        /\ ~ burst /\ capacity # 0 /\ fw.len <= info_size =>
              /\ buf = fw
              /\ refused = NoMap => info_size = fw.len

(* The loader passes GetMemoryMap a size larger than the buffer only if    *)
(* the map grew by more than the slack between the first two calls.        *)
OverrunNeedsBurst == overrun => burst

(* The retry fails only if the map has changed again since the first       *)
(* ExitBootServices, or is longer than the one read before it (the size    *)
(* passed is that of the old map, not of the buffer), or there is no       *)
(* buffer.  In every other case the second attempt enters the kernel.      *)
RetryFailureExplained ==
    pc = "hung" /\ refused # NoMap =>
        fw # refused \/ fw.len > info_size \/ capacity = 0

(* The loader always comes to an end: in the kernel or in an endless loop. *)
LoaderEnds == <>(pc \in Ended)
=============================================================================
