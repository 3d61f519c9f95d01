# OS44 in TLA+

TLA+ models of OS44, an x86-64 kernel with its own UEFI boot loader, the TLC
runs that check them on small instances and TLAPS proofs for every instance.
Paths below are relative to the repository; `mem/pmm.c` stands for
`src/kernel/modules/mem/pmm.c`. PROJECT.json maps every definition to the lines
it models and lists the hazards each property is for.

## 1. Inventory

| Component | State | Operations | Used by |
|---|---|---|---|
| Boot loader (`bootloader.c`) | memory map, its size and key, BootInfo | load the ELF kernel, read the map, leave boot services, call the kernel | starts the kernel |
| Physical memory manager (`mem/pmm.c`) | `pmm_bitmap`, `total_frames` | init, alloc, free, count | heap, page tables, VMM, panels |
| Heap (`mem/mem.c`) | `total_ram_bytes`, a header in each block | init, alloc, free | framebuffer's back buffer |
| Page tables (`mem/paging.c`) | firmware's tables from cr3, tables of its own, a `ref_count` each | map, unmap, look up | VMM |
| Virtual memory (`mem/vmm.c`) | VMA list, array of 128 nodes, `next_vaddr` | alloc, free | processes, shell, self-test |
| Processes (`process/process.c`) | table of 16 PCBs, `last_time` | create, kill, clean up, scheduler | shell, main loop |
| Timer (`timer/timer.c`) | ticks, seconds | IRQ0 handler, reads | scheduler, main loop, panels |
| Interrupts (`interrupts/`) | GDT, IDT, 8259 masks | set-up, dispatch, EOI, panic | everything |
| Keyboard (`keyboard/`) | shift, caps lock | 8042 set-up, IRQ1 handler | - |
| Kernel (`kernel.c`) | start-up order, `last_tick` | start-up, self-tests, main loop | - |
| IDE (`ide/`) | detected drives | detect, identify, read, write | start-up, shell, panel |
| PCI (`pci/`) | device array and count | scan | start-up, panel |
| Framebuffer (`framebuffer/`) | screen, back buffer | draw, swap | panels, panic, shell |
| Debug panel, start-up panel | frame counter | draw | main loop; - |
| Shell (`shell/`) | `cmd_buf`, history, prompt position | edit a line, execute it | - |
| System information (`sysinfo/`) | firmware vendor and revision | CPUID, memory usage | panels |
| String routines (`string.c`) | - | `memcpy`, `memset` | everything |

Everything runs on one processor and one thread. Concurrency comes from the
IRQ0 and IRQ1 handlers, which cut in between any two instructions of the main
thread and touch only the tick counters and the keyboard; the memory managers
and the process table belong to the main thread. There are no processes in the
sense of threads: a process is a table entry with memory and a run time, and
nothing switches to it. A CPU exception may come at any instruction; its report
ends everything. At this commit nothing calls `shell_putc` and the Makefile does
not build `shell.c`, so processes are created and killed through the API only;
the shell is modelled as its source stands.

What is hard here: memory managers whose bookkeeping lives in the memory they
manage (heap headers, page-table reference counts) and whose callers ignore
failure; state inherited from the firmware (page tables, large pages, memory
map) that the kernel does not own but modifies; the hand-over of the memory map
while firmware events change it; files whose headers nobody checks; a clock that
changes while it is being used; interrupts latched before the kernel is ready; a
picture that is looked at, or frozen by an exception, while it is drawn or
copied; a command line that keeps what was typed before; arrays and loop
counters at their limits.

What makes each part correct: a frame belongs to one owner and none is lost
(PMM); a block is the memory it spans (heap); a page is mapped to the frame
taken for it, tables live exactly as long as they have entries, and firmware
mappings stay (page tables); regions are disjoint and what is freed is what was
allocated (VMM); PIDs are unique, stacks follow the table, each second is
charged once (processes); no handler before its devices, no interrupt lost for
good, no half-drawn screen (kernel, framebuffer); memory holds the kernel as it
was linked, and the kernel gets the map that was current when boot services
ended (boot loader); a successful transfer moved the sectors asked for (IDE);
the list holds every function there is, unless something explains why not (PCI);
a command does what was typed and leaves nothing behind (shell).

## 2. Modules

| Module | Models | Built on |
|---|---|---|
| `FrameAllocator` | what a frame allocator promises (abstract) | |
| `PmmBitmap` | the bitmap of `pmm.c` as operators | |
| `Pmm` | `pmm.c` with clients | `PmmBitmap`, refines `FrameAllocator` |
| `Heap` | `mem.c` and single-frame clients on one bitmap | `Pmm` |
| `Mem_proofs` | theorems about `Pmm` and `Heap` | |
| `Paging` | `paging.c` as operators on physical memory; the processor's walk | `PmmBitmap` |
| `RegionAllocator` | what an allocator of address ranges promises (abstract) | |
| `Vmm` | `vmm.c` on `Paging` and the bitmap; owners that store | `Paging`, refines `RegionAllocator` |
| `Firmware` | what `vmm.c` and `paging.c` rely on in the firmware's tables and map (external) | `Vmm` |
| `Paging_proofs` | lemmas about the page tables and the loops of `vmm.c` that drive them | `Firmware` |
| `Vmm_proofs` | theorems about `Vmm` | `Paging_proofs` |
| `Timer` | the counters of `timer.c` | |
| `Process` | `process.c`, interrupted by the timer | `Timer`, `RegionAllocator` |
| `Shell` | `shell.c`: line editor, history, commands | `Process`, `RegionAllocator` |
| `Shell_proofs` | theorems about `Process` and about `Shell` | |
| `Elf` | placement of the kernel's segments, as operators | |
| `Boot` | `load_kernel` and the memory-map protocol of `EfiMain`; the firmware (external) | `Elf` |
| `Boot_proofs` | theorems about `Boot` and `Elf` | |
| `Kernel` | `kernel_main`, IRQ0, IRQ1, panic, front and back buffer; 8259, 8253 and 8042 (external) | `Timer` |
| `Kernel_proofs` | theorems about `Kernel` | |
| `Ide` | `ide.c`; the drives (external) | |
| `Ide_proofs` | theorems about `Ide` | |
| `Pci` | the scan of `pci.c`; configuration space (external) | |
| `Pci_proofs` | theorems about `Pci` | |
| `MC*` | constants of the TLC instances; `MCVmmHuge` is the one whose firmware does not meet `Firmware`'s assumptions | |

### Correspondence

*Addresses.* A physical address is its frame number, a virtual address its page
number. `NULL` is frame 0, so the code's double use of address 0 is in the
model. Sizes keep the rounding of the code (`Pages`); request sizes given to
`vmm_alloc` are page counts, the rounding there being a single expression.

*Pmm.* `pmm_bitmap` is the set of frames whose bit is 1; the operators take the
bitmap and return the new one, because three state machines call them. `mmap`
is the map given to `pmm_init`; `held` is a ghost, what clients own. Clients
free what they hold, once, as all callers in the kernel mean to do.

*Heap.* `header` is the first word of every frame: `mem_alloc` writes a page
count there, and the owner of a block overwrites the first words of all the
other frames its addresses fall into (`fill`), its own or not. `blocks` is a
ghost that records which frames were really taken. `intact` says that every
block so far was consecutive, `fresh` that nothing has been freed.

*Paging.* `struct PageTable` is 512 entries and then a `ref_count`, 4104 bytes,
and a table gets one 4096-byte frame. `ref_count(m, t)` is therefore the first
word of frame `t + 1`: in the model, as in the code, a count may be an entry of
another table, a word of somebody's page or firmware data. Words wrap at
`WordCount`. Since `MAX_MEM` is 2^32, the 32 bits of the count are exactly the
words of frames below `MAX_MEM`. `Translate` is what the processor does with
the same tables: it honours the PS bit, which `paging.c` does not test. Writes
through a NULL table go to frame 0 (`wild`) and may or may not fault there.
`Levels` are the tables as the processor finds them, level by level. `shared`
(ghost) is set when a frame is taken that holds the count of a table, or a table
whose count would lie in a frame in use. It has to be recorded at that moment: a
table that lands just below its own parent clears the parent's first entry with
its count, and afterwards nothing overlaps any more.
`invlpg` follows every change, so no stale translation is modelled.

*Vmm.* `vmm_alloc` is one action: the loop over pages, with the bitmap and the
tables threaded through, the node if one is left, the bump pointer; on
exhaustion it stops where the code stops and leaves what it has mapped.
`vmm_free` is the search, the loop and the unlinking. `store` is an owner's
write, translated by the processor. `history` records mishaps (ghost), so that
properties can say exactly under which circumstances they hold. One mishap is
there from the start: firmware tables have no reference count. Where the word
behind one is zero, unmapping a single page releases the firmware's table and
with it the kernel's own mapping; where it is so large that counting the
kernel's entries wraps it around, the same happens later (`uncounted`).

*Firmware.* What the code takes for granted and never checks: the tables it
finds in cr3 are a tree that the memory map does not offer as free, nothing is
mapped yet at the addresses the VMM hands out, and the kernel's page is mapped
where it was loaded. `NotMapped` is the strongest of these: `next_vaddr` is
256 MB, and firmware that maps low memory with large pages beyond that does not
meet it. `vmm_huge` shows what happens then. `WindowAssumption` keeps a history
from wrapping around the four indices of a 48-bit address.

*Process.* The scheduler is two actions, the read of the clock and the update,
because the timer interrupt may fall between them; all other calls are one.
`born` (ghost) is `last_time` at creation. Memory is the abstract
`RegionAllocator`, which `Vmm` is shown to implement, with refusal at any time.
`kill_proc(0)` is included: it finds an unused slot. The result of `vmm_alloc`
is not looked at by `process_create`: a process may be in the table without a
stack.

*Shell.* `cmd_buf` is the whole array, with what earlier lines have left in it,
and a command is parsed from it as the code does: three words by prefix, the
others by `strcmp`, an argument at a fixed cell even when the line ends before
it. `line` (ghost) is what an ideal editor would hold. A history line is what
it is: prompt, text, response. Where `append_str` is given the address of `msg`
instead of a position in it, nothing is appended, and the line is what the stack
held (`"stack"`). `help` copies 100 bytes into an array of 80, which may lose
the kernel (`crashed`). A command that calls into process or memory management
and goes on is two actions, so that a step is one such call.

*Pci.* A machine is the set of functions that answer and the devices marked
multifunction; an absent function reads as all ones, which sets the multifunction
bit. A step is one function number of one device: `check_device` goes on to the
others (`LastFunction`) only on a device marked multifunction. `Real` is the
reference definition of a function.

*Boot.* One action per boot-service call that matters, a `firmware_event`
between any two of them, sizes in descriptors. The loader ignores results of
`GetMemoryMap` and `AllocatePool`; so does the model. UEFI does not say whether
a refused `GetMemoryMap` sets the key: both are allowed. `load_kernel` stands for
that function up to its `AllocatePages`; then `load_segment` is one program
header, its `Read` and the clearing behind it, and any of the reads may fail. A
byte of the image is zero, a byte of the file by its offset, or what memory held
before (`Elf`). `load_refused` is everything that stops the loader, or leads it
astray, before.

*Kernel.* `step` walks through the calls of `kernel_main` in order; the calls
that touch interrupts or their devices are actions of their own, the others are
`other_init`. An IRQ handler is one step (interrupt gates keep IF clear). The
8259 latches edges also while masked and is reset by `pic_remap`. The screen and
the back buffer say for each row what it shows. `debug_panel_render` clears the
buffer and draws downwards, `fb_swap_buffers` copies downwards, a row a step, so
interrupts and exceptions fall in between. `panic_report` draws where everything
else is drawn, and stops for good.

*Ide.* A call is its command, then for each sector a poll and a transfer of 256
words, each an action, with the drive's steps between any two. Data is
represented by its origin, so a buffer shows which sector of which drive it came
from. Registers keep the low bits of sector number and count. A drive takes any
time, fails at any command, or never answers; a busy drive ignores a command,
and ATA leaves open what one with a pending data request does, so both are
allowed. Drives of a channel are independent of each other. The writes to
`IDE_PRIMARY_CTRL + 2` and `IDE_SECONDARY_CTRL + 2` reach ports 0x3F8 and 0x378,
not the drives, and are left out; IRQ 14 stays masked. `sectors` records where
the IDENTIFY words came from. Which of them `total_lba28` picks is not modelled:
in the packed struct it lies at byte 115, whereas ATA has the figure at byte 120.

## 3. Runs

| Run | Question | Result |
|---|---|---|
| `pmm` | Are frames conserved, NULL unambiguous, and is the abstract allocator implemented? | holds |
| `heap` | Is the heap sound while blocks are consecutive, and what can scatter one? | holds |
| `heap_scatter` | Are a block's pages always frames taken for it (mem.c:65)? | violated |
| `vmm` | Regions backed, counts right, nothing leaked, kernel mapped, ranges disjoint? | holds, under the stated circumstances |
| `vmm_refcount` | Does every table count its entries (paging.c:35)? | violated |
| `vmm_huge` | Does freeing a region free its frames (vmm.c:54) when firmware uses large pages there? | violated |
| `process` | PIDs, stacks, run times, under interrupts; is every second charged? | holds |
| `boot` | Is the kernel in memory the one that was linked, which map does it get, when does the retry fail, does the loader end? | holds |
| `ide` | What does a successful read or write mean, when does a drive get a command too early, does every call return? | holds, under the stated circumstances |
| `kernel` | Order of start-up, tick arithmetic, what the screen shows, every tick and key served? | holds |
| `shell` | Is the editor exact, the process typed the one killed, nothing left behind, output kept? | holds |
| `pci` | Is the list sound, what can be missing from it, does the scan end? | holds |

The violations are disagreements between a comment and the code, each quoted in
PROJECT.json. The passing runs say what remains true beside them. `vmm` assumes
in its invariants only what the mishap flags record: `RegionsBacked`,
`NoLeak`, `RefCountExactApart` and `KernelStaysMapped` are about histories in
which no frame was taken that shares a reference count, and the words behind the
firmware's tables could count (`CountsApart`).
On a machine whose free memory is one run of frames they overlap at once
(`vmm_refcount`); the instance with gaps between usable frames, which a UEFI
memory map may well have, is where the rest of `paging.c` can be judged.
`RegionsBacked` also ends where a frame for a table is refused (`starved`):
`paging_map` returns void, and `vmm_alloc` reports success for a page that is
not mapped.

`ide` states what a result of 0 is worth. `ReadExact` and `WriteAllButLast` need
the drive to have been idle when it got the command (`op.clean`);
`CleanUnlessGaveUp` says that only a poll that gave up breaks this, and after a
write one always does, since a flush never requests data. All but the last
sector is the most a successful write promises.

`kernel` shows both sides of double buffering. `ScreenWhole` holds wherever an
exception strikes, because a picture is complete before its first row is copied;
but the report of an exception goes to the back buffer as well, is never copied
and never seen.

`boot`: `ImageExact` needs a file in the ELF format (segments that do not
overlap and are at least as long in memory as in the file) with at most 16
headers, and reads that succeed; the loader checks none of these.

`shell`: a bare `pkill` is excluded from `KillsAsTyped`, because the code then
takes the PID from an earlier line. `pci`: bus 255 is never scanned
(`MissingExplained`).

The type invariants of `Pmm`, `Heap`, `Process`, `Boot`, `Vmm` and `Kernel` are
proved, that of `Ide` is a part of `IdeInv`. None of them is in a run, as they say nothing about the code.

Every property has a mutant: an operator `X_mutation` beside the definition `X`
that contains a plausible slip. With the slip TLC finds the property violated.

### Bounds

- `pmm`: 10 frames, 2 reserved. Six maps: none, all (with frame 0), a hole,
  overlapping descriptors, across and wholly beyond `MAX_MEM`. All interleavings
  to exhaustion.
- `heap`: 8 frames, page size 4 units, header 1, requests 3, 4 and 8, so that a
  request fits exactly, needs one page more because of the header, and needs
  three; at most three blocks. Once a block is scattered the promises lapse and
  its successors are not explored (`UntilScattered`).
- `vmm`: tables of 4 entries and 4 levels (256 pages of address space), 23
  frames. History starts at page 14, so that its second region is in another
  page table, or at 62, where a second page directory and a second PDPT are
  needed within six pages; regions of one and two pages, three nodes. Six
  memories: eight frames with gaps; five with gaps and a present entry in frame 0
  (so that a NULL table is walked through); six with gaps and zeros, or words of
  all ones, behind the firmware's tables; four of which two are adjacent, so that
  a table may land just below its parent; eight in a run.
- `process`: 3 slots, 3 regions' worth of addresses, 4 ticks at 2 per second,
  so two seconds pass while processes come and go.
- `boot`: pages of two bytes, room for three headers, two bytes behind the pages;
  files with segments in ascending and in descending order with a gap and a
  cleared rest, overlapping, longer than their memory, with a header too many,
  with nothing to load, and no ELF file. Maps of up to 4 descriptors, slack for
  1, 3 changes: enough for a burst beyond the slack and for a change before the
  first and before the second `ExitBootServices`.
- `kernel`: 6 timer edges (three pictures), 3 keyboard bytes, 3 rows.
- `shell`: a buffer of 12 cells, 3 history lines (fewer than most commands
  print), 2 processes, 17 scripts in any order and without a bound on their
  number: every command, corrected, erased, overlong, unknown and empty lines,
  arguments 1 and 2 and one that wraps around (`NumberSpace` is 8 there). The
  clock stands still: run times are in `process`.
- `pci`: 4 buses, 2 devices, 2 functions, an array of 3; all 4096 machines with
  any of nine functions and any of three markings.
- `ide`: one drive of 4 sectors, a floating channel, a count register with two
  values (2 is its 0, 3 does not fit), transfers of 0 to 3 sectors from sector 1
  and from one that does not fit the register, two status reads per poll. Calls
  are not bounded.

`MaxPages`, `MaxVaddr`, `MaxTicks`, `MaxBlocks`, `MaxLen`, `MaxChanges`,
`MaxPit` and `MaxKeys` are bounds of the instances, not of the code. Deadlock is
checked except where the system may stop: `boot` and `pci` end, `kernel` halts
after an exception, `vmm` after a panic or at the bound on addresses, and `shell`
when `help` has overwritten the stack.

### Fairness

- `Process`: weak fairness of the scheduler's two steps. The main loop calls the
  scheduler in every iteration, and handlers return.
- `Boot`: weak fairness of the loader, straight-line code under a firmware whose
  events end.
- `Kernel`: weak fairness of the main thread and of each handler. The processor
  takes an offered interrupt, and a handler is far shorter than the 10 ms
  between two edges. The devices are not fair: nothing requires a key. Exceptions
  are not fair either, and the liveness properties end with one.
- `Ide`: weak fairness of the driver. Drives are not fair.
- `Pci`: weak fairness of the scan, a loop without waiting.
- `Shell`: none; nobody has to type.

## 4. Proofs

`Mem_proofs`, first part (`Pmm`, for every number of frames, reserve of at least
one frame and set of maps). The inductive invariant is type correctness and `FrameAccounting`: the
clear bits are the usable frames no client holds. `FrameAccounting` needs
`held \subseteq Usable(mmap)` to be inductive, which is its first half. From it:
`PmmTypeCorrect`, `PmmAccounting`, `PmmFreeCount` (by cardinality of a
difference), `PmmNullMeansExhausted` (here the reserve matters: frame 0 is never
clear) and `PmmRefinement`, which maps the pool before `pmm_init` to all usable
memory, so that `pmm_init` is a stuttering step.

`Shell_proofs`, first part (`Process`, for every table size, stack size and first address). The
inductive invariant adds two facts to the four properties: `RegionsBelow`,
regions lie below `next_vaddr`, so a new one is new; and `CopyBehindClock`, the
scheduler's copy of the clock is never ahead of the clock, and not behind
`last_time` when it is about to be used. `ProcessTypeCorrect`,
`ProcessPidsUnique`, `ProcessStacksOwned`, `ProcessRunTime` and the action
property `ProcessDeadStayDead` follow.

`Vmm_proofs`, first part (for every size of memory and of tables, node count and
first address). The inductive invariant `VmaInv` is `VmaListSound` and the types
of the list, the bump pointer and the regions. It does not mention the page
tables or the bitmap, nor use anything `Firmware` assumes: whatever they answer,
also after the mishaps the violation runs show, address ranges are disjoint. What
is needed is about sequences: `WithoutProperty` (the list without one node) and
`InFront` (a node put at the head). `SameAddress` says that an address names one
region, so `vmm_free` unlinks the node of the region it was given. `VmmListSound`
and `VmmRefinement` follow.

`Paging_proofs` (for every size of memory and of tables, and every firmware
memory that `Firmware` admits) is about machines, before any state machine. None
of the four properties of `Vmm` that look into memory is inductive: a page stays
mapped only if no other walk passes through its entry, a table is released at the
right moment only if its count is right, and a count is right only if nothing else
is stored in its word. `TreeInv(m, b, K)` says all of this at once of a machine
`m`, the firmware's memory `b` and a family `K` of tables by level:

- `TreeShape`: `K` is what the processor finds, the levels are disjoint, and no
  two entries lead to the same table (`LinksUnique`);
- `TablesOwned`, `LinksOwned`, `LeavesOwned`: a table is the firmware's or in a
  frame that is in use; an entry the kernel made leads to a table the kernel
  made, or maps a page in use that is no table and mapped once;
- `FirmwareKept`: the firmware's entries are as it left them;
- `CountsClear`: the word behind a table is in no table and in no frame in use;
- `CountsExact`: that word is what was there before, plus the number of entries
  the kernel has added. For a table of the kernel's that is the number of its
  entries.

`b` has to be in the invariant, because `paging.c` counts its entries in firmware
tables on top of what it finds there, and these tables survive exactly as long as
that sum is not zero. `TakeTree`, `LeafTree`, `AddTree` and `DropTree` say
that one change keeps the tree; `MapPage` and `UnmapPage` compose them along the
four levels, a walk being a `Chain` of tables. `NoneEmpty` (no table without
entries) is kept apart, since it fails where a request runs out of frames halfway.
`MapWild` says that no NULL table is dereferenced before one was refused. The
loops of `vmm_alloc` and `vmm_free` are recursive functions; `LoopRuns` shows that
they exist, and `MapPagesProperty` and `UnmapPagesProperty` follow from a least
turn that goes wrong.

`Vmm_proofs`, second part. `MemoryInv` joins the two: `VmaInv`, the types, and
`Sound`, which says that the machine has a tree; that until a table is refused a
frame the pages of each region are mapped to its frames (`LiveMapped`), which the
tree keeps apart (`FramesApart`); and that, when nothing has gone wrong, nothing
else is in use but tables, and none of these is empty. Each conjunct ends with the
mishaps that end it in the code.
`AllocSound`, `FreeMemory` and `StoreMemory` are its steps; a store is harmless
because the processor finds the same frame the kernel does (`TranslateMapped`).
`VmmTypes`, `RefCountsExact`, `OwnersBacked`, `NothingLeaks` and
`KernelKeepsItsPage` follow. Two statements turned out to be too strong when their
proof was tried. That counts are right as long as none overlaps anything *at the
end of a call* is false, see `shared` in section 2. And a word behind a firmware
table that is merely not zero may still wrap around to zero, which is why
`uncounted` speaks of both ends; the third and fourth memories of `vmm` are there
for the two cases and the fifth for the overlap.

`Kernel_proofs` (for every number of ticks per second, timer edges, keys and
rows). `TickInv`, the counters' types and `TickCopiesOrdered`, is inductive; the
lemma `DivStep` says when one more tick makes one more second. `StartInv` says
that the calls before `step` have been made and that the interrupt flag is set
only after `sti`, which follows all device initialisers; with it
`KernelHandlersReady` is a fact about one step. `KernelScreenWhole` rests on
`ScreenInv`: `ScreenWhole` looks at the screen only and is not inductive, as the
rows copied next are those of the back buffer. `ScreenInv` adds what the back
buffer holds while a picture is drawn (the rows above `row`) and copied (all of
them), that the split in the screen is at `row`, and that nothing is drawn
before the call that may turn double buffering on. `KernelTypeCorrect` joins the
three invariants with the types of the devices (`Devices`).

`Mem_proofs`, second part (`Heap`, for every memory map, page and header size
and set of requests).
`HeapInv` ties three things together: the bitmap of `Pmm`, the blocks and the
headers in memory. `BlocksSound` is not inductive alone: that a new block meets
no old one follows from `FramesCounted` (the frames that are not free are those
of blocks and of other clients), and that `mem_free` gives back the right frames
from `BlocksOwned` (while `intact`, a block starts at its header, its frames were
taken for it and the header still has their number). `HighestFree` says where
the next frame comes from as long as nothing has been freed; with it
`ScatterCauses` is a fact about one `mem_alloc`. `Takes` and `ConventionalPages`
are recursive functions. What they return for every number of pages is proved by
contradiction from a least counterexample, once that the function exists
(`TakesLoop`, `RunningTotal`) and once that it does what its step does
(`TakesProperty`, `TakesInRow`, `PagesCounted`). `UsageNeverNegative` is then a
matter of counting frames: descriptors may overlap, so there are at most as many
usable frames as conventional pages. Nothing is claimed of a heap with a
scattered block, beyond what scattered it; `heap_scatter` shows why.

`Boot_proofs` (for every set of files, every map length and every number of
changes). Two inductive invariants. `ImageInv`: the segments read so far are in
memory as they were linked (`SegmentsLoaded`) and nothing outside the pages was
touched unless a segment is too long (`NoSpill`). The step needs that segments of
a well-formed file do not overlap, in whatever order they come, and that the
number of pages is enough for the last byte of the highest one (`RoundUp`), and
on the way what the two loops over the headers find (`MinVaddr`, `MaxVaddr`).
`HandoverInv`: the key the loader holds is never newer than the firmware's, an
equal key means an equal map (`KeysInv`), and what the buffer holds follows from
how often the map has changed since the size was read (`MapInv`, `MapRead`);
each of the three properties of the hand-over is then read off at one `pc`.

`Pci_proofs` (for every number of buses, devices and functions, every array size
and every machine). `ListSound` needs `ListBehind`: what is listed lies before
the point the scan has reached, so the next function is listed once and last.
`MissingExplained` is about the end of the scan; `PassedListed` is what it means
on the way, a real function behind the scan is in the array or the array was
full before it. `check_device` skips a device whose function 0 does not answer
and the others of a device not marked multifunction; `Real` is what it does not
skip, which is the content of `CheckFunctionInv`.

`Ide_proofs` (for every number of sectors, every width of the registers, every
set of drives and every poll limit). `IdeInv` relates the two sides of a
transfer. `Progress` says how far the driver is, `Tracking` that a drive which
was idle at the command wants or offers the very sector the driver is at,
`ReadSoFar` and `WrittenSoFar` what has been moved by then, and `DrivesAtRest`
that only a poll that gave up leaves a drive busy behind. It holds for calls
with `op.clean`, and `CleanUnlessGaveUp`, which is inductive with
`DrivesAtRest`, says when a call is one. `IdeReadExact` and
`IdeWriteAllButLast` are the invariant at the point of return.

`Shell_proofs`, second part (`Shell`, for every length of the buffer and of the history, every table,
stack and test region, and whatever may be typed). `ShellInv` has three parts that
do not need each other's help, except that what a command prints depends on the
buffer. `EditorInv` is `LineEditorExact` with types. `OutputInv` is `OutputShown`
with types; its step is `LinesAdded`, an invariant of the loop over the lines.
`MemoryInv` is `NothingLeftBehind` together with what holds between the two calls
of a command: after `kill_proc` the dead process still has its slot and its
stack, and while `testmem` has its memory that region is the latest and the only
one beside the stacks, so that `vmm_free` gives back that one. The process table
comes with `ProcessInv`, which `ProcessStepInv` preserves through whatever the
shell calls. `KillsAsTyped` is one step of `pkill` and `ArgumentTyped`: `atoi`
stops at the terminator of the line at the latest, so it reads what was typed and
nothing behind it, provided the line is longer than the word. `ValueIsNat` and
`LinesAdded` are about recursive functions; both use `LoopRuns` (the loop can be
run) and `LoopInvariant`.

Assumptions: constants have the types and the least sizes the code gives them
(at least one reserved frame, two buses, one function, tables of two entries), each named in the module that declares it. No theorem assumes anything
about a state. The theorems about the machine in `Vmm_proofs` also use
`FirmwareAssumption` and `WindowAssumption`: they say nothing about firmware whose
tables are not a tree or whose large pages cover the VMM's addresses. TLC evaluates
both for the memories of `vmm` and `vmm_refcount`.

Only model-checked: liveness (`SecondsCharged`, `LoaderEnds`, `ScreenKeepsUp`,
`TicksServed`, `KeysServed`, `CallsReturn`, `ScanEnds`), which needs fairness
and ENABLED.

## 5. Not modelled

- Interrupts: the GDT, register save and restore in `isr.asm`, serial output,
  the PIT divisor. The 8042's dialogue in `keyboard_init` is one action with its
  three outcomes, because interrupts are disabled and nothing else runs; scan-code
  decoding has no effect (the character is dropped).
- Text and pixels: what the panels, the shell and the panic report write, glyphs,
  colours, CPUID. `startup_panel.c` has no caller. `pci_class_name` is a table.
- `string.c`: what `memcpy` and `memset` do is part of each model that copies or
  clears; their unrolled loops hold no state.
- PCI registers other than vendor and header type. (`pci_read_device` takes
  `command` and `status_reg` from offset 0x0C, which is cache line size to BIST;
  the standard has them at 0x04. Nothing in the repository reads the two fields.)
- `ide_irq_handler`, `ide_wait_ready`, `pci_config_write` and
  `fb_draw_filled_circle`, which have no caller.
- Relocations: the ELF loader applies none and neither does the model.
  `ImageExact` is about bytes and the entry point relative to where the kernel
  was loaded.
- Registers and stack contents: where the code reads an uninitialised variable
  (`append_str` in the shell, a header that was not read), the model has a value
  of its own or lets the behaviour go astray.

## 6. Plan

Every component with state of its own is modelled, and every safety property
that a passing run checks is proved. What remains is a firmware that maps the
VMM's addresses with large pages (`vmm_huge`): what still holds there beside
`VmmListSound` and `VmmRefinement`.
