# HydraOS in TLA+

A verification development of the HydraOS kernel: TLA+ modules of the parts of the
kernel that have behaviour worth exploring, TLC runs over small instances of them,
and machine-checked proofs, for every instance, of the safety of the heap, the
filesystem, the shell's file commands, the disk driver, the interrupts, keyboard and
mouse, the screen and line editor, and the task switch. `PROJECT.json` lists the
components, the runs, the line of code each definition stands for, the hazards and
the theorems; this file explains them.

Paths below are relative to the repository (`src/memory.cpp` and so on).

## 1. The system

HydraOS is one program: no processes, no user mode, no scheduler at work.
`kernelMain` (src/kernel.cpp) constructs every component on its stack, activates
the drivers, enables interrupts, prints a banner and spins. From then on
everything happens in interrupt handlers: the timer counts, the mouse moves a
cursor, and the keyboard handler runs the shell, whose commands run the
filesystem, which runs the disk driver, all inside one keyboard interrupt.

Every entry of the descriptor table is an interrupt gate, so handlers run with
interrupts off and never overlap. Four things are concurrent all the same:
devices work and raise lines while the kernel runs; the disk works while its
driver polls; the power may go at any moment; and `kernelMain` goes on printing
for a while after it has enabled interrupts.

| component | state | operations | talks to |
|---|---|---|---|
| memory manager (src/memory.cpp) | list of chunk headers in the heap | malloc, free | called by filesystem, shell, system calls |
| filesystem (src/filesystem.cpp) | mounted flag, superblock, inode table; their copies and the data on disk | Format, Mount, Unmount, CreateFile, OpenFile, DeleteFile, ReadFile, WriteFile, list | disk driver, heap |
| ATA driver (src/drivers/ata.cpp) | none of its own; the drive's status, command, cache | Read28, Write28, Identify, Flush | drive, through ports |
| interrupt manager (src/hardwarecommunication) | handler table, active manager, the stub's number byte, the controllers | register, Activate, dispatch, acknowledge | every driver, system calls |
| timer (src/drivers/pit.cpp) | tick count | interrupt, GetMilliseconds, Sleep | interrupt manager, shell |
| system calls (src/syscalls.cpp) | none; reads and writes the interrupted frame | seven calls | interrupt manager, heap, screen |
| keyboard, mouse (src/drivers) | packet buffer and offset, buttons; one shared 8042 controller | Activate, interrupt | interrupt manager, shell, screen |
| text screen (src/drivers/vga.cpp) | cell memory, cursor, colour | PutChar, Print, Clear, Scroll | called by kernelMain, shell, system calls |
| shell (src/shell.cpp) | command buffer and index | HandleKeyPress, the commands | screen, timer, filesystem, disk driver |
| multitasking (src/multitasking.cpp) | task table, current task, a saved frame per task | AddTask, Schedule (never called) | filled by kernelMain |

What is hard here, and what correctness means for each part:

- **heap**: any order of malloc and free must keep the chunks a tiling of the
  heap with inverse links, merge what can be merged, and lend disjoint blocks.
- **filesystem**: after a power loss between any two sector writes the disk must
  read as whole files, completed calls must survive, and a sector that a file
  has must not be handed out again.
- **ATA driver**: every wait has a timeout, and a drive may answer after it; the
  data a call moves must be its own, and a successful write must be durable.
- **interrupts**: an interrupt may come between any two instructions; it must
  leave no trace in the code it interrupts, reach its own handler, and be
  acknowledged, or its line and all less urgent ones stay dead.
- **keyboard and mouse**: two drivers share one controller and its single data
  byte; acknowledges, command bytes and data must not be taken for one another.
- **screen and shell**: the line on the screen and the command buffer must agree,
  and printing at boot races with the keyboard handler for the cursor.
- **shell and disk**: no read or write tells whether it succeeded, so what the
  messages say, what `ls` and `cat` show and what is on disk can come apart.
- **multitasking**: every task must go on with the frame it was interrupted in,
  whenever tasks are added.

## 2. Modules

| module | models | kind |
|---|---|---|
| `AbstractHeap` | what callers of malloc and free are promised | abstract specification |
| `MemoryManager` | src/memory.cpp, constructor, malloc, free | refines `AbstractHeap` |
| `MemoryManagerProofs` | theorems about `MemoryManager` | proofs |
| `FileStore` | what users of the filesystem are promised across power loss | abstract specification |
| `FileSystem` | src/filesystem.cpp, and the sector the shell's `disk` command writes | refines `FileStore` |
| `MCFileSystem` | `FileSystem` with symmetry | for TLC |
| `FileSystemProofs` | theorems about `FileSystem`, with power loss anywhere | proofs |
| `ATA` | src/drivers/ata.cpp and the drive | with an external drive |
| `ATAProofs` | theorems about `ATA` | proofs |
| `InterruptManager` | src/hardwarecommunication, src/drivers/pit.cpp, src/syscalls.cpp, boot order of src/kernel.cpp | with external controllers |
| `InterruptManagerProofs` | theorems about `InterruptManager` | proofs |
| `PS2` | src/drivers/keyboard.cpp, src/drivers/mouse.cpp, the pointer of src/kernel.cpp | with an external 8042, keyboard and mouse |
| `PS2Proofs` | theorems about `PS2` | proofs |
| `Shell`, `MCShell` | the file commands of src/shell.cpp, with what they tell the user | extends `FileSystem` with a drive that refuses reads and writes |
| `ShellProofs` | theorems about `Shell` | proofs, on those of `FileSystem` |
| `Console`, `MCConsole` | text mode of src/drivers/vga.cpp, line editor of src/shell.cpp, printing and `printf` of src/kernel.cpp | three writers of one screen |
| `ConsoleProofs` | theorems about `Console` | proofs |
| `TaskManager` | src/multitasking.cpp | proved about, no run |
| `TaskManagerProofs` | theorems about `TaskManager` | proofs |

Definitions called "slip" in a comment are deliberate mistakes of the kind a
change to the code could make. Nothing in a specification uses them; each shows
that one property notices one mistake (`mutants` in `PROJECT.json`).

### MemoryManager

`chunk` maps the address of each header to its fields, `first` is the head of the
list. `owned` is a ghost: the blocks callers hold, with the size they asked for.
malloc is `MallocCall`, then `WalkOn` once per chunk passed over, then `WalkTake`
or `WalkFail`; free is one step, for it has no loop. `Take`, `Split`, `Absorb`,
`MergeNext`, `MergePrev` are the branches of the two functions on the whole heap.
Nothing is interleaved with a walk, which is what the code does: malloc and free
run before interrupts are on or inside a handler. Callers free only what they
hold (`free(0)` and double frees are outside the model; the code does not check).

### FileSystem

`sb`, `inodes`, `mounted` are the object in memory, `disk` the sectors. A call
changes memory at once (nobody sees it before the call returns) and queues the
sector writes it makes, in order and with their contents, in `todo`;
`WriteSector` does the next one and `Crash` may come before any of them. The
order of the writes is the code's: Format superblock then table, CreateFile and
DeleteFile table then superblock, WriteFile superblock (when it allocates), data,
table. Names are model values: short names, and long names (32 characters or
more) that are stored as their first 31 characters and never match again. The
inode count is unsigned and wraps at `CountMod`. `wrote` is a ghost: what the
last completed write of a slot wrote. Lengths are in sectors; contents within a
sector, flags, times and the directory listing are abstracted.

### ATA

`pc` is where the driver is, `seen` the last status it read, `polls` what is left
of the timeout. Each status read is a step (`Poll`), so the drive's own steps
(`DriveOffers`, `DriveWrites`, `DriveFlushes`, `DriveFails`) fall between any
two. The loops that wait for the drive not to be busy and those that wait for a
data request differ only in their condition, `Again`. As in the code, a loop that
succeeds at the very last poll counts as failed, and Write28 ignores what its
flush says. The drive ignores commands while it is busy or requests data, as the
emulators the README names do. `late` is a ghost: a call gave up while its
command still runs.

### InterruptManager

Registers and stack are explicit. `Enter` is the processor's part and the first
instruction of a stub (the shared byte `number`); `Save` the pushes;
`HandleInterrupt` the dispatch and the handler; `Acknowledge` the two end-of-
interrupt writes; `Restore` the pops and iret. `Raise` may come between any two,
with the two controllers' priorities and in-service bits deciding what `Deliver`
delivers. `Slots` is the order in which the stub leaves the registers, `CPUState`
the order in which the handlers read them. `Register` and `Activate` are the
boot. A segment register restored to something that is not a selector faults and
the model stops there (`faulted`); what the kernel does from then on (a cascade
of general protection faults) is not modelled.

### PS2

`pc` walks through the two `Activate` functions: `KeyboardFlush`,
`KeyboardCommand`, `KeyboardConfigure`, then the mouse's. A step ends where the
code next reads the controller's status or data. From `Enabled` on the handlers
`KeyboardInterrupt` and `MouseInterrupt` run. The controller is external: one
output buffer `obf` that is filled by `LoadReply`, `LoadKeyboard` or `LoadMouse`
when it is free, the command byte `ccb` whose bits turn ports and lines on,
latched lines `irq`, and the queues of what the devices have still to send. An
empty data port repeats the `last` byte. Bytes carry where they come from and
what they are, for the properties; the drivers look at values and status only.
The pointer moves in signed bytes (`Moved`), so a fast move from the right edge
takes it to the left, as in the code. Button events end in empty handlers and
are left out. `Quiet` says that at boot devices answer before the driver's next
look and nobody touches them, as on the emulators the README names.

### Shell

`Shell` composes the shell's commands with `FileSystem` and a drive that may
refuse what it is asked. Read28 and Write28 return nothing, so a call goes on as
if the sector had been moved. The variable `drive` is the error bit: a drive that
is `Late` refuses one call and is ready for the next; one that `Fails` keeps its
error (`"error"`), and WaitReady refuses every later read and write until the
disk command identifies the drive or the power is off. A failed write may end its
error with its own flush; `Refused` therefore offers both. This is what `ATA` shows
of the driver (`ErrorSticks`), taken at the grain of a call.

A command that changes something starts the call (`CommandTouch`,
`CommandWrite`, ...), the sector writes follow (`Taken`, whose flush may still
fail, or `Refused`), and `Report` prints the message. A command that refuses
changes nothing and is a stutter. The commands that read: `ls` is the operator
`LsLines`, over the table in memory. `cat` is `CatAnswer`, which depends on
whether the drive takes the read; if not, it shows what the heap block held, and
`CommandCat` is the step in which the read makes the drive fail. `CommandMount`
is a mount whose reads were all taken; `CommandMountUnread` one where any of them
were not: LoadInodeTable then copies the last sector it did read once more, or what
the block held (`LoadedTable`).

`Leftovers` is what a block of malloc holds before a sector is read into it: as a
sector of the superblock, of the table, and of a file. It is a constant, any set
of typed sectors (`LeftoverAssumption`); what such a block holds byte by byte is
not tracked.

Ghosts: `told` is what the messages told the user of each file (`Unsure` once the
power went in the middle of a command on it), `lost` the sectors whose last write
was refused, `stale` whether the tables were loaded while there were any, or with
reads that were not taken. The write command always writes the same text, hence
the single value. Arguments reach a command as names; splitting the line is left
out. Left out as well is the call that gives up with its command still running on
the drive, whose transfer the next call takes: `ATA` and its run `ata_late_answer`
are about it, and every claim of `Shell` is about transfers that are the call's own.

### Console

`vga` is the VGATextMode object with its memory and the cursor's registers, an
index and two bytes. The memory of the model has one row more than the screen, for
a store beyond its end. Handlers are one step each (`KeyLetter`, `KeyTab`,
`KeyBackspace`, `KeyEnter`, `KeyEnterClear`, `KeyIgnored`) and use `PutChar`
as an operator on the screen. `kernelMain` prints with interrupts on, so for it
`Step` and `LastStep` go through PutChar, Scroll and UpdateCursor one access at
a time, with what it has loaded in `kernel`; the build does not optimise, so every
access to a field is one to memory. `Unhandled` is the notice that printf prints,
with its own cursor `pen`, for the interrupt the disk raises after the disk
command. The reference is `Paper`, a roll on which the characters of the ghost
`log` are typed, and of which the screen shows the end. Ghosts `mixed`, `spoiled`
and `torn` remember that a key came in the middle of a character, that the line
typed is not the line shown, and that a key came inside UpdateCursor.
`buffer` is `commandBuffer` up to `bufferIndex`.

### TaskManager

A frame is known by whose it is and how far its owner had come. `Schedule` stores
the interrupted frame for the current task and returns the next one, as if the
timer's handler called it; nothing in the kernel does yet, so this module says
what the class does once it is used. `Work` is a step of whatever runs.

## 3. Runs

| run | question | result |
|---|---|---|
| `heap` | eight properties of the heap over every sequence of calls | hold, 42 620 states |
| `filesystem` | five invariants and the refinement of `FileStore` under power loss | hold, 953 912 states |
| `fs_torn_format` | the same disk when power goes during Format | violated |
| `fs_multi_sector` | files of two sectors | violated |
| `ata` | five properties against a drive that is late or fails | hold, 114 428 states |
| `ata_late_answer` | is every transfer the call's own? | violated |
| `ata_flush` | is a written sector on the media? | violated |
| `interrupts` | six properties of interrupts from boot on | hold, 18 400 states |
| `ps2` | six properties of keyboard and mouse on one controller | hold, 132 339 states |
| `interrupts_syscall` | does the system call handler see the call's number? | violated |
| `shell` | does what the user is told agree with the disk, `cat` and `ls`? | holds, 4 339 577 states |
| `console` | five properties of the screen, the line and the cursor | hold, 1 818 221 states |

A run named "violated" states what a comment or a document of the repository
says; its counterexample is the finding.

**Bounds.** `heap`: 13 bytes with headers of 2 hold four chunks (three owned and
a rest), so merging on both sides, the last byte, the split threshold and a full
heap all occur; requests 0, 1, 3, 4 and 11 include zero, an exact fit and more
than the heap. `filesystem`: two inodes in two sectors of the table (a table
torn between sectors), three sectors to allocate, two power losses (one during
the recovery from another), sizes 0 and 1. Two names and two values are
interchangeable, hence the symmetry. Format is not torn and files have at most
one sector there because the runs `fs_torn_format` and `fs_multi_sector` show
that the invariants fail otherwise; the disk command writes a sector beyond the
allocation for the same reason. `MaxUsed` bounds the sectors ever allocated (the
code has no bound). `ata`: two sectors tell one's own from another's, two polls
give a drive that is in time, at the last moment, and late. `interrupts`: one line
per kind (timer; keyboard; mouse behind the second controller; disk, which nobody
handles), two register values, two system calls, a tick counter modulo four.
`ps2`: two keys and two movements, so that scancodes and packets of several bytes
mix; a delta of 120 overflows the pointer's signed byte; five command bytes, with
the ports and lines the firmware may leave on or off, among them two with the
keyboard's port off; a byte in the buffer at power-on or none. `shell` has
two interchangeable names, one sector per file, one sector to allocate (the text
is always the same, so a second would tell nothing apart; after a torn Format the
two files come to share it), a file count that wraps at two, which none of its
properties reads, two power losses, and a self-test on a sector that no file gets.
`MaxFaults` is how often the drive is late or fails; once is enough for a lasting
error, since every call after it is refused until the drive is identified. The one
heap block of `Leftovers` holds tables with a file, so that a mount that reads
nothing still goes through. `console`: two rows of three cells, so
that a boot text of five characters wraps, ends lines and scrolls, at any starting
row; four keys fill the buffer of three and cut a tab short; a notice of three
characters fills the screen in two disk commands and clears it; a cursor register tells
three positions apart, so that both matter.

**Deadlock** is checked except in the filesystem runs, `shell`, `ps2` and
`console`, where the bounds on sectors, power losses, keys and movements let the
model come to its end.

**Fairness.** `CallsReturn` needs only that a called function goes on (`WF` on the
driver's steps): the kernel has one thread of control and nothing preempts it there. Nothing is assumed of
the drive. `TicksCounted` says that a tick pending at count `t` brings the count to
`t + 1` (or int 0x80 has faulted by then). It assumes that the processor boots, runs the stub and the
handlers, and takes an offered interrupt before its next instruction. That
handlers return is assumed there; for the disk it is what `CallsReturn` shows.
Lines less urgent than the timer have no such property: in the model the timer
could always come first, and only its 10 ms period, which is not modelled, says
it does not. `KeysArrive` assumes that boot goes on, that handlers run when their
line is latched, that devices acknowledge, and that the controller passes on what
it has: properties of hardware, nothing of the driver's.

## 4. What the runs found

1. **A torn Format** (src/filesystem.cpp:167): the new superblock is on disk, the
   old table too; after the remount a new file gets an old file's sector.
2. **Files of several sectors** (src/filesystem.cpp:362): the sector allocated is
   dropped and the one after the previous is written, whoever has it.
3. **A late answer** (src/drivers/ata.cpp:122): the data request of a command that
   timed out is taken by the next call, which moves the wrong sector.
4. **The flush** (src/drivers/ata.cpp:220) is sent while the drive still writes and
   nobody looks whether it was taken.
5. **System calls** (src/syscalls.cpp:25): the frame's lowest word is GS, not EAX.
   Every call is unknown to the handler, and its error value is popped into GS.

Further limits of the code are in the models without a run of their own:

- malloc wants a chunk strictly larger than the request (src/memory.cpp:39,
  `Fits`), so a hole of exactly the size asked for is passed over.
- Names of 32 characters are stored cut and compared whole (src/filesystem.cpp:214):
  such a file can be created again and again and never opened. With `LongNames =
  {"b"}` and `CutName = "a"` the refinement `StoreSpec` fails.
- The disk self-test (src/shell.cpp:472) writes sector 100, a data sector: with
  `TestSectors = {4}` and `MaxUsed = 2` in `shell`, `CatShows` fails.
- A refused write goes unseen (src/filesystem.cpp:118): `touch` says "created",
  `ls` agrees, and after the next boot the file is gone. Without its guard
  `lost = {}`, `ToldOnDisk` fails; without `~stale`, so does what follows a mount
  of tables that were not written.
- A refused read goes unseen too. In `cat` (src/filesystem.cpp:302) ReadFile returns the
  size of the file without its data, for instance after a write whose flush failed, and
  what the heap held is printed as the file; "Failed to read file." (src/shell.cpp:717) is
  never said. Without its case for a read that was not taken, `CatShows` fails. In `mount`
  (src/filesystem.cpp:78) the table in memory then has inodes twice, or those of the heap
  block, and the next save writes them to the disk; `stale` covers this.
- A backspace in column 0 (src/drivers/vga.cpp:247) takes a character from the
  buffer and leaves it on the screen. Without that case in `spoiled`, `LineShown`
  fails.
- The notice of an unhandled interrupt (src/hardwarecommunication/interrupts.cpp:173)
  is printed over whatever is on the screen.
- A key between two accesses of UpdateCursor (src/drivers/vga.cpp:198) leaves the cursor
  somewhere else until the next character.
- Once Schedule is called, kernelMain never runs again (`MainIsLeft`): its frame is
  stored for no task.
- With `Quiet = FALSE`, `PacketsAligned` does not hold: src/drivers/mouse.cpp:69 reads
  the mouse's acknowledge without waiting for it, and one that comes later becomes the
  first byte of a packet and shifts every packet after it.

What holds is at least as informative: under power loss the order superblock,
data, table of WriteFile is right (`FrontierAhead`, `StoreSpec`); the file count
drifts by at most one per power loss (`CountDrift`); without a leftover command
no sector is ever taken for another (`CleanTransfers`, `ReadsRight`); device
interrupts leave no trace (`ContextRestored`); and flushing the buffer before the
mouse is configured is what keeps the keyboard's acknowledge from being written
back as a command byte that turns both ports off (`PortsOn`). Wherever a key
interrupts kernelMain's printing, its characters stay on the screen, and a
handler's land at worst in the row behind it (`OnScreen`). And whatever was lost to a
power loss or a torn Format, commands that completed with every sector taken are
on disk (`ToldOnDisk`).

## 5. Proofs

A theorem holds for every value of the constants that the module's assumptions
allow; a run shows the same property on one instance. Each invariant below was
checked by TLC before it was proved. None of the properties is inductive alone;
what each needs is said with it.

| property of a run | theorem | under |
|---|---|---|
| `heap`: all eight | `MemoryManagerProofs` | |
| `filesystem`: TypeOK, Durable | `FileSystemTypes`, `ReturnedIsDurable` | |
| `filesystem`: FrontierAhead, CountDrift | `SuperblockAhead`, `CountDrifts` | Format not torn |
| `filesystem`: ExtentsDisjoint | `FilesApart` | Format not torn, one sector per file |
| `filesystem`: StoreSpec | `ImplementsStore` | the same, names that fit, test sector behind the files |
| `shell`: ShellTypeOK | `ShellTypes` | |
| `shell`: ToldOnDisk, CatShows, LsLists | `MessagesTrue`, `CatIsTrue`, `LsIsTrue` | names that fit, test sector behind the files |
| `ata`: TypeOK, CleanTransfers, ReadsRight, ErrorSticks | `ATAProofs` | |
| `interrupts`: TypeOK, NothingInService, NumberIsOwn, ContextRestored, NoneMissed | `InterruptManagerProofs` | |
| `ps2`: TypeOK, PortsOn, BytesToOwner, KeysInOrder, PacketsAligned | `PS2Proofs` | quiet boot |
| `console`: all five | `ConsoleProofs` | |

The hypotheses are not convenience; each is where the code's promise ends.
*Format not torn*, *one sector per file*: without them the runs `fs_torn_format` and
`fs_multi_sector` violate the property (findings 1 and 2). The shell writes 52 bytes,
one sector, so the second holds of everything a user can do. *Names that fit*: a name
of 32 characters is stored cut and is another file to the next call. *Test sector
behind the files*: the disk command writes wherever it writes, and over a file's data
if one is there (section 4). *Quiet boot*: with `Quiet = FALSE` packets shift
(section 4). The shell's theorems do allow torn Formats, refused writes and refused
reads.

**Assumptions on constants.** `FileSystemAssumption`: a table of at least one sector
of at least one inode, a counter of at least one bit, bounds that are naturals;
`TestSectorAssumption`: the disk command does not write metadata (sector 100 lies
behind them); `NoFileAssumption` and parts of `ShellAssumption`: the model values for
"no file" and "no command" differ from files and commands. `ShellAssumption` also says
that the text the shell writes is a value of one sector. `LeftoverAssumption`: a heap
block reads as a typed superblock, row of the table and data sector, any of them. `HeapAssumption`: start and
header positive, the rest naturals. `ATAAssumption`: a timeout of at least one poll.
`InterruptAssumption`: system calls are numbered 1 to 7. `PS2Assumption`: scancodes
below 128 (the top bit marks a release) and bytes. `ConsoleAssumption`: a screen and a
tab of at least one cell, and a cursor position, in the row behind the screen too, that
its two registers hold. `TextAssumption`: texts do not erase, the notice ends no line,
Enter is no letter, and kernelMain has something to print.

### Heap (`MemoryManagerProofs`)

`IInv`: types, `WellLinked`, `Coalesced`, `OwnedIsAllocated`, and
`Skipped` (what malloc has walked past cannot serve the request). None of the
first four is inductive alone. free merges twice and ends coalesced only if the
heap was before; the merges keep the tiling only because `next` is where a chunk
ends; a block freed must be a chunk in use; and the first fit needs the memory of
the walk. The argument goes through lemmas about the operators on any heap:
`AbsorbSound` and `SplitSound` (tiling and links survive), `MarkSound` (so does a
change of the flag), `ReleasedSound` (both merges: at most one free pair exists at
a time and the second merge removes it), `TakeSound` (taking a chunk creates no
free pair), then one lemma per action (`WalkOnIInv`, `WalkTakeIInv`, `FreeIInv`).
`HeadersIntact` follows because a block lies inside its chunk and chunks do not
overlap; `WholeWhenEmpty` because with nothing owned every chunk is free, and two
would be neighbours.

### Filesystem (`FileSystemProofs`)

Everything rests on what a queue of writes is (`Saves`, `SavesFile`): it carries every
sector of the table in memory, its superblocks are ever further ahead, the last is the
one in memory, and it comes before the table. That each call queues such a sequence is
proved once per call. WriteFile builds its queue in a loop, over the sectors of the
file; what the loop gives is an induction over their number, done with the least
counterexample (`LeastElement`), because the library's induction rules cannot be used.

On it stand, each inductive with those before it:

- `QueueInv`, `WillSync`: a sector of the table that differs from memory is still to be
  written, as it is in memory. With nothing left to write, disk and memory agree:
  `Durable`. Power loss empties the queue and the memory together.
- `FrontierInv`: the files in memory lie below the superblock in memory; wherever the
  table is still to be written, a superblock as far ahead is on disk or comes before it.
  At every cut of the queue the table on disk lies below the superblock on disk:
  `FrontierAhead`. This is why the order superblock, data, table matters.
- `DisjointInv`: no slot in memory shares a sector with *another* slot, in memory or on
  disk: any mixture of old and new table sectors is disjoint.
- `OneSlotInv`, `CountInv`: a call changes one slot, so a torn call is off by one in
  count; `Near` accumulates these over power losses, modulo the counter.
- `StoreInv`: a file on disk has its data on disk; one in memory has it there, or it is
  queued *before* the table. With `OneSlotInv` each sector write then maps to a step of
  `FileStore` (the table write that completes a call) or a stutter (all others).

### Shell (`ShellProofs`)

`ShellInv` relates four things: what the user was told, or will have been when the
command is done (`Due`); the table in memory; the table on disk; and the writes not yet
done or refused. `SlotFollows` is the core: a slot on disk equals the one in memory, or
its sector was refused, or is still queued and about a file of the running command.
`TextThere` says the same of the data. `Unique`, no name in two slots, *including* one
slot still to be written, is what makes the `rm` of one name harmless to the others when
it is cut short. All of it survives a power loss, as the files of the running command
become `Unsure` and the others' slots already agreed. A mount with refused reads loads
any typed table, possibly with an inode twice (`UnreadTyped`); from then on until the
next format (`stale`) only the types are claimed. `CatIsTrue` is about all three
outcomes of a `cat`: a read that is taken shows what was told (`ToldFile`), unless a
sector of the file was refused; a read not taken shows as much of something else.

### Disk driver (`ATAProofs`)

The status read last can be out of date in one direction only: the drive may have
stopped being busy since (`SeenHolds`). `Working` says what command the drive can be
running at each place of the driver: at a transfer it is the call's own, or, during
Identify, a flush left over by the previous write (nobody looks at how WaitReady ended
there). Hence `LastPoll`: a loop that ended before its timeout has seen the truth.

### Interrupts (`InterruptManagerProofs`)

`IInv` says at most one interrupt is served, it interrupted the main flow (`One`), its
line alone is in service until it is acknowledged (`Service`), and the stack holds the
interrupted registers at the places where `Restore` looks for them (`Frame`). The only
frame that changes in between is a system call's; that is finding 5, and a fault is
reached only by one (`Faults`).

### Keyboard and mouse (`PS2Proofs`)

`Booting` fixes, for each stage of the two `Activate` functions, which answers can be in
flight; a stage ends only when its answer was consumed, which is what the flush of the
mouse's Activate is for. `KeyStream` is the position of the driver in the stream of
presses and releases, wherever its bytes are (keyboard, buffer, read); `PacketStream` the
same for packets, modulo three. `Bits` shows that what one driver does to the
command byte leaves the other's bits alone, for all 256 values.

### Screen and line editor (`ConsoleProofs`)

A text is put on the screen by a fold, and what a fold gives for every text is an
induction over its length. The library's rules of induction cannot be used, so it is
done once, with the least counterexample: `FoldExists` and `FoldWay` turn the fold into
the sequence of screens it goes through, and `UpTo` carries a fact along it. The lemmas
on texts, scrolls and rows rest on these three.

`IInv` has four parts. `Placing`: for each place of `kernelMain` inside PutChar, where
the cursor can be *whoever moved it last*, and what of the loaded position is still
good. A handler that prints leaves the cursor on the screen: it may come between "past
the end" and the repair, but then its own PutChar repairs it, because the column and the
row are never both past the end. That is why `OnScreen` holds although what `kernelMain`
has loaded may be out of date. `Tracking`: the cursor's registers, access by access.
`LineKept`: the buffer stands before the cursor, cell by cell, backwards. A wrap and a
scroll move both alike, and Backspace at the left edge, where the screen cannot follow,
ends the claim (`spoiled`).

`ShowsPaper` needs a relation to a second machine: `Shown` says there is a screen that
shows the paper, from which `kernelMain` is on its way to the next character; `Midway`
gives for each place the memory and cursor that are then half done. One character on the
screen is one on the paper (`PutType`, by cases: stored, wrapped, fed, scrolled,
erased), a text is then as well (`TextShown`), and a step inside PutChar changes nothing
that counts until the last (`StepKeeps`).

### Multitasking (`TaskManagerProofs`)

For any set of tasks and any array length (`MaxTasks \in
Nat`, and the flow before the first switch is no task), the array is not left
(`AlwaysInArray`), every task goes on with the frame it was interrupted in
(`AlwaysResumesOwn`), and the first flow is left for good (`MainIsLeft`).
The invariant `IInv` adds to them what is running (`RunsCurrent`): the frame
Schedule is given belongs to the current task, or storing it there would overwrite
another's. It holds for tasks added twice, since the same frame is then in one place.

### Only model-checked

Liveness (`CallsReturn`, `TicksCounted`, `KeysArrive`): the prover has no fairness. The
runs that end in a violation: a counterexample is its own proof. Every invariant and
action property of the other runs has its theorem. That malloc
returns is not stated as a liveness property: the walk follows a list that
`WellLinked` shows to rise in address and end. No module uses RECURSIVE operators.

## 6. Not modelled, and the plan

Outside: the graphics mode and register tables of src/drivers/vga.cpp, the
scancode table, message texts and colours, the split of a command line and the
shell's string helpers, port instructions, the descriptor packing of src/gdt.cpp,
src/loader.s and the linker script. The reasons stand at each component in
`PROJECT.json`. A mount whose reads fail (src/filesystem.cpp:78), the unlimited
AllocateSector (src/filesystem.cpp:136) and the timer's arithmetic
(src/drivers/pit.cpp:50 and 67) are hazards without a property; each says why. A heap
that refuses 512 bytes is not modelled: it has 10 MB, and the filesystem frees what it
takes.

Next: the shell's theorems for an abstract store in which a refused write is a step of
its own, so that `Shell` too implements what its users are promised; the exact reach of
finding 5 (which of the kernel's system calls break the context they interrupt) as a
theorem; and `Shell` on `ATA` itself, so that a transfer taken by the wrong call
reaches the files.
