----------------------------- MODULE ShellProofs -----------------------------
(***************************************************************************)
(* What the shell's messages, cat and ls say of the files, for every set   *)
(* of names, size of the table, number of power losses and number of times *)
(* the drive is late or fails.                                             *)
(***************************************************************************)
EXTENDS Shell, FileSystemProofs

-----------------------------------------------------------------------------
(* The inductive invariant. *)

\* The sectors files may be given, and the table sector of an inode.
Low == DataStart .. (DataStart + MaxUsed - 1)
Sec(i) == InodeSec + (i \div PerSector)

\* A sector that is still to be written.
Awaited(s) == \E j \in 1 .. Len(todo) : todo[j].sector = s

Op == IF AtPrompt THEN "none" ELSE command.op

\* What runs is the call of the command, and it is about the command's files.
CommandRuns ==
  /\ call # "Unmount"
  /\ call \in {"CreateFile", "DeleteFile", "WriteFile"} => Op \in {"touch", "rm", "write"}
  /\ call = "disk" => Op = "disk"
  /\ call = "Format" <=> Op = "format" /\ ~Idle
  /\ Op \in {"touch", "rm", "write"} => mounted
  /\ Op = "format" => command.files = Names /\ Live(inodes) = {}
  /\ Op = "disk" => command.files = {}
  /\ ~mounted => Live(inodes) = {}

\* A file has no data, or a sector of it.
Shaped(f) == f.size \in {0, 1} /\ f.start \in {0} \cup Low /\ (f.size = 1 => f.start # 0)

\* The text is in the sector, or the disk refused it.
TextIn(s) == disk[s] = Text \/ s \in lost

\* The data of a file on disk is there, unless its row is not what was saved.
DiskText ==
  ~stale => \A i \in Live(TableOnDisk) :
    \/ Sec(i) \in lost
    \/ /\ Shaped(TableOnDisk[i])
       /\ TableOnDisk[i].size = 1 => TextIn(TableOnDisk[i].start)

\* The data of a file in memory is there or on its way.
MemoryText ==
  ~stale => \A i \in Live(inodes) :
    /\ Shaped(inodes[i])
    /\ inodes[i].size = 1 => TextIn(inodes[i].start) \/ Awaited(inodes[i].start)

\* Text goes to the sectors of files, before the table.
QueueText ==
  \A j \in 1 .. Len(todo) :
    /\ todo[j].sector \in Low => todo[j].content = Text
    /\ todo[j].sector \in DataSecs => \A k \in Tables(todo) : j < k

TextThere == DiskText /\ MemoryText /\ QueueText

\* What the user will have been told when the command is done.
Due(n) == IF ~AtPrompt /\ n \in command.files THEN Outcome(command.op) ELSE told[n]

\* The files of the table t named n are what d says.
Under(t, n) == {i \in Live(t) : t[i].name = n}
Fits(t, n, d) ==
  IF d = NoFile THEN Under(t, n) = {}
  ELSE \E i \in Under(t, n) : Under(t, n) = {i} /\ t[i].size = Len(d)

FitsAll(t) == \A n \in Names : Due(n) # Unsure => Fits(t, n, Due(n))

\* Does the memory hold what the user is told?
Fresh == Op = "format" \/ (mounted /\ ~stale)

NameOf(f) == IF f.type = "empty" THEN {} ELSE {f.name}

\* A slot of the table is on disk, or refused, or still to be written: then it
\* is about a file of the command.
SlotFollows(i) ==
  \/ Sec(i) \in lost
  \/ TableOnDisk[i] = inodes[i]
  \/ /\ Awaited(Sec(i))
     /\ Op = "format" \/ NameOf(TableOnDisk[i]) \cup NameOf(inodes[i]) \subseteq command.files

\* The names of a slot in memory and, where the disk took it, on disk.
SlotNames(i) ==
  NameOf(inodes[i]) \cup (IF Sec(i) \in lost THEN {} ELSE NameOf(TableOnDisk[i]))

\* No name is in two slots, also when one is still to be written.
Unique == ~stale => \A i, j \in Slots : i # j => SlotNames(i) \cap SlotNames(j) = {}

\* The memory holds what the user is told, and the disk follows it; a disk that
\* is not mounted holds it as well.
MemoryTold == Fresh => FitsAll(inodes) /\ \A i \in Slots : SlotFollows(i)
DiskTold ==
  ~mounted /\ ~stale /\ Op # "format" /\ lost \cap RowSecs = {} => FitsAll(TableOnDisk)

TypedInv == QueueInv /\ ShellTypeOK /\ CommandRuns
ShellInv == TypedInv /\ TextThere /\ Unique /\ MemoryTold /\ DiskTold

-----------------------------------------------------------------------------
(* The types, and what runs. *)

Ran == [op : Commands, files : SUBSET Names]

\* A command that has made its call is none of the prompt's.
LEMMA CommandMade ==
  ASSUME NEW op \in Commands, NEW N \in SUBSET Names, Run(op, N)
  PROVE  /\ AtPrompt /\ ~AtPrompt'
         /\ command' \in Ran /\ command'.op = op /\ command'.files = N
         /\ Op' = op
         /\ told' = told /\ lost' = lost
<1>1. command' = [op |-> op, files |-> N]
  BY DEF Run
<1>2. command' \in Ran
  BY <1>1 DEF Ran
<1>3. command' # Nothing
  BY <1>2, ShellAssumption DEF Ran
<1>4. QED
  BY <1>1, <1>2, <1>3 DEF Run, AtPrompt, Op

\* At the prompt no call runs and nothing is to be written.
LEMMA PromptQuiet ==
  ASSUME TypedInv, AtPrompt
  PROVE  /\ Idle /\ call = "idle" /\ todo = << >> /\ Len(todo) = 0 /\ Tables(todo) = {}
         /\ Op = "none"
         /\ \A s : ~Awaited(s)
         /\ \A n : Due(n) = told[n]
<1>1. Idle /\ todo = << >> /\ call = "idle" /\ Len(todo) = 0
  BY DEF TypedInv, ShellTypeOK, QueueInv, TypeOK, Idle
<1>2. QED
  BY <1>1 DEF Tables, Op, Awaited, Due

\* The drive's condition and the count of its faults keep their types.
LEMMA DriveTyped ==
  ASSUME ShellTypeOK
  PROVE  /\ Steady \/ Late \/ Fails => drive' \in {"ready", "error"} /\ faults' \in 0 .. MaxFaults
         /\ faults' = faults => faults' \in 0 .. MaxFaults
<1>1. faults \in 0 .. MaxFaults /\ drive \in {"ready", "error"} /\ MaxFaults \in Nat
  BY ShellAssumption DEF ShellTypeOK
<1>2. CASE Steady
  BY <1>1, <1>2 DEF Steady
<1>3. ASSUME Late \/ Fails
      PROVE  drive' \in {"ready", "error"} /\ faults' \in 0 .. MaxFaults
  <2>1. faults' = faults + 1 /\ faults < MaxFaults
    BY <1>3 DEF Late, Fails
  <2>2. faults' \in 0 .. MaxFaults
    BY <1>1, <2>1
  <2>3. drive' \in {"ready", "error"}
    BY <1>1, <1>3 DEF Late, Fails
  <2>4. QED
    BY <2>2, <2>3
<1>4. QED
  BY <1>1, <1>2, <1>3

\* A call that a command makes keeps the types.
LEMMA CallTyped ==
  ASSUME TypedInv, NEW op \in Commands, NEW N \in SUBSET Names, Run(op, N), QueueInv',
         drive' \in {"ready", "error"}, faults' \in 0 .. MaxFaults,
         stale' = stale, call' # "Unmount", call' # "idle",
         call' = "Format" <=> op = "format", call' = "disk" => op = "disk",
         op \in {"touch", "rm", "write"} => mounted',
         op = "format" => N = Names /\ Live(inodes') = {},
         op = "disk" => N = {},
         ~mounted' => Live(inodes') = {},
         op = "disk" => call' = "disk"
  PROVE  TypedInv'
<1>1. /\ ~AtPrompt' /\ command' \in Ran /\ command'.op = op /\ command'.files = N /\ Op' = op
      /\ told' = told /\ lost' = lost
  BY CommandMade
<1>2. ShellTypeOK'
  <2>1. TypeOK'
    BY DEF QueueInv
  <2>2. QED
    BY <1>1, <2>1 DEF TypedInv, ShellTypeOK, Ran
<1>3. CommandRuns'
  BY <1>1 DEF CommandRuns, Idle, Commands
<1>4. QED
  BY <1>2, <1>3 DEF TypedInv

\* Every command but mount makes a call and keeps the types.
LEMMA FormatTyped ==
  ASSUME TypedInv, CommandFormat
  PROVE  TypedInv'
<1>1. Format /\ Run("format", Names) /\ stale' = stale /\ QueueInv
  BY DEF CommandFormat, TypedInv
<1>2. Live(inodes') = {}
  BY <1>1, FormatQueue, BlankTyped
<1>3. /\ disk' = disk /\ crashes' = crashes /\ call' = "Format" /\ mounted' = mounted
      /\ DOMAIN wrote' = Slots
  BY <1>1 DEF Format, Begin, Forget
<1>4. mounted \in BOOLEAN
  BY DEF TypedInv, ShellTypeOK, TypeOK
<1>5. QueueInv'
  BY <1>1, <1>2, <1>3, <1>4, FormatQueue, CallQueued
<1>6. drive' \in {"ready", "error"} /\ faults' \in 0 .. MaxFaults
  BY DriveTyped DEF CommandFormat, TypedInv
<1>7. QED
  BY <1>1, <1>2, <1>3, <1>5, <1>6, CallTyped DEF Commands

\* touch starts CreateFile, on a mounted disk.
LEMMA TouchTyped ==
  ASSUME TypedInv, NEW n \in Names, CommandTouch(n)
  PROVE  TypedInv'
<1>1. CreateFile(n) /\ Run("touch", {n}) /\ stale' = stale /\ QueueInv
  BY DEF CommandTouch, TypedInv
<1>2. /\ disk' = disk /\ crashes' = crashes /\ call' = "CreateFile"
      /\ mounted /\ mounted' = mounted /\ DOMAIN wrote' = Slots
  BY <1>1 DEF CreateFile, Begin, Forget
<1>3. mounted \in BOOLEAN
  BY DEF TypedInv, ShellTypeOK, TypeOK
<1>4. QueueInv'
  BY <1>1, <1>2, <1>3, CreateQueue, CallQueued
<1>5. drive' \in {"ready", "error"} /\ faults' \in 0 .. MaxFaults
  BY DriveTyped DEF CommandTouch, TypedInv
<1>6. QED
  BY <1>1, <1>2, <1>4, <1>5, CallTyped DEF Commands

\* write starts WriteFile on a file it has found.
LEMMA WriteTyped ==
  ASSUME TypedInv, NEW n \in Names, CommandWrite(n)
  PROVE  /\ TypedInv'
         /\ OpenFile(n) \in Slots /\ OpenFile(n) \in Found(n)
         /\ Text \in Values /\ 1 \in Sizes /\ WriteFile(OpenFile(n), Text, 1)
<1>1. /\ FileExists(n) /\ WriteFile(OpenFile(n), Text, 1) /\ Run("write", {n})
      /\ stale' = stale /\ QueueInv
  BY DEF CommandWrite, TypedInv
<1>2. OpenFile(n) \in Found(n) /\ OpenFile(n) \in Slots
  <2>1. inodes \in [Slots -> Inode]
    BY DEF TypedInv, ShellTypeOK, TypeOK
  <2>2. QED
    BY <1>1, <2>1, ChosenSlots
<1>3. /\ disk' = disk /\ crashes' = crashes /\ call' = "WriteFile"
      /\ mounted /\ mounted' = mounted /\ DOMAIN wrote' = DOMAIN wrote
  BY <1>1 DEF WriteFile, Begin
<1>4. mounted \in BOOLEAN /\ DOMAIN wrote = Slots
  BY DEF TypedInv, ShellTypeOK, TypeOK
<1>5. Saves(todo', inodes', sb') /\ sb' \in Super /\ inodes' \in [Slots -> Inode]
  BY <1>1, <1>2, ShellAssumption, WriteQueue DEF SavesFile
<1>6. QueueInv'
  BY <1>1, <1>3, <1>4, <1>5, CallQueued
<1>7. drive' \in {"ready", "error"} /\ faults' \in 0 .. MaxFaults
  BY DriveTyped DEF CommandWrite, TypedInv
<1>8. TypedInv'
  BY <1>1, <1>3, <1>6, <1>7, CallTyped DEF Commands
<1>9. QED
  BY <1>1, <1>2, <1>8, ShellAssumption

\* rm starts DeleteFile, on a mounted disk.
LEMMA RmTyped ==
  ASSUME TypedInv, NEW n \in Names, CommandRm(n)
  PROVE  TypedInv'
<1>1. DeleteFile(n) /\ Run("rm", {n}) /\ stale' = stale /\ QueueInv
  BY DEF CommandRm, TypedInv
<1>2. /\ disk' = disk /\ crashes' = crashes /\ call' = "DeleteFile"
      /\ mounted /\ mounted' = mounted /\ DOMAIN wrote' = Slots
  BY <1>1 DEF DeleteFile, Begin, Forget
<1>3. mounted \in BOOLEAN
  BY DEF TypedInv, ShellTypeOK, TypeOK
<1>4. QueueInv'
  BY <1>1, <1>2, <1>3, DeleteQueue, CallQueued
<1>5. drive' \in {"ready", "error"} /\ faults' \in 0 .. MaxFaults
  BY DriveTyped DEF CommandRm, TypedInv
<1>6. QED
  BY <1>1, <1>2, <1>4, <1>5, CallTyped DEF Commands

\* disk starts the write of one sector, and changes no file.
LEMMA DiskTyped ==
  ASSUME TypedInv, NEW s \in TestSectors, CommandDisk(s)
  PROVE  TypedInv'
<1>1. DiskCommand(s) /\ Run("disk", {}) /\ stale' = stale /\ QueueInv
  BY DEF CommandDisk, TypedInv
<1>2. call' = "disk" /\ mounted' = mounted /\ inodes' = inodes
  BY <1>1 DEF DiskCommand, Begin
<1>3. QueueInv'
  BY <1>1, DiskQueued
<1>4. ~mounted' => Live(inodes') = {}
  BY <1>2 DEF TypedInv, CommandRuns
<1>5. drive' \in {"ready", "error"} /\ faults' \in 0 .. MaxFaults
  BY DriveTyped DEF CommandDisk, TypedInv
<1>6. QED
  BY <1>1, <1>2, <1>3, <1>4, <1>5, CallTyped DEF Commands

\* Mount runs no command.
LEMMA MountTyped ==
  ASSUME TypedInv, CommandMount
  PROVE  TypedInv'
<1>1. /\ Mount /\ QueueInv /\ AtPrompt
      /\ command' = command /\ told' = told /\ lost' = lost
      /\ faults' = faults /\ drive' = drive
      /\ stale' = (stale \/ (mounted' /\ lost # {}))
  BY DEF CommandMount, TypedInv, Steady
<1>2. QueueInv'
  BY <1>1, MountQueued
<1>3. /\ Idle /\ Idle' /\ call' = call /\ call = "idle"
      /\ \/ mounted'
         \/ inodes' = inodes /\ mounted' = mounted
  BY <1>1 DEF Mount, Idle
<1>4. ShellTypeOK'
  <2>1. TypeOK'
    BY <1>2 DEF QueueInv
  <2>2. stale' \in BOOLEAN
    BY <1>1
  <2>3. QED
    BY <1>1, <1>3, <2>1, <2>2 DEF TypedInv, ShellTypeOK, AtPrompt
<1>5. CommandRuns'
  BY <1>1, <1>3 DEF TypedInv, CommandRuns, Op, AtPrompt, Idle
<1>6. QED
  BY <1>2, <1>4, <1>5 DEF TypedInv

\* A table of which not every sector was read is a table all the same.
LEMMA LoadedTyped ==
  ASSUME TypeOK, NEW taken \in SUBSET TableSecs, NEW left \in Leftovers
  PROVE  LoadedTable(taken, left) \in [Slots -> Inode] /\ left.super \in Super
<1>1. left.super \in Super /\ left.row \in [0 .. (PerSector - 1) -> Inode]
  BY LeftoverAssumption
<1>2. ASSUME NEW s \in RowSecs, ReadUpTo(taken, s) # {}
      PROVE  disk[LastRead(taken, s)] \in [0 .. (PerSector - 1) -> Inode]
  <2> DEFINE R == ReadUpTo(taken, s)
             D == {s - k : k \in R}
  <2>1. R \subseteq RowSecs /\ R \subseteq Int /\ s \in Int /\ \A k \in R : k <= s
    <3>1. Rows \in Nat /\ InodeSec = 2 /\ DataStart = 2 + Rows /\ s \in 2 .. (1 + Rows)
      BY FileSystemAssumption DEF InodeSec, DataStart, RowSecs
    <3>2. \A k \in R : k \in 1 .. (1 + Rows) /\ 2 <= k /\ k <= s
      BY <3>1 DEF ReadUpTo, TableSecs, SuperSec
    <3>3. \A k \in R : k \in RowSecs /\ k \in Int
      BY <3>1, <3>2 DEF RowSecs
    <3>4. QED
      BY <3>1, <3>2, <3>3
  <2> HIDE DEF R
  <2>2. D # {} /\ D \in SUBSET Nat
    <3>1. \E k \in R : TRUE
      BY <1>2 DEF R
    <3>2. \A k \in R : s - k \in Nat
      BY <2>1
    <3>3. QED
      BY <3>1, <3>2
  <2>3. PICK d \in D : \A e \in D : d <= e
    BY <2>2, LeastElement
  <2>4. PICK k \in R : d = s - k
    BY <2>3
  <2>5. \A j \in R : j <= k
    <3>1. SUFFICES ASSUME NEW j \in R PROVE j <= k
      OBVIOUS
    <3>2. s - k <= s - j
      BY <2>3, <2>4
    <3>3. QED
      BY <2>1, <3>2
  <2>6. LastRead(taken, s) \in R
    BY <2>5 DEF LastRead, R
  <2>7. PICK l \in RowSecs : l = LastRead(taken, s)
    BY <2>1, <2>6
  <2>8. l \in Sectors /\ l # SuperSec /\ l < DataStart
    BY FileSystemAssumption DEF RowSecs, Sectors, SuperSec, InodeSec, DataStart
  <2>9. disk[l] \in Content(l)
    BY <2>8 DEF TypeOK
  <2>10. QED
    BY <2>7, <2>8, <2>9 DEF Content
<1>3. ASSUME NEW i \in Slots
      PROVE  LoadedTable(taken, left)[i] \in Inode
  <2> DEFINE s == InodeSec + (i \div PerSector)
             row == IF ReadUpTo(taken, s) = {} THEN left.row ELSE disk[LastRead(taken, s)]
  <2>1. i \div PerSector \in 0 .. (Rows - 1) /\ i % PerSector \in 0 .. (PerSector - 1)
    BY RowOfSlot
  <2>2. s \in RowSecs
    BY <2>1, FileSystemAssumption DEF RowSecs, InodeSec, DataStart
  <2>3. LoadedTable(taken, left)[i] = row[i % PerSector]
    BY DEF LoadedTable
  <2> HIDE DEF s
  <2>4. row \in [0 .. (PerSector - 1) -> Inode]
    BY <1>1, <1>2, <2>2
  <2> HIDE DEF row
  <2>5. QED
    BY <2>1, <2>3, <2>4
<1>4. LoadedTable(taken, left) \in [Slots -> Inode]
  BY <1>3 DEF LoadedTable
<1>5. QED
  BY <1>1, <1>4

\* A mount that the drive does not answer in full changes tables and superblock,
\* and makes them stale, or only the superblock.
LEMMA UnreadCases ==
  ASSUME TypedInv, CommandMountUnread
  PROVE  /\ AtPrompt /\ Idle
         /\ disk' = disk /\ call' = call /\ todo' = todo /\ crashes' = crashes /\ wrote' = wrote
         /\ command' = command /\ told' = told /\ lost' = lost
         /\ drive' \in {"ready", "error"} /\ faults' \in 0 .. MaxFaults
         /\ sb' \in Super /\ inodes' \in [Slots -> Inode]
         /\ \/ mounted' = TRUE /\ stale' = TRUE
            \/ inodes' = inodes /\ mounted' = mounted /\ ~mounted /\ stale' = stale
<1>1. PICK taken \in SUBSET TableSecs, left \in Leftovers :
        /\ AtPrompt /\ Idle
        /\ sb' = IF SuperSec \in taken THEN disk[SuperSec] ELSE left.super
        /\ ReadsTaken(IF sb'.magic THEN TableSecs ELSE {SuperSec}, taken)
        /\ IF sb'.magic
           THEN inodes' = LoadedTable(taken, left) /\ mounted' = TRUE
           ELSE UNCHANGED <<inodes, mounted>>
        /\ stale' = (stale \/ mounted')
        /\ UNCHANGED <<disk, call, todo, crashes, wrote, command, told, lost>>
  BY Zenon DEF CommandMountUnread
<1>2. TypeOK /\ ShellTypeOK /\ mounted \in BOOLEAN /\ stale \in BOOLEAN
      /\ inodes \in [Slots -> Inode]
  BY DEF TypedInv, ShellTypeOK, TypeOK
<1>3. Steady \/ Late \/ Fails
  BY <1>1 DEF ReadsTaken
<1>4. LoadedTable(taken, left) \in [Slots -> Inode] /\ left.super \in Super
      /\ disk[SuperSec] \in Super
  BY <1>2, LoadedTyped, TableTyped
<1>5. sb' \in Super /\ inodes' \in [Slots -> Inode]
  BY <1>1, <1>2, <1>4
<1>6. \/ mounted' = TRUE /\ stale' = TRUE
      \/ inodes' = inodes /\ mounted' = mounted /\ ~mounted /\ stale' = stale
  BY <1>1, <1>2
<1>7. drive' \in {"ready", "error"} /\ faults' \in 0 .. MaxFaults
  BY <1>2, <1>3, DriveTyped
<1>8. QED
  BY <1>1, <1>5, <1>6, <1>7

\* It keeps the types.
LEMMA UnreadTyped ==
  ASSUME TypedInv, CommandMountUnread
  PROVE  TypedInv'
<1>1. /\ AtPrompt /\ Idle /\ QueueInv /\ TypeOK
      /\ disk' = disk /\ call' = call /\ todo' = todo /\ crashes' = crashes /\ wrote' = wrote
      /\ command' = command /\ told' = told /\ lost' = lost
      /\ drive' \in {"ready", "error"} /\ faults' \in 0 .. MaxFaults
      /\ sb' \in Super /\ inodes' \in [Slots -> Inode]
      /\ \/ mounted' = TRUE /\ stale' = TRUE
         \/ inodes' = inodes /\ mounted' = mounted /\ ~mounted /\ stale' = stale
  BY UnreadCases DEF TypedInv, QueueInv
<1>2. todo = << >> /\ Len(todo) = 0 /\ Tables(todo) = {} /\ call = "idle"
  BY <1>1, PromptQuiet
<1>3. TypeOK'
  <2>1. mounted' \in BOOLEAN
    BY <1>1 DEF TypeOK
  <2>2. QED
    BY <1>1, <2>1 DEF TypeOK, Idle
<1>4. QueueTyped' /\ RowsCarryMemory' /\ CallKinds'
  BY <1>1, <1>2 DEF QueueInv, QueueTyped, RowsCarryMemory, CallKinds, Idle, Tables
<1>5. ShellTypeOK'
  <2>1. stale' \in BOOLEAN
    BY <1>1 DEF TypedInv, ShellTypeOK
  <2>2. QED
    BY <1>1, <1>3, <2>1 DEF TypedInv, ShellTypeOK, AtPrompt, Idle
<1>6. CommandRuns'
  BY <1>1, <1>2 DEF TypedInv, CommandRuns, Op, AtPrompt, Idle
<1>7. QED
  BY <1>3, <1>4, <1>5, <1>6 DEF TypedInv, QueueInv

\* A cat that makes the drive fail changes nothing else.
LEMMA CatTyped ==
  ASSUME TypedInv, NEW n \in Names, CommandCat(n)
  PROVE  TypedInv'
<1>1. /\ mounted' = mounted /\ sb' = sb /\ inodes' = inodes /\ disk' = disk /\ call' = call
      /\ todo' = todo /\ crashes' = crashes /\ wrote' = wrote
      /\ command' = command /\ told' = told /\ lost' = lost /\ stale' = stale
  BY DEF CommandCat, vars
<1>2. drive' \in {"ready", "error"} /\ faults' \in 0 .. MaxFaults
  BY DriveTyped DEF CommandCat, TypedInv
<1>3. QueueInv'
  BY <1>1 DEF TypedInv, QueueInv, TypeOK, QueueTyped, CallKinds, RowsCarryMemory, Idle
<1>4. ShellTypeOK'
  <2>1. TypeOK'
    BY <1>3 DEF QueueInv
  <2>2. QED
    BY <1>1, <1>2, <2>1 DEF TypedInv, ShellTypeOK, AtPrompt, Idle
<1>5. CommandRuns'
  BY <1>1 DEF TypedInv, CommandRuns, Idle, AtPrompt, Op
<1>6. QED
  BY <1>3, <1>4, <1>5 DEF TypedInv

\* A step of the running call, taken by the disk or refused, keeps the types.
LEMMA QueueStep ==
  ASSUME TypedInv, Taken \/ Refused
  PROVE  /\ TypedInv'
         /\ ~Idle /\ ~AtPrompt /\ Op' = Op
         /\ todo' = Tail(todo) /\ call' = IF Len(todo) = 1 THEN "idle" ELSE call
         /\ mounted' = mounted /\ inodes' = inodes /\ command' = command
         /\ told' = told /\ stale' = stale
<1>1. /\ ~Idle /\ todo' = Tail(todo) /\ call' = IF Len(todo) = 1 THEN "idle" ELSE call
      /\ mounted' = mounted /\ sb' = sb /\ inodes' = inodes /\ command' = command
      /\ crashes' = crashes /\ wrote' = wrote
      /\ told' = told /\ stale' = stale
  BY DEF Taken, Refused, WriteSector
<1>2. ~AtPrompt /\ Op' = Op /\ ~AtPrompt'
  BY <1>1 DEF TypedInv, ShellTypeOK, AtPrompt, Op
<1>3. QueueInv'
  <2>1. CASE Taken
    BY <2>1, SectorQueued DEF Taken, TypedInv
  <2>2. CASE Refused
    <3>1. disk' = disk
      BY <2>2 DEF Refused
    <3>2. DOMAIN disk' = Sectors /\ \A s \in Sectors : disk'[s] \in Content(s)
      BY <3>1 DEF TypedInv, QueueInv, TypeOK
    <3>3. QED
      BY <1>1, <3>2, QueueShrinks DEF TypedInv
  <2>3. QED
    BY <2>1, <2>2
<1>4. lost' \subseteq Sectors /\ drive' \in {"ready", "error"} /\ faults' \in 0 .. MaxFaults
  <2>1. Head(todo).sector \in Sectors /\ lost \subseteq Sectors
    BY <1>1, HeadLeaves DEF TypedInv, ShellTypeOK
  <2>2. lost' \subseteq lost \cup {Head(todo).sector}
    BY DEF Taken, Refused
  <2>3. Steady \/ Late \/ Fails
    BY DEF Taken, Refused
  <2>4. QED
    BY <2>1, <2>2, <2>3, DriveTyped DEF TypedInv
<1>5. ShellTypeOK'
  <2>1. TypeOK'
    BY <1>3 DEF QueueInv
  <2>2. QED
    BY <1>1, <1>2, <1>4, <2>1 DEF TypedInv, ShellTypeOK
<1>6. CommandRuns'
  BY <1>1, <1>2 DEF TypedInv, CommandRuns, Idle
<1>7. QED
  BY <1>1, <1>2, <1>3, <1>5, <1>6 DEF TypedInv

\* The message ends the command.
LEMMA ReportTyped ==
  ASSUME TypedInv, Report
  PROVE  TypedInv'
<1>1. /\ ~AtPrompt /\ Idle /\ command' = Nothing
      /\ told' = [n \in Names |-> IF n \in command.files THEN Outcome(command.op) ELSE told[n]]
      /\ stale' = (stale /\ command.op # "format")
      /\ mounted' = mounted /\ sb' = sb /\ inodes' = inodes /\ disk' = disk /\ call' = call
      /\ todo' = todo /\ crashes' = crashes /\ wrote' = wrote
      /\ lost' = lost /\ faults' = faults /\ drive' = drive
  BY DEF Report, vars, Steady
<1>2. QueueInv'
  BY <1>1 DEF TypedInv, QueueInv, TypeOK, QueueTyped, CallKinds, RowsCarryMemory, Idle
<1>3. told' \in [Names -> Told]
  BY <1>1 DEF TypedInv, ShellTypeOK, Told, Outcome
<1>4. ShellTypeOK'
  <2>1. TypeOK'
    BY <1>2 DEF QueueInv
  <2>2. stale' \in BOOLEAN
    BY <1>1 DEF TypedInv, ShellTypeOK
  <2>3. QED
    BY <1>1, <1>3, <2>1, <2>2 DEF TypedInv, ShellTypeOK, Idle
<1>5. CommandRuns'
  BY <1>1 DEF TypedInv, CommandRuns, Idle, AtPrompt, Op
<1>6. QED
  BY <1>2, <1>4, <1>5 DEF TypedInv

\* The power loss ends everything.
LEMMA LossTyped ==
  ASSUME TypedInv, PowerLoss
  PROVE  /\ TypedInv' /\ ~mounted' /\ AtPrompt' /\ Live(inodes') = {} /\ todo' = << >>
         /\ inodes' = [i \in Slots |-> EmptyInode]
<1>1. /\ Crash /\ command' = Nothing
      /\ told' = [n \in Names |-> IF ~AtPrompt /\ n \in command.files THEN Unsure ELSE told[n]]
      /\ drive' = "ready" /\ lost' = lost /\ faults' = faults /\ stale' = stale
  BY DEF PowerLoss
<1>2. /\ call' = "idle" /\ ~mounted' /\ todo' = << >>
      /\ inodes' = [i \in Slots |-> EmptyInode]
  BY <1>1 DEF Crash
<1>3. Live(inodes') = {}
  BY <1>2, BlankTyped
<1>4. QueueInv'
  BY <1>1, CrashQueued DEF TypedInv
<1>5. told' \in [Names -> Told]
  BY <1>1 DEF TypedInv, ShellTypeOK, Told
<1>6. ShellTypeOK'
  <2>1. TypeOK'
    BY <1>4 DEF QueueInv
  <2>2. QED
    BY <1>1, <1>2, <1>5, <2>1 DEF TypedInv, ShellTypeOK, Idle
<1>7. CommandRuns'
  BY <1>1, <1>2, <1>3 DEF CommandRuns, Idle, AtPrompt, Op
<1>8. QED
  BY <1>1, <1>2, <1>3, <1>4, <1>6, <1>7 DEF TypedInv, AtPrompt

\* Every step keeps the types.
LEMMA NextTyped ==
  ASSUME TypedInv, [ShellNext]_shellVars
  PROVE  TypedInv'
<1>1. CASE ShellNext
  BY <1>1, FormatTyped, MountTyped, UnreadTyped, TouchTyped, WriteTyped, RmTyped, CatTyped,
     DiskTyped, QueueStep, ReportTyped, LossTyped DEF ShellNext
<1>2. CASE UNCHANGED shellVars
  BY <1>2 DEF shellVars, vars, TypedInv, QueueInv, TypeOK, QueueTyped, CallKinds, RowsCarryMemory,
              ShellTypeOK, CommandRuns, Idle, AtPrompt, Op
<1>3. QED
  BY <1>1, <1>2

\* The types hold when the machine is switched on.
LEMMA InitTyped ==
  ASSUME ShellInit
  PROVE  TypedInv
<1>1. /\ Init /\ command = Nothing /\ told = [n \in Names |-> NoFile]
      /\ drive = "ready" /\ lost = {} /\ faults = 0 /\ stale = FALSE
  BY DEF ShellInit
<1>2. QueueInv
  BY <1>1, InitSync, SyncQueue
<1>3. call = "idle" /\ ~mounted /\ Live(inodes) = {}
  BY <1>1, BlankTyped DEF Init
<1>4. told \in [Names -> Told] /\ faults \in 0 .. MaxFaults
  BY <1>1, ShellAssumption DEF Told
<1>5. ShellTypeOK
  BY <1>1, <1>2, <1>3, <1>4 DEF ShellTypeOK, QueueInv, Idle
<1>6. CommandRuns
  BY <1>1, <1>3 DEF CommandRuns, Idle, AtPrompt, Op
<1>7. QED
  BY <1>2, <1>5, <1>6 DEF TypedInv

\* Types, queue and command fit each other in every reachable state.
LEMMA SpecTyped == ShellSpec => []TypedInv
<1>1. TypedInv /\ [ShellNext]_shellVars => TypedInv'
  BY NextTyped
<1>2. QED
  BY <1>1, InitTyped, PTL DEF ShellSpec

(***************************************************************************)
(* The tables, the disk, the queue of writes and what the user was told    *)
(* have their types, and the prompt waits for the last write.              *)
(***************************************************************************)
THEOREM ShellTypes == ShellSpec => []ShellTypeOK
<1>1. TypedInv => ShellTypeOK
  BY DEF TypedInv
<1>2. QED
  BY <1>1, SpecTyped, PTL
-----------------------------------------------------------------------------
(* The text of the files. *)

\* The table is where the disk is.
LEMMA SameDisk ==
  ASSUME disk' = disk
  PROVE  TableOnDisk' = TableOnDisk
BY DEF TableOnDisk

\* Where the row of a slot is.
LEMMA SlotSector ==
  ASSUME NEW i \in Slots
  PROVE  /\ Sec(i) \in RowSecs /\ Sec(i) \in Sectors /\ Sec(i) \notin Low
         /\ Sec(i) - InodeSec = i \div PerSector
         /\ TableOnDisk[i] = disk[Sec(i)][i % PerSector]
         /\ inodes[i] = Row(inodes, i \div PerSector)[i % PerSector]
<1> DEFINE r == i \div PerSector
           p == i % PerSector
<1>1. r \in 0 .. (Rows - 1) /\ p \in 0 .. (PerSector - 1) /\ r * PerSector + p = i
  BY RowOfSlot
<1>2. TableOnDisk[i] = disk[Sec(i)][p]
  BY DEF TableOnDisk, Sec
<1> HIDE DEF r, p
<1>3. inodes[i] = Row(inodes, r)[p]
  BY <1>1 DEF Row
<1>4. /\ InodeSec + r \in RowSecs /\ InodeSec + r \in Sectors /\ InodeSec + r \notin Low
      /\ (InodeSec + r) - InodeSec = r
  BY <1>1, FileSystemAssumption DEF RowSecs, Sectors, Low, InodeSec, DataStart, SuperSec
<1>5. QED
  BY <1>2, <1>3, <1>4 DEF r, p, Sec

\* What a step of the running call does to the sectors.
LEMMA HeadStep ==
  ASSUME TypedInv, Taken \/ Refused, NEW s \in Sectors
  PROVE  /\ todo[1].sector # s =>
              disk'[s] = disk[s] /\ (s \in lost' <=> s \in lost) /\ (Awaited(s) => Awaited(s)')
         /\ todo[1].sector = s =>
              \/ Taken /\ disk'[s] = todo[1].content /\ s \notin lost'
              \/ disk' = disk /\ s \in lost'
<1>1. /\ ~Idle /\ todo' = Tail(todo) /\ QueueInv
  BY QueueStep DEF TypedInv
<1>2. /\ Head(todo) = todo[1]
      /\ \A j \in 2 .. Len(todo) : j - 1 \in 1 .. Len(todo') /\ todo[j] = todo'[j - 1]
      /\ Len(todo) \in Nat \ {0}
  BY <1>1, HeadLeaves
<1>3. ASSUME todo[1].sector # s, Awaited(s)
      PROVE  Awaited(s)'
  <2>1. PICK j \in 1 .. Len(todo) : todo[j].sector = s
    BY <1>3 DEF Awaited
  <2>2. j \in 2 .. Len(todo)
    BY <1>2, <1>3, <2>1
  <2>3. j - 1 \in 1 .. Len(todo') /\ todo'[j - 1].sector = s
    BY <1>2, <2>1, <2>2
  <2>4. QED
    BY <2>3 DEF Awaited
<1>4. CASE Taken
  <2>1. /\ disk' = [disk EXCEPT ![todo[1].sector] = todo[1].content] /\ DOMAIN disk = Sectors
        /\ lost' = lost \ {todo[1].sector}
    BY <1>1, <1>2, <1>4, HeadWrite DEF Taken
  <2>2. QED
    BY <1>3, <1>4, <2>1
<1>5. CASE Refused
  <2>1. disk' = disk /\ lost' = lost \cup {todo[1].sector}
    BY <1>2, <1>5 DEF Refused
  <2>2. QED
    BY <1>3, <2>1
<1>6. QED
  BY <1>4, <1>5

\* What it does to a slot of the table.
LEMMA SlotStep ==
  ASSUME TypedInv, Taken \/ Refused, NEW i \in Slots
  PROVE  \/ Sec(i) \in lost' /\ TableOnDisk'[i] = TableOnDisk[i]
         \/ Sec(i) \notin lost' /\ TableOnDisk'[i] = inodes[i] /\ 1 \in Tables(todo)
         \/ /\ Sec(i) \notin lost /\ Sec(i) \notin lost' /\ TableOnDisk'[i] = TableOnDisk[i]
            /\ Awaited(Sec(i)) => Awaited(Sec(i))'
<1>1. /\ Sec(i) \in RowSecs /\ Sec(i) \in Sectors
      /\ Sec(i) - InodeSec = i \div PerSector
      /\ TableOnDisk[i] = disk[Sec(i)][i % PerSector]
      /\ inodes[i] = Row(inodes, i \div PerSector)[i % PerSector]
  BY SlotSector
<1>2. TableOnDisk'[i] = disk'[Sec(i)][i % PerSector]
  BY DEF TableOnDisk, Sec
<1>3. CASE todo[1].sector # Sec(i)
  BY <1>1, <1>2, <1>3, HeadStep
<1>4. CASE todo[1].sector = Sec(i)
  <2>1. CASE Taken /\ disk'[Sec(i)] = todo[1].content /\ Sec(i) \notin lost'
    <3>1. 1 \in 1 .. Len(todo)
      BY QueueStep, HeadLeaves DEF TypedInv
    <3>2. 1 \in Tables(todo)
      BY <1>1, <1>4, <3>1 DEF Tables
    <3>3. todo[1].content = Row(inodes, i \div PerSector)
      BY <1>1, <1>4, <3>2 DEF TypedInv, QueueInv, RowsCarryMemory
    <3>4. QED
      BY <1>1, <1>2, <2>1, <3>2, <3>3
  <2>2. CASE disk' = disk /\ Sec(i) \in lost'
    BY <1>1, <1>2, <2>2
  <2>3. QED
    BY <1>1, <1>4, <2>1, <2>2, HeadStep
<1>5. QED
  BY <1>3, <1>4

\* A file whose row is not written has the sectors of files.
LEMMA LowSectors ==
  /\ Low \subseteq DataSecs /\ Low \subseteq Sectors /\ Low \cap RowSecs = {} /\ 0 \notin Low
BY FileSystemAssumption DEF Low, DataSecs, Sectors, RowSecs, DataStart, InodeSec, SuperSec

\* The text goes before the table, and it is there when the table is.
LEMMA StepText ==
  ASSUME TypedInv, TextThere, Taken \/ Refused
  PROVE  TextThere'
<1>1. /\ ~Idle /\ todo' = Tail(todo) /\ QueueInv /\ inodes' = inodes
  BY QueueStep DEF TypedInv
<1>2. /\ Len(todo) \in Nat \ {0} /\ 1 \in 1 .. Len(todo)
      /\ \A j \in 1 .. Len(todo') : j + 1 \in 1 .. Len(todo) /\ todo'[j] = todo[j + 1]
      /\ \A j \in Tables(todo') : j + 1 \in Tables(todo) /\ todo'[j] = todo[j + 1]
  <2>1. /\ Len(todo) \in Nat \ {0} /\ 1 \in 1 .. Len(todo)
        /\ \A j \in 1 .. Len(todo') : j + 1 \in 1 .. Len(todo) /\ todo'[j] = todo[j + 1]
    BY <1>1, HeadLeaves
  <2>2. \A j \in Tables(todo') : j + 1 \in Tables(todo) /\ todo'[j] = todo[j + 1]
    BY <1>1, PlacesMove
  <2>3. QED
    BY <2>1, <2>2
<1>3. ASSUME NEW s \in Low
      PROVE  /\ TextIn(s) => TextIn(s)'
             /\ Awaited(s) => TextIn(s)' \/ Awaited(s)'
  <2>1. s \in Sectors
    BY LowSectors
  <2>2. CASE todo[1].sector # s
    BY <2>1, <2>2, HeadStep DEF TextIn
  <2>3. CASE todo[1].sector = s
    <3>1. todo[1].content = Text
      BY <1>2, <2>3 DEF TextThere, QueueText
    <3>2. TextIn(s)'
      BY <2>1, <2>3, <3>1, HeadStep DEF TextIn
    <3>3. QED
      BY <3>2
  <2>4. QED
    BY <2>2, <2>3
<1>4. QueueText'
  <2>1. ASSUME NEW j \in 1 .. Len(todo')
        PROVE  /\ todo'[j].sector \in Low => todo'[j].content = Text
               /\ todo'[j].sector \in DataSecs => \A k \in Tables(todo') : j < k
    <3>1. j + 1 \in 1 .. Len(todo) /\ todo'[j] = todo[j + 1]
      BY <1>2
    <3>2. todo'[j].sector \in Low => todo'[j].content = Text
      BY <3>1 DEF TextThere, QueueText
    <3>3. ASSUME todo'[j].sector \in DataSecs, NEW k \in Tables(todo')
          PROVE  j < k
      <4>1. k + 1 \in Tables(todo) /\ k \in Nat
        BY <1>2, <3>3 DEF Tables
      <4>2. j + 1 < k + 1
        BY <3>1, <3>3, <4>1 DEF TextThere, QueueText
      <4>3. QED
        BY <4>1, <4>2
    <3>4. QED
      BY <3>2, <3>3
  <2>2. QED
    BY <2>1 DEF QueueText
<1>5. MemoryText'
  <2>1. ASSUME ~stale, NEW i \in Live(inodes)
        PROVE  /\ Shaped(inodes[i])
               /\ inodes[i].size = 1 => TextIn(inodes[i].start)' \/ Awaited(inodes[i].start)'
    <3> DEFINE s == inodes[i].start
    <3>1. Shaped(inodes[i]) /\ (inodes[i].size = 1 => TextIn(s) \/ Awaited(s))
      BY <2>1 DEF TextThere, MemoryText
    <3>2. s' = s
      BY <1>1
    <3>3. inodes[i].size = 1 => s \in Low
      BY <3>1 DEF Shaped
    <3> HIDE DEF s
    <3>4. ASSUME inodes[i].size = 1
          PROVE  TextIn(s)' \/ Awaited(s)'
      <4>1. PICK z \in Low : z = s
        BY <3>3, <3>4
      <4>2. TextIn(z)' \/ Awaited(z)'
        BY <1>3, <3>1, <3>4, <4>1
      <4>3. QED
        BY <3>2, <4>1, <4>2
    <3>5. QED
      BY <3>1, <3>4 DEF s
  <2>2. stale' = stale
    BY QueueStep
  <2>3. QED
    BY <1>1, <2>1, <2>2 DEF MemoryText, Live, Shaped
<1>6. DiskText'
  <2>1. ASSUME ~stale, NEW i \in Slots, i \in Live(TableOnDisk'), Sec(i) \notin lost'
        PROVE  /\ Shaped(TableOnDisk'[i])
               /\ TableOnDisk'[i].size = 1 => TextIn(TableOnDisk[i].start)'
    <3> DEFINE f == TableOnDisk'[i]
    <3>1. f.type # "empty"
      BY <2>1 DEF Live
    <3> HIDE DEF f
    <3>2. CASE f = TableOnDisk[i] /\ Sec(i) \notin lost
      <4>1. i \in Live(TableOnDisk)
        BY <3>1, <3>2 DEF Live
      <4>2. Shaped(f) /\ (f.size = 1 => TextIn(f.start))
        BY <2>1, <3>2, <4>1 DEF TextThere, DiskText
      <4>3. f.size = 1 => \E z \in Low : z = f.start /\ TextIn(z)'
        BY <1>3, <4>2 DEF Shaped
      <4>4. QED
        BY <4>2, <4>3 DEF f, TextIn
    <3>3. CASE f = inodes[i] /\ 1 \in Tables(todo)
      <4>1. i \in Live(inodes)
        BY <3>1, <3>3 DEF Live
      <4>2. Shaped(f) /\ (f.size = 1 => TextIn(f.start) \/ Awaited(f.start))
        BY <2>1, <3>3, <4>1 DEF TextThere, MemoryText
      <4>3. \A z \in Low : ~Awaited(z)
        <5>1. SUFFICES ASSUME NEW j \in 1 .. Len(todo), todo[j].sector \in Low PROVE FALSE
          BY DEF Awaited
        <5>2. j < 1
          BY <3>3, <5>1, LowSectors DEF TextThere, QueueText
        <5>3. QED
          BY <5>1, <5>2
      <4>4. f.size = 1 => \E z \in Low : z = f.start /\ TextIn(z)'
        BY <1>3, <4>2, <4>3 DEF Shaped
      <4>5. QED
        BY <4>2, <4>4 DEF f, TextIn
    <3>4. QED
      BY <2>1, <3>2, <3>3, SlotStep DEF f
  <2>2. stale' = stale
    BY QueueStep
  <2>3. QED
    BY <2>1, <2>2 DEF DiskText, Live
<1>7. QED
  BY <1>4, <1>5, <1>6 DEF TextThere

\* A step that writes nothing keeps the text on disk.
LEMMA StillText ==
  ASSUME TypedInv, TextThere, disk' = disk, lost' = lost, stale => stale',
         ~stale' =>
           \A i \in Live(inodes') :
             /\ Shaped(inodes'[i])
             /\ inodes'[i].size = 1 =>
                  TextIn(inodes'[i].start) \/ Awaited(inodes[i].start)',
         QueueText'
  PROVE  TextThere'
<1>1. TableOnDisk' = TableOnDisk
  BY SameDisk
<1>2. DiskText'
  BY <1>1 DEF TextThere, DiskText, Shaped, Live, TextIn
<1>3. MemoryText'
  BY DEF MemoryText, Shaped, TextIn
<1>4. QED
  BY <1>2, <1>3 DEF TextThere

\* Commands that write no data queue none.
LEMMA NoneQueued ==
  ASSUME \A j \in 1 .. Len(todo') : todo'[j].sector \notin DataSecs
  PROVE  QueueText'
BY LowSectors DEF QueueText

\* The data of the files that stay is there, and nothing is on its way.
LEMMA FilesStay ==
  ASSUME TypedInv, TextThere, AtPrompt, ~stale, NEW i \in Live(inodes)
  PROVE  Shaped(inodes[i]) /\ (inodes[i].size = 1 => TextIn(inodes[i].start))
BY PromptQuiet DEF TextThere, MemoryText

\* format leaves no file in memory, and queues no data.
LEMMA FormatText ==
  ASSUME TypedInv, TextThere, CommandFormat
  PROVE  TextThere'
<1>1. Format /\ QueueInv /\ disk' = disk /\ lost' = lost /\ stale' = stale
  BY DEF CommandFormat, TypedInv, Run, Format, Begin
<1>2. Live(inodes') = {} /\ \A j \in 1 .. Len(todo') : todo'[j].sector \notin DataSecs
  BY <1>1, FormatQueue, BlankTyped
<1>3. QED
  BY <1>1, <1>2, NoneQueued, StillText

\* A file that touch made has no data.
LEMMA TouchText ==
  ASSUME TypedInv, TextThere, NEW n \in Names, CommandTouch(n)
  PROVE  TextThere'
<1> DEFINE f == FindFreeInode
<1>1. /\ CreateFile(n) /\ QueueInv /\ AtPrompt /\ disk' = disk /\ lost' = lost
      /\ stale' = stale
  BY DEF CommandTouch, TypedInv, Run, CreateFile, Begin
<1>2. /\ f \in Slots
      /\ inodes' = [inodes EXCEPT ![f] =
                      [type |-> "regular", name |-> Stored(n), size |-> 0, start |-> 0]]
      /\ \A j \in 1 .. Len(todo') : todo'[j].sector \notin DataSecs
      /\ inodes \in [Slots -> Inode]
  BY <1>1, CreateQueue DEF QueueInv, TypeOK
<1> HIDE DEF f
<1>3. ASSUME NEW i \in Live(inodes')
      PROVE  \/ inodes'[i].size = 0 /\ inodes'[i].start = 0
             \/ i \in Live(inodes) /\ inodes'[i] = inodes[i]
  BY <1>2 DEF Live
<1>4. ASSUME ~stale, NEW i \in Live(inodes')
      PROVE  Shaped(inodes'[i]) /\ (inodes'[i].size = 1 => TextIn(inodes'[i].start))
  BY <1>1, <1>3, <1>4, FilesStay DEF Shaped
<1>5. QueueText'
  BY <1>2, NoneQueued
<1>6. QED
  BY <1>1, <1>4, <1>5, StillText

\* What rm leaves keeps its data.
LEMMA RmText ==
  ASSUME TypedInv, TextThere, NEW n \in Names, CommandRm(n)
  PROVE  TextThere'
<1> DEFINE f == OpenFile(n)
<1>1. /\ DeleteFile(n) /\ QueueInv /\ AtPrompt /\ disk' = disk /\ lost' = lost
      /\ stale' = stale
  BY DEF CommandRm, TypedInv, Run, DeleteFile, Begin
<1>2. /\ f \in Slots
      /\ inodes' = [inodes EXCEPT ![f].type = "empty", ![f].size = 0]
      /\ inodes'[f].type = "empty"
      /\ \A j \in 1 .. Len(todo') : todo'[j].sector \notin DataSecs
      /\ inodes \in [Slots -> Inode]
  BY <1>1, DeleteQueue DEF QueueInv, TypeOK
<1> HIDE DEF f
<1>3. ASSUME NEW i \in Live(inodes')
      PROVE  i \in Live(inodes) /\ inodes'[i] = inodes[i]
  <2>1. i # f
    BY <1>2 DEF Live
  <2>2. inodes'[i] = inodes[i]
    BY <1>2, <2>1 DEF Live
  <2>3. QED
    BY <2>2 DEF Live
<1>4. QED
  BY <1>1, <1>2, <1>3, FilesStay, NoneQueued, StillText

\* What write does to the slot of the file and to the queue.
LEMMA WriteCall ==
  ASSUME TypedInv, TextThere, NEW n \in Names, CommandWrite(n)
  PROVE  LET f == OpenFile(n) IN
         /\ f \in Slots /\ f \in Found(n) /\ f \in Live(inodes)
         /\ \A i \in Slots : i # f => inodes'[i] = inodes[i]
         /\ inodes'[f].type = inodes[f].type /\ inodes'[f].name = inodes[f].name
         /\ inodes'[f].size = 1 /\ inodes'[f].start = Start(f)
         /\ ~stale => Start(f) \in Low
         /\ \E j \in 1 .. Len(todo') : todo'[j].sector = Start(f)
         /\ QueueText'
<1> DEFINE f == OpenFile(n)
           s == Start(f)
<1>1. /\ f \in Slots /\ f \in Found(n) /\ WriteFile(f, Text, 1) /\ QueueInv
      /\ Text \in Values /\ 1 \in Sizes
  BY WriteTyped DEF TypedInv
<1>2. /\ inodes' = [inodes EXCEPT ![f].start = s, ![f].size = 1]
      /\ s \in DataSecs /\ f \in Live(inodes)
      /\ inodes \in [Slots -> Inode]
  BY <1>1, WriteQueue DEF QueueInv, TypeOK
<1>3. inodes[f] \in Inode
  BY <1>1, <1>2
<1>4. /\ inodes'[f].type = inodes[f].type /\ inodes'[f].name = inodes[f].name
      /\ inodes'[f].size = 1 /\ inodes'[f].start = s
      /\ \A i \in Slots : i # f => inodes'[i] = inodes[i]
  <2> HIDE DEF f, s
  <2>1. inodes'[f] = [inodes[f] EXCEPT !.start = s, !.size = 1]
    BY <1>1, <1>2
  <2>2. inodes[f] = [type |-> inodes[f].type, name |-> inodes[f].name,
                     size |-> inodes[f].size, start |-> inodes[f].start]
    BY <1>3 DEF Inode
  <2>3. QED
    BY <1>1, <1>2, <2>1, <2>2
<1>5. ASSUME ~stale
      PROVE  s \in Low
  <2>1. CASE inodes[f].start = 0
    <3>1. s = DataStart + sb.used /\ sb.used + 1 <= MaxUsed
      <4>1. sb.used + 1 + 0 <= MaxUsed
        BY <1>1, <2>1 DEF WriteFile
      <4>2. sb.used \in Nat
        BY <1>1, FileSystemAssumption DEF QueueInv, TypeOK, Super
      <4>3. QED
        BY <2>1, <4>1, <4>2 DEF Start, NextSector
    <3>2. sb.used \in Nat
      BY <1>1, FileSystemAssumption DEF QueueInv, TypeOK, Super
    <3>3. QED
      BY <3>1, <3>2, FileSystemAssumption DEF Low, DataStart, InodeSec
  <2>2. CASE inodes[f].start # 0
    BY <1>2, <1>5, <2>2 DEF TextThere, MemoryText, Shaped, Start
  <2>3. QED
    BY <2>1, <2>2
<1>6. /\ \E j \in 1 .. Len(todo') : todo'[j].sector = s
      /\ \A j \in 1 .. Len(todo') : todo'[j].sector \in DataSecs =>
           todo'[j].content = Text /\ \A l \in Tables(todo') : j < l
  BY <1>1, OneBlock
<1>7. QueueText'
  BY <1>6, LowSectors DEF QueueText
<1>8. QED
  BY <1>1, <1>2, <1>4, <1>5, <1>6, <1>7

\* write queues the text for the file's sector, before the table.
LEMMA WriteText ==
  ASSUME TypedInv, TextThere, NEW n \in Names, CommandWrite(n)
  PROVE  TextThere'
<1>1. AtPrompt /\ disk' = disk /\ lost' = lost /\ stale' = stale
  BY DEF CommandWrite, Run, WriteFile, Begin
<1>2. PICK f \in Slots :
        /\ \A i \in Slots : i # f => inodes'[i] = inodes[i]
        /\ inodes'[f].size = 1 /\ (~stale => inodes'[f].start \in Low)
        /\ \E j \in 1 .. Len(todo') : todo'[j].sector = inodes'[f].start
        /\ QueueText'
  BY WriteCall
<1>3. Awaited(inodes[f].start)'
  BY <1>2 DEF Awaited
<1>4. ASSUME NEW i \in Live(inodes'), i # f
      PROVE  i \in Live(inodes) /\ inodes'[i] = inodes[i]
  BY <1>2, <1>4 DEF Live
<1>5. ASSUME ~stale, NEW i \in Live(inodes')
      PROVE  /\ Shaped(inodes'[i])
             /\ inodes'[i].size = 1 =>
                  TextIn(inodes'[i].start) \/ Awaited(inodes[i].start)'
  <2>1. CASE i = f
    BY <1>2, <1>3, <1>5, <2>1, LowSectors DEF Shaped
  <2>2. CASE i # f
    BY <1>1, <1>4, <1>5, <2>2, FilesStay
  <2>3. QED
    BY <2>1, <2>2
<1>6. QED
  BY <1>1, <1>2, <1>5, StillText

\* The disk command writes behind the files.
LEMMA DiskCommandText ==
  ASSUME TypedInv, TextThere, TestSectors \cap Low = {}, NEW s \in TestSectors, CommandDisk(s)
  PROVE  TextThere'
<1>1. /\ DiskCommand(s) /\ QueueInv /\ AtPrompt /\ disk' = disk /\ lost' = lost
      /\ inodes' = inodes /\ stale' = stale
  BY DEF CommandDisk, TypedInv, Run, DiskCommand, Begin
<1>2. Len(todo') = 1 /\ todo'[1].sector = s /\ Tables(todo') = {}
  <2>1. Len(todo') = 1 /\ todo'[1] = [sector |-> s, content |-> Pattern] /\ Tables(todo') = {}
    BY <1>1, DiskQueue
  <2>2. QED
    BY <2>1
<1>3. QueueText'
  BY <1>2 DEF QueueText
<1>4. QED
  BY <1>1, <1>3, FilesStay, StillText

\* What is mounted is what is on disk, or stale.
LEMMA MountText ==
  ASSUME TypedInv, TextThere, CommandMount
  PROVE  TextThere'
<1>1. /\ AtPrompt /\ disk' = disk /\ lost' = lost /\ todo' = todo
      /\ stale' = (stale \/ (mounted' /\ lost # {}))
      /\ inodes' = inodes \/ (inodes' = TableOnDisk /\ mounted')
  BY DEF CommandMount, Mount
<1>2. QueueText'
  BY <1>1, PromptQuiet DEF QueueText
<1>3. CASE inodes' = inodes
  BY <1>1, <1>2, <1>3, FilesStay, StillText
<1>4. CASE inodes' = TableOnDisk /\ mounted'
  <2>1. ASSUME ~stale', NEW i \in Live(inodes')
        PROVE  Shaped(inodes'[i]) /\ (inodes'[i].size = 1 => TextIn(inodes'[i].start))
    BY <1>1, <1>4, <2>1 DEF TextThere, DiskText
  <2>2. QED
    BY <1>1, <1>2, <2>1, StillText
<1>5. QED
  BY <1>1, <1>3, <1>4

\* At the prompt the disk has what the memory has, or has refused it.
LEMMA Settled ==
  ASSUME ShellInv, AtPrompt \/ Idle, Fresh, NEW i \in Slots
  PROVE  Sec(i) \in lost \/ TableOnDisk[i] = inodes[i]
<1>1. todo = << >>
  BY PromptQuiet DEF ShellInv, TypedInv, QueueInv, TypeOK
<1>2. ~Awaited(Sec(i))
  BY <1>1 DEF Awaited
<1>3. QED
  BY <1>2 DEF ShellInv, MemoryTold, SlotFollows

\* With a message nothing is left to write; after a format no file is left, on
\* disk or in memory, where the disk took it.
LEMMA ReportText ==
  ASSUME ShellInv, Report
  PROVE  TextThere'
<1>1. /\ ~AtPrompt /\ Idle /\ disk' = disk /\ lost' = lost /\ todo' = todo /\ inodes' = inodes
      /\ stale' = (stale /\ command.op # "format")
      /\ TypedInv /\ TextThere
  BY DEF Report, vars, ShellInv
<1>2. todo = << >>
  BY <1>1 DEF TypedInv, QueueInv, TypeOK
<1>3. QueueText'
  BY <1>1, <1>2 DEF QueueText
<1>4. CASE command.op = "format"
  <2>1. Fresh /\ Live(inodes) = {}
    BY <1>1, <1>4 DEF Fresh, Op, TypedInv, CommandRuns
  <2>2. \A i \in Live(TableOnDisk) : Sec(i) \in lost
    BY <1>1, <2>1, Settled DEF Live
  <2>3. TableOnDisk' = TableOnDisk
    BY <1>1, SameDisk
  <2>4. DiskText'
    BY <1>1, <2>2, <2>3 DEF DiskText, Live
  <2>5. MemoryText'
    BY <1>1, <2>1 DEF MemoryText, Live
  <2>6. QED
    BY <1>3, <2>4, <2>5 DEF TextThere
<1>5. CASE command.op # "format"
  <2>1. \A i : ~Awaited(i)
    BY <1>2 DEF Awaited
  <2>2. ~stale' => \A i \in Live(inodes') :
          Shaped(inodes'[i]) /\ (inodes'[i].size = 1 => TextIn(inodes'[i].start))
    BY <1>1, <1>5, <2>1 DEF TextThere, MemoryText
  <2>3. QED
    BY <1>1, <1>3, <1>5, <2>2, StillText
<1>6. QED
  BY <1>4, <1>5

\* A power loss leaves the data on disk, and no file in memory.
LEMMA LossText ==
  ASSUME TypedInv, TextThere, PowerLoss
  PROVE  TextThere'
<1>1. disk' = disk /\ lost' = lost /\ stale' = stale /\ Live(inodes') = {} /\ todo' = << >>
  BY LossTyped DEF PowerLoss, Crash
<1>2. QueueText'
  BY <1>1 DEF QueueText
<1>3. QED
  BY <1>1, <1>2, StillText

-----------------------------------------------------------------------------
(* What the user was told. *)

\* Names are of files in use, and a file has one.
LEMMA NamesOf ==
  ASSUME NEW t, NEW n
  PROVE  \A i \in Slots : i \in Under(t, n) <=> n \in NameOf(t[i])
BY DEF Under, NameOf, Live

\* Tables with the same files named n fit the same.
LEMMA FitsSame ==
  ASSUME NEW t, NEW u, NEW n, NEW d, Fits(t, n, d),
         \A i \in Slots : /\ n \in NameOf(t[i]) <=> n \in NameOf(u[i])
                          /\ n \in NameOf(t[i]) => t[i].size = u[i].size
  PROVE  Fits(u, n, d)
<1>1. Under(u, n) = Under(t, n) /\ Under(t, n) \subseteq Slots
  BY NamesOf DEF Under, Live
<1>2. \A i \in Under(t, n) : u[i].size = t[i].size
  BY <1>1, NamesOf
<1>3. QED
  BY <1>1, <1>2 DEF Fits

\* Where a slot has no more names than before, no two share one.
LEMMA UniqueShrinks ==
  ASSUME Unique, stale => stale', \A i \in Slots : SlotNames(i)' \subseteq SlotNames(i)
  PROVE  Unique'
BY DEF Unique

\* A name in memory is in one slot.
LEMMA OneNamed ==
  ASSUME Unique, ~stale, NEW n, NEW i \in Slots, n \in NameOf(inodes[i])
  PROVE  /\ \A j \in Slots : j # i => n \notin SlotNames(j) /\ n \notin NameOf(inodes[j])
         /\ Under(inodes, n) = {i}
<1>1. \A j \in Slots : j # i => n \notin SlotNames(j) /\ n \notin NameOf(inodes[j])
  BY DEF Unique, SlotNames
<1>2. Under(inodes, n) = {i}
  BY <1>1, NamesOf DEF Under, Live
<1>3. QED
  BY <1>1, <1>2

\* A command that saves the tables saves the row of every slot.
LEMMA RowAwaited ==
  ASSUME Saves(todo', inodes', sb'), NEW i \in Slots
  PROVE  Awaited(Sec(i))'
<1>1. i \div PerSector \in 0 .. (Rows - 1)
  BY RowOfSlot
<1>2. \E j \in 1 .. Len(todo') : todo'[j].sector = InodeSec + (i \div PerSector)
  BY <1>1 DEF Saves
<1>3. QED
  BY <1>2 DEF Awaited, Sec

\* A command that changes the slot i, in use by no file but n, before or after.
LEMMA CallTold ==
  ASSUME ShellInv, NEW n \in Names, NEW op \in {"touch", "write", "rm"}, Run(op, {n}),
         mounted, mounted' = mounted, stale' = stale, disk' = disk,
         Saves(todo', inodes', sb'), NEW i \in Slots,
         \A j \in Slots : j # i => inodes'[j] = inodes[j],
         NameOf(inodes[i]) \subseteq {n}, NameOf(inodes'[i]) \subseteq {n},
         ~stale => \A j \in Slots : j # i => n \notin SlotNames(j),
         ~stale => Fits(inodes', n, Outcome(op))
  PROVE  Unique' /\ MemoryTold' /\ DiskTold'
<1>1. /\ AtPrompt /\ ~AtPrompt' /\ command'.op = op /\ command'.files = {n} /\ Op' = op
      /\ told' = told /\ lost' = lost /\ Op = "none"
  <2>1. op \in Commands
    BY DEF Commands
  <2>2. QED
    BY <2>1, CommandMade DEF Op
<1>2. TableOnDisk' = TableOnDisk
  BY SameDisk
<1>3. Unique'
  <2>1. \A j \in Slots : j # i => SlotNames(j)' = SlotNames(j)
    BY <1>1, <1>2 DEF SlotNames
  <2>2. SlotNames(i)' \subseteq SlotNames(i) \cup {n}
    BY <1>1, <1>2 DEF SlotNames
  <2>3. QED
    BY <2>1, <2>2 DEF Unique, ShellInv
<1>4. ASSUME ~stale
      PROVE  FitsAll(inodes)' /\ \A j \in Slots : SlotFollows(j)'
  <2>1. Fresh
    BY <1>4 DEF Fresh
  <2>2. ASSUME NEW m \in Names, Due(m)' # Unsure
        PROVE  Fits(inodes', m, Due(m)')
    <3>1. CASE m = n
      <4>1. Due(m)' = Outcome(op)
        BY <1>1, <3>1 DEF Due
      <4>2. QED
        BY <1>4, <3>1, <4>1
    <3>2. CASE m # n
      <4>1. Due(m)' = told[m] /\ Due(m) = told[m]
        BY <1>1, <3>2 DEF Due
      <4>2. Fits(inodes, m, told[m])
        BY <2>1, <2>2, <4>1 DEF ShellInv, MemoryTold, FitsAll
      <4>3. \A j \in Slots : /\ m \in NameOf(inodes[j]) <=> m \in NameOf(inodes'[j])
                             /\ m \in NameOf(inodes[j]) => inodes[j].size = inodes'[j].size
        BY <3>2
      <4>4. Fits(inodes', m, told[m])
        BY <4>2, <4>3, FitsSame
      <4>5. QED
        BY <4>1, <4>4
    <3>3. QED
      BY <3>1, <3>2
  <2>3. ASSUME NEW j \in Slots
        PROVE  SlotFollows(j)'
    <3>1. Sec(j) \in lost \/ TableOnDisk[j] = inodes[j]
      BY <1>1, <2>1, Settled
    <3>2. Awaited(Sec(j))'
      BY RowAwaited
    <3>3. CASE j = i /\ TableOnDisk[j] = inodes[j]
      BY <1>1, <1>2, <3>2, <3>3 DEF SlotFollows
    <3>4. CASE j # i
      BY <1>1, <1>2, <3>1, <3>4 DEF SlotFollows
    <3>5. CASE Sec(j) \in lost
      BY <1>1, <3>5 DEF SlotFollows
    <3>6. QED
      BY <3>1, <3>3, <3>4, <3>5
  <2>4. QED
    BY <2>2, <2>3 DEF FitsAll
<1>5. MemoryTold'
  BY <1>1, <1>4 DEF MemoryTold, Fresh
<1>6. DiskTold'
  BY DEF DiskTold
<1>7. QED
  BY <1>3, <1>5, <1>6

\* touch fills a free slot with a name that no slot has.
LEMMA TouchTold ==
  ASSUME LongNames = {}, ShellInv, NEW n \in Names, CommandTouch(n)
  PROVE  Unique' /\ MemoryTold' /\ DiskTold'
<1> DEFINE f == FindFreeInode
<1>1. /\ CreateFile(n) /\ Run("touch", {n}) /\ stale' = stale /\ QueueInv
      /\ mounted /\ mounted' = mounted /\ disk' = disk /\ ~FileExists(n)
      /\ AtPrompt
  BY DEF CommandTouch, CreateFile, Begin, ShellInv, TypedInv, Run
<1>2. /\ Saves(todo', inodes', sb')
      /\ f \in Slots \ Live(inodes)
      /\ inodes' = [inodes EXCEPT ![f] =
                      [type |-> "regular", name |-> Stored(n), size |-> 0, start |-> 0]]
      /\ inodes \in [Slots -> Inode]
  BY <1>1, CreateQueue DEF QueueInv, TypeOK
<1>3. Stored(n) = n
  BY DEF Stored
<1> HIDE DEF f
<1>4. /\ inodes'[f].type = "regular" /\ inodes'[f].name = n /\ inodes'[f].size = 0
      /\ \A j \in Slots : j # f => inodes'[j] = inodes[j]
  BY <1>2, <1>3
<1>5. NameOf(inodes[f]) = {} /\ NameOf(inodes'[f]) = {n}
  BY <1>2, <1>4 DEF NameOf, Live
<1>6. \A j \in Slots : n \notin NameOf(inodes[j])
  BY <1>1 DEF FileExists, Found, Live, NameOf
<1>7. ~stale => \A j \in Slots : n \notin SlotNames(j)
  <2>1. SUFFICES ASSUME ~stale, NEW j \in Slots
                 PROVE  n \notin SlotNames(j)
    OBVIOUS
  <2>2. Sec(j) \in lost \/ TableOnDisk[j] = inodes[j]
    BY <1>1, <2>1, Settled DEF Fresh
  <2>3. QED
    BY <1>6, <2>2 DEF SlotNames
<1>8. Fits(inodes', n, Outcome("touch"))
  <2>1. \A j \in Slots : n \in NameOf(inodes'[j]) <=> j = f
    BY <1>2, <1>4, <1>5, <1>6
  <2>2. Under(inodes', n) = {f}
    <3>1. \A j \in Slots : n \in NameOf(inodes'[j]) <=> j \in Live(inodes') /\ inodes'[j].name = n
      BY DEF Live, NameOf
    <3>2. f \in Slots /\ Live(inodes') \subseteq Slots
      BY <1>2 DEF Live
    <3>3. QED
      BY <2>1, <3>1, <3>2 DEF Under
  <2>3. Outcome("touch") = << >> /\ Outcome("touch") # NoFile
    BY ShellAssumption DEF Outcome
  <2>4. QED
    BY <1>4, <2>2, <2>3 DEF Fits
<1>9. QED
  BY <1>1, <1>2, <1>4, <1>5, <1>7, <1>8, CallTold

\* write changes the slot of its file only.
LEMMA WriteTold ==
  ASSUME ShellInv, NEW n \in Names, CommandWrite(n)
  PROVE  Unique' /\ MemoryTold' /\ DiskTold'
<1>1. /\ Run("write", {n}) /\ stale' = stale
      /\ mounted /\ mounted' = mounted /\ disk' = disk
      /\ TypedInv /\ TextThere /\ QueueInv
  BY DEF CommandWrite, WriteFile, Begin, ShellInv, TypedInv
<1>2. Saves(todo', inodes', sb')
  BY <1>1, WriteTyped, WriteQueue DEF SavesFile
<1>3. PICK f \in Slots :
        /\ f \in Found(n)
        /\ \A j \in Slots : j # f => inodes'[j] = inodes[j]
        /\ inodes'[f].type = inodes[f].type /\ inodes'[f].name = inodes[f].name
        /\ inodes'[f].size = 1
  BY <1>1, WriteCall
<1>4. NameOf(inodes[f]) = {n} /\ NameOf(inodes'[f]) = {n}
  BY <1>3 DEF Found, Live, NameOf
<1>5. ~stale => \A j \in Slots : j # f => n \notin SlotNames(j) /\ n \notin NameOf(inodes[j])
  BY <1>4, OneNamed DEF ShellInv
<1>6. ~stale => Fits(inodes', n, Outcome("write"))
  <2>1. ASSUME ~stale PROVE Under(inodes', n) = {f}
    <3>1. \A j \in Slots : n \in NameOf(inodes'[j]) <=> j = f
      BY <1>3, <1>4, <1>5, <2>1
    <3>2. \A j \in Slots : j \in Under(inodes', n) <=> j = f
      BY <3>1, NamesOf
    <3>3. QED
      BY <3>2 DEF Under, Live
  <2>2. Outcome("write") = <<Text>> /\ Outcome("write") # NoFile /\ Len(<<Text>>) = 1
    BY ShellAssumption DEF Outcome
  <2>3. QED
    BY <1>3, <2>1, <2>2 DEF Fits
<1>7. QED
  BY <1>1, <1>2, <1>3, <1>4, <1>5, <1>6, CallTold

\* rm empties the slot of its file, the only one with that name.
LEMMA RmTold ==
  ASSUME ShellInv, NEW n \in Names, CommandRm(n)
  PROVE  Unique' /\ MemoryTold' /\ DiskTold'
<1> DEFINE f == OpenFile(n)
<1>1. /\ DeleteFile(n) /\ Run("rm", {n}) /\ stale' = stale /\ QueueInv
      /\ mounted /\ mounted' = mounted /\ disk' = disk /\ FileExists(n)
  BY DEF CommandRm, DeleteFile, Begin, ShellInv, TypedInv
<1>2. /\ Saves(todo', inodes', sb')
      /\ f \in Slots /\ inodes'[f].type = "empty"
      /\ inodes' = [inodes EXCEPT ![f].type = "empty", ![f].size = 0]
      /\ inodes \in [Slots -> Inode]
  BY <1>1, DeleteQueue DEF QueueInv, TypeOK
<1>3. f \in Found(n)
  BY <1>1, <1>2, ChosenSlots
<1> HIDE DEF f
<1>4. \A j \in Slots : j # f => inodes'[j] = inodes[j]
  BY <1>2
<1>5. NameOf(inodes[f]) = {n} /\ NameOf(inodes'[f]) = {}
  BY <1>2, <1>3 DEF Found, Live, NameOf
<1>6. ~stale => \A j \in Slots : j # f => n \notin SlotNames(j) /\ n \notin NameOf(inodes[j])
  BY <1>2, <1>5, OneNamed DEF ShellInv
<1>7. ~stale => Fits(inodes', n, Outcome("rm"))
  <2>1. ASSUME ~stale PROVE Under(inodes', n) = {}
    <3>1. \A j \in Slots : n \notin NameOf(inodes'[j])
      BY <1>4, <1>5, <1>6, <2>1
    <3>2. QED
      BY <3>1, NamesOf DEF Under, Live
  <2>2. Outcome("rm") = NoFile
    BY DEF Outcome
  <2>3. QED
    BY <2>1, <2>2 DEF Fits
<1>8. QED
  BY <1>1, <1>2, <1>4, <1>5, <1>6, <1>7, CallTold

\* format empties every slot, and all are the command's.
LEMMA FormatTold ==
  ASSUME ShellInv, CommandFormat
  PROVE  Unique' /\ MemoryTold' /\ DiskTold'
<1>1. Format /\ Run("format", Names) /\ QueueInv /\ disk' = disk /\ stale' = stale
  BY DEF CommandFormat, ShellInv, TypedInv, Format, Begin
<1>2. /\ ~AtPrompt' /\ command'.op = "format" /\ command'.files = Names /\ Op' = "format"
      /\ lost' = lost
  <2>1. "format" \in Commands
    BY DEF Commands
  <2>2. QED
    BY <1>1, <2>1, CommandMade
<1>3. Saves(todo', inodes', sb') /\ Live(inodes') = {}
  BY <1>1, FormatQueue, BlankTyped
<1>4. \A i \in Slots : NameOf(inodes'[i]) = {}
  BY <1>3 DEF Live, NameOf
<1>5. Unique'
  <2>1. TableOnDisk' = TableOnDisk
    BY <1>1, SameDisk
  <2>2. \A i \in Slots : SlotNames(i)' \subseteq SlotNames(i)
    BY <1>2, <1>4, <2>1 DEF SlotNames
  <2>3. QED
    BY <1>1, <2>2, UniqueShrinks DEF ShellInv
<1>6. FitsAll(inodes)'
  <2>1. ASSUME NEW n \in Names
        PROVE  Fits(inodes', n, Due(n)')
    <3>1. Due(n)' = NoFile
      BY <1>2 DEF Due, Outcome
    <3>2. QED
      BY <1>3, <3>1 DEF Fits, Under
  <2>2. QED
    BY <2>1 DEF FitsAll
<1>7. \A i \in Slots : SlotFollows(i)'
  BY <1>2, <1>3, RowAwaited DEF SlotFollows
<1>8. MemoryTold' /\ DiskTold'
  BY <1>2, <1>6, <1>7 DEF MemoryTold, DiskTold
<1>9. QED
  BY <1>5, <1>8

\* The tables and what is due of the files are as they were.
LEMMA StillTold ==
  ASSUME ShellInv, inodes' = inodes, disk' = disk, lost' = lost,
         \A n \in Names : Due(n)' = Due(n)
  PROVE  /\ FitsAll(inodes) => FitsAll(inodes)'
         /\ FitsAll(TableOnDisk) => FitsAll(TableOnDisk)'
         /\ \A i \in Slots : SlotNames(i)' = SlotNames(i)
         /\ TableOnDisk' = TableOnDisk
<1>1. TableOnDisk' = TableOnDisk
  BY SameDisk
<1>2. QED
  BY <1>1 DEF FitsAll, SlotNames

\* The disk command is about no file.
LEMMA DiskCommandTold ==
  ASSUME ShellInv, NEW s \in TestSectors, CommandDisk(s)
  PROVE  Unique' /\ MemoryTold' /\ DiskTold'
<1>1. /\ Run("disk", {}) /\ stale' = stale /\ disk' = disk /\ inodes' = inodes
      /\ mounted' = mounted
  BY DEF CommandDisk, DiskCommand, Begin
<1>2. /\ AtPrompt /\ ~AtPrompt' /\ command'.files = {} /\ Op' = "disk" /\ Op = "none"
      /\ lost' = lost /\ told' = told
  <2>1. "disk" \in Commands
    BY DEF Commands
  <2>2. QED
    BY <1>1, <2>1, CommandMade DEF Op
<1>3. \A n \in Names : Due(n)' = Due(n)
  BY <1>2 DEF Due
<1>4. /\ FitsAll(inodes) => FitsAll(inodes)'
      /\ FitsAll(TableOnDisk) => FitsAll(TableOnDisk)'
      /\ \A i \in Slots : SlotNames(i)' = SlotNames(i)
      /\ TableOnDisk' = TableOnDisk
  BY <1>1, <1>2, <1>3, StillTold
<1>5. Unique'
  BY <1>1, <1>4, UniqueShrinks DEF ShellInv
<1>6. Fresh' => Fresh
  BY <1>1, <1>2 DEF Fresh
<1>7. Fresh => \A i \in Slots : SlotFollows(i)'
  BY <1>1, <1>2, <1>4, Settled DEF SlotFollows
<1>8. MemoryTold' /\ DiskTold'
  BY <1>1, <1>2, <1>4, <1>6, <1>7 DEF ShellInv, MemoryTold, DiskTold
<1>9. QED
  BY <1>5, <1>8

\* Mounted tables say what the disk says, or are stale.
LEMMA MountTold ==
  ASSUME ShellInv, CommandMount
  PROVE  Unique' /\ MemoryTold' /\ DiskTold'
<1>1. /\ AtPrompt /\ disk' = disk /\ lost' = lost /\ command' = command /\ told' = told
      /\ stale' = (stale \/ (mounted' /\ lost # {}))
      /\ \/ inodes' = inodes /\ mounted' = mounted
         \/ inodes' = TableOnDisk /\ mounted'
      /\ TypedInv
  BY DEF CommandMount, Mount, ShellInv
<1>2. /\ Op = "none" /\ Op' = "none" /\ \A n \in Names : Due(n)' = Due(n)
  BY <1>1 DEF Op, Due, AtPrompt
<1>3. TableOnDisk' = TableOnDisk
  BY <1>1, SameDisk
<1>4. CASE inodes' = inodes /\ mounted' = mounted
  <2>1. /\ FitsAll(inodes) => FitsAll(inodes)'
        /\ FitsAll(TableOnDisk) => FitsAll(TableOnDisk)'
        /\ \A i \in Slots : SlotNames(i)' = SlotNames(i)
    BY <1>1, <1>2, <1>4, StillTold
  <2>2. Unique'
    BY <1>1, <2>1, UniqueShrinks DEF ShellInv
  <2>3. Fresh' => Fresh
    BY <1>1, <1>2, <1>4 DEF Fresh
  <2>4. Fresh => \A i \in Slots : SlotFollows(i)'
    BY <1>1, <1>3, <1>4, Settled DEF SlotFollows
  <2>5. MemoryTold' /\ DiskTold'
    BY <1>1, <1>2, <1>4, <2>1, <2>3, <2>4 DEF ShellInv, MemoryTold, DiskTold
  <2>6. QED
    BY <2>2, <2>5
<1>5. CASE inodes' = TableOnDisk /\ mounted'
  <2>1. ASSUME ~stale'
        PROVE  ~stale /\ lost = {}
    BY <1>1, <1>5, <2>1
  <2>2. ASSUME ~stale'
        PROVE  FitsAll(TableOnDisk)
    <3>1. CASE mounted
      <4>1. Fresh
        BY <2>1, <2>2, <3>1 DEF Fresh
      <4>2. \A i \in Slots : TableOnDisk[i] = inodes[i]
        BY <1>1, <2>1, <2>2, <4>1, Settled
      <4>3. FitsAll(inodes)
        BY <4>1 DEF ShellInv, MemoryTold
      <4>4. QED
        BY <4>2, <4>3, FitsSame DEF FitsAll
    <3>2. CASE ~mounted
      BY <1>2, <2>1, <2>2, <3>2 DEF ShellInv, DiskTold
    <3>3. QED
      BY <3>1, <3>2
  <2>3. Unique'
    <3>1. ASSUME ~stale', NEW i \in Slots
          PROVE  SlotNames(i)' \subseteq SlotNames(i)
      BY <1>1, <1>3, <1>5, <2>1, <3>1 DEF SlotNames
    <3>2. QED
      BY <2>1, <3>1 DEF Unique, ShellInv
  <2>4. MemoryTold'
    <3>1. SUFFICES ASSUME Fresh'
                   PROVE  FitsAll(inodes)' /\ \A i \in Slots : SlotFollows(i)'
      BY DEF MemoryTold
    <3>2. FitsAll(TableOnDisk)
      BY <1>2, <2>2, <3>1 DEF Fresh
    <3>3. FitsAll(inodes)'
      BY <1>2, <1>5, <3>2 DEF FitsAll
    <3>4. QED
      BY <1>3, <1>5, <3>3 DEF SlotFollows
  <2>5. QED
    BY <1>5, <2>3, <2>4 DEF DiskTold
<1>6. QED
  BY <1>1, <1>4, <1>5

\* A sector that is written takes its slots to disk, and one that is refused is
\* remembered in lost.
LEMMA StepTold ==
  ASSUME ShellInv, Taken \/ Refused
  PROVE  Unique' /\ MemoryTold' /\ DiskTold'
<1>1. /\ TypedInv /\ ~Idle /\ ~AtPrompt /\ ~AtPrompt' /\ Op' = Op
      /\ mounted' = mounted /\ inodes' = inodes /\ command' = command
      /\ told' = told /\ stale' = stale
  BY QueueStep DEF ShellInv, AtPrompt
<1>2. \A n \in Names : Due(n)' = Due(n)
  BY <1>1 DEF Due
<1>3. Unique'
  <2>1. ASSUME NEW i \in Slots
        PROVE  SlotNames(i)' \subseteq SlotNames(i)
    BY <1>1, SlotStep DEF SlotNames
  <2>2. QED
    BY <1>1, <2>1, UniqueShrinks DEF ShellInv
<1>4. MemoryTold'
  <2>1. SUFFICES ASSUME Fresh'
                 PROVE  FitsAll(inodes)' /\ \A i \in Slots : SlotFollows(i)'
    BY DEF MemoryTold
  <2>2. FitsAll(inodes) /\ \A i \in Slots : SlotFollows(i)
    BY <1>1, <2>1 DEF ShellInv, MemoryTold, Fresh
  <2>3. FitsAll(inodes)'
    BY <1>1, <1>2, <2>2 DEF FitsAll
  <2>4. ASSUME NEW i \in Slots
        PROVE  SlotFollows(i)'
    <3>1. CASE Sec(i) \in lost'
      BY <3>1 DEF SlotFollows
    <3>2. CASE TableOnDisk'[i] = inodes[i]
      BY <1>1, <3>2 DEF SlotFollows
    <3>3. CASE /\ Sec(i) \notin lost /\ TableOnDisk'[i] = TableOnDisk[i]
               /\ Awaited(Sec(i)) => Awaited(Sec(i))'
      BY <1>1, <2>2, <3>3 DEF SlotFollows
    <3>4. QED
      BY <1>1, <3>1, <3>2, <3>3, SlotStep
  <2>5. QED
    BY <2>3, <2>4
<1>5. DiskTold'
  <2>1. SUFFICES ASSUME ~mounted, ~stale, Op # "format", lost' \cap RowSecs = {}
                 PROVE  FitsAll(TableOnDisk)'
    BY <1>1 DEF DiskTold
  <2>2. call = "disk"
    BY <1>1, <2>1 DEF TypedInv, QueueInv, CallKinds, CommandRuns, Idle
  <2>3. todo[1].sector \in DataSecs
    BY <1>1, <2>2 DEF TypedInv, QueueInv, CallKinds
  <2>4. ASSUME NEW i \in Slots
        PROVE  TableOnDisk'[i] = TableOnDisk[i] /\ (Sec(i) \in lost' <=> Sec(i) \in lost)
    <3>1. todo[1].sector # Sec(i) /\ Sec(i) \in Sectors
      BY <2>3, SlotSector, SectorKinds
    <3>2. disk'[Sec(i)] = disk[Sec(i)] /\ (Sec(i) \in lost' <=> Sec(i) \in lost)
      BY <1>1, <3>1, HeadStep
    <3>3. QED
      BY <3>2 DEF TableOnDisk, Sec
  <2>5. lost \cap RowSecs = {}
    <3>1. SUFFICES ASSUME NEW s \in RowSecs, s \in lost PROVE FALSE
      OBVIOUS
    <3>2. s \in Sectors /\ s # todo[1].sector
      BY <2>3, <3>1, SectorKinds
    <3>3. s \in lost'
      BY <1>1, <3>1, <3>2, HeadStep
    <3>4. QED
      BY <2>1, <3>1, <3>3
  <2>6. FitsAll(TableOnDisk)
    BY <2>1, <2>5 DEF ShellInv, DiskTold
  <2>7. ASSUME NEW n \in Names, Due(n)' # Unsure
        PROVE  Fits(TableOnDisk', n, Due(n)')
    <3>1. Fits(TableOnDisk, n, Due(n)) /\ Due(n)' = Due(n)
      BY <1>2, <2>6, <2>7 DEF FitsAll
    <3>2. Fits(TableOnDisk', n, Due(n))
      BY <2>4, <3>1, FitsSame
    <3>3. QED
      BY <3>1, <3>2
  <2>8. QED
    BY <2>7 DEF FitsAll
<1>6. QED
  BY <1>3, <1>4, <1>5

\* When a command is done, what was due is what the user is told.
LEMMA ReportTold ==
  ASSUME ShellInv, Report
  PROVE  Unique' /\ MemoryTold' /\ DiskTold'
<1>1. /\ TypedInv /\ ~AtPrompt /\ Idle /\ command' = Nothing /\ AtPrompt'
      /\ told' = [n \in Names |-> IF n \in command.files THEN Outcome(command.op) ELSE told[n]]
      /\ stale' = (stale /\ command.op # "format")
      /\ mounted' = mounted /\ inodes' = inodes /\ disk' = disk /\ lost' = lost
  BY DEF Report, vars, ShellInv, AtPrompt
<1>2. Op = command.op /\ Op' = "none"
  BY <1>1 DEF Op
<1>3. \A n \in Names : Due(n)' = Due(n)
  BY <1>1 DEF Due
<1>4. /\ FitsAll(inodes) => FitsAll(inodes)'
      /\ FitsAll(TableOnDisk) => FitsAll(TableOnDisk)'
      /\ \A i \in Slots : SlotNames(i)' = SlotNames(i)
      /\ TableOnDisk' = TableOnDisk
  BY <1>1, <1>3, StillTold
<1>5. Fresh => FitsAll(inodes) /\ \A i \in Slots : SlotFollows(i)'
  <2>1. Fresh => \A i \in Slots : Sec(i) \in lost \/ TableOnDisk[i] = inodes[i]
    BY <1>1, Settled
  <2>2. QED
    BY <1>1, <1>4, <2>1 DEF SlotFollows, ShellInv, MemoryTold
<1>6. Fresh' => Fresh
  BY <1>1, <1>2 DEF Fresh
<1>7. MemoryTold'
  BY <1>4, <1>5, <1>6 DEF MemoryTold
<1>8. CASE Op = "format"
  <2>1. Fresh /\ Live(inodes) = {}
    BY <1>1, <1>8 DEF Fresh, TypedInv, CommandRuns
  <2>2. \A i \in Slots : Sec(i) \in lost \/ TableOnDisk[i] = inodes[i]
    BY <1>1, <2>1, Settled
  <2>3. \A i \in Slots : SlotNames(i) = {}
    BY <2>1, <2>2 DEF SlotNames, NameOf, Live
  <2>4. Unique'
    BY <1>4, <2>3 DEF Unique
  <2>5. ASSUME lost \cap RowSecs = {}
        PROVE  FitsAll(TableOnDisk)
    <3>1. \A i \in Slots : TableOnDisk[i] = inodes[i]
      BY <2>2, <2>5, SlotSector
    <3>2. QED
      BY <1>5, <2>1, <3>1, FitsSame DEF FitsAll
  <2>6. DiskTold'
    BY <1>1, <1>4, <2>5 DEF DiskTold
  <2>7. QED
    BY <1>7, <2>4, <2>6
<1>9. CASE Op # "format"
  <2>1. Unique' /\ DiskTold'
    BY <1>1, <1>2, <1>4, <1>9, UniqueShrinks DEF ShellInv, DiskTold
  <2>2. QED
    BY <1>7, <2>1
<1>10. QED
  BY <1>8, <1>9

\* After a power loss the user is sure only of what the command that ran is not
\* about; that is on disk.
LEMMA LossTold ==
  ASSUME ShellInv, PowerLoss
  PROVE  Unique' /\ MemoryTold' /\ DiskTold'
<1>1. /\ TypedInv /\ ~mounted' /\ AtPrompt' /\ Live(inodes') = {} /\ disk' = disk
      /\ told' = [n \in Names |-> IF ~AtPrompt /\ n \in command.files THEN Unsure ELSE told[n]]
      /\ lost' = lost /\ stale' = stale
  BY LossTyped DEF PowerLoss, Crash, ShellInv
<1>2. TableOnDisk' = TableOnDisk
  BY <1>1, SameDisk
<1>3. Unique'
  <2>1. \A i \in Slots : NameOf(inodes'[i]) = {}
    BY <1>1 DEF Live, NameOf
  <2>2. \A i \in Slots : SlotNames(i)' \subseteq SlotNames(i)
    BY <1>1, <1>2, <2>1 DEF SlotNames
  <2>3. QED
    BY <1>1, <2>2, UniqueShrinks DEF ShellInv
<1>4. Op' = "none" /\ \A n \in Names : Due(n)' = told'[n]
  BY <1>1 DEF Op, Due
<1>5. MemoryTold'
  BY <1>1, <1>4 DEF MemoryTold, Fresh
<1>6. DiskTold'
  <2>1. SUFFICES ASSUME ~stale, lost \cap RowSecs = {}, NEW n \in Names, told'[n] # Unsure
                 PROVE  Fits(TableOnDisk, n, told'[n])
    BY <1>1, <1>2, <1>4 DEF DiskTold, FitsAll
  <2>2. told'[n] = told[n] /\ (AtPrompt \/ n \notin command.files)
    BY <1>1, <2>1
  <2>3. Due(n) = told[n]
    BY <2>2 DEF Due
  <2>4. Op # "format"
    BY <1>1, <2>2 DEF TypedInv, CommandRuns, Op
  <2>5. CASE ~mounted
    BY <2>1, <2>2, <2>3, <2>4, <2>5 DEF ShellInv, DiskTold, FitsAll
  <2>6. CASE mounted
    <3>1. Fresh
      BY <2>1, <2>6 DEF Fresh
    <3>2. Fits(inodes, n, told[n])
      BY <2>1, <2>2, <2>3, <3>1 DEF ShellInv, MemoryTold, FitsAll
    <3>3. ASSUME NEW i \in Slots
          PROVE  \/ TableOnDisk[i] = inodes[i]
                 \/ n \notin NameOf(TableOnDisk[i]) /\ n \notin NameOf(inodes[i])
      <4>1. Sec(i) \notin lost
        BY <2>1, SlotSector
      <4>2. SlotFollows(i)
        BY <3>1 DEF ShellInv, MemoryTold
      <4>3. CASE AtPrompt
        BY <1>1, <4>1, <4>2, <4>3, PromptQuiet DEF SlotFollows
      <4>4. CASE ~AtPrompt
        BY <2>2, <2>4, <4>1, <4>2, <4>4 DEF SlotFollows
      <4>5. QED
        BY <4>3, <4>4
    <3>4. QED
      BY <2>2, <3>2, <3>3, FitsSame
  <2>7. QED
    BY <2>5, <2>6
<1>7. QED
  BY <1>3, <1>5, <1>6

-----------------------------------------------------------------------------
(* The theorems. *)

\* What the theorems are about: names that fit the field, and a disk command
\* whose sector lies behind all sectors files are given.
Plain == LongNames = {} /\ TestSectors \cap Low = {}

\* A step that changes neither tables in memory nor disk, queue or what was told.
LEMMA StillShell ==
  ASSUME ShellInv, TypedInv',
         UNCHANGED <<mounted, inodes, disk, todo, call, command, told, lost, stale>>
  PROVE  ShellInv'
<1>1. /\ mounted' = mounted /\ inodes' = inodes /\ disk' = disk /\ todo' = todo /\ call' = call
      /\ command' = command /\ told' = told /\ lost' = lost /\ stale' = stale
  OBVIOUS
<1>2. TextThere'
  BY <1>1, SameDisk DEF ShellInv, TextThere, DiskText, MemoryText, QueueText, Shaped, TextIn,
                        Awaited, Live, Tables
<1>3. \A n \in Names : Due(n)' = Due(n)
  BY <1>1 DEF Due, AtPrompt
<1>4. /\ FitsAll(inodes) => FitsAll(inodes)'
      /\ FitsAll(TableOnDisk) => FitsAll(TableOnDisk)'
      /\ \A i \in Slots : SlotNames(i)' = SlotNames(i)
      /\ TableOnDisk' = TableOnDisk
  BY <1>1, <1>3, StillTold
<1>5. Unique'
  BY <1>1, <1>4, UniqueShrinks DEF ShellInv
<1>6. MemoryTold' /\ DiskTold'
  BY <1>1, <1>4 DEF ShellInv, MemoryTold, DiskTold, Fresh, Op, AtPrompt, SlotFollows, Awaited
<1>7. QED
  BY <1>2, <1>5, <1>6 DEF ShellInv

\* Of tables that a mount did not read in full nothing is claimed; a mount that
\* was refused leaves all but the superblock in memory.
LEMMA UnreadTold ==
  ASSUME ShellInv, CommandMountUnread
  PROVE  ShellInv'
<1>1. TypedInv /\ TypedInv'
  BY UnreadTyped DEF ShellInv
<1>2. /\ AtPrompt
      /\ UNCHANGED <<disk, call, todo, command, told, lost>>
      /\ \/ mounted' = TRUE /\ stale' = TRUE
         \/ inodes' = inodes /\ mounted' = mounted /\ ~mounted /\ stale' = stale
  BY <1>1, UnreadCases
<1>3. CASE mounted' = TRUE /\ stale' = TRUE
  <2>1. todo' = << >> /\ Op' = "none"
    BY <1>1, <1>2, PromptQuiet DEF Op, AtPrompt
  <2>2. TextThere'
    BY <1>3, <2>1 DEF TextThere, DiskText, MemoryText, QueueText
  <2>3. Unique' /\ MemoryTold' /\ DiskTold'
    BY <1>3, <2>1 DEF Unique, MemoryTold, DiskTold, Fresh
  <2>4. QED
    BY <1>1, <2>2, <2>3 DEF ShellInv
<1>4. CASE inodes' = inodes /\ mounted' = mounted /\ stale' = stale
  BY <1>1, <1>2, <1>4, StillShell
<1>5. QED
  BY <1>2, <1>3, <1>4

\* Every step keeps the invariant.
LEMMA NextShell ==
  ASSUME Plain, ShellInv, [ShellNext]_shellVars
  PROVE  ShellInv'
<1>1. TypedInv'
  BY NextTyped DEF ShellInv
<1>2. CASE CommandFormat
  BY <1>1, <1>2, FormatText, FormatTold DEF ShellInv
<1>3. CASE CommandMount
  BY <1>1, <1>3, MountText, MountTold DEF ShellInv
<1>4. ASSUME NEW n \in Names,
             CommandTouch(n) \/ CommandWrite(n) \/ CommandRm(n) \/ CommandCat(n)
      PROVE  ShellInv'
  <2>1. CASE CommandTouch(n)
    BY <1>1, <2>1, TouchText, TouchTold DEF ShellInv, Plain
  <2>2. CASE CommandWrite(n)
    BY <1>1, <2>2, WriteText, WriteTold DEF ShellInv
  <2>3. CASE CommandRm(n)
    BY <1>1, <2>3, RmText, RmTold DEF ShellInv
  <2>4. CASE CommandCat(n)
    <3>1. UNCHANGED <<mounted, inodes, disk, todo, call, command, told, lost, stale>>
      BY <2>4 DEF CommandCat, vars
    <3>2. QED
      BY <1>1, <3>1, StillShell
  <2>5. QED
    BY <1>4, <2>1, <2>2, <2>3, <2>4
<1>5. ASSUME NEW s \in TestSectors, CommandDisk(s)
      PROVE  ShellInv'
  BY <1>1, <1>5, DiskCommandText, DiskCommandTold DEF ShellInv, Plain
<1>6. CASE Taken \/ Refused
  BY <1>1, <1>6, StepText, StepTold DEF ShellInv
<1>7. CASE Report
  BY <1>1, <1>7, ReportText, ReportTold DEF ShellInv
<1>8. CASE PowerLoss
  BY <1>1, <1>8, LossText, LossTold DEF ShellInv
<1>9. CASE CommandMountUnread
  BY <1>9, UnreadTold
<1>10. CASE UNCHANGED shellVars
  <2>1. UNCHANGED <<mounted, inodes, disk, todo, call, command, told, lost, stale>>
    BY <1>10 DEF shellVars, vars
  <2>2. QED
    BY <1>1, <2>1, StillShell
<1>11. QED
  BY <1>2, <1>3, <1>4, <1>5, <1>6, <1>7, <1>8, <1>9, <1>10 DEF ShellNext

\* The invariant holds on a disk nobody has formatted.
LEMMA InitShell ==
  ASSUME ShellInit
  PROVE  ShellInv
<1>1. TypedInv
  BY InitTyped
<1>2. /\ Init /\ command = Nothing /\ told = [n \in Names |-> NoFile] /\ stale = FALSE
      /\ ~mounted /\ todo = << >>
      /\ inodes = [i \in Slots |-> EmptyInode]
  BY DEF ShellInit, Init
<1>3. TableOnDisk = inodes /\ Live(inodes) = {}
  BY <1>2, InitTable, BlankTyped
<1>4. TextThere
  BY <1>2, <1>3 DEF TextThere, DiskText, MemoryText, QueueText, Shaped
<1>5. Unique
  BY <1>3 DEF Unique, SlotNames, NameOf, Live
<1>6. Op = "none" /\ \A n \in Names : Due(n) = NoFile
  BY <1>2 DEF Op, Due, AtPrompt
<1>7. FitsAll(TableOnDisk)
  BY <1>3, <1>6 DEF FitsAll, Fits, Under
<1>8. MemoryTold /\ DiskTold
  BY <1>2, <1>6, <1>7 DEF MemoryTold, DiskTold, Fresh
<1>9. QED
  BY <1>1, <1>4, <1>5, <1>8 DEF ShellInv

\* The invariant holds in every reachable state.
LEMMA SpecShell ==
  ASSUME Plain
  PROVE  ShellSpec => []ShellInv
<1>1. ShellInv /\ [ShellNext]_shellVars => ShellInv'
  BY NextShell
<1>2. QED
  BY <1>1, InitShell, PTL DEF ShellSpec

\* Every live inode is shaped, and d is told by one file of the name n alone,
\* which reads back as d where its data is on disk.
AllShaped(t) == \A i \in Live(t) : Shaped(t[i])
SoleFile(t, n, d) ==
  \E i \in Live(t) :
    /\ Under(t, n) = {i} /\ t[i].name = n /\ t[i].size = Len(d)
    /\ t[i].size = 1 => t[i].start \in Low
    /\ (t[i].size = 1 => disk[t[i].start] = Text) => ReadFile(t, i) = d

\* A file that fits what the user was told is the only one of its name, and
\* reads back as what the user was told where its data is on disk.
LEMMA ToldFile ==
  ASSUME NEW t, NEW n, NEW d, d \in {<< >>, <<Text>>}, Fits(t, n, d), AllShaped(t)
  PROVE  SoleFile(t, n, d)
<1>1. d # NoFile
  BY ShellAssumption
<1>2. PICK i \in Under(t, n) : Under(t, n) = {i} /\ t[i].size = Len(d)
  BY <1>1 DEF Fits
<1>3. i \in Live(t) /\ t[i].name = n
  BY <1>2 DEF Under
<1>4. t[i].size = 1 => t[i].start \in Low /\ t[i].start \in Nat
  BY <1>3, FileSystemAssumption DEF AllShaped, Shaped, Low, DataStart, InodeSec
<1>5. CASE d = << >>
  <2>1. t[i].size = 0
    BY <1>2, <1>5
  <2>2. ReadFile(t, i) = << >>
    BY <2>1 DEF ReadFile
  <2>3. QED
    BY <1>2, <1>3, <1>5, <2>1, <2>2 DEF SoleFile
<1>6. CASE d = <<Text>>
  <2>1. t[i].size = 1
    BY <1>2, <1>6
  <2>2. ASSUME disk[t[i].start] = Text
        PROVE  ReadFile(t, i) = <<Text>>
    <3>1. ReadFile(t, i) = [b \in 1 .. 1 |-> disk[t[i].start + b - 1]]
      BY <2>1 DEF ReadFile
    <3>2. t[i].start + 1 - 1 = t[i].start
      BY <1>4, <2>1
    <3>3. QED
      BY <2>2, <3>1, <3>2
  <2>3. QED
    BY <1>2, <1>3, <1>4, <1>6, <2>1, <2>2 DEF SoleFile
<1>7. QED
  BY <1>5, <1>6

\* What the user was told, and is sure of, at the prompt.
LEMMA SureOf ==
  ASSUME ShellInv, AtPrompt, NEW n \in Sure
  PROVE  /\ n \in Names /\ Due(n) = told[n] /\ told[n] # Unsure
         /\ told[n] # NoFile => told[n] \in {<< >>, <<Text>>}
<1>1. n \in Names /\ told[n] # Unsure /\ told[n] \in Told
  BY DEF Sure, ShellInv, TypedInv, ShellTypeOK
<1>2. QED
  BY <1>1, PromptQuiet DEF Told, ShellInv

\* At the prompt the memory of a mounted disk holds what the user was told.
LEMMA MemoryFits ==
  ASSUME ShellInv, AtPrompt, mounted, ~stale, NEW n \in Sure
  PROVE  Fits(inodes, n, told[n])
BY SureOf DEF ShellInv, MemoryTold, Fresh, FitsAll

(***************************************************************************)
(* What the user was told of a file is on disk at every prompt, however    *)
(* often the power was lost: no message of the shell is premature, as long *)
(* as the disk took the writes.                                            *)
(***************************************************************************)
THEOREM MessagesTrue ==
  ASSUME Plain
  PROVE  ShellSpec => []ToldOnDisk
<1>1. ShellInv => ToldOnDisk
  <2>1. SUFFICES ASSUME ShellInv, AtPrompt, lost = {}, ~stale, NEW n \in Sure
                 PROVE  Held(TableOnDisk, n) = {told[n]} \ {NoFile}
    BY DEF ToldOnDisk
  <2> DEFINE t == TableOnDisk
  <2>2. Fits(t, n, told[n])
    <3>1. CASE mounted
      <4>1. Fits(inodes, n, told[n])
        BY <2>1, <3>1, MemoryFits
      <4>2. \A i \in Slots : TableOnDisk[i] = inodes[i]
        BY <2>1, <3>1, Settled DEF Fresh
      <4>3. QED
        BY <4>1, <4>2, FitsSame
    <3>2. CASE ~mounted
      <4>1. Op # "format"
        BY <2>1, PromptQuiet DEF ShellInv
      <4>2. FitsAll(TableOnDisk)
        BY <2>1, <3>2, <4>1 DEF ShellInv, DiskTold
      <4>3. QED
        BY <2>1, <4>2, SureOf DEF FitsAll
    <3>3. QED
      BY <3>1, <3>2
  <2>3. \A i \in Live(t) : Shaped(t[i]) /\ (t[i].size = 1 => disk[t[i].start] = Text)
    BY <2>1 DEF ShellInv, TextThere, DiskText, TextIn
  <2>4. Held(t, n) = {ReadFile(t, i) : i \in Under(t, n)}
    BY DEF Held, Under
  <2> HIDE DEF t
  <2>5. CASE told[n] = NoFile
    BY <2>2, <2>4, <2>5 DEF Fits, t
  <2>6. CASE told[n] # NoFile
    <3>1. told[n] \in {<< >>, <<Text>>}
      BY <2>1, <2>6, SureOf
    <3>2. PICK i \in Live(t) : Under(t, n) = {i} /\ ReadFile(t, i) = told[n]
      <4>1. AllShaped(t)
        BY <2>3 DEF AllShaped
      <4>2. SoleFile(t, n, told[n])
        BY <2>2, <3>1, <4>1, ToldFile
      <4>3. QED
        BY <2>3, <4>2 DEF SoleFile
    <3>3. Held(t, n) = {told[n]}
      BY <2>4, <3>2
    <3>4. QED
      BY <2>6, <3>3 DEF t
  <2>7. QED
    BY <2>5, <2>6
<1>2. QED
  BY <1>1, SpecShell, PTL

(***************************************************************************)
(* On a mounted disk cat shows what the user was told was written, whatever*)
(* writes of other sectors the drive refused, as long as the drive takes   *)
(* the read and refused no sector of that very file.  A read it does not   *)
(* take changes the characters printed, and nothing else.                  *)
(***************************************************************************)
THEOREM CatIsTrue ==
  ASSUME Plain
  PROVE  ShellSpec => []CatShows
<1>1. ShellInv => CatShows
  <2>1. SUFFICES ASSUME ShellInv, AtPrompt, mounted, ~stale, NEW n \in Sure,
                        NEW left \in Leftovers, NEW taken \in BOOLEAN
                 PROVE  \/ CatAnswer(n, taken, left) = told[n]
                        \/ ~taken /\ told[n] # NoFile
                             /\ Len(CatAnswer(n, taken, left)) = Len(told[n])
                        \/ \E i \in Found(n) : Extent(inodes[i]) \cap lost # {}
    BY DEF CatShows
  <2>2. Fits(inodes, n, told[n]) /\ Found(n) = Under(inodes, n)
    BY <2>1, MemoryFits DEF Found, Under
  <2>3. \A i \in Live(inodes) :
          Shaped(inodes[i]) /\ (inodes[i].size = 1 => TextIn(inodes[i].start))
    BY <2>1, FilesStay DEF ShellInv
  <2>4. CASE told[n] = NoFile
    BY <2>2, <2>4 DEF Fits, CatAnswer, FileExists
  <2>5. CASE told[n] # NoFile
    <3>1. told[n] \in {<< >>, <<Text>>}
      BY <2>1, <2>5, SureOf
    <3>2. PICK i \in Live(inodes) :
            /\ Under(inodes, n) = {i} /\ inodes[i].name = n /\ inodes[i].size = Len(told[n])
            /\ inodes[i].size = 1 => inodes[i].start \in Low
            /\ (inodes[i].size = 1 => disk[inodes[i].start] = Text)
                 => ReadFile(inodes, i) = told[n]
      <4>1. AllShaped(inodes)
        BY <2>3 DEF AllShaped
      <4>2. SoleFile(inodes, n, told[n])
        BY <2>2, <3>1, <4>1, ToldFile
      <4>3. QED
        BY <4>2 DEF SoleFile
    <3>3. Found(n) = {i} /\ FileExists(n)
      BY <2>2, <3>2 DEF FileExists
    <3>4. OpenFile(n) = i
      <4>1. i \in Found(n) /\ \A j \in Found(n) : i <= j
        BY <3>3, FileSystemAssumption DEF Found, Live, Slots
      <4>2. QED
        BY <3>3, <4>1 DEF OpenFile
    <3>5. CASE ~taken
      <4>1. CatAnswer(n, taken, left) = [b \in 1 .. inodes[i].size |-> left.data]
        BY <2>1, <3>3, <3>4, <3>5 DEF CatAnswer
      <4>2. inodes[i].size \in {0, 1}
        BY <2>3 DEF Shaped
      <4>3. Len(CatAnswer(n, taken, left)) = Len(told[n])
        BY <3>2, <4>1, <4>2
      <4>4. QED
        BY <2>5, <3>5, <4>3
    <3>6. CASE taken /\ (inodes[i].size = 1 => disk[inodes[i].start] = Text)
      <4>1. CatAnswer(n, taken, left) = ReadFile(inodes, i)
        BY <2>1, <3>3, <3>4, <3>6 DEF CatAnswer
      <4>2. QED
        BY <3>2, <3>6, <4>1
    <3>7. CASE inodes[i].size = 1 /\ disk[inodes[i].start] # Text
      <4>1. inodes[i].start \in lost /\ inodes[i].start \in Low
        BY <2>3, <3>2, <3>7 DEF TextIn
      <4>2. inodes[i].start \in Nat /\ inodes[i].start # 0
        BY <4>1, LowSectors, FileSystemAssumption DEF Low, DataStart, InodeSec
      <4>3. inodes[i].start \in Extent(inodes[i])
        BY <3>7, <4>2 DEF Extent
      <4>4. QED
        BY <2>2, <3>2, <4>1, <4>3
    <3>8. QED
      BY <3>5, <3>6, <3>7
  <2>6. QED
    BY <2>4, <2>5
<1>2. QED
  BY <1>1, SpecShell, PTL

(***************************************************************************)
(* On a mounted disk ls has one line for each file the user was told of,   *)
(* with its size, and none for a file that was removed, also while the     *)
(* disk refuses writes.                                                    *)
(***************************************************************************)
THEOREM LsIsTrue ==
  ASSUME Plain
  PROVE  ShellSpec => []LsLists
<1>1. ShellInv => LsLists
  <2>1. ASSUME ShellInv, AtPrompt, mounted, ~stale, NEW n \in Sure
        PROVE  LET lines == {i \in DOMAIN LsLines : LsLines[i].name = n}
               IN IF told[n] = NoFile
                  THEN lines = {}
                  ELSE \E i \in lines : lines = {i} /\ LsLines[i].size = Len(told[n])
    <3> DEFINE lines == {i \in DOMAIN LsLines : LsLines[i].name = n}
    <3>1. Fits(inodes, n, told[n])
      BY <2>1, MemoryFits
    <3>2. /\ lines = Under(inodes, n)
          /\ \A i \in lines : LsLines[i].size = inodes[i].size
      BY DEF LsLines, Under
    <3> HIDE DEF lines
    <3>3. IF told[n] = NoFile
          THEN lines = {}
          ELSE \E i \in lines : lines = {i} /\ LsLines[i].size = Len(told[n])
      BY <3>1, <3>2 DEF Fits
    <3>4. QED
      BY <3>3 DEF lines
  <2>2. QED
    BY <2>1 DEF LsLists
<1>2. QED
  BY <1>1, SpecShell, PTL
=============================================================================
