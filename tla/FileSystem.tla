----------------------------- MODULE FileSystem -----------------------------
(***************************************************************************)
(* The inode filesystem (filesystem.cpp, filesystem.h) on a disk that can  *)
(* lose power between any two sector writes.                               *)
(*                                                                         *)
(* Every call of the API is made by a shell command, inside the keyboard   *)
(* interrupt handler with interrupts off, so calls do not overlap.  A call *)
(* changes the tables in memory and writes sectors in a fixed order; the   *)
(* memory it changed is seen by nobody before it returns, so the model     *)
(* changes it in one step and queues the writes, with what each one        *)
(* carries, in todo.  Sector writes are atomic and do not fail here (the   *)
(* driver is a component of its own).                                      *)
(***************************************************************************)
EXTENDS Integers, Sequences, FiniteSets

CONSTANTS Rows,        \* sectors of the inode table
          PerSector,   \* inodes in a sector
          Names,       \* file names users type
          LongNames,   \* those of FS_MAX_FILENAME characters or more
          CutName,     \* the first FS_MAX_FILENAME - 1 characters of a long one
          NoName,      \* the name field of an inode never used
          Values,      \* what a user writes into a sector
          Pattern,     \* the test pattern of the shell's disk command
          NoData,      \* a data sector never written
          NoFile,      \* a free slot, in the abstract store
          Sizes,       \* lengths written, in sectors: (size + 511) / 512
          Reserve,     \* superblock.totalSectors
          CountMod,    \* inodeCount is unsigned: 2^32, scaled down
          MaxUsed,     \* bound: sectors ever allocated
          MaxCrashes,  \* bound: power losses
          TornFormat,  \* may the power be lost while Format writes?
          TestSectors  \* sectors the shell's disk command writes: {} or one

ASSUME FileSystemAssumption ==
  /\ Rows \in Nat \ {0} /\ PerSector \in Nat \ {0}
  /\ LongNames \subseteq Names /\ CutName \notin LongNames
  /\ Sizes \subseteq Nat /\ Reserve \in Nat /\ CountMod \in Nat \ {0, 1}
  /\ MaxUsed \in Nat /\ MaxCrashes \in Nat
  /\ TornFormat \in BOOLEAN /\ TestSectors \subseteq Nat

VARIABLES mounted,  \* FileSystem::mounted
          sb,       \* FileSystem::superblock
          inodes,   \* FileSystem::inodes
          disk,     \* the sectors
          call,     \* the API call that runs, or "idle"
          todo,     \* the sector writes it has still to make
          crashes,  \* ghost: power losses so far
          wrote     \* ghost: what the last complete WriteFile of a slot wrote

vars == <<mounted, sb, inodes, disk, call, todo, crashes, wrote>>

-----------------------------------------------------------------------------
(* Layout. *)

Slots == 0 .. (Rows * PerSector - 1)

SuperSec  == 1
InodeSec  == 2
DataStart == InodeSec + Rows

DataSecs == DataStart .. (DataStart + MaxUsed)
Sectors  == (SuperSec .. (DataStart - 1)) \cup DataSecs

\* The disk command writes sector 100, behind the table.
ASSUME TestSectorAssumption == TestSectors \subseteq DataSecs

\* A free slot is told from a file.
ASSUME NoFileAssumption ==
  NoFile \notin [name : Names, data : UNION {[1 .. k -> Values] : k \in Sizes \cup {0}}]

Stored(n) == IF n \in LongNames THEN CutName ELSE n

EmptyInode == [type |-> "empty", name |-> NoName, size |-> 0, start |-> 0]
BlankSuper == [magic |-> FALSE, total |-> 0, used |-> 0, count |-> 0]
FreshSuper == [magic |-> TRUE, total |-> Reserve, used |-> 0, count |-> 0]

\* The inodes that share a sector of the table.
Row(t, r) == [j \in 0 .. (PerSector - 1) |-> t[r * PerSector + j]]

\* SaveSuperblock and SaveInodeTable, as the writes they make.
SaveSuper(s) == << [sector |-> SuperSec, content |-> s] >>

\* Slip in SaveTable: the last sector of the table is not written.
SaveTableShort(t) ==
  [r \in 1 .. (Rows - 1) |-> [sector |-> InodeSec + r - 1, content |-> Row(t, r - 1)]]

SaveTable(t) ==
  [r \in 1 .. Rows |-> [sector |-> InodeSec + r - 1, content |-> Row(t, r - 1)]]

\* LoadInodeTable.
TableOnDisk ==
  [i \in Slots |-> disk[InodeSec + (i \div PerSector)][i % PerSector]]

Live(t) == {i \in Slots : t[i].type # "empty"}

\* OpenFile: the first inode in use whose name field is what was asked for.
\* A long name ends in no '\0' within the field, so it equals no stored name.
Found(n) == {i \in Live(inodes) : inodes[i].name = n}
OpenFile(n) == CHOOSE i \in Found(n) : \A j \in Found(n) : i <= j

FileExists(n) == Found(n) # {}

FindFreeInode ==
  CHOOSE i \in Slots \ Live(inodes) : \A j \in Slots \ Live(inodes) : i <= j

\* ReadFile: the sectors behind an inode.
ReadFile(t, i) == [b \in 1 .. t[i].size |-> disk[t[i].start + b - 1]]

-----------------------------------------------------------------------------
(* The calls. *)

Idle == call = "idle"

\* A call named op that has changed the memory goes on to write the sectors w.
Begin(op, w) ==
  /\ call' = op
  /\ todo' = w
  /\ UNCHANGED <<disk, crashes>>

Forget(S) == [i \in Slots |-> IF i \in S THEN << >> ELSE wrote[i]]

Init ==
  /\ mounted = FALSE
  /\ sb = BlankSuper
  /\ inodes = [i \in Slots |-> EmptyInode]
  /\ disk = [s \in Sectors |-> IF s = SuperSec THEN BlankSuper
                               ELSE IF s < DataStart THEN Row(inodes, s - InodeSec)
                               ELSE NoData]
  /\ call = "idle"
  /\ todo = << >>
  /\ crashes = 0
  /\ wrote = [i \in Slots |-> << >>]

Format ==
  /\ Idle
  /\ sb' = FreshSuper
  /\ inodes' = [i \in Slots |-> EmptyInode]
  /\ Begin("Format", SaveSuper(sb') \o SaveTable(inodes'))
  /\ wrote' = Forget(Slots)
  /\ UNCHANGED mounted

\* Reads only: the superblock stays loaded when its magic is wrong.
Mount ==
  /\ Idle
  /\ sb' = disk[SuperSec]
  /\ IF disk[SuperSec].magic
     THEN inodes' = TableOnDisk /\ mounted' = TRUE
     ELSE UNCHANGED <<inodes, mounted>>
  /\ UNCHANGED <<disk, call, todo, crashes, wrote>>

Unmount ==
  /\ Idle
  /\ mounted
  /\ mounted' = FALSE
  /\ Begin("Unmount", SaveSuper(sb) \o SaveTable(inodes))
  /\ UNCHANGED <<sb, inodes, wrote>>

CreateFile(n) ==
  /\ Idle
  /\ mounted
  /\ ~FileExists(n)
  /\ Live(inodes) # Slots
  /\ inodes' = [inodes EXCEPT ![FindFreeInode] =
                  [type |-> "regular", name |-> Stored(n), size |-> 0, start |-> 0]]
  /\ sb' = [sb EXCEPT !.count = (@ + 1) % CountMod]
  /\ Begin("CreateFile", SaveTable(inodes') \o SaveSuper(sb'))
  /\ wrote' = Forget({FindFreeInode})
  /\ UNCHANGED mounted

\* Slip in DeleteFile: the file is not uncounted.
DeleteFileKeepCount(n) ==
  /\ Idle
  /\ mounted
  /\ FileExists(n)
  /\ inodes' = [inodes EXCEPT ![OpenFile(n)].type = "empty", ![OpenFile(n)].size = 0]
  /\ sb' = sb
  /\ Begin("DeleteFile", SaveTable(inodes') \o SaveSuper(sb'))
  /\ wrote' = Forget({OpenFile(n)})
  /\ UNCHANGED mounted

DeleteFile(n) ==
  /\ Idle
  /\ mounted
  /\ FileExists(n)
  /\ inodes' = [inodes EXCEPT ![OpenFile(n)].type = "empty", ![OpenFile(n)].size = 0]
  /\ sb' = [sb EXCEPT !.count = (@ - 1) % CountMod]
  /\ Begin("DeleteFile", SaveTable(inodes') \o SaveSuper(sb'))
  /\ wrote' = Forget({OpenFile(n)})
  /\ UNCHANGED mounted

\* Slips in AllocateSector: counted from the inode table; never counted.
NextSectorInTable == InodeSec + sb.used
AllocatedNone(k) == IF k = 0 THEN sb ELSE [sb EXCEPT !.used = @]

\* AllocateSector: the sector it returns, and the superblock after k calls.
NextSector == DataStart + sb.used
Allocated(k) == [sb EXCEPT !.used = @ + k]

\* The loop of WriteFile: a data sector, then for every further one an
\* AllocateSector, whose result is dropped, and the sector that follows.
WriteBlocks(start, v, k, before) ==
  [j \in 1 .. (2 * k - 1) |->
     IF j % 2 = 1
     THEN [sector |-> start + (j \div 2), content |-> v]
     ELSE [sector |-> SuperSec, content |-> Allocated(before + (j \div 2))]]

\* Slips in WriteFile: the allocation is not saved; the inode is saved before
\* the data it points to.
FileWritesUnsaved(first, start, v, k, t) ==
  WriteBlocks(start, v, k, first) \o SaveTable(t)

FileWritesTableFirst(first, start, v, k, t) ==
  (IF first = 1 THEN SaveSuper(Allocated(1)) ELSE << >>)
    \o SaveTable(t) \o WriteBlocks(start, v, k, first)

\* The sectors WriteFile writes: the superblock when a first sector is
\* allocated, the data, the inode table.
FileWrites(first, start, v, k, t) ==
  (IF first = 1 THEN SaveSuper(Allocated(1)) ELSE << >>)
    \o WriteBlocks(start, v, k, first) \o SaveTable(t)

WriteFile(i, v, k) ==
  LET first == IF inodes[i].start = 0 THEN 1 ELSE 0
      start == IF first = 1 THEN NextSector ELSE inodes[i].start
      extra == IF k = 0 THEN 0 ELSE k - 1
  IN /\ Idle
     /\ mounted
     /\ inodes[i].type # "empty"
     /\ sb.used + first + extra <= MaxUsed
     /\ start + extra \in Sectors
     /\ sb' = Allocated(first + extra)
     /\ inodes' = [inodes EXCEPT ![i].start = start, ![i].size = k]
     /\ Begin("WriteFile", FileWrites(first, start, v, k, inodes'))
     /\ wrote' = [wrote EXCEPT ![i] = [b \in 1 .. k |-> v]]
     /\ UNCHANGED mounted

\* The shell's disk command writes its pattern to a fixed sector.
DiskCommand(s) ==
  /\ Idle
  /\ Begin("disk", << [sector |-> s, content |-> Pattern] >>)
  /\ UNCHANGED <<mounted, sb, inodes, wrote>>

\* Write28: the running call writes its next sector, and returns after the last.
WriteSector ==
  /\ ~Idle
  /\ disk' = [disk EXCEPT ![Head(todo).sector] = Head(todo).content]
  /\ todo' = Tail(todo)
  /\ call' = IF Len(todo) = 1 THEN "idle" ELSE call
  /\ UNCHANGED <<mounted, sb, inodes, crashes, wrote>>

\* The power is lost: the constructor runs again on the disk as it is.
Crash ==
  /\ crashes < MaxCrashes
  /\ call = "Format" => TornFormat
  /\ crashes' = crashes + 1
  /\ mounted' = FALSE
  /\ sb' = BlankSuper
  /\ inodes' = [i \in Slots |-> EmptyInode]
  /\ call' = "idle"
  /\ todo' = << >>
  /\ wrote' = IF Idle THEN wrote ELSE Forget(Slots)
  /\ UNCHANGED disk

Next ==
  \/ Format \/ Mount \/ Unmount
  \/ \E n \in Names : CreateFile(n) \/ DeleteFile(n)
  \/ \E i \in Slots, v \in Values, k \in Sizes : WriteFile(i, v, k)
  \/ \E s \in TestSectors : DiskCommand(s)
  \/ WriteSector
  \/ Crash

Spec == Init /\ [][Next]_vars

-----------------------------------------------------------------------------
(* Properties. *)

Inode == [type : {"empty", "regular"}, name : Names \cup {CutName, NoName},
          size : Sizes \cup {0}, start : {0} \cup DataSecs]

Super == [magic : BOOLEAN, total : {0, Reserve}, used : 0 .. MaxUsed,
          count : 0 .. (CountMod - 1)]

\* What a sector may hold: metadata sectors hold metadata, whatever is written.
Content(s) ==
  IF s = SuperSec THEN Super
  ELSE IF s < DataStart THEN [0 .. (PerSector - 1) -> Inode]
  ELSE Values \cup {Pattern, NoData}

\* The variables have their types, and so has every sector of the disk.
TypeOK ==
  /\ mounted \in BOOLEAN
  /\ sb \in Super
  /\ inodes \in [Slots -> Inode]
  /\ DOMAIN disk = Sectors
  /\ \A s \in Sectors : disk[s] \in Content(s)
  /\ \A j \in 1 .. Len(todo) : todo[j].sector \in Sectors
                               /\ todo[j].content \in Content(todo[j].sector)
  /\ Idle <=> todo = << >>
  /\ crashes \in 0 .. MaxCrashes
  /\ DOMAIN wrote = Slots

\* The sectors of a file: the first one belongs to it even when it is empty.
Extent(f) ==
  IF f.start = 0 THEN {}
  ELSE f.start .. (f.start + (IF f.size = 0 THEN 0 ELSE f.size - 1))

\* On disk no two files share a sector, at any moment the power may be lost.
ExtentsDisjoint ==
  \A i, j \in Live(TableOnDisk) :
    i # j => Extent(TableOnDisk[i]) \cap Extent(TableOnDisk[j]) = {}

\* The superblock on disk is ahead of the inode table on disk: whatever is
\* mounted after a power loss, a new file gets a sector no file has.  (Format
\* writes them in the other order: see TornFormat.)
FrontierAhead ==
  call # "Format" =>
    \A i \in Live(TableOnDisk) :
      Extent(TableOnDisk[i]) \subseteq DataStart .. (DataStart + disk[SuperSec].used - 1)

\* When no call runs, what is mounted is what is on disk: every call that
\* returned survives a power loss.
Durable == Idle /\ mounted => sb = disk[SuperSec] /\ inodes = TableOnDisk

\* A file that was written reads back as it was last written, also after the
\* disk was mounted again, whatever was done to other files.
ReadBack ==
  Idle /\ mounted =>
    \A i \in Live(inodes) : wrote[i] # << >> => ReadFile(inodes, i) = wrote[i]

\* The file count drifts from the files by at most one per power loss.
CountDrift ==
  Idle /\ mounted =>
    \E d \in (- crashes) .. crashes :
      sb.count = (Cardinality(Live(inodes)) + d) % CountMod

\* What is on disk, read as files.
FilesOnDisk ==
  [i \in Slots |->
     IF i \in Live(TableOnDisk)
     THEN [name |-> TableOnDisk[i].name, data |-> ReadFile(TableOnDisk, i)]
     ELSE NoFile]

\* The files on disk change as the abstract store says: one at a time, each
\* change all or nothing, also when power is lost in the middle of a call.
Store == INSTANCE FileStore WITH files <- FilesOnDisk
StoreSpec == Store!Spec
=============================================================================
