----------------------------- MODULE FileStore ------------------------------
(***************************************************************************)
(* What a user of the filesystem is promised across power loss: numbered   *)
(* slots that hold a named file or nothing, changed one file at a time and *)
(* each change all or nothing.  Only formatting takes several files away.  *)
(***************************************************************************)
EXTENDS Naturals

CONSTANTS Slots,   \* inode numbers
          Names,   \* names a file can carry
          Values,  \* what a sector of a file can hold
          Sizes,   \* lengths of a file, in sectors
          NoFile   \* the content of a free slot

VARIABLE files     \* files[i] is NoFile or [name, data]

Data == UNION {[1 .. k -> Values] : k \in Sizes \cup {0}}

Init == files = [i \in Slots |-> NoFile]

Create(i, n) ==
  /\ files[i] = NoFile
  /\ \A j \in Slots : files[j] # NoFile => files[j].name # n
  /\ files' = [files EXCEPT ![i] = [name |-> n, data |-> << >>]]

Write(i, d) ==
  /\ files[i] # NoFile
  /\ files' = [files EXCEPT ![i].data = d]

Delete(i) ==
  /\ files[i] # NoFile
  /\ files' = [files EXCEPT ![i] = NoFile]

Erase(S) == files' = [i \in Slots |-> IF i \in S THEN NoFile ELSE files[i]]

Next ==
  \/ \E i \in Slots, n \in Names : Create(i, n)
  \/ \E i \in Slots, d \in Data : Write(i, d)
  \/ \E i \in Slots : Delete(i)
  \/ \E S \in SUBSET Slots : Erase(S)

Spec == Init /\ [][Next]_files
=============================================================================
