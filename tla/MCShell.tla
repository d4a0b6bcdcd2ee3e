------------------------------ MODULE MCShell -------------------------------
(***************************************************************************)
(* Shell with interchangeable names, and heap blocks that hold the tables  *)
(* of another disk, with a file in the first data sector.                  *)
(***************************************************************************)
EXTENDS Shell, TLC

Symmetry == Permutations(Names)

OtherFile == [type |-> "regular", name |-> CutName, size |-> 1, start |-> DataStart]

MCLeftovers ==
  {[super |-> FreshSuper, row |-> [j \in 0 .. (PerSector - 1) |-> OtherFile],
    data |-> Pattern]}
=============================================================================
