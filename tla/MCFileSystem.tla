---------------------------- MODULE MCFileSystem ----------------------------
(***************************************************************************)
(* FileSystem with interchangeable names and values: no action and no      *)
(* property tells two short names or two user values apart.                *)
(***************************************************************************)
EXTENDS FileSystem, TLC

Symmetry == Permutations(Names) \cup Permutations(Values)
=============================================================================
