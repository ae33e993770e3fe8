---------------------------- MODULE PatchedTree ----------------------------
(***************************************************************************)
(* What self-modification does to the working tree: a modification is      *)
(* written as a whole and undone from the snapshot taken last; a test      *)
(* leaves no trace but that of its snapshot, which does not tell a file    *)
(* without text from one that is not there: going back to it deletes the   *)
(* file.  Only a mishap (a crash, a failed read or write) tears a patch.   *)
(***************************************************************************)
EXTENDS Naturals

CONSTANTS
  Mods,      \* modifications
  Files,     \* files of the working tree
  Contents,  \* what a file can hold, the code of a modification included
  Absent,    \* the content of a file that is not there
  Voids,     \* the pairs <<file, content>> that are files without text
  Touches    \* the files of each modification

VARIABLES
  tree,      \* the content of each file, as if no section were running
  base,      \* the snapshot that undoing a modification goes back to
  mishaps    \* how often a patch was torn

vars == <<tree, base, mishaps>>

NoBase == [f \in {} |-> f]

Snapshot(m) == [f \in Touches[m] |-> tree[f]]

Init ==
  /\ tree \in [Files -> Contents]
  /\ base = [m \in Mods |-> NoBase]
  /\ mishaps = 0

(* A section that takes a snapshot loses files of its modification that    *)
(* have no text: they are deleted when it puts its files back.             *)
Drop(m) ==
  /\ \E F \in SUBSET {f \in Touches[m] : <<f, tree[f]>> \in Voids} :
       tree' = [f \in Files |-> IF f \in F THEN Absent ELSE tree[f]]
  /\ UNCHANGED <<base, mishaps>>

(* A test that has taken its snapshot stores it. *)
Test(m) ==
  /\ base' = [base EXCEPT ![m] = Snapshot(m)]
  /\ UNCHANGED <<tree, mishaps>>

(* All files of the modification at once. *)
Land(m) ==
  /\ tree' = [f \in Files |-> IF f \in Touches[m] THEN m ELSE tree[f]]
  /\ base' = [base EXCEPT ![m] = Snapshot(m)]
  /\ UNCHANGED mishaps

Undo(m) ==
  /\ tree' = [f \in Files |-> IF f \in DOMAIN base[m] THEN base[m][f] ELSE tree[f]]
  /\ UNCHANGED <<base, mishaps>>

(* The files of one modification are left in any state. *)
Tear(m) ==
  /\ mishaps' = mishaps + 1
  /\ \A f \in Files \ Touches[m] : tree'[f] = tree[f]
  /\ DOMAIN tree' = Files
  /\ UNCHANGED base

Next == \E m \in Mods : Drop(m) \/ Test(m) \/ Land(m) \/ Undo(m) \/ Tear(m)

Spec == Init /\ [][Next]_vars
===========================================================================
