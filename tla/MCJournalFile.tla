---------------------------- MODULE MCJournalFile ----------------------------
(* Two writers, two sessions; an inode more than names and open files need.  *)
EXTENDS JournalFile, TLC

CONSTANTS w1, w2, e1, e2, i1, i2, i3, i4

Symmetry == Permutations(Writer) \cup Permutations(Entry) \cup Permutations(Inode)
=============================================================================
