-------------------------- MODULE ReversibleRemoval --------------------------
(***************************************************************************)
(* What cleanup promises about each file of a workspace, whatever the     *)
(* layout of .animoria/trash: a file leaves the workspace only to be held  *)
(* by a running batch, the whole batch becomes undoable in one step, and   *)
(* only an undoable file comes back.  A file leaves the cycle only when    *)
(* the user deletes it, or when the batch that holds it meets a fault.     *)
(***************************************************************************)
EXTENDS Naturals

CONSTANT File

VARIABLES
    status,     \* where each file stands
    faults      \* crashes and failed journal writes so far

avars == <<status, faults>>

Status == {"unborn", "inPlace", "held", "undoable", "stranded", "deleted"}

AbstractTypeOK ==
    /\ status \in [File -> Status]
    /\ faults \in Nat

AbstractInit ==
    /\ status \in [File -> {"unborn", "inPlace"}]
    /\ faults = 0

Move(f, from, to) ==
    /\ status[f] = from
    /\ status' = [status EXCEPT ![f] = to]
    /\ UNCHANGED faults

\* Every held file changes to s at once.
Settle(s) == status' = [f \in File |-> IF status[f] = "held" THEN s ELSE status[f]]

Appear(f) == Move(f, "unborn", "inPlace")
Discard(f) == Move(f, "inPlace", "deleted")
Take(f) == Move(f, "inPlace", "held")
PutBack(f) == Move(f, "undoable", "inPlace")

Record ==
    /\ Settle("undoable")
    /\ UNCHANGED faults

\* A fault either ends the batch or leaves its files where they are.
Fault ==
    /\ Settle("stranded") \/ UNCHANGED status
    /\ faults' = faults + 1

AbstractNext ==
    \/ \E f \in File : Appear(f) \/ Discard(f) \/ Take(f) \/ PutBack(f)
    \/ Record
    \/ Fault

AbstractSpec == AbstractInit /\ [][AbstractNext]_avars
=============================================================================
