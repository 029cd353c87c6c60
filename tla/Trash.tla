------------------------------- MODULE Trash -------------------------------
(***************************************************************************)
(* Staging to .animoria/trash, the session journal and restoring, as the  *)
(* daemon and the CLI run them: remediation/trash.rs, daemon/cleanup.rs,   *)
(* cli/commands/clean.rs and restore.rs.  A process takes one file-system  *)
(* step at a time; it may crash between any two of them.                   *)
(***************************************************************************)
EXTENDS Integers, SequencesExt

CONSTANTS
    Proc,       \* the processes that trash and restore in one workspace
    Path,       \* asset paths of the workspace
    Name,       \* file names: two paths may share one
    NameOf,     \* the file name of each path
    File,       \* distinct files, each with the path it is created at
    HomeOf,     \* that path
    HasSide,    \* the files an engine keeps a sidecar (.meta, .import) for
    NoFile,     \* the path holds nothing
    MaxClock,   \* bound on the millisecond clock, and so on operations
    MaxCopy,    \* bound on the suffix that separates homonymous files
    MaxBatch,   \* bound on the entries of one plan
    MaxFaults   \* bound on crashes and failed writes

ASSUME TrashAssumption ==
    /\ Name # {} /\ NameOf \in [Path -> Name]
    /\ HomeOf \in [File -> Path]
    /\ HasSide \subseteq File
    /\ NoFile \notin File
    /\ MaxClock \in Nat /\ MaxCopy \in Nat /\ MaxBatch \in Nat /\ MaxFaults \in Nat

VARIABLES
    orig,       \* the file at each workspace path
    side,       \* whose sidecar lies beside each path
    trash,      \* the file in each trash slot
    tside,      \* whose sidecar lies beside each slot
    journal,    \* sessions.json
    handed,     \* TrashItems returned to a trash_asset caller
    clock,      \* milliseconds
    faults,     \* crashes and failed writes so far
    born,       \* history: the files that have existed
    deleted,    \* history: the files the user deleted
    pc,         \* what each process does next
    mode,       \* how its operation ends, and what an error does to it
    plan,       \* paths still to stage
    items,      \* staged so far, or still to restore
    dest,       \* the slot chosen for the next move
    buf,        \* the journal as the process read it
    mark        \* id of the session to write, or index of the one to remove

disk == <<orig, side, trash, tside>>
store == <<journal, handed>>
history == <<born, deleted>>
local == <<pc, mode, plan, items, dest, buf, mark>>
vars == <<disk, store, history, local, clock, faults>>

Copy == 0..MaxCopy
Slot == [dir : 0..MaxClock, name : Name, copy : Copy]
Item == [path : Path, slot : Slot]
Session == [id : 0..MaxClock, items : Seq(Item) \ {<<>>}]

Trashing == {"stage", "stageMove", "stageSide", "write"}
Restoring == {"restore", "restoreMove", "restoreSide"}
NoSlot == [dir |-> 0, name |-> CHOOSE n \in Name : TRUE, copy |-> 0]

TypeOK ==
    /\ orig \in [Path -> File \cup {NoFile}] /\ side \in [Path -> File \cup {NoFile}]
    /\ trash \in [Slot -> File \cup {NoFile}] /\ tside \in [Slot -> File \cup {NoFile}]
    /\ journal \in Seq(Session)
    /\ handed \subseteq Item
    /\ clock \in 0..MaxClock /\ faults \in 0..MaxFaults
    /\ born \subseteq File /\ deleted \subseteq File
    /\ pc \in [Proc -> {"idle"} \cup Trashing \cup Restoring]
    /\ mode \in [Proc -> {"strict", "partial", "single"}]
    /\ plan \in [Proc -> Seq(Path)]
    /\ items \in [Proc -> Seq(Item)]
    /\ dest \in [Proc -> Slot]
    /\ buf \in [Proc -> Seq(Session)]
    /\ mark \in [Proc -> Nat]

-----------------------------------------------------------------------------
\* The workspace holds some of the files, each at its own path with its sidecar.
Init ==
    /\ born \in SUBSET File
    /\ \A f, g \in born : HomeOf[f] = HomeOf[g] => f = g
    /\ orig = [p \in Path |-> IF \E f \in born : HomeOf[f] = p
                              THEN CHOOSE f \in born : HomeOf[f] = p ELSE NoFile]
    /\ side = [p \in Path |-> IF orig[p] \in HasSide THEN orig[p] ELSE NoFile]
    /\ trash = [s \in Slot |-> NoFile] /\ tside = [s \in Slot |-> NoFile]
    /\ journal = <<>> /\ handed = {} /\ deleted = {} /\ clock = 0 /\ faults = 0
    /\ pc = [p \in Proc |-> "idle"] /\ mode = [p \in Proc |-> "single"]
    /\ plan = [p \in Proc |-> <<>>] /\ items = [p \in Proc |-> <<>>]
    /\ dest = [p \in Proc |-> NoSlot] /\ buf = [p \in Proc |-> <<>>]
    /\ mark = [p \in Proc |-> 0]

\* A process forgets its operation: it answered, gave up or died.
Stop(p) ==
    /\ pc' = [pc EXCEPT ![p] = "idle"]
    /\ mode' = [mode EXCEPT ![p] = "single"] /\ plan' = [plan EXCEPT ![p] = <<>>]
    /\ items' = [items EXCEPT ![p] = <<>>] /\ dest' = [dest EXCEPT ![p] = NoSlot]
    /\ buf' = [buf EXCEPT ![p] = <<>>] /\ mark' = [mark EXCEPT ![p] = 0]

Goto(p, l) == pc' = [pc EXCEPT ![p] = l]

-----------------------------------------------------------------------------
(* Staging: trash_asset ("single"), applyCleanupPlan, applyResolutionPlan  *)
(* and clean --apply ("strict", or "partial" with allowPartial).           *)

BeginTrash(p) ==
    /\ pc[p] = "idle" /\ clock < MaxClock
    /\ clock' = clock + 1
    /\ \E m \in {"strict", "partial", "single"}, n \in 1..MaxBatch :
         /\ m = "single" => n = 1
         /\ mode' = [mode EXCEPT ![p] = m]
         /\ \E paths \in [1..n -> Path] : plan' = [plan EXCEPT ![p] = paths]
    /\ Goto(p, "stage")
    /\ UNCHANGED <<disk, store, history, faults, items, dest, buf, mark>>

\* What is left of the plan after an entry failed.
AfterError(m, paths) == IF m = "partial" THEN Tail(paths) ELSE <<>>

\* Mutant: no look at what the directory of the session already holds.
AnyCopy(s) == s.copy = 0

FirstFree(s) ==
    /\ trash[s] = NoFile
    /\ \A c \in Copy : c < s.copy => trash[[s EXCEPT !.copy = c]] # NoFile

StageChoose(p) ==
    /\ pc[p] = "stage" /\ plan[p] # <<>>
    /\ orig[Head(plan[p])] # NoFile
    /\ \E c \in Copy :
         LET s == [dir |-> clock, name |-> NameOf[Head(plan[p])], copy |-> c]
         IN  FirstFree(s) /\ dest' = [dest EXCEPT ![p] = s]
    /\ Goto(p, "stageMove")
    /\ UNCHANGED <<disk, store, history, clock, faults, mode, plan, items, buf, mark>>

\* Mutant: a failed entry ends the operation, the journal is not written.
StageErrorReturns(p) ==
    /\ pc[p] \in {"stage", "stageMove"} /\ plan[p] # <<>>
    /\ pc[p] = "stage" => orig[Head(plan[p])] = NoFile
    /\ Stop(p)
    /\ UNCHANGED <<disk, store, history, clock, faults>>

\* The asset is gone, or the rename fails: nothing moved.
StageError(p) ==
    /\ pc[p] \in {"stage", "stageMove"} /\ plan[p] # <<>>
    /\ pc[p] = "stage" => orig[Head(plan[p])] = NoFile
    /\ plan' = [plan EXCEPT ![p] = AfterError(mode[p], @)]
    /\ Goto(p, "stage")
    /\ UNCHANGED <<disk, store, history, clock, faults, mode, items, dest, buf, mark>>

\* The rename replaces whatever has come to lie at the destination.
StageMove(p) ==
    LET path == Head(plan[p]) IN
    /\ pc[p] = "stageMove" /\ orig[path] # NoFile
    /\ trash' = [trash EXCEPT ![dest[p]] = orig[path]]
    /\ orig' = [orig EXCEPT ![path] = NoFile]
    /\ items' = [items EXCEPT ![p] = Append(@, [path |-> path, slot |-> dest[p]])]
    /\ Goto(p, "stageSide")
    /\ UNCHANGED <<side, tside, store, history, clock, faults, mode, plan, dest, buf, mark>>

\* Mutant: the sidecar moves to the plain name, whatever name the asset got.
StageSidePlainName(p) ==
    LET path == Head(plan[p])
        slot == [dest[p] EXCEPT !.copy = 0] IN
    /\ pc[p] = "stageSide"
    /\ IF side[path] = NoFile
       THEN UNCHANGED <<side, tside>>
       ELSE /\ tside' = [tside EXCEPT ![slot] = side[path]]
            /\ side' = [side EXCEPT ![path] = NoFile]
    /\ plan' = [plan EXCEPT ![p] = Tail(@)]
    /\ Goto(p, "stage")
    /\ UNCHANGED <<orig, trash, store, history, clock, faults, mode, items, dest, buf, mark>>

StageSide(p) ==
    LET path == Head(plan[p]) IN
    /\ pc[p] = "stageSide"
    /\ IF side[path] = NoFile
       THEN UNCHANGED <<side, tside>>
       ELSE /\ tside' = [tside EXCEPT ![dest[p]] = side[path]]
            /\ side' = [side EXCEPT ![path] = NoFile]
    /\ plan' = [plan EXCEPT ![p] = Tail(@)]
    /\ Goto(p, "stage")
    /\ UNCHANGED <<orig, trash, store, history, clock, faults, mode, items, dest, buf, mark>>

StageNothing(p) ==
    /\ pc[p] = "stage" /\ plan[p] = <<>> /\ items[p] = <<>>
    /\ Stop(p)
    /\ UNCHANGED <<disk, store, history, clock, faults>>

\* trash_asset returns the TrashItem; recording it is the caller's business.
HandOver(p) ==
    /\ pc[p] = "stage" /\ plan[p] = <<>> /\ items[p] # <<>> /\ mode[p] = "single"
    /\ handed' = handed \cup {items[p][1]}
    /\ Stop(p)
    /\ UNCHANGED <<disk, journal, history, clock, faults>>

\* Mutant: a session is recorded although nothing was moved.
ReadJournalAlways(p) ==
    /\ pc[p] = "stage" /\ plan[p] = <<>> /\ mode[p] # "single"
    /\ mark' = [mark EXCEPT ![p] = clock]
    /\ buf' = [buf EXCEPT ![p] = journal]
    /\ Goto(p, "write")
    /\ UNCHANGED <<disk, store, history, clock, faults, mode, plan, items, dest>>

ReadJournal(p) ==
    /\ pc[p] = "stage" /\ plan[p] = <<>> /\ items[p] # <<>> /\ mode[p] # "single"
    /\ mark' = [mark EXCEPT ![p] = clock]
    /\ buf' = [buf EXCEPT ![p] = journal]
    /\ Goto(p, "write")
    /\ UNCHANGED <<disk, store, history, clock, faults, mode, plan, items, dest>>

RecordSession(p) ==
    /\ pc[p] = "write"
    /\ journal' = Append(buf[p], [id |-> mark[p], items |-> items[p]])
    /\ Stop(p)
    /\ UNCHANGED <<disk, handed, history, clock, faults>>

-----------------------------------------------------------------------------
(* Restoring: restoreTrashSession and `animoria restore`, which follow the *)
(* journal, and restore_asset, which is handed one TrashItem back.         *)

Matches(j, id, i) == j[i].id = id /\ \A k \in 1..(i - 1) : j[k].id # id

BeginRestore(p) ==
    /\ pc[p] = "idle" /\ clock < MaxClock
    /\ clock' = clock + 1
    /\ \E i \in 1..Len(journal) :
         /\ Matches(journal, journal[i].id, i)
         /\ mark' = [mark EXCEPT ![p] = i]
         /\ items' = [items EXCEPT ![p] = journal[i].items]
    /\ buf' = [buf EXCEPT ![p] = journal]
    /\ mode' = [mode EXCEPT ![p] = "strict"]
    /\ Goto(p, "restore")
    /\ UNCHANGED <<disk, store, history, faults, plan, dest>>

BeginRestoreAsset(p) ==
    /\ pc[p] = "idle" /\ clock < MaxClock
    /\ clock' = clock + 1
    /\ \E it \in handed : items' = [items EXCEPT ![p] = <<it>>]
    /\ mode' = [mode EXCEPT ![p] = "single"]
    /\ Goto(p, "restore")
    /\ UNCHANGED <<disk, store, history, faults, plan, dest, buf, mark>>

\* Mutant: a file at the original path is taken for the restored one.
SomethingThere(it) == orig[it.path] # NoFile

\* Put back by an earlier restore of this session that did not reach its end.
AlreadyBack(it) == trash[it.slot] = NoFile /\ orig[it.path] # NoFile

\* Mutant: no look at the original path.
StillInTrash(it) == trash[it.slot] # NoFile

MayPutBack(it) == trash[it.slot] # NoFile /\ orig[it.path] = NoFile

RestoreSkip(p) ==
    /\ pc[p] = "restore" /\ items[p] # <<>> /\ mode[p] # "single"
    /\ AlreadyBack(Head(items[p]))
    /\ items' = [items EXCEPT ![p] = Tail(@)]
    /\ UNCHANGED <<disk, store, history, clock, faults, pc, mode, plan, dest, buf, mark>>

RestoreChoose(p) ==
    /\ pc[p] = "restore" /\ items[p] # <<>>
    /\ MayPutBack(Head(items[p]))
    /\ Goto(p, "restoreMove")
    /\ UNCHANGED <<disk, store, history, clock, faults, mode, plan, items, dest, buf, mark>>

\* The first error ends the restore; the session stays in the journal.
RestoreError(p) ==
    /\ \/ /\ pc[p] = "restore" /\ items[p] # <<>>
          /\ ~MayPutBack(Head(items[p]))
          /\ mode[p] = "single" \/ ~AlreadyBack(Head(items[p]))
       \/ pc[p] = "restoreMove"
    /\ Stop(p)
    /\ UNCHANGED <<disk, store, history, clock, faults>>

RestoreMove(p) ==
    LET it == Head(items[p]) IN
    /\ pc[p] = "restoreMove" /\ trash[it.slot] # NoFile
    /\ orig' = [orig EXCEPT ![it.path] = trash[it.slot]]
    /\ trash' = [trash EXCEPT ![it.slot] = NoFile]
    /\ Goto(p, "restoreSide")
    /\ UNCHANGED <<side, tside, store, history, clock, faults,
                   mode, plan, items, dest, buf, mark>>

PutBackSide(it) ==
    IF tside[it.slot] # NoFile /\ side[it.path] = NoFile
    THEN /\ side' = [side EXCEPT ![it.path] = tside[it.slot]]
         /\ tside' = [tside EXCEPT ![it.slot] = NoFile]
    ELSE UNCHANGED <<side, tside>>

RestoreSide(p) ==
    /\ pc[p] = "restoreSide" /\ mode[p] # "single"
    /\ PutBackSide(Head(items[p]))
    /\ items' = [items EXCEPT ![p] = Tail(@)]
    /\ Goto(p, "restore")
    /\ UNCHANGED <<orig, trash, store, history, clock, faults, mode, plan, dest, buf, mark>>

\* restore_asset answers; its caller lets go of the item.
RestoreAssetSide(p) ==
    /\ pc[p] = "restoreSide" /\ mode[p] = "single"
    /\ PutBackSide(Head(items[p]))
    /\ handed' = handed \ {Head(items[p])}
    /\ Stop(p)
    /\ UNCHANGED <<orig, trash, journal, history, clock, faults>>

\* Mutant: the journal loses the later sessions as well.
UpToSession(j, i) == SubSeq(j, 1, i - 1)

WithoutSession(j, i) == RemoveAt(j, i)

ForgetSession(p) ==
    /\ pc[p] = "restore" /\ items[p] = <<>>
    /\ journal' = WithoutSession(buf[p], mark[p])
    /\ Stop(p)
    /\ UNCHANGED <<disk, handed, history, clock, faults>>

-----------------------------------------------------------------------------
(* What can go wrong, and the user at work in the same files.              *)

\* The process dies, or the journal cannot be written: the operation ends here.
Fail(p) ==
    /\ pc[p] # "idle" /\ faults < MaxFaults
    /\ faults' = faults + 1
    /\ Stop(p)
    /\ UNCHANGED <<disk, store, history, clock>>

\* A sidecar cannot be moved: the code logs it and goes on.
SideError(p) ==
    /\ pc[p] \in {"stageSide", "restoreSide"} /\ faults < MaxFaults
    /\ pc[p] = "restoreSide" => mode[p] # "single"
    /\ faults' = faults + 1
    /\ IF pc[p] = "stageSide"
       THEN /\ plan' = [plan EXCEPT ![p] = Tail(@)] /\ Goto(p, "stage")
            /\ UNCHANGED items
       ELSE /\ items' = [items EXCEPT ![p] = Tail(@)] /\ Goto(p, "restore")
            /\ UNCHANGED plan
    /\ UNCHANGED <<disk, store, history, clock, mode, dest, buf, mark>>

Tick ==
    /\ clock < MaxClock
    /\ \E p \in Proc : pc[p] = "stage"
    /\ clock' = clock + 1
    /\ UNCHANGED <<disk, store, history, local, faults>>

UserCreate(f) ==
    /\ f \notin born /\ orig[HomeOf[f]] = NoFile
    /\ orig' = [orig EXCEPT ![HomeOf[f]] = f]
    /\ side' = IF f \in HasSide THEN [side EXCEPT ![HomeOf[f]] = f] ELSE side
    /\ born' = born \cup {f}
    /\ UNCHANGED <<trash, tside, store, deleted, local, clock, faults>>

UserDelete(path) ==
    /\ orig[path] # NoFile
    /\ deleted' = deleted \cup {orig[path]}
    /\ orig' = [orig EXCEPT ![path] = NoFile]
    /\ side' = [side EXCEPT ![path] = NoFile]
    /\ UNCHANGED <<trash, tside, store, born, local, clock, faults>>

-----------------------------------------------------------------------------
Begin(p) == BeginTrash(p) \/ BeginRestore(p) \/ BeginRestoreAsset(p)

Stage(p) ==
    \/ StageChoose(p) \/ StageError(p) \/ StageMove(p) \/ StageSide(p)
    \/ StageNothing(p) \/ HandOver(p) \/ ReadJournal(p) \/ RecordSession(p)

Restore(p) ==
    \/ RestoreSkip(p) \/ RestoreChoose(p) \/ RestoreError(p) \/ RestoreMove(p)
    \/ RestoreSide(p) \/ RestoreAssetSide(p) \/ ForgetSession(p)

Step(p) == Stage(p) \/ Restore(p) \/ Fail(p) \/ SideError(p)

\* No other operation is under way.
Quiet(p) == \A q \in Proc \ {p} : pc[q] = "idle"

\* No process stands between its last look at the disk and the end of the move.
Calm == \A p \in Proc : pc[p] \notin {"stageMove", "stageSide", "restoreMove", "restoreSide"}

\* One operation at a time, and the user's hands off the file being moved.
Next ==
    \/ \E p \in Proc : Quiet(p) /\ Begin(p)
    \/ \E p \in Proc : Step(p)
    \/ Tick
    \/ \E f \in File : Calm /\ UserCreate(f)
    \/ \E path \in Path : Calm /\ UserDelete(path)

\* Two processes interleave; the user only watches.
RacyNext == (\E p \in Proc : Begin(p) \/ Step(p)) \/ Tick

Spec == Init /\ [][Next]_vars
RacySpec == Init /\ [][RacyNext]_vars

-----------------------------------------------------------------------------
(* Properties.                                                             *)

InPlace(f) == \E p \in Path : orig[p] = f
InTrash(f) == \E s \in Slot : trash[s] = f

\* What can be asked back: the journal's items and those the callers hold.
JournalItems(j) == UNION {ToSet(j[i].items) : i \in 1..Len(j)}
Listed == JournalItems(journal) \cup handed

\* What a batch has moved and not yet recorded.
Held == UNION {ToSet(items[p]) : p \in {q \in Proc : pc[q] \in Trashing}}

SlotsOf(S) == {it.slot : it \in S}

\* Cleanup never destroys a file: whatever was in the workspace is at its own
\* path or in exactly one trash slot, unless the user deleted it.
\* (stage_to_trash's collision loop, restore_from_trash's exists() check)
Conserved ==
    /\ \A f \in born \ deleted : InPlace(f) # InTrash(f)
    /\ \A p \in Path : orig[p] # NoFile => HomeOf[orig[p]] = p
    /\ \A s, t \in Slot : trash[s] # NoFile /\ trash[s] = trash[t] => s = t

\* Without a fault every file in the trash can be asked back: a session of the
\* journal lists it, or the caller of trash_asset has its item, or the batch that
\* moved it has not ended.  (apply_cleanup_plan, clean: recorded even after a failure)
Recorded ==
    faults = 0 => \A s \in Slot : trash[s] # NoFile =>
                      s \in SlotsOf(Listed \cup Held)

\* When nothing is running and nothing failed, a sidecar is where its file is:
\* beside it in the workspace or beside its slot in the trash.
SidecarsTravel ==
    faults = 0 /\ (\A p \in Proc : pc[p] = "idle") =>
        \A f \in HasSide \cap (born \ deleted) :
            /\ \A p \in Path : orig[p] = f => side[p] = f
            /\ \A s \in Slot : trash[s] = f => tside[s] = f

\* A step never puts one file over another in the workspace, and what it puts
\* there belongs there.  (restore_from_trash: "without clobbering a file")
NoClobber ==
    [][\A p \in Path : orig'[p] # orig[p] /\ orig'[p] # NoFile
          => orig[p] = NoFile /\ HomeOf[orig'[p]] = p]_vars

\* A session leaves the journal only when none of its files is left in the
\* trash, whatever crashed before.  (restore_session, sessions.remove(pos))
ForgottenWhenEmpty ==
    [][\A s \in SlotsOf(JournalItems(journal) \ JournalItems(journal')) : trash[s] = NoFile]_vars

\* "Animoria never permanently deletes an asset as part of cleanup or duplicate
\* resolution": what the user did not delete is in the workspace or in the trash.
\* (docs/guides/08-cleanup-trash-restore.md, section 1)
NeverDestroyed == \A f \in born \ deleted : InPlace(f) \/ InTrash(f)

\* "They travel with the asset, or restoring it would give it a new identity": a
\* session is not forgotten while a sidecar of its files is still in the trash.
\* (trash.rs, the comment on SIDECAR_SUFFIXES)
SidecarsRestored ==
    [][\A s \in SlotsOf(JournalItems(journal) \ JournalItems(journal')) : tside[s] = NoFile]_vars

-----------------------------------------------------------------------------
Lies(f, S) == \E s \in SlotsOf(S) : trash[s] = f

\* Where a file stands in the eyes of the abstract specification.
StatusOf(f) ==
    IF f \notin born THEN "unborn"
    ELSE IF f \in deleted THEN "deleted"
    ELSE IF InPlace(f) THEN "inPlace"
    ELSE IF Lies(f, Held) THEN "held"
    ELSE IF Lies(f, Listed) THEN "undoable"
    ELSE IF InTrash(f) THEN "stranded"
    ELSE "lost"

Abstract == INSTANCE ReversibleRemoval WITH status <- [f \in File |-> StatusOf(f)]

\* The operations implement reversible removal: a batch becomes undoable all at
\* once, only an undoable file comes back, and only a fault strands one.
Reversible == Abstract!AbstractSpec
=============================================================================
