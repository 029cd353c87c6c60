---------------------------- MODULE TrashSidecars ----------------------------
(* Sidecars travel with their files: what the two renames of a move leave in *)
(* between, and that nothing else separates a sidecar from its file.         *)
EXTENDS TrashProofs

-----------------------------------------------------------------------------
(* The invariant.                                                          *)

SideOf(f) == IF f \in HasSide THEN f ELSE NoFile

\* A process has moved a file and not yet its sidecar, from or to a path, a slot.
Midway(q) == pc[q] \in {"stageSide", "restoreSide"}
AtPath(q, p) ==
    \/ pc[q] = "stageSide" /\ Head(plan[q]) = p
    \/ pc[q] = "restoreSide" /\ Head(items[q]).path = p
AtSlot(q, s) ==
    \/ pc[q] = "stageSide" /\ dest[q] = s
    \/ pc[q] = "restoreSide" /\ Head(items[q]).slot = s

\* A path or a slot no move is at has the sidecar of the file it has, and no other.
BesidePath == \A p \in Path : (\A q \in Proc : ~AtPath(q, p)) => side[p] = SideOf(orig[p])
BesideSlot == \A s \in Slot : (\A q \in Proc : ~AtSlot(q, s)) => tside[s] = SideOf(trash[s])

\* Between the two renames the sidecar is still where its file was.
StillBehind ==
    \A q \in Proc :
        /\ pc[q] = "stageSide" =>
             /\ orig[Head(plan[q])] = NoFile /\ tside[dest[q]] = NoFile
             /\ side[Head(plan[q])] = SideOf(trash[dest[q]])
        /\ pc[q] = "restoreSide" =>
             LET it == Head(items[q]) IN
             /\ trash[it.slot] = NoFile /\ side[it.path] = NoFile
             /\ tside[it.slot] = SideOf(orig[it.path])

SidesPlaced == BesidePath /\ BesideSlot /\ StillBehind

SidecarInv == SafetyInv /\ (faults = 0 => SidesPlaced)

LEMMA SideOfNothing == SideOf(NoFile) = NoFile
  BY TrashAssumption DEF SideOf

-----------------------------------------------------------------------------
(* Steps that move no file and no sidecar.                                 *)

LEMMA NothingMoves ==
    ASSUME SidesPlaced, UNCHANGED <<disk, local>>
    PROVE  SidesPlaced'
  BY DEF SidesPlaced, BesidePath, BesideSlot, StillBehind, AtPath, AtSlot, disk, local

\* Outside the moves every sidecar is beside its file.
LEMMA CalmPlaces ==
    ASSUME \A q \in Proc : ~Midway(q)
    PROVE  SidesPlaced <=> /\ \A p \in Path : side[p] = SideOf(orig[p])
                           /\ \A s \in Slot : tside[s] = SideOf(trash[s])
  BY DEF SidesPlaced, BesidePath, BesideSlot, StillBehind, AtPath, AtSlot, Midway

LEMMA CalmStaysPlaced ==
    ASSUME SidesPlaced, UNCHANGED disk,
           \A q \in Proc : ~Midway(q), \A q \in Proc : ~Midway(q)'
    PROVE  SidesPlaced'
  BY DEF SidesPlaced, BesidePath, BesideSlot, StillBehind, AtPath, AtSlot, Midway, disk

\* An operation begins, goes on between two moves, or ends without one.
LEMMA CalmSteps ==
    ASSUME SafetyInv, NEW p \in Proc,
           \/ Quiet(p) /\ Begin(p)
           \/ StageChoose(p) \/ StageError(p) \/ StageNothing(p) \/ HandOver(p)
           \/ ReadJournal(p) \/ RecordSession(p)
           \/ RestoreSkip(p) \/ RestoreChoose(p) \/ RestoreError(p) \/ ForgetSession(p)
    PROVE  /\ UNCHANGED disk
           /\ \A q \in Proc : ~Midway(q) /\ ~Midway(q)'
<1> USE DEF SafetyInv, TypeInv, TypeOK, Goto, Stop
<1>1. CASE Quiet(p) /\ Begin(p)
  <2>1. UNCHANGED disk /\ pc[p] = "idle"
    BY <1>1 DEF Begin, BeginTrash, BeginRestore, BeginRestoreAsset
  <2>2. pc' = [pc EXCEPT ![p] = "stage"] \/ pc' = [pc EXCEPT ![p] = "restore"]
    BY <1>1 DEF Begin, BeginTrash, BeginRestore, BeginRestoreAsset
  <2> QED
    BY <1>1, <2>1, <2>2 DEF Quiet, Midway
<1>2. CASE \/ StageChoose(p) \/ StageError(p) \/ StageNothing(p) \/ HandOver(p)
           \/ ReadJournal(p) \/ RecordSession(p)
  <2>1. /\ UNCHANGED disk /\ pc[p] \in {"stage", "stageMove", "write"}
        /\ pc'[p] \in {"idle", "stage", "stageMove", "write"}
        /\ \A q \in Proc \ {p} : pc'[q] = pc[q]
    <3>1. CASE StageChoose(p)
      BY <3>1 DEF StageChoose
    <3>2. CASE StageError(p)
      BY <3>2 DEF StageError
    <3>3. CASE StageNothing(p)
      BY <3>3 DEF StageNothing
    <3>4. CASE HandOver(p)
      BY <3>4 DEF HandOver
    <3>5. CASE ReadJournal(p)
      BY <3>5 DEF ReadJournal
    <3>6. CASE RecordSession(p)
      BY <3>6 DEF RecordSession
    <3> QED
      BY <1>2, <3>1, <3>2, <3>3, <3>4, <3>5, <3>6
  <2> QED
    BY <2>1, OthersIdle DEF Midway
<1>3. CASE RestoreSkip(p) \/ RestoreChoose(p) \/ RestoreError(p) \/ ForgetSession(p)
  <2>1. /\ UNCHANGED disk /\ pc[p] \in {"restore", "restoreMove"}
        /\ pc'[p] \in {"idle", "restore", "restoreMove"}
        /\ \A q \in Proc \ {p} : pc'[q] = pc[q]
    <3>1. CASE RestoreSkip(p)
      BY <3>1 DEF RestoreSkip
    <3>2. CASE RestoreChoose(p)
      BY <3>2 DEF RestoreChoose
    <3>3. CASE RestoreError(p)
      BY <3>3 DEF RestoreError
    <3>4. CASE ForgetSession(p)
      BY <3>4 DEF ForgetSession
    <3> QED
      BY <1>3, <3>1, <3>2, <3>3, <3>4
  <2> QED
    BY <2>1, OthersIdle DEF Midway
<1> QED
  BY <1>1, <1>2, <1>3

-----------------------------------------------------------------------------
(* The moves.                                                              *)

LEMMA StageMovePlaced ==
    ASSUME SafetyInv, SidesPlaced, NEW p \in Proc, StageMove(p)
    PROVE  SidesPlaced'
<1> DEFINE path == Head(plan[p])
<1>0. /\ pc[p] = "stageMove" /\ path \in Path /\ dest[p] \in Slot
      /\ trash[dest[p]] = NoFile
      /\ orig' = [orig EXCEPT ![path] = NoFile] /\ trash' = [trash EXCEPT ![dest[p]] = orig[path]]
      /\ orig \in [Path -> File \cup {NoFile}] /\ trash \in [Slot -> File \cup {NoFile}]
      /\ UNCHANGED <<side, tside, plan, dest>> /\ pc' = [pc EXCEPT ![p] = "stageSide"]
      /\ pc \in [Proc -> {"idle"} \cup Trashing \cup Restoring]
  <2>1. plan[p] # <<>> /\ plan[p] \in Seq(Path) /\ pc[p] = "stageMove"
    BY DEF StageMove, SafetyInv, TypeInv, TypeOK, LocalOK
  <2> QED
    BY <2>1 DEF StageMove, SafetyInv, TypeInv, TypeOK, StillFree, Goto
<1>1. \A q \in Proc \ {p} : pc'[q] = "idle"
  BY <1>0, OthersIdle DEF SafetyInv
<1>2. \A q \in Proc : ~Midway(q)
  BY <1>0, <1>1 DEF Midway
<1>3. /\ \A r \in Path : side[r] = SideOf(orig[r])
      /\ \A s \in Slot : tside[s] = SideOf(trash[s])
  BY <1>2, CalmPlaces
<1>4. AtPath(p, path)' /\ AtSlot(p, dest[p])'
  BY <1>0 DEF AtPath, AtSlot
<1>5. BesidePath'
  BY <1>0, <1>3, <1>4 DEF BesidePath, AtPath, SideOf
<1>6. BesideSlot'
  BY <1>0, <1>3, <1>4 DEF BesideSlot, AtSlot, SideOf
<1>7. StillBehind'
  BY <1>0, <1>1, <1>3, SideOfNothing DEF StillBehind, SideOf
<1> QED
  BY <1>5, <1>6, <1>7 DEF SidesPlaced

LEMMA RestoreMovePlaced ==
    ASSUME SafetyInv, SidesPlaced, NEW p \in Proc, RestoreMove(p)
    PROVE  SidesPlaced'
<1> DEFINE it == Head(items[p])
<1>0. /\ pc[p] = "restoreMove" /\ it.path \in Path /\ it.slot \in Slot
      /\ orig[it.path] = NoFile
      /\ orig' = [orig EXCEPT ![it.path] = trash[it.slot]]
      /\ trash' = [trash EXCEPT ![it.slot] = NoFile]
      /\ orig \in [Path -> File \cup {NoFile}] /\ trash \in [Slot -> File \cup {NoFile}]
      /\ UNCHANGED <<side, tside, items>> /\ pc' = [pc EXCEPT ![p] = "restoreSide"]
      /\ pc \in [Proc -> {"idle"} \cup Trashing \cup Restoring]
  <2>1. items[p] # <<>> /\ items[p] \in Seq(Item) /\ pc[p] = "restoreMove"
    BY DEF RestoreMove, SafetyInv, TypeInv, TypeOK, LocalOK
  <2>2. it \in Item
    BY <2>1
  <2>3. it.path \in Path /\ it.slot \in Slot
    BY <2>2 DEF Item
  <2> QED
    BY <2>1, <2>3 DEF RestoreMove, SafetyInv, TypeInv, TypeOK, StillFree, Goto
<1>1. \A q \in Proc \ {p} : pc'[q] = "idle"
  BY <1>0, OthersIdle DEF SafetyInv
<1>2. \A q \in Proc : ~Midway(q)
  BY <1>0, <1>1 DEF Midway
<1>3. /\ \A r \in Path : side[r] = SideOf(orig[r])
      /\ \A s \in Slot : tside[s] = SideOf(trash[s])
  BY <1>2, CalmPlaces
<1>4. AtPath(p, it.path)' /\ AtSlot(p, it.slot)'
  BY <1>0 DEF AtPath, AtSlot
<1>5. BesidePath'
  BY <1>0, <1>3, <1>4 DEF BesidePath, AtPath, SideOf
<1>6. BesideSlot'
  BY <1>0, <1>3, <1>4 DEF BesideSlot, AtSlot, SideOf
<1>7. StillBehind'
  BY <1>0, <1>1, <1>3, SideOfNothing DEF StillBehind, SideOf
<1> QED
  BY <1>5, <1>6, <1>7 DEF SidesPlaced

LEMMA StageSidePlaced ==
    ASSUME SafetyInv, SidesPlaced, NEW p \in Proc, StageSide(p)
    PROVE  SidesPlaced'
<1> DEFINE path == Head(plan[p])
<1>0. /\ pc[p] = "stageSide" /\ path \in Path /\ dest[p] \in Slot
      /\ orig[path] = NoFile /\ tside[dest[p]] = NoFile /\ side[path] = SideOf(trash[dest[p]])
      /\ UNCHANGED <<orig, trash>>
      /\ side \in [Path -> File \cup {NoFile}] /\ tside \in [Slot -> File \cup {NoFile}]
  <2>1. plan[p] # <<>> /\ plan[p] \in Seq(Path) /\ pc[p] = "stageSide"
    BY DEF StageSide, SafetyInv, TypeInv, TypeOK, LocalOK
  <2> QED
    BY <2>1 DEF StageSide, SafetyInv, TypeInv, TypeOK, SidesPlaced, StillBehind
<1>1. \A q \in Proc : ~Midway(q)'
  BY <1>0, OthersIdle DEF StageSide, Goto, Midway, SafetyInv, TypeInv, TypeOK
<1>2. \A r \in Path \ {path} : side[r] = SideOf(orig[r])
  BY <1>0, OthersIdle DEF SafetyInv, SidesPlaced, BesidePath, AtPath
<1>3. \A s \in Slot \ {dest[p]} : tside[s] = SideOf(trash[s])
  BY <1>0, OthersIdle DEF SafetyInv, SidesPlaced, BesideSlot, AtSlot
<1>4. \/ side[path] = NoFile /\ UNCHANGED <<side, tside>>
      \/ /\ tside' = [tside EXCEPT ![dest[p]] = side[path]]
         /\ side' = [side EXCEPT ![path] = NoFile]
  BY DEF StageSide
<1>5. \A r \in Path : side'[r] = SideOf(orig[r])
  BY <1>0, <1>2, <1>4, SideOfNothing
<1>6. \A s \in Slot : tside'[s] = SideOf(trash[s])
  BY <1>0, <1>3, <1>4
<1> QED
  BY <1>0, <1>1, <1>5, <1>6
     DEF SidesPlaced, BesidePath, BesideSlot, StillBehind, AtPath, AtSlot, Midway, SideOf

LEMMA RestoreSidePlaced ==
    ASSUME SafetyInv, SidesPlaced, NEW p \in Proc, RestoreSide(p) \/ RestoreAssetSide(p)
    PROVE  SidesPlaced'
<1> DEFINE it == Head(items[p])
<1>0. /\ pc[p] = "restoreSide" /\ it.path \in Path /\ it.slot \in Slot
      /\ trash[it.slot] = NoFile /\ side[it.path] = NoFile
      /\ tside[it.slot] = SideOf(orig[it.path])
      /\ UNCHANGED <<orig, trash>>
      /\ side \in [Path -> File \cup {NoFile}] /\ tside \in [Slot -> File \cup {NoFile}]
  <2>1. items[p] # <<>> /\ items[p] \in Seq(Item) /\ pc[p] = "restoreSide"
    BY DEF RestoreSide, RestoreAssetSide, SafetyInv, TypeInv, TypeOK, LocalOK
  <2>2. it \in Item
    BY <2>1
  <2>3. it.path \in Path /\ it.slot \in Slot
    BY <2>2 DEF Item
  <2> QED
    BY <2>1, <2>3 DEF RestoreSide, RestoreAssetSide, SafetyInv, TypeInv, TypeOK,
                      SidesPlaced, StillBehind
<1>1. \A q \in Proc : ~Midway(q)'
  <2>1. pc' = [pc EXCEPT ![p] = "restore"] \/ pc' = [pc EXCEPT ![p] = "idle"]
    BY DEF RestoreSide, RestoreAssetSide, Goto, Stop
  <2>2. \A q \in Proc \ {p} : pc[q] = "idle"
    BY <1>0, OthersIdle DEF SafetyInv
  <2>3. pc \in [Proc -> {"idle"} \cup Trashing \cup Restoring]
    BY DEF SafetyInv, TypeInv, TypeOK
  <2> QED
    BY <2>1, <2>2, <2>3 DEF Midway
<1>2. \A r \in Path \ {it.path} : side[r] = SideOf(orig[r])
  BY <1>0, OthersIdle DEF SafetyInv, SidesPlaced, BesidePath, AtPath
<1>3. \A s \in Slot \ {it.slot} : tside[s] = SideOf(trash[s])
  BY <1>0, OthersIdle DEF SafetyInv, SidesPlaced, BesideSlot, AtSlot
<1>4. \/ tside[it.slot] = NoFile /\ UNCHANGED <<side, tside>>
      \/ /\ side' = [side EXCEPT ![it.path] = tside[it.slot]]
         /\ tside' = [tside EXCEPT ![it.slot] = NoFile]
  BY <1>0 DEF RestoreSide, RestoreAssetSide, PutBackSide
<1>5. \A r \in Path : side'[r] = SideOf(orig[r])
  BY <1>0, <1>2, <1>4
<1>6. \A s \in Slot : tside'[s] = SideOf(trash[s])
  BY <1>0, <1>3, <1>4, SideOfNothing
<1> QED
  BY <1>0, <1>1, <1>5, <1>6
     DEF SidesPlaced, BesidePath, BesideSlot, StillBehind, AtPath, AtSlot, Midway, SideOf

LEMMA UserPlaced ==
    ASSUME SafetyInv, SidesPlaced, Calm,
           \/ \E f \in File : UserCreate(f)
           \/ \E path \in Path : UserDelete(path)
    PROVE  SidesPlaced'
<1>0. /\ UNCHANGED <<trash, tside, local>>
      /\ orig \in [Path -> File \cup {NoFile}] /\ side \in [Path -> File \cup {NoFile}]
  BY DEF UserCreate, UserDelete, SafetyInv, TypeInv, TypeOK
<1>1. \A q \in Proc : ~Midway(q) /\ ~Midway(q)'
  BY <1>0 DEF Calm, Midway, local
<1>2. /\ \A r \in Path : side[r] = SideOf(orig[r])
      /\ \A s \in Slot : tside[s] = SideOf(trash[s])
  BY <1>1, CalmPlaces
<1>3. \A r \in Path : side'[r] = SideOf(orig'[r])
  <2>1. ASSUME NEW f \in File, UserCreate(f) PROVE \A r \in Path : side'[r] = SideOf(orig'[r])
    <3>1. HomeOf[f] \in Path
      BY TrashAssumption
    <3> QED
      BY <1>0, <1>2, <2>1, <3>1, SideOfNothing DEF UserCreate, SideOf
  <2>2. ASSUME NEW path \in Path, UserDelete(path)
        PROVE  \A r \in Path : side'[r] = SideOf(orig'[r])
    BY <1>0, <1>2, <2>2, SideOfNothing DEF UserDelete
  <2> QED
    BY <2>1, <2>2
<1> QED
  BY <1>0, <1>1, <1>2, <1>3
     DEF SidesPlaced, BesidePath, BesideSlot, StillBehind, AtPath, AtSlot, Midway, SideOf

-----------------------------------------------------------------------------
(* The theorem.                                                            *)

LEMMA SidecarInit == Init => SidecarInv
<1> SUFFICES ASSUME Init PROVE SidesPlaced
  BY SafetyInit DEF SidecarInv
<1>1. \A q \in Proc : ~Midway(q)
  BY DEF Init, Midway
<1>2. \A r \in Path : side[r] = SideOf(orig[r])
  BY DEF Init, SideOf
<1>3. \A s \in Slot : tside[s] = SideOf(trash[s])
  BY SideOfNothing DEF Init
<1> QED
  BY <1>1, <1>2, <1>3, CalmPlaces

LEMMA SidecarStep == SidecarInv /\ [Next]_vars => SidecarInv'
<1> SUFFICES ASSUME SidecarInv, [Next]_vars, faults' = 0 PROVE SidesPlaced'
  BY SafetyStep DEF SidecarInv
<1>0. \A p \in Proc : ~Fail(p) /\ ~SideError(p)
  BY DEF Fail, SideError, SidecarInv, SafetyInv, TypeInv, TypeOK
<1>1. faults = 0
  <2>1. ASSUME NEW p \in Proc, Begin(p) \/ Stage(p) \/ Restore(p) PROVE faults' = faults
    BY <2>1 DEF Begin, BeginTrash, BeginRestore, BeginRestoreAsset,
       Stage, StageChoose, StageError, StageMove, StageSide, StageNothing, HandOver,
       ReadJournal, RecordSession, Restore, RestoreSkip, RestoreChoose, RestoreError,
       RestoreMove, RestoreSide, RestoreAssetSide, ForgetSession
  <2>2. \/ Tick \/ UNCHANGED vars
        \/ (\E f \in File : UserCreate(f)) \/ (\E path \in Path : UserDelete(path))
        => faults' = faults
    BY DEF Tick, UserCreate, UserDelete, vars
  <2> QED
    BY <1>0, <2>1, <2>2 DEF Next, Step
<1>2. SafetyInv /\ SidesPlaced
  BY <1>1 DEF SidecarInv
<1>3. ASSUME NEW p \in Proc, Quiet(p) /\ Begin(p) PROVE SidesPlaced'
  BY <1>2, <1>3, CalmSteps, CalmStaysPlaced
<1>4. ASSUME NEW p \in Proc, Step(p) PROVE SidesPlaced'
  BY <1>0, <1>2, <1>4, CalmSteps, CalmStaysPlaced, StageMovePlaced, StageSidePlaced,
     RestoreMovePlaced, RestoreSidePlaced DEF Step, Stage, Restore
<1>5. ASSUME Tick \/ UNCHANGED vars PROVE SidesPlaced'
  <2>1. UNCHANGED <<disk, local>>
    BY <1>5 DEF Tick, vars
  <2> QED
    BY <1>2, <2>1, NothingMoves
<1> QED
  BY <1>2, <1>3, <1>4, <1>5, UserPlaced DEF Next

\* While nothing has failed, a sidecar is beside its file whenever no operation
\* runs: beside its path in the workspace or beside its slot in the trash.
THEOREM SidecarsFollow == Spec => []SidecarsTravel
<1>1. SidecarInv => SidecarsTravel
  <2> SUFFICES ASSUME SidecarInv, faults = 0, \A p \in Proc : pc[p] = "idle"
               PROVE  \A f \in HasSide \cap (born \ deleted) :
                        /\ \A p \in Path : orig[p] = f => side[p] = f
                        /\ \A s \in Slot : trash[s] = f => tside[s] = f
    BY DEF SidecarsTravel
  <2>1. \A q \in Proc : ~Midway(q)
    BY DEF Midway
  <2> QED
    BY <2>1, CalmPlaces DEF SidecarInv, SideOf
<1> QED
  BY <1>1, SidecarInit, SidecarStep, PTL DEF Spec
=============================================================================
