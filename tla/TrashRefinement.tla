--------------------------- MODULE TrashRefinement ---------------------------
(* Trash implements ReversibleRemoval: the steps of staging, recording and   *)
(* restoring are steps of the abstract cycle, or change nothing in it.       *)
EXTENDS TrashProofs

-----------------------------------------------------------------------------
(* What the mapping needs to know beyond where the files are.              *)

\* A batch's slots are younger than every slot that can be asked back, so a batch
\* that ends in a fault leaves its files to nobody.
BatchYounger ==
    \A p \in Proc : pc[p] \in Trashing =>
        \A it \in ToSet(items[p]), old \in Listed : old.slot.dir < it.slot.dir

\* What a restore puts back could be asked back.
RestoresListed ==
    \A p \in Proc : pc[p] \in Restoring => ToSet(items[p]) \subseteq Listed

RefinementInv == SafetyInv /\ BatchYounger /\ RestoresListed

\* An operation that goes on with the batch it has, or with part of its restore.
GoesOn(p) ==
    /\ pc'[p] \in Trashing <=> pc[p] \in Trashing
    /\ pc'[p] \in Restoring <=> pc[p] \in Restoring
    /\ ToSet(items'[p]) \subseteq ToSet(items[p])

LEMMA GoesOnKept ==
    ASSUME BatchYounger, RestoresListed, Listed' = Listed,
           \A p \in Proc : GoesOn(p)
    PROVE  BatchYounger' /\ RestoresListed'
  BY DEF BatchYounger, RestoresListed, GoesOn

LEMMA StopEmpty ==
    ASSUME SafetyInv, NEW p \in Proc, pc[p] # "idle", Stop(p)
    PROVE  Held' = {}
<1>1. \A q \in Proc : pc'[q] = "idle"
  BY OthersIdle DEF SafetyInv, TypeInv, TypeOK, Stop
<1> QED
  BY <1>1 DEF Held, Trashing

LEMMA StopKept ==
    ASSUME SafetyInv, NEW p \in Proc, pc[p] # "idle", Stop(p)
    PROVE  BatchYounger' /\ RestoresListed'
<1>1. \A q \in Proc : pc'[q] = "idle"
  BY OthersIdle DEF SafetyInv, TypeInv, TypeOK, Stop
<1> QED
  BY <1>1 DEF BatchYounger, RestoresListed, Trashing, Restoring

LEMMA BeginKept ==
    ASSUME RefinementInv, NEW p \in Proc, Quiet(p), Begin(p)
    PROVE  BatchYounger' /\ RestoresListed' /\ Held' = Held
<1> USE DEF RefinementInv, SafetyInv, TypeInv, TypeOK, Goto
<1>0. /\ pc[p] = "idle" /\ UNCHANGED store /\ Listed' = Listed /\ items[p] = <<>>
      /\ \A q \in Proc \ {p} : pc[q] = "idle"
      /\ pc[p] = "idle" /\ Held = {}
  <2>1. pc[p] = "idle" /\ UNCHANGED store
    BY DEF Begin, BeginTrash, BeginRestore, BeginRestoreAsset
  <2> QED
    BY <2>1 DEF Quiet, OneRunning, Listed, store, Held, Trashing
<1>1. CASE BeginTrash(p)
  <2>1. /\ pc'[p] = "stage" /\ items'[p] = <<>>
        /\ \A q \in Proc \ {p} : pc'[q] = "idle"
    BY <1>0, <1>1 DEF BeginTrash
  <2>2. ToSet(items'[p]) = {}
    BY <2>1, ToSetEmpty
  <2>3. BatchYounger' /\ RestoresListed'
    BY <1>0, <2>1, <2>2 DEF BatchYounger, RestoresListed, Trashing, Restoring
  <2>4. \A q \in Proc : pc'[q] \in Trashing => ToSet(items'[q]) = {}
    BY <2>1, <2>2 DEF Trashing
  <2>5. Held' = {}
    BY <2>4 DEF Held
  <2> QED
    BY <1>0, <2>3, <2>5
<1>2. CASE BeginRestore(p) \/ BeginRestoreAsset(p)
  <2>1. /\ pc'[p] = "restore" /\ \A q \in Proc \ {p} : pc'[q] = "idle"
    BY <1>0, <1>2 DEF BeginRestore, BeginRestoreAsset
  <2>2. ToSet(items'[p]) \subseteq Listed
    <3>1. CASE BeginRestore(p)
      <4>1. PICK i \in 1..Len(journal) : items' = [items EXCEPT ![p] = journal[i].items]
        BY <3>1 DEF BeginRestore
      <4>2. items'[p] = journal[i].items
        BY <4>1
      <4> QED
        BY <4>2, JournalItemsSession DEF Listed
    <3>2. CASE BeginRestoreAsset(p)
      <4>1. PICK it \in handed : items' = [items EXCEPT ![p] = <<it>>]
        BY <3>2 DEF BeginRestoreAsset
      <4>2. items'[p] = <<it>> /\ it \in Item
        BY <4>1
      <4>3. ToSet(<<it>>) = {it}
        BY DEF ToSet
      <4> QED
        BY <4>1, <4>2, <4>3 DEF Listed
    <3> QED
      BY <1>2, <3>1, <3>2
  <2>3. BatchYounger' /\ RestoresListed'
    BY <1>0, <2>1, <2>2 DEF BatchYounger, RestoresListed, Trashing, Restoring
  <2>4. \A q \in Proc : pc'[q] \notin Trashing
    BY <2>1 DEF Trashing
  <2>5. Held' = {}
    BY <2>4 DEF Held
  <2> QED
    BY <1>0, <2>3, <2>5
<1> QED
  BY <1>1, <1>2 DEF Begin

\* Staging and restoring between their moves.
LEMMA GoesOnSteps ==
    ASSUME RefinementInv, NEW p \in Proc,
           \/ StageChoose(p) \/ StageError(p) \/ StageSide(p) \/ ReadJournal(p)
           \/ RestoreSkip(p) \/ RestoreChoose(p) \/ RestoreSide(p) \/ RestoreMove(p)
           \/ SideError(p)
    PROVE  Listed' = Listed /\ Held' = Held /\ \A q \in Proc : GoesOn(q)
<1> USE DEF RefinementInv, SafetyInv, TypeInv, TypeOK, Goto
<1>1. UNCHANGED store
  BY DEF StageChoose, StageError, StageSide, ReadJournal, RestoreSkip, RestoreChoose,
         RestoreSide, RestoreMove, SideError
<1>2. \A q \in Proc \ {p} : pc'[q] = pc[q] /\ items'[q] = items[q]
  BY DEF StageChoose, StageError, StageSide, ReadJournal, RestoreSkip, RestoreChoose,
         RestoreSide, RestoreMove, SideError
<1>3. \/ pc[p] \in Trashing /\ pc'[p] \in Trashing /\ items'[p] = items[p]
      \/ /\ pc[p] \in Restoring /\ pc'[p] \in Restoring
         /\ items[p] # <<>> /\ items'[p] \in {items[p], Tail(items[p])}
  <2>1. CASE StageChoose(p) \/ StageError(p) \/ StageSide(p) \/ ReadJournal(p)
    BY <2>1 DEF StageChoose, StageError, StageSide, ReadJournal, Trashing
  <2>2. CASE RestoreSkip(p) \/ RestoreChoose(p) \/ RestoreSide(p) \/ RestoreMove(p)
    BY <2>2 DEF RestoreSkip, RestoreChoose, RestoreSide, RestoreMove, Restoring, LocalOK
  <2>3. CASE SideError(p)
    BY <2>3 DEF SideError, Trashing, Restoring, LocalOK
  <2> QED
    BY <2>1, <2>2, <2>3
<1>4. GoesOn(p)
  <2>1. items[p] \in Seq(Item)
    OBVIOUS
  <2>2. items[p] # <<>> => ToSet(Tail(items[p])) \subseteq ToSet(items[p])
    BY <2>1, ToSetHead
  <2> QED
    BY <1>3, <2>2 DEF GoesOn, Trashing, Restoring
<1>5. \A q \in Proc : GoesOn(q)
  BY <1>2, <1>4 DEF GoesOn
<1>6. \A q \in Proc : /\ pc'[q] \in Trashing <=> pc[q] \in Trashing
                      /\ pc[q] \in Trashing => items'[q] = items[q]
  BY <1>2, <1>3 DEF Trashing, Restoring
<1>7. Held' = Held
  BY <1>6 DEF Held
<1> QED
  BY <1>1, <1>5, <1>7 DEF Listed, store
\* A move into the trash adds one item to the batch.
LEMMA StageMoveItems ==
    ASSUME SafetyInv, NEW p \in Proc, StageMove(p)
    PROVE  LET item == [path |-> Head(plan[p]), slot |-> dest[p]] IN
           /\ item \in Item /\ pc'[p] \in Trashing
           /\ \A q \in Proc \ {p} : pc'[q] = "idle" /\ items'[q] = items[q]
           /\ ToSet(items'[p]) = ToSet(items[p]) \cup {item}
           /\ Held = ToSet(items[p]) /\ Held' = ToSet(items[p]) \cup {item}
           /\ Listed' = Listed
<1> DEFINE item == [path |-> Head(plan[p]), slot |-> dest[p]]
<1> USE DEF SafetyInv, TypeInv, TypeOK
<1>1. /\ pc[p] = "stageMove" /\ plan[p] # <<>> /\ plan[p] \in Seq(Path)
      /\ items[p] \in Seq(Item)
  BY DEF StageMove, LocalOK
<1>2. item \in Item
  BY <1>1 DEF Item
<1>3. /\ pc'[p] = "stageSide" /\ items'[p] = Append(items[p], item)
      /\ \A q \in Proc \ {p} : pc'[q] = pc[q] /\ items'[q] = items[q]
  BY DEF StageMove, Goto
<1>4. \A q \in Proc \ {p} : pc[q] = "idle" /\ items[q] = <<>>
  BY <1>1, OthersIdle
<1> HIDE DEF item
<1>5. ToSet(items'[p]) = ToSet(items[p]) \cup {item}
  BY <1>1, <1>2, <1>3, ToSetAppend
<1>6. Held = ToSet(items[p])
  BY <1>1, HeldOne DEF Trashing
<1>7. Held' = ToSet(items'[p])
  <2>1. {q \in Proc : pc'[q] \in Trashing} = {p}
    BY <1>3, <1>4 DEF Trashing
  <2> QED
    BY <2>1 DEF Held
<1>8. Listed' = Listed
  BY DEF StageMove, Listed, store
<1> QED
  BY <1>2, <1>3, <1>4, <1>5, <1>6, <1>7, <1>8 DEF Trashing, item

LEMMA StageMoveKept ==
    ASSUME RefinementInv, NEW p \in Proc, StageMove(p)
    PROVE  BatchYounger' /\ RestoresListed'
<1> DEFINE item == [path |-> Head(plan[p]), slot |-> dest[p]]
<1>1. /\ pc[p] = "stageMove" /\ pc'[p] = "stageSide"
  BY DEF StageMove, Goto, RefinementInv, SafetyInv, TypeInv, TypeOK
<1>2. \A old \in Listed : old.slot.dir < item.slot.dir
  BY <1>1 DEF RefinementInv, SafetyInv, SlotsYounger
<1> HIDE DEF item
<1>3. /\ \A q \in Proc \ {p} : pc'[q] = "idle"
      /\ ToSet(items'[p]) = ToSet(items[p]) \cup {item} /\ Listed' = Listed
  BY StageMoveItems DEF RefinementInv, item
<1> QED
  BY <1>1, <1>2, <1>3 DEF RefinementInv, BatchYounger, RestoresListed, Trashing, Restoring

\* Operations that end.
LEMMA EndSteps ==
    ASSUME NEW p \in Proc,
           \/ StageNothing(p) \/ HandOver(p) \/ RecordSession(p)
           \/ RestoreError(p) \/ RestoreAssetSide(p) \/ ForgetSession(p)
           \/ Fail(p)
    PROVE  pc[p] # "idle" /\ Stop(p)
  BY DEF StageNothing, HandOver, RecordSession, RestoreError, RestoreAssetSide,
         ForgetSession, Fail

\* The clock and the user touch no batch and nothing that can be asked back.
LEMMA OutsideSteps ==
    ASSUME \/ Tick \/ UNCHANGED vars
           \/ (\E f \in File : UserCreate(f)) \/ (\E path \in Path : UserDelete(path))
    PROVE  UNCHANGED <<store, local>> /\ Listed' = Listed /\ Held' = Held
<1>1. UNCHANGED <<store, local>>
  BY DEF Tick, UserCreate, UserDelete, vars
<1> QED
  BY <1>1 DEF Listed, Held, store, local

LEMMA RefinementStep == RefinementInv /\ [Next]_vars => RefinementInv'
<1> SUFFICES ASSUME RefinementInv, [Next]_vars PROVE BatchYounger' /\ RestoresListed'
  BY SafetyStep DEF RefinementInv
<1> USE DEF RefinementInv
<1>1. ASSUME NEW p \in Proc, Quiet(p), Begin(p) PROVE BatchYounger' /\ RestoresListed'
  BY <1>1, BeginKept
<1>2. ASSUME NEW p \in Proc, Step(p) PROVE BatchYounger' /\ RestoresListed'
  BY <1>2, EndSteps, StopKept, StageMoveKept, GoesOnSteps, GoesOnKept
     DEF Step, Stage, Restore
<1>3. ASSUME \/ Tick \/ UNCHANGED vars
             \/ (\E f \in File : UserCreate(f)) \/ (\E path \in Path : UserDelete(path))
      PROVE  BatchYounger' /\ RestoresListed'
  <2>1. UNCHANGED <<store, local>> /\ Listed' = Listed
    BY <1>3, OutsideSteps
  <2> QED
    BY <2>1 DEF BatchYounger, RestoresListed, local
<1> QED
  BY <1>1, <1>2, <1>3 DEF Next

LEMMA RefinementInit == Init => RefinementInv
<1> SUFFICES ASSUME Init PROVE RefinementInv
  OBVIOUS
<1>1. \A p \in Proc : pc[p] = "idle"
  BY DEF Init
<1> QED
  BY <1>1, SafetyInit DEF RefinementInv, BatchYounger, RestoresListed, Trashing, Restoring

-----------------------------------------------------------------------------
(* How a step changes where files stand.                                   *)

Standing == [f \in File |-> StatusOf(f)]

\* A file stands where it stood when nothing that decides it has changed.
LEMMA SameStatus ==
    ASSUME NEW f,
           (f \in born)' <=> f \in born, (f \in deleted)' <=> f \in deleted,
           InPlace(f)' <=> InPlace(f), InTrash(f)' <=> InTrash(f),
           Lies(f, Held)' <=> Lies(f, Held), Lies(f, Listed)' <=> Lies(f, Listed)
    PROVE  StatusOf(f)' = StatusOf(f)
  BY DEF StatusOf

LEMMA StandingSame ==
    ASSUME \A f \in File : StatusOf(f)' = StatusOf(f)
    PROVE  Standing' = Standing
  BY DEF Standing

LEMMA StandingMoves ==
    ASSUME NEW g \in File, NEW from, NEW to,
           StatusOf(g) = from, StatusOf(g)' = to,
           \A f \in File \ {g} : StatusOf(f)' = StatusOf(f)
    PROVE  Standing[g] = from /\ Standing' = [Standing EXCEPT ![g] = to]
  BY DEF Standing

LEMMA StandingSettles ==
    ASSUME NEW to,
           \A f \in File : StatusOf(f)' = IF StatusOf(f) = "held" THEN to ELSE StatusOf(f)
    PROVE  Standing' = [f \in File |-> IF Standing[f] = "held" THEN to ELSE Standing[f]]
  BY DEF Standing

\* Nothing moved, and the batch and what can be asked back are as they were.
LEMMA QuietSteps ==
    ASSUME UNCHANGED <<orig, trash, history>>, Held' = Held, Listed' = Listed
    PROVE  Standing' = Standing
<1> SUFFICES ASSUME NEW f \in File PROVE StatusOf(f)' = StatusOf(f)
  BY StandingSame
<1>1. Lies(f, Held)' <=> Lies(f, Held)
  BY DEF Lies, SlotsOf
<1>2. Lies(f, Listed)' <=> Lies(f, Listed)
  BY DEF Lies, SlotsOf
<1>3. (InPlace(f)' <=> InPlace(f)) /\ (InTrash(f)' <=> InTrash(f))
  BY DEF InPlace, InTrash
<1>4. ((f \in born)' <=> f \in born) /\ ((f \in deleted)' <=> f \in deleted)
  BY DEF history
<1> QED
  BY <1>1, <1>2, <1>3, <1>4, SameStatus

\* Items that leave the lists because their slots are empty change nothing.
LEMMA EmptyItemsLeave ==
    ASSUME UNCHANGED <<orig, trash, history>>, Held' = Held,
           Listed' \subseteq Listed, \A it \in Listed \ Listed' : trash[it.slot] = NoFile
    PROVE  Standing' = Standing
<1> SUFFICES ASSUME NEW f \in File PROVE StatusOf(f)' = StatusOf(f)
  BY StandingSame
<1>1. Lies(f, Held)' <=> Lies(f, Held)
  BY DEF Lies, SlotsOf
<1>2. f # NoFile
  BY TrashAssumption
<1>3. Lies(f, Listed)' <=> Lies(f, Listed)
  BY <1>2 DEF Lies, SlotsOf
<1>4. (InPlace(f)' <=> InPlace(f)) /\ (InTrash(f)' <=> InTrash(f))
  BY DEF InPlace, InTrash
<1>5. ((f \in born)' <=> f \in born) /\ ((f \in deleted)' <=> f \in deleted)
  BY DEF history
<1> QED
  BY <1>1, <1>3, <1>4, <1>5, SameStatus

\* A batch that ends either can be asked back or lies where nobody asks for it.
LEMMA BatchSettles ==
    ASSUME RefinementInv, NEW p \in Proc, pc[p] \in Trashing,
           UNCHANGED <<orig, trash, history>>, Held' = {}, NEW to,
           \/ to = "undoable" /\ Listed' = Listed \cup Held
           \/ to = "stranded" /\ Listed' = Listed
    PROVE  Standing' = [f \in File |-> IF Standing[f] = "held" THEN to ELSE Standing[f]]
<1> SUFFICES ASSUME NEW f \in File
             PROVE  StatusOf(f)' = IF StatusOf(f) = "held" THEN to ELSE StatusOf(f)
  BY StandingSettles
<1>0. Held = ToSet(items[p]) /\ items[p] \in Seq(Item) /\ trash \in [Slot -> File \cup {NoFile}]
  BY HeldOne DEF RefinementInv, SafetyInv, TypeInv, TypeOK, Trashing
<1>1. ~Lies(f, Held)'
  BY DEF Lies, SlotsOf
<1>2. (InPlace(f)' <=> InPlace(f)) /\ (InTrash(f)' <=> InTrash(f))
  BY DEF InPlace, InTrash
<1>3. ((f \in born)' <=> f \in born) /\ ((f \in deleted)' <=> f \in deleted)
  BY DEF history
<1>4. \A it \in Held : it.slot \in Slot
  <2>1. ToSet(items[p]) \subseteq Item
    BY <1>0, ToSetRange
  <2> QED
    BY <1>0, <2>1 DEF Item
<1>5. Lies(f, Held) => InTrash(f)
  BY <1>4 DEF Lies, SlotsOf, InTrash
<1>6. CASE to = "undoable"
  <2>1. Lies(f, Listed)' <=> Lies(f, Listed) \/ Lies(f, Held)
    BY <1>6 DEF Lies, SlotsOf
  <2> QED
    BY <1>1, <1>2, <1>3, <1>6, <2>1 DEF StatusOf
<1>7. CASE to = "stranded"
  <2>1. Lies(f, Listed)' <=> Lies(f, Listed)
    BY <1>7 DEF Lies, SlotsOf
  <2>2. ASSUME Lies(f, Held), Lies(f, Listed) PROVE FALSE
    <3>1. PICK new \in Held, old \in Listed : trash[new.slot] = f /\ trash[old.slot] = f
      BY <2>2 DEF Lies, SlotsOf
    <3>2. old.slot.dir < new.slot.dir
      BY <1>0, <3>1 DEF RefinementInv, BatchYounger
    <3>3. old \in Item
      BY ListedItems DEF RefinementInv, SafetyInv, TypeInv
    <3>4. new.slot \in Slot /\ old.slot \in Slot
      BY <1>4, <3>3 DEF Item
    <3>5. new.slot = old.slot
      BY <3>1, <3>4, TrashAssumption DEF RefinementInv, SafetyInv, Conserved
    <3>6. old.slot.dir \in Nat
      BY <3>4, TrashAssumption DEF Slot
    <3> QED
      BY <3>2, <3>5, <3>6
  <2> QED
    BY <1>1, <1>2, <1>3, <1>5, <1>7, <2>1, <2>2 DEF StatusOf
<1> QED
  BY <1>6, <1>7

-----------------------------------------------------------------------------
(* Each step is a step of the abstract cycle.                              *)

LEMMA StageTakes ==
    ASSUME RefinementInv, NEW p \in Proc, StageMove(p)
    PROVE  /\ faults' = faults
           /\ \E f \in File : Standing[f] = "inPlace" /\ Standing' = [Standing EXCEPT ![f] = "held"]
<1> DEFINE path == Head(plan[p])
           item == [path |-> path, slot |-> dest[p]]
<1>0. /\ path \in Path /\ orig[path] \in File /\ dest[p] \in Slot
      /\ trash[dest[p]] = NoFile
      /\ orig' = [orig EXCEPT ![path] = NoFile] /\ trash' = [trash EXCEPT ![dest[p]] = orig[path]]
      /\ orig \in [Path -> File \cup {NoFile}] /\ trash \in [Slot -> File \cup {NoFile}]
      /\ UNCHANGED <<born, deleted, faults>>
  <2>1. plan[p] # <<>> /\ plan[p] \in Seq(Path) /\ pc[p] = "stageMove"
    BY DEF StageMove, RefinementInv, SafetyInv, TypeInv, TypeOK, LocalOK
  <2> QED
    BY <2>1 DEF StageMove, RefinementInv, SafetyInv, TypeInv, TypeOK, StillFree, history
<1>1. /\ Held' = Held \cup {item} /\ Listed' = Listed /\ item.slot = dest[p]
      /\ Held = ToSet(items[p]) /\ items[p] \in Seq(Item)
  BY StageMoveItems DEF RefinementInv, SafetyInv, TypeInv, TypeOK
<1> HIDE DEF path, item
<1>f. PICK f \in File : f = orig[path] /\ f # NoFile
  BY <1>0, TrashAssumption
<1>2. StatusOf(f) = "inPlace"
  BY <1>0, <1>f DEF StatusOf, InPlace, RefinementInv, SafetyInv, OnlyLiving
<1>3. StatusOf(f)' = "held"
  <2>1. (f \in born)' /\ ~(f \in deleted)'
    BY <1>0, <1>f DEF RefinementInv, SafetyInv, OnlyLiving
  <2>2. ~InPlace(f)'
    <3>1. \A q \in Path : orig[q] = f => q = path
      BY <1>0, <1>f DEF RefinementInv, SafetyInv, Conserved
    <3> QED
      BY <1>0, <1>f, <3>1 DEF InPlace
  <2>3. Lies(f, Held)'
    BY <1>0, <1>f, <1>1 DEF Lies, SlotsOf
  <2> QED
    BY <2>1, <2>2, <2>3 DEF StatusOf
<1>4. ASSUME NEW g \in File \ {f} PROVE StatusOf(g)' = StatusOf(g)
  <2>0. g # NoFile /\ g # f
    BY TrashAssumption
  <2>1. InPlace(g)' <=> InPlace(g)
    BY <1>0, <1>f, <2>0 DEF InPlace
  <2>2. \A s \in Slot : trash'[s] = g <=> trash[s] = g
    BY <1>0, <1>f, <2>0
  <2>3. InTrash(g)' <=> InTrash(g)
    BY <2>2 DEF InTrash
  <2>4. Listed \subseteq Item /\ Held \subseteq Item
    BY <1>1, ListedItems, ToSetRange DEF RefinementInv, SafetyInv, TypeInv
  <2>5. Lies(g, Listed)' <=> Lies(g, Listed)
    BY <1>1, <2>2, <2>4 DEF Lies, SlotsOf, Item
  <2>6. Lies(g, Held)' <=> Lies(g, Held)
    <3>1. \A it \in Held : it.slot \in Slot
      BY <2>4 DEF Item
    <3>2. trash'[item.slot] # g
      BY <1>0, <1>f, <1>1, <2>0
    <3> QED
      BY <1>1, <2>2, <3>1, <3>2 DEF Lies, SlotsOf
  <2> QED
    BY <1>0, <2>1, <2>3, <2>5, <2>6, SameStatus
<1> QED
  BY <1>0, <1>2, <1>3, <1>4, StandingMoves

LEMMA RestorePutsBack ==
    ASSUME RefinementInv, NEW p \in Proc, RestoreMove(p)
    PROVE  /\ faults' = faults
           /\ \E f \in File : Standing[f] = "undoable" /\ Standing' = [Standing EXCEPT ![f] = "inPlace"]
<1> DEFINE it == Head(items[p])
<1>0. /\ it \in Item /\ it \in ToSet(items[p]) /\ trash[it.slot] \in File
      /\ it.path \in Path /\ it.slot \in Slot /\ pc[p] = "restoreMove"
      /\ orig[it.path] = NoFile
      /\ orig' = [orig EXCEPT ![it.path] = trash[it.slot]] /\ trash' = [trash EXCEPT ![it.slot] = NoFile]
      /\ orig \in [Path -> File \cup {NoFile}] /\ trash \in [Slot -> File \cup {NoFile}]
      /\ UNCHANGED <<born, deleted, faults>>
  <2>1. items[p] # <<>> /\ items[p] \in Seq(Item) /\ pc[p] = "restoreMove"
    BY DEF RestoreMove, RefinementInv, SafetyInv, TypeInv, TypeOK, LocalOK
  <2>2. it \in ToSet(items[p]) /\ it \in Item
    BY <2>1, ToSetHead
  <2>3. it.path \in Path /\ it.slot \in Slot
    BY <2>2 DEF Item
  <2> QED
    BY <2>1, <2>2, <2>3 DEF RestoreMove, RefinementInv, SafetyInv, TypeInv, TypeOK, StillFree, history
<1> HIDE DEF it
<1>1. /\ Held = {} /\ Held' = {} /\ Listed' = Listed /\ it \in Listed
      /\ Listed \subseteq Item
  BY <1>0, GoesOnSteps, HeldOne, ListedItems
     DEF RefinementInv, SafetyInv, TypeInv, RestoresListed, Trashing, Restoring
<1>f. PICK f \in File : f = trash[it.slot] /\ f # NoFile
  BY <1>0, TrashAssumption
<1>2. StatusOf(f) = "undoable"
  <2>1. f \in born \ deleted
    BY <1>0, <1>f DEF RefinementInv, SafetyInv, OnlyLiving
  <2>2. InTrash(f)
    BY <1>0, <1>f DEF InTrash
  <2>3. ~InPlace(f)
    BY <2>1, <2>2 DEF RefinementInv, SafetyInv, Conserved
  <2>4. ~Lies(f, Held)
    BY <1>1 DEF Lies, SlotsOf
  <2>5. Lies(f, Listed)
    BY <1>1, <1>f DEF Lies, SlotsOf
  <2> QED
    BY <2>1, <2>3, <2>4, <2>5 DEF StatusOf
<1>3. StatusOf(f)' = "inPlace"
  <2>1. (f \in born)' /\ ~(f \in deleted)'
    BY <1>0, <1>f DEF RefinementInv, SafetyInv, OnlyLiving
  <2>2. InPlace(f)'
    BY <1>0, <1>f DEF InPlace
  <2> QED
    BY <2>1, <2>2 DEF StatusOf
<1>4. ASSUME NEW g \in File \ {f} PROVE StatusOf(g)' = StatusOf(g)
  <2>0. g # NoFile /\ g # f
    BY TrashAssumption
  <2>1. InPlace(g)' <=> InPlace(g)
    BY <1>0, <1>f, <2>0 DEF InPlace
  <2>2. \A s \in Slot : trash'[s] = g <=> trash[s] = g
    BY <1>0, <1>f, <2>0
  <2>3. InTrash(g)' <=> InTrash(g)
    BY <2>2 DEF InTrash
  <2>4. Lies(g, Listed)' <=> Lies(g, Listed)
    BY <1>1, <2>2 DEF Lies, SlotsOf, Item
  <2>5. Lies(g, Held)' <=> Lies(g, Held)
    BY <1>1 DEF Lies, SlotsOf
  <2> QED
    BY <1>0, <2>1, <2>3, <2>4, <2>5, SameStatus
<1> QED
  BY <1>0, <1>2, <1>3, <1>4, StandingMoves

\* The user's two steps, each on one file of the workspace.
LEMMA UserMoves ==
    ASSUME RefinementInv, Calm,
           \/ \E g \in File : UserCreate(g)
           \/ \E path \in Path : UserDelete(path)
    PROVE  /\ faults' = faults
           /\ \E f \in File :
                \/ Standing[f] = "unborn" /\ Standing' = [Standing EXCEPT ![f] = "inPlace"]
                \/ Standing[f] = "inPlace" /\ Standing' = [Standing EXCEPT ![f] = "deleted"]
<1> USE DEF RefinementInv, SafetyInv
<1>0. /\ Held' = Held /\ Listed' = Listed /\ trash' = trash /\ faults' = faults
      /\ orig \in [Path -> File \cup {NoFile}]
      /\ born \subseteq File /\ deleted \subseteq File
  BY OutsideSteps DEF UserCreate, UserDelete, TypeInv, TypeOK
<1>1. ASSUME NEW g \in File
      PROVE  /\ InTrash(g)' <=> InTrash(g)
             /\ Lies(g, Held)' <=> Lies(g, Held)
             /\ Lies(g, Listed)' <=> Lies(g, Listed)
  BY <1>0 DEF InTrash, Lies, SlotsOf
<1>2. ASSUME NEW f \in File, UserCreate(f)
      PROVE  Standing[f] = "unborn" /\ Standing' = [Standing EXCEPT ![f] = "inPlace"]
  <2>0. HomeOf[f] \in Path
    BY TrashAssumption
  <2>1. StatusOf(f) = "unborn"
    BY <1>2 DEF UserCreate, StatusOf
  <2>2. StatusOf(f)' = "inPlace"
    <3>1. (f \in born)' /\ ~(f \in deleted)'
      BY <1>2 DEF UserCreate, OnlyLiving
    <3>2. InPlace(f)'
      BY <1>0, <1>2, <2>0 DEF UserCreate, InPlace
    <3> QED
      BY <3>1, <3>2 DEF StatusOf
  <2>3. ASSUME NEW g \in File \ {f} PROVE StatusOf(g)' = StatusOf(g)
    <3>1. ((g \in born)' <=> g \in born) /\ ((g \in deleted)' <=> g \in deleted)
      BY <1>2 DEF UserCreate
    <3>2. InPlace(g)' <=> InPlace(g)
      BY <1>0, <1>2, <2>0, TrashAssumption DEF UserCreate, InPlace
    <3> QED
      BY <1>1, <3>1, <3>2, SameStatus
  <2> QED
    BY <2>1, <2>2, <2>3, StandingMoves
<1>3. ASSUME NEW path \in Path, UserDelete(path)
      PROVE  \E f \in File : Standing[f] = "inPlace" /\ Standing' = [Standing EXCEPT ![f] = "deleted"]
  <2>0. PICK f \in File : f = orig[path] /\ f # NoFile
    BY <1>0, <1>3 DEF UserDelete
  <2>1. StatusOf(f) = "inPlace"
    BY <2>0 DEF StatusOf, InPlace, OnlyLiving
  <2>2. StatusOf(f)' = "deleted"
    BY <1>3, <2>0 DEF UserDelete, StatusOf, OnlyLiving
  <2>3. ASSUME NEW g \in File \ {f} PROVE StatusOf(g)' = StatusOf(g)
    <3>1. ((g \in born)' <=> g \in born) /\ ((g \in deleted)' <=> g \in deleted)
      BY <1>3, <2>0 DEF UserDelete
    <3>2. InPlace(g)' <=> InPlace(g)
      BY <1>0, <1>3, <2>0, TrashAssumption DEF UserDelete, InPlace
    <3> QED
      BY <1>1, <3>1, <3>2, SameStatus
  <2> QED
    BY <2>1, <2>2, <2>3, StandingMoves
<1> QED
  BY <1>0, <1>2, <1>3

\* A batch is recorded as a whole, or ends with nothing to record.
LEMMA BatchRecorded ==
    ASSUME RefinementInv, NEW p \in Proc,
           StageNothing(p) \/ HandOver(p) \/ RecordSession(p)
    PROVE  /\ faults' = faults
           /\ Standing' = [f \in File |-> IF Standing[f] = "held" THEN "undoable" ELSE Standing[f]]
<1> USE DEF RefinementInv
<1>1. /\ pc[p] \in Trashing /\ pc[p] # "idle"
      /\ UNCHANGED <<orig, trash, history, faults>>
  BY DEF StageNothing, HandOver, RecordSession, Trashing, disk
<1>2. Held = ToSet(items[p])
  BY <1>1, HeldOne DEF SafetyInv
<1>3. Held' = {}
  BY StopEmpty, EndSteps
<1>4. Listed' = Listed \cup ToSet(items[p])
  BY StageEndsListed
<1> QED
  BY <1>1, <1>2, <1>3, <1>4, BatchSettles

LEMMA RestoreEnds ==
    ASSUME RefinementInv, NEW p \in Proc,
           RestoreError(p) \/ RestoreAssetSide(p) \/ ForgetSession(p)
    PROVE  faults' = faults /\ Standing' = Standing
<1> USE DEF RefinementInv
<1>1. /\ pc[p] \in Restoring /\ pc[p] # "idle"
      /\ UNCHANGED <<orig, trash, history, faults>>
  BY DEF RestoreError, RestoreAssetSide, ForgetSession, Restoring, disk
<1>2. Held = {}
  BY <1>1, HeldOne DEF SafetyInv, Trashing, Restoring
<1>3. Held' = {}
  BY StopEmpty, EndSteps
<1>4. Listed' \subseteq Listed /\ \A it \in Listed \ Listed' : trash[it.slot] = NoFile
  BY RestoreEndsListed
<1> QED
  BY <1>1, <1>2, <1>3, <1>4, EmptyItemsLeave

\* A fault strands a batch, and leaves a restore's files where they are.
LEMMA FaultsSettle ==
    ASSUME RefinementInv, NEW p \in Proc, Fail(p) \/ SideError(p)
    PROVE  /\ faults' = faults + 1
           /\ \/ Standing' = Standing
              \/ Standing' = [f \in File |-> IF Standing[f] = "held" THEN "stranded"
                                             ELSE Standing[f]]
<1> USE DEF RefinementInv
<1>0. faults' = faults + 1 /\ UNCHANGED <<orig, trash, history, store>>
  BY DEF Fail, SideError, disk
<1>1. CASE SideError(p)
  BY <1>0, <1>1, GoesOnSteps, QuietSteps
<1>2. CASE Fail(p)
  <2>1. pc[p] # "idle" /\ Held' = {}
    BY <1>2, StopEmpty, EndSteps
  <2>2. Listed' = Listed
    BY <1>0 DEF Listed, store
  <2>3. CASE pc[p] \in Trashing
    BY <1>0, <2>1, <2>2, <2>3, BatchSettles
  <2>4. CASE pc[p] \notin Trashing
    <3>1. Held = {}
      BY <2>1, <2>4, HeldOne DEF SafetyInv
    <3> QED
      BY <1>0, <2>1, <2>2, <3>1, QuietSteps
  <2> QED
    BY <2>3, <2>4
<1> QED
  BY <1>1, <1>2

-----------------------------------------------------------------------------
(* The refinement.                                                         *)

LEMMA StandingInit ==
    ASSUME Init
    PROVE  faults = 0 /\ Standing \in [File -> {"unborn", "inPlace"}]
<1> SUFFICES ASSUME NEW f \in File PROVE StatusOf(f) \in {"unborn", "inPlace"}
  BY DEF Init, Standing
<1>1. ASSUME f \in born PROVE InPlace(f)
  <2> DEFINE p == HomeOf[f]
  <2>1. p \in Path
    BY TrashAssumption
  <2>2. PICK g \in born : HomeOf[g] = p /\ orig[p] = g
    <3>1. orig[p] = CHOOSE g \in born : HomeOf[g] = p
      BY <1>1, <2>1 DEF Init
    <3> QED
      BY <1>1, <3>1
  <2>3. g = f
    BY <1>1, <2>2 DEF Init
  <2> QED
    BY <2>1, <2>2, <2>3 DEF InPlace
<1> QED
  BY <1>1 DEF StatusOf, Init

LEMMA StandingStep ==
    ASSUME RefinementInv, [Next]_vars
    PROVE  \/ Standing' = Standing /\ faults' = faults
           \/ /\ faults' = faults
              /\ \E f \in File :
                   \/ Standing[f] = "unborn" /\ Standing' = [Standing EXCEPT ![f] = "inPlace"]
                   \/ Standing[f] = "inPlace" /\ Standing' = [Standing EXCEPT ![f] = "deleted"]
                   \/ Standing[f] = "inPlace" /\ Standing' = [Standing EXCEPT ![f] = "held"]
                   \/ Standing[f] = "undoable" /\ Standing' = [Standing EXCEPT ![f] = "inPlace"]
           \/ /\ faults' = faults
              /\ Standing' = [f \in File |-> IF Standing[f] = "held" THEN "undoable" ELSE Standing[f]]
           \/ /\ faults' = faults + 1
              /\ \/ Standing' = Standing
                 \/ Standing' = [f \in File |-> IF Standing[f] = "held" THEN "stranded"
                                                ELSE Standing[f]]
<1> DEFINE Quietly == Standing' = Standing /\ faults' = faults
<1>1. ASSUME NEW p \in Proc, Quiet(p), Begin(p) PROVE Quietly
  <2>1. UNCHANGED <<orig, trash, history, store, faults>>
    BY <1>1 DEF Begin, BeginTrash, BeginRestore, BeginRestoreAsset, disk
  <2>2. Held' = Held /\ Listed' = Listed
    BY <1>1, <2>1, BeginKept DEF Listed, store
  <2> QED
    BY <2>1, <2>2, QuietSteps
<1>2. ASSUME NEW p \in Proc,
             \/ StageChoose(p) \/ StageError(p) \/ StageSide(p) \/ ReadJournal(p)
             \/ RestoreSkip(p) \/ RestoreChoose(p) \/ RestoreSide(p)
      PROVE  Quietly
  <2>1. UNCHANGED <<orig, trash, history, faults>>
    BY <1>2 DEF StageChoose, StageError, StageSide, ReadJournal, RestoreSkip, RestoreChoose,
                RestoreSide, disk
  <2>2. Held' = Held /\ Listed' = Listed
    BY <1>2, GoesOnSteps
  <2> QED
    BY <2>1, <2>2, QuietSteps
<1>3. ASSUME Tick \/ UNCHANGED vars PROVE Quietly
  <2>1. UNCHANGED <<orig, trash, history, faults>>
    BY <1>3 DEF Tick, vars, disk
  <2>2. Held' = Held /\ Listed' = Listed
    BY <1>3, OutsideSteps
  <2> QED
    BY <2>1, <2>2, QuietSteps
<1> HIDE DEF Quietly
<1>4. \/ Quietly
      \/ \E p \in Proc : StageMove(p)
      \/ \E p \in Proc : RestoreMove(p)
      \/ \E p \in Proc : StageNothing(p) \/ HandOver(p) \/ RecordSession(p)
      \/ \E p \in Proc : RestoreError(p) \/ RestoreAssetSide(p) \/ ForgetSession(p)
      \/ \E p \in Proc : Fail(p) \/ SideError(p)
      \/ Calm /\ ((\E f \in File : UserCreate(f)) \/ (\E path \in Path : UserDelete(path)))
  BY <1>1, <1>2, <1>3 DEF Next, Step, Stage, Restore
<1>5. ASSUME NEW p \in Proc, RestoreError(p) \/ RestoreAssetSide(p) \/ ForgetSession(p)
      PROVE  Quietly
  BY <1>5, RestoreEnds DEF Quietly
<1> QED
  BY <1>4, <1>5, StageTakes, RestorePutsBack, BatchRecorded, FaultsSettle, UserMoves DEF Quietly

\* Staging, recording, restoring, faults and the user's own edits implement
\* reversible removal: a file leaves the workspace only to be held, a batch becomes
\* undoable in one step, only an undoable file comes back, only a fault strands one.
THEOREM RemovalIsReversible == Spec => Reversible
<1>1. Init => Abstract!AbstractInit
  BY StandingInit DEF Standing, Abstract!AbstractInit
<1>2. RefinementInv /\ [Next]_vars => [Abstract!AbstractNext]_(Abstract!avars)
  <2> SUFFICES ASSUME RefinementInv, [Next]_vars
               PROVE  Abstract!AbstractNext \/ (Standing' = Standing /\ faults' = faults)
    BY DEF Standing, Abstract!avars
  <2> QED
    BY StandingStep DEF Standing, Abstract!AbstractNext, Abstract!Appear, Abstract!Discard,
       Abstract!Take, Abstract!PutBack, Abstract!Move, Abstract!Record, Abstract!Fault,
       Abstract!Settle
<1> QED
  BY <1>1, <1>2, RefinementInit, RefinementStep, PTL DEF Spec, Reversible, Abstract!AbstractSpec


=============================================================================
