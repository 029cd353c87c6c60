----------------------------- MODULE TrashProofs -----------------------------
(* Theorems about Trash, for any number of processes, paths and files. *)
EXTENDS Trash, SequenceTheorems, TLAPS

-----------------------------------------------------------------------------
\* Removing a session leaves a journal.
LEMMA WithoutSessionType ==
    ASSUME NEW S, NEW j \in Seq(S), NEW i \in 1..Len(j)
    PROVE  WithoutSession(j, i) \in Seq(S)
<1>1. SubSeq(j, 1, i - 1) \in Seq(S)
  OBVIOUS
<1>2. SubSeq(j, i + 1, Len(j)) \in Seq(S)
  OBVIOUS
<1> QED
  BY <1>1, <1>2 DEF WithoutSession, RemoveAt

\* Every sequence a plan may be is a sequence of paths.
LEMMA PlanType ==
    ASSUME NEW n \in Nat, NEW paths \in [1..n -> Path]
    PROVE  paths \in Seq(Path)
  OBVIOUS

LEMMA NoSlotType == NoSlot \in Slot
  BY TrashAssumption DEF NoSlot, Slot, Copy

-----------------------------------------------------------------------------
(* Type correctness.  A step reads the head of a plan or of a list, or the *)
(* index of a session, where the control state promises there is one.      *)

LocalOK(p) ==
    /\ pc[p] \in {"stageMove", "stageSide"} => plan[p] # <<>>
    /\ pc[p] = "write" => items[p] # <<>> /\ mark[p] \in 0..MaxClock
    /\ pc[p] \in {"restoreMove", "restoreSide"} => items[p] # <<>>
    /\ pc[p] \in Restoring /\ mode[p] = "single" => items[p] # <<>>
    /\ pc[p] \in Restoring /\ mode[p] # "single" => mark[p] \in 1..Len(buf[p])

TypeInv == TypeOK /\ \A p \in Proc : LocalOK(p)

LEMMA InitType == Init => TypeInv
<1> SUFFICES ASSUME Init PROVE TypeInv
  OBVIOUS
<1>1. orig \in [Path -> File \cup {NoFile}]
  <2> SUFFICES ASSUME NEW p \in Path PROVE orig[p] \in File \cup {NoFile}
    BY DEF Init
  <2> QED
    BY DEF Init
<1>2. side \in [Path -> File \cup {NoFile}]
  BY <1>1 DEF Init
<1>3. TypeOK
  BY <1>1, <1>2, NoSlotType, TrashAssumption DEF Init, TypeOK
<1> QED
  BY <1>3 DEF TypeInv, LocalOK, Init, Restoring

\* A process that stops keeps the types of its own variables.
LEMMA StopType ==
    ASSUME TypeInv, NEW p \in Proc, Stop(p)
    PROVE  /\ pc' \in [Proc -> {"idle"} \cup Trashing \cup Restoring]
           /\ mode' \in [Proc -> {"strict", "partial", "single"}]
           /\ plan' \in [Proc -> Seq(Path)]
           /\ items' \in [Proc -> Seq(Item)]
           /\ dest' \in [Proc -> Slot]
           /\ buf' \in [Proc -> Seq(Session)]
           /\ mark' \in [Proc -> Nat]
           /\ \A q \in Proc : LocalOK(q)'
<1>1. /\ pc' \in [Proc -> {"idle"} \cup Trashing \cup Restoring]
      /\ mode' \in [Proc -> {"strict", "partial", "single"}]
      /\ plan' \in [Proc -> Seq(Path)]
      /\ items' \in [Proc -> Seq(Item)]
      /\ dest' \in [Proc -> Slot]
      /\ buf' \in [Proc -> Seq(Session)]
      /\ mark' \in [Proc -> Nat]
  BY NoSlotType DEF TypeInv, TypeOK, Stop
<1>2. ASSUME NEW q \in Proc PROVE LocalOK(q)'
  <2>1. CASE q = p
    BY <2>1 DEF TypeInv, TypeOK, Stop, LocalOK, Restoring
  <2>2. CASE q # p
    BY <2>2 DEF TypeInv, TypeOK, Stop, LocalOK
  <2> QED
    BY <2>1, <2>2
<1> QED
  BY <1>1, <1>2

LEMMA BeginType ==
    ASSUME TypeInv, NEW p \in Proc, Begin(p)
    PROVE  TypeInv'
<1>1. CASE BeginTrash(p)
  <2>1. PICK m \in {"strict", "partial", "single"}, n \in 1..MaxBatch :
           /\ mode' = [mode EXCEPT ![p] = m]
           /\ \E paths \in [1..n -> Path] : plan' = [plan EXCEPT ![p] = paths]
    BY <1>1 DEF BeginTrash
  <2>2. PICK paths \in [1..n -> Path] : plan' = [plan EXCEPT ![p] = paths]
    BY <2>1
  <2>3. n \in Nat /\ paths \in Seq(Path)
    BY TrashAssumption, PlanType
  <2>4. TypeOK'
    BY <1>1, <2>1, <2>2, <2>3, TrashAssumption
    DEF BeginTrash, TypeInv, TypeOK, Goto, Trashing, disk, store, history
  <2>5. ASSUME NEW q \in Proc PROVE LocalOK(q)'
    BY <1>1, <2>1, <2>2 DEF BeginTrash, TypeInv, TypeOK, Goto, LocalOK, Restoring
  <2> QED
    BY <2>4, <2>5 DEF TypeInv
<1>2. CASE BeginRestore(p)
  <2>1. PICK i \in 1..Len(journal) :
           /\ mark' = [mark EXCEPT ![p] = i]
           /\ items' = [items EXCEPT ![p] = journal[i].items]
    BY <1>2 DEF BeginRestore
  <2>2. journal[i].items \in Seq(Item) /\ i \in Nat
    <3>1. journal[i] \in Session
      BY DEF TypeInv, TypeOK
    <3> QED
      BY <3>1 DEF Session
  <2>3. TypeOK'
    BY <1>2, <2>1, <2>2, TrashAssumption
    DEF BeginRestore, TypeInv, TypeOK, Goto, Restoring, disk, store, history
  <2>4. ASSUME NEW q \in Proc PROVE LocalOK(q)'
    BY <1>2, <2>1 DEF BeginRestore, TypeInv, TypeOK, Goto, LocalOK, Restoring
  <2> QED
    BY <2>3, <2>4 DEF TypeInv
<1>3. CASE BeginRestoreAsset(p)
  <2>1. PICK it \in handed : items' = [items EXCEPT ![p] = <<it>>]
    BY <1>3 DEF BeginRestoreAsset
  <2>2. <<it>> \in Seq(Item) /\ <<it>> # <<>>
    BY DEF TypeInv, TypeOK
  <2>3. TypeOK'
    BY <1>3, <2>1, <2>2, TrashAssumption
    DEF BeginRestoreAsset, TypeInv, TypeOK, Goto, Restoring, disk, store, history
  <2>4. ASSUME NEW q \in Proc PROVE LocalOK(q)'
    BY <1>3, <2>1, <2>2 DEF BeginRestoreAsset, TypeInv, TypeOK, Goto, LocalOK, Restoring
  <2> QED
    BY <2>3, <2>4 DEF TypeInv
<1> QED
  BY <1>1, <1>2, <1>3 DEF Begin

LEMMA StageType ==
    ASSUME TypeInv, NEW p \in Proc, Stage(p)
    PROVE  TypeInv'
<1> USE DEF TypeInv, TypeOK, LocalOK, Goto, Trashing, disk, store, history
<1>1. CASE StageChoose(p)
  <2>1. PICK c \in Copy :
           dest' = [dest EXCEPT ![p] =
                      [dir |-> clock, name |-> NameOf[Head(plan[p])], copy |-> c]]
    BY <1>1 DEF StageChoose
  <2>2. Head(plan[p]) \in Path
    BY <1>1 DEF StageChoose
  <2>3. [dir |-> clock, name |-> NameOf[Head(plan[p])], copy |-> c] \in Slot
    BY <2>2, TrashAssumption DEF Slot
  <2> QED
    BY <1>1, <2>1, <2>3 DEF StageChoose, Restoring
<1>2. CASE StageError(p)
  <2>1. AfterError(mode[p], plan[p]) \in Seq(Path)
    BY <1>2 DEF StageError, AfterError
  <2> QED
    BY <1>2, <2>1 DEF StageError, Restoring
<1>3. CASE StageMove(p)
  <2>1. Head(plan[p]) \in Path
    BY <1>3 DEF StageMove
  <2>2. [path |-> Head(plan[p]), slot |-> dest[p]] \in Item
    BY <2>1 DEF Item
  <2>3. Append(items[p], [path |-> Head(plan[p]), slot |-> dest[p]]) \in Seq(Item)
    BY <2>2
  <2> QED
    BY <1>3, <2>1, <2>3 DEF StageMove, Restoring
<1>4. CASE StageSide(p)
  <2>1. Head(plan[p]) \in Path /\ Tail(plan[p]) \in Seq(Path)
    BY <1>4 DEF StageSide
  <2>2. /\ side' \in [Path -> File \cup {NoFile}]
        /\ tside' \in [Slot -> File \cup {NoFile}]
    BY <1>4, <2>1 DEF StageSide
  <2> QED
    BY <1>4, <2>1, <2>2 DEF StageSide, Restoring
<1>5. CASE StageNothing(p)
  BY <1>5, StopType DEF StageNothing
<1>6. CASE HandOver(p)
  <2>1. items[p][1] \in Item
    BY <1>6 DEF HandOver
  <2> QED
    BY <1>6, <2>1, StopType DEF HandOver
<1>7. CASE ReadJournal(p)
  BY <1>7, TrashAssumption DEF ReadJournal, Restoring
<1>8. CASE RecordSession(p)
  <2>1. [id |-> mark[p], items |-> items[p]] \in Session
    BY <1>8 DEF RecordSession, Session
  <2>2. journal' \in Seq(Session)
    BY <1>8, <2>1 DEF RecordSession
  <2> QED
    BY <1>8, <2>2, StopType DEF RecordSession
<1> QED
  BY <1>1, <1>2, <1>3, <1>4, <1>5, <1>6, <1>7, <1>8 DEF Stage

LEMMA RestoreType ==
    ASSUME TypeInv, NEW p \in Proc, Restore(p)
    PROVE  TypeInv'
<1> USE DEF TypeInv, TypeOK, LocalOK, Goto, Restoring, disk, store, history
<1>1. CASE RestoreSkip(p)
  <2>1. Tail(items[p]) \in Seq(Item)
    BY <1>1 DEF RestoreSkip
  <2> QED
    BY <1>1, <2>1 DEF RestoreSkip
<1>2. CASE RestoreChoose(p)
  BY <1>2 DEF RestoreChoose
<1>3. CASE RestoreError(p)
  BY <1>3, StopType DEF RestoreError
<1>4. CASE RestoreMove(p)
  <2>1. Head(items[p]) \in Item
    BY <1>4 DEF RestoreMove
  <2>2. Head(items[p]).path \in Path /\ Head(items[p]).slot \in Slot
    BY <2>1 DEF Item
  <2> QED
    BY <1>4, <2>2 DEF RestoreMove
<1>5. CASE RestoreSide(p)
  <2>1. Head(items[p]) \in Item /\ Tail(items[p]) \in Seq(Item)
    BY <1>5 DEF RestoreSide
  <2>2. Head(items[p]).path \in Path /\ Head(items[p]).slot \in Slot
    BY <2>1 DEF Item
  <2>3. /\ side' \in [Path -> File \cup {NoFile}]
        /\ tside' \in [Slot -> File \cup {NoFile}]
    BY <1>5, <2>2 DEF RestoreSide, PutBackSide
  <2> QED
    BY <1>5, <2>1, <2>3 DEF RestoreSide
<1>6. CASE RestoreAssetSide(p)
  <2>1. Head(items[p]) \in Item
    BY <1>6 DEF RestoreAssetSide
  <2>2. Head(items[p]).path \in Path /\ Head(items[p]).slot \in Slot
    BY <2>1 DEF Item
  <2>3. /\ side' \in [Path -> File \cup {NoFile}]
        /\ tside' \in [Slot -> File \cup {NoFile}]
    BY <1>6, <2>2 DEF RestoreAssetSide, PutBackSide
  <2> QED
    BY <1>6, <2>3, StopType DEF RestoreAssetSide
<1>7. CASE ForgetSession(p)
  <2>1. mark[p] \in 1..Len(buf[p])
    BY <1>7 DEF ForgetSession
  <2>2. journal' \in Seq(Session)
    BY <1>7, <2>1, WithoutSessionType DEF ForgetSession
  <2> QED
    BY <1>7, <2>2, StopType DEF ForgetSession
<1> QED
  BY <1>1, <1>2, <1>3, <1>4, <1>5, <1>6, <1>7 DEF Restore

LEMMA FaultType ==
    ASSUME TypeInv, NEW p \in Proc, Fail(p) \/ SideError(p)
    PROVE  TypeInv'
<1> USE DEF TypeInv, TypeOK, LocalOK, Goto, disk, store, history
<1>1. faults' \in 0..MaxFaults
  BY TrashAssumption DEF Fail, SideError
<1>2. CASE Fail(p)
  <2>1. Stop(p) /\ UNCHANGED <<disk, store, history, clock>>
    BY <1>2 DEF Fail
  <2> QED
    BY <1>1, <2>1, StopType
<1>3. CASE SideError(p) /\ pc[p] = "stageSide"
  <2>1. Tail(plan[p]) \in Seq(Path)
    BY <1>3
  <2>2. TypeOK'
    BY <1>1, <1>3, <2>1 DEF SideError, Trashing
  <2>3. ASSUME NEW q \in Proc PROVE LocalOK(q)'
    BY <1>3 DEF SideError, Restoring
  <2> QED
    BY <2>2, <2>3
<1>4. CASE SideError(p) /\ pc[p] = "restoreSide"
  <2>1. Tail(items[p]) \in Seq(Item)
    BY <1>4
  <2>2. /\ pc' \in [Proc -> {"idle"} \cup Trashing \cup Restoring]
        /\ items' \in [Proc -> Seq(Item)]
    <3>1. /\ pc' = [pc EXCEPT ![p] = "restore"]
          /\ items' = [items EXCEPT ![p] = Tail(items[p])]
      BY <1>4 DEF SideError
    <3>2. /\ pc \in [Proc -> {"idle"} \cup Trashing \cup Restoring]
          /\ items \in [Proc -> Seq(Item)] /\ "restore" \in Restoring
      BY DEF Restoring
    <3> HIDE DEF TypeInv, TypeOK
    <3> QED BY <2>1, <3>1, <3>2, Zenon
  <2>3. UNCHANGED <<orig, side, trash, tside, journal, handed, clock, born, deleted,
                    mode, plan, dest, buf, mark>>
    BY <1>4 DEF SideError, Restoring
  <2>4. TypeOK'
    BY <1>1, <2>2, <2>3
  <2>5. ASSUME NEW q \in Proc PROVE LocalOK(q)'
    BY <1>4 DEF SideError, Restoring
  <2> QED
    BY <2>4, <2>5
<1> QED
  BY <1>2, <1>3, <1>4 DEF SideError

LEMMA EnvironmentType ==
    ASSUME TypeInv,
           \/ Tick
           \/ \E f \in File : UserCreate(f)
           \/ \E path \in Path : UserDelete(path)
    PROVE  TypeInv'
<1> USE DEF TypeInv, TypeOK, LocalOK, disk, store, history, local
<1>1. CASE Tick
  BY <1>1, TrashAssumption DEF Tick
<1>2. ASSUME NEW f \in File, UserCreate(f) PROVE TypeInv'
  BY <1>2, TrashAssumption DEF UserCreate
<1>3. ASSUME NEW path \in Path, UserDelete(path) PROVE TypeInv'
  BY <1>3 DEF UserDelete
<1> QED
  BY <1>1, <1>2, <1>3

LEMMA TypeStep == TypeInv /\ [Next]_vars => TypeInv'
<1> SUFFICES ASSUME TypeInv, [Next]_vars PROVE TypeInv'
  OBVIOUS
<1>1. CASE UNCHANGED vars
  BY <1>1 DEF vars, disk, store, history, local, TypeInv, TypeOK, LocalOK
<1>2. CASE Next
  BY <1>2, BeginType, StageType, RestoreType, FaultType, EnvironmentType DEF Next, Step
<1> QED
  BY <1>1, <1>2

\* Every variable keeps its type, whatever fails and however operations follow
\* one another.
THEOREM TypeCorrect == Spec => []TypeOK
<1>1. TypeInv => TypeOK
  BY DEF TypeInv
<1> QED
  BY <1>1, InitType, TypeStep, PTL DEF Spec

-----------------------------------------------------------------------------
(* Where files are: the invariant from which the safety properties follow. *)

\* One operation runs at a time, and one that ended left nothing behind.
OneRunning ==
    /\ \A p, q \in Proc : pc[p] # "idle" /\ pc[q] # "idle" => p = q
    /\ \A p \in Proc : pc[p] = "idle" => items[p] = <<>>

\* Whatever lies in the workspace or the trash was created and not deleted.
OnlyLiving ==
    /\ deleted \subseteq born
    /\ \A p \in Path : orig[p] # NoFile => orig[p] \in born \ deleted
    /\ \A s \in Slot : trash[s] # NoFile => trash[s] \in born \ deleted

\* A destination that was free when a process looked is free when it moves.
StillFree ==
    \A p \in Proc :
        /\ pc[p] = "stageMove" => trash[dest[p]] = NoFile
        /\ pc[p] = "restoreMove" => orig[Head(items[p]).path] = NoFile

\* A writer writes back the journal as it is.
BufferFresh ==
    \A p \in Proc :
        pc[p] = "write" \/ (pc[p] \in Restoring /\ mode[p] # "single") => buf[p] = journal

\* A new slot is younger than every slot that can be asked back, so no item
\* comes to name a file other than its own.
SlotsYounger ==
    /\ \A it \in Listed : it.slot.dir <= clock
    /\ \A p \in Proc : pc[p] \in Trashing =>
         /\ \A it \in Listed : it.slot.dir < clock
         /\ \A it \in ToSet(items[p]) : it.slot.dir <= clock
    /\ \A p \in Proc : pc[p] = "stageMove" =>
         /\ dest[p].dir <= clock
         /\ \A it \in Listed : it.slot.dir < dest[p].dir

\* A batch's files are in their slots.
BatchInTrash ==
    \A p \in Proc : pc[p] \in Trashing =>
        \A it \in ToSet(items[p]) : trash[it.slot] # NoFile

\* A slot that an item names holds the file of that item's path, if any.
ItemsHome ==
    \A it \in Listed \cup UNION {ToSet(items[p]) : p \in Proc} :
        trash[it.slot] # NoFile => HomeOf[trash[it.slot]] = it.path

\* What a restore is done with is no longer in the trash.
PutBackGone ==
    \A p \in Proc : pc[p] \in Restoring =>
        /\ pc[p] = "restoreSide" => trash[Head(items[p]).slot] = NoFile
        /\ mode[p] # "single" =>
             \A it \in ToSet(buf[p][mark[p]].items) \ ToSet(items[p]) : trash[it.slot] = NoFile

\* trash_asset moves one file.
AtMostOne(p) ==
    pc[p] \in Trashing /\ mode[p] = "single" =>
        Len(items[p]) + Len(plan[p]) <= IF pc[p] = "stageSide" THEN 2 ELSE 1

OneAtATime == \A p \in Proc : AtMostOne(p)

SafetyInv ==
    /\ TypeInv
    /\ OneRunning /\ OnlyLiving /\ Conserved /\ StillFree
    /\ BufferFresh /\ SlotsYounger /\ BatchInTrash /\ ItemsHome
    /\ PutBackGone /\ OneAtATime /\ Recorded

-----------------------------------------------------------------------------
(* The operators on lists of items and on journals.                        *)

LEMMA ToSetRange ==
    ASSUME NEW S, NEW s \in Seq(S)
    PROVE  ToSet(s) = {s[i] : i \in 1..Len(s)}
<1>1. DOMAIN s = 1..Len(s)
  OBVIOUS
<1> QED
  BY <1>1, Zenon DEF ToSet

LEMMA ToSetAppend ==
    ASSUME NEW S, NEW s \in Seq(S), NEW x \in S
    PROVE  ToSet(Append(s, x)) = ToSet(s) \cup {x}
<1>1. /\ Append(s, x) \in Seq(S) /\ Len(Append(s, x)) = Len(s) + 1
      /\ Append(s, x)[Len(s) + 1] = x
      /\ \A i \in 1..Len(s) : Append(s, x)[i] = s[i]
  OBVIOUS
<1>2. 1..Len(Append(s, x)) = 1..Len(s) \cup {Len(s) + 1}
  BY <1>1
<1>3. ToSet(s) = {s[i] : i \in 1..Len(s)}
  BY ToSetRange
<1>4. ToSet(Append(s, x)) = {Append(s, x)[i] : i \in 1..Len(Append(s, x))}
  BY <1>1, ToSetRange
<1> QED
  BY <1>1, <1>2, <1>3, <1>4

LEMMA ToSetHead ==
    ASSUME NEW S, NEW s \in Seq(S), s # <<>>
    PROVE  Head(s) \in ToSet(s) /\ ToSet(s) = {Head(s)} \cup ToSet(Tail(s))
<1>0. Tail(s) \in Seq(S)
  OBVIOUS
<1>1. ASSUME NEW x \in ToSet(Tail(s)) PROVE x \in ToSet(s)
  <2>1. PICK i \in 1..Len(Tail(s)) : x = Tail(s)[i]
    BY <1>0, <1>1, ToSetRange
  <2>2. x = s[i + 1] /\ i + 1 \in 1..Len(s)
    BY <2>1
  <2> QED
    BY <2>2, ToSetRange
<1>2. ASSUME NEW x \in ToSet(s), x # Head(s) PROVE x \in ToSet(Tail(s))
  <2>1. PICK i \in 1..Len(s) : x = s[i]
    BY <1>2, ToSetRange
  <2>2. i # 1
    BY <1>2, <2>1
  <2>3. i - 1 \in 1..Len(Tail(s)) /\ x = Tail(s)[i - 1]
    BY <2>1, <2>2
  <2> QED
    BY <1>0, <2>3, ToSetRange
<1>3. Head(s) \in ToSet(s)
  <2>1. 1 \in 1..Len(s) /\ Head(s) = s[1]
    OBVIOUS
  <2> QED
    BY <2>1, ToSetRange
<1> QED
  BY <1>1, <1>2, <1>3

LEMMA JournalItemsAppend ==
    ASSUME NEW j \in Seq(Session), NEW e \in Session
    PROVE  JournalItems(Append(j, e)) = JournalItems(j) \cup ToSet(e.items)
<1> DEFINE k == Append(j, e)
<1>1. Len(k) = Len(j) + 1 /\ k[Len(j) + 1] = e /\ \A i \in 1..Len(j) : k[i] = j[i]
  OBVIOUS
<1>2. 1..Len(k) = 1..Len(j) \cup {Len(j) + 1}
  BY <1>1
<1> QED
  BY <1>1, <1>2 DEF JournalItems

LEMMA JournalItemsSession ==
    ASSUME NEW j \in Seq(Session), NEW i \in 1..Len(j)
    PROVE  ToSet(j[i].items) \subseteq JournalItems(j)
  BY DEF JournalItems

\* What a journal without one session lists: what the others list.
LEMMA JournalItemsWithout ==
    ASSUME NEW j \in Seq(Session), NEW i \in 1..Len(j)
    PROVE  /\ JournalItems(WithoutSession(j, i)) \subseteq JournalItems(j)
           /\ JournalItems(j) \subseteq JournalItems(WithoutSession(j, i)) \cup ToSet(j[i].items)
<1> DEFINE k == WithoutSession(j, i)
           a == SubSeq(j, 1, i - 1)
           b == SubSeq(j, i + 1, Len(j))
<1>1. /\ a \in Seq(Session) /\ Len(a) = i - 1
      /\ \A n \in 1..(i - 1) : a[n] = j[n]
  OBVIOUS
<1>2. /\ b \in Seq(Session) /\ Len(b) = Len(j) - i
      /\ \A n \in 1..(Len(j) - i) : b[n] = j[n + i]
  OBVIOUS
<1>3. /\ Len(k) = Len(j) - 1
      /\ \A n \in 1..(Len(j) - 1) : k[n] = IF n < i THEN j[n] ELSE j[n + 1]
  <2>1. k = a \o b
    BY DEF WithoutSession, RemoveAt
  <2> HIDE DEF a, b, k
  <2>2. Len(a) \in Nat /\ Len(b) \in Nat /\ i \in Nat /\ Len(j) \in Nat
    BY <1>1, <1>2
  <2>3. /\ Len(k) = Len(a) + Len(b)
        /\ \A n \in 1..(Len(a) + Len(b)) :
             k[n] = IF n <= Len(a) THEN a[n] ELSE b[n - Len(a)]
    BY <1>1, <1>2, <2>1, ConcatProperties, Zenon
  <2>4. ASSUME NEW n \in 1..(Len(j) - 1)
        PROVE  k[n] = IF n < i THEN j[n] ELSE j[n + 1]
    <3>1. CASE n < i
      <4>1. n \in 1..(i - 1) /\ n <= Len(a) /\ n \in 1..(Len(a) + Len(b))
        BY <1>1, <1>2, <2>2, <3>1
      <4>2. k[n] = a[n]
        BY <2>3, <4>1
      <4> QED
        BY <1>1, <3>1, <4>1, <4>2
    <3>2. CASE n >= i
      <4>1. n - (i - 1) \in 1..(Len(j) - i) /\ (n - (i - 1)) + i = n + 1
        BY <3>2, <2>2
      <4>2. ~(n <= Len(a)) /\ n \in 1..(Len(a) + Len(b)) /\ ~(n < i)
        BY <1>1, <1>2, <2>2, <3>2
      <4>3. k[n] = b[n - Len(a)]
        BY <2>3, <4>2
      <4>4. n - Len(a) = n - (i - 1)
        BY <1>1
      <4> QED
        BY <1>2, <4>1, <4>2, <4>3, <4>4
    <3> QED
      BY <3>1, <3>2, <2>2
  <2> QED
    BY <1>1, <1>2, <2>2, <2>3, <2>4
<1>4. ASSUME NEW n \in 1..Len(k) PROVE \E m \in 1..Len(j) : k[n] = j[m]
  BY <1>3
<1>5. ASSUME NEW m \in 1..Len(j), m # i PROVE \E n \in 1..Len(k) : k[n] = j[m]
  <2>1. CASE m < i
    BY <1>3, <2>1
  <2>2. CASE m > i
    <3>1. m - 1 \in 1..Len(k) /\ k[m - 1] = j[m]
      BY <1>3, <2>2
    <3> QED
      BY <3>1
  <2> QED
    BY <1>5, <2>1, <2>2
<1> HIDE DEF k
<1>6. JournalItems(k) \subseteq JournalItems(j)
  <2> SUFFICES ASSUME NEW x \in JournalItems(k) PROVE x \in JournalItems(j)
    OBVIOUS
  <2>1. PICK n \in 1..Len(k) : x \in ToSet(k[n].items)
    BY DEF JournalItems
  <2>2. PICK m \in 1..Len(j) : k[n] = j[m]
    BY <1>4
  <2> QED
    BY <2>1, <2>2 DEF JournalItems
<1>7. ASSUME NEW x \in JournalItems(j), x \notin ToSet(j[i].items)
      PROVE  x \in JournalItems(k)
  <2>1. PICK m \in 1..Len(j) : x \in ToSet(j[m].items)
    BY DEF JournalItems
  <2>2. PICK n \in 1..Len(k) : k[n] = j[m]
    BY <1>5, <1>7, <2>1
  <2> QED
    BY <2>1, <2>2 DEF JournalItems
<1> QED
  BY <1>6, <1>7 DEF k

LEMMA ListedItems == TypeOK => Listed \subseteq Item
<1> SUFFICES ASSUME TypeOK, NEW it \in Listed PROVE it \in Item
  OBVIOUS
<1>1. CASE it \in handed
  BY <1>1 DEF TypeOK
<1>2. CASE it \in JournalItems(journal)
  <2>1. PICK i \in 1..Len(journal) : it \in ToSet(journal[i].items)
    BY <1>2 DEF JournalItems
  <2>2. journal[i] \in Session
    BY DEF TypeOK
  <2>3. journal[i].items \in Seq(Item)
    BY <2>2 DEF Session
  <2> QED
    BY <2>1, <2>3, ToSetRange
<1> QED
  BY <1>1, <1>2 DEF Listed

-----------------------------------------------------------------------------
(* Operations end: nothing runs afterwards, and only what is listed counts. *)

LEMMA OthersIdle ==
    ASSUME OneRunning, NEW p \in Proc, pc[p] # "idle"
    PROVE  \A q \in Proc \ {p} : pc[q] = "idle" /\ items[q] = <<>>
  BY DEF OneRunning

LEMMA ToSetEmpty == ToSet(<<>>) = {}
  BY DEF ToSet

LEMMA HeldOne ==
    ASSUME OneRunning, NEW p \in Proc, pc[p] # "idle"
    PROVE  Held = IF pc[p] \in Trashing THEN ToSet(items[p]) ELSE {}
<1>1. \A q \in Proc : pc[q] \in Trashing => q = p
  BY DEF OneRunning, Trashing
<1> QED
  BY <1>1 DEF Held

LEMMA StopSafe ==
    ASSUME SafetyInv, TypeInv', Recorded', NEW p \in Proc, pc[p] # "idle", Stop(p),
           UNCHANGED <<orig, trash, born, deleted, clock>>,
           \A it \in Listed' \ Listed : pc[p] \in Trashing /\ it \in ToSet(items[p])
    PROVE  SafetyInv'
<1>1. \A q \in Proc : pc'[q] = "idle" /\ items'[q] = <<>>
  BY OthersIdle DEF SafetyInv, TypeInv, TypeOK, Stop
<1>2. OneRunning'
  BY <1>1 DEF OneRunning
<1>3. OnlyLiving' /\ Conserved'
  BY DEF SafetyInv, OnlyLiving, Conserved, InPlace, InTrash
<1>4. StillFree' /\ BufferFresh' /\ BatchInTrash' /\ PutBackGone' /\ OneAtATime'
  BY <1>1 DEF StillFree, BufferFresh, BatchInTrash, PutBackGone, OneAtATime, AtMostOne,
              Trashing, Restoring
<1>5. SlotsYounger'
  <2>1. ASSUME NEW it \in Listed' PROVE it.slot.dir <= clock
    BY DEF SafetyInv, SlotsYounger
  <2> QED
    BY <1>1, <2>1 DEF SlotsYounger, Trashing
<1>6. ItemsHome'
  <2>1. \A q \in Proc : ToSet(items'[q]) = {}
    BY <1>1, ToSetEmpty
  <2>2. ASSUME NEW it \in Listed', trash[it.slot] # NoFile
        PROVE  HomeOf[trash[it.slot]] = it.path
    BY <2>2 DEF SafetyInv, ItemsHome
  <2> QED
    BY <2>1, <2>2 DEF ItemsHome
<1> QED
  BY <1>2, <1>3, <1>4, <1>5, <1>6 DEF SafetyInv

\* What can be asked back when staging has ended.
LEMMA StageEndsListed ==
    ASSUME SafetyInv, NEW p \in Proc,
           StageNothing(p) \/ HandOver(p) \/ RecordSession(p)
    PROVE  Listed' = Listed \cup ToSet(items[p])
<1>1. CASE StageNothing(p)
  BY <1>1, ToSetEmpty DEF StageNothing, Listed, store
<1>2. CASE HandOver(p)
  <2>1. Len(items[p]) = 1 /\ items[p] \in Seq(Item)
    <3>1. /\ pc[p] = "stage" /\ plan[p] = <<>> /\ items[p] # <<>>
          /\ mode[p] = "single" /\ items[p] \in Seq(Item)
      BY <1>2 DEF HandOver, SafetyInv, TypeInv, TypeOK
    <3>2. Len(items[p]) + Len(plan[p]) <= 1
      BY <3>1 DEF SafetyInv, OneAtATime, AtMostOne, Trashing
    <3>3. Len(plan[p]) = 0 /\ Len(items[p]) \in Nat /\ Len(items[p]) # 0
      BY <3>1
    <3>4. Len(items[p]) <= 1
      BY <3>2, <3>3
    <3>5. \A n \in Nat : n # 0 /\ n <= 1 => n = 1
      OBVIOUS
    <3> QED
      BY <3>1, <3>3, <3>4, <3>5, Zenon
  <2>2. ToSet(items[p]) = {items[p][1]}
    <3>1. 1..Len(items[p]) = {1}
      BY <2>1
    <3> QED
      BY <2>1, <3>1, ToSetRange
  <2> QED
    BY <1>2, <2>2 DEF HandOver, Listed
<1>3. CASE RecordSession(p)
  <2>1. buf[p] = journal /\ journal \in Seq(Session)
    BY <1>3 DEF RecordSession, SafetyInv, BufferFresh, TypeInv, TypeOK
  <2>2. [id |-> mark[p], items |-> items[p]] \in Session
    BY <1>3 DEF RecordSession, SafetyInv, TypeInv, TypeOK, LocalOK, Session
  <2>3. JournalItems(journal') = JournalItems(journal) \cup ToSet(items[p])
    BY <1>3, <2>1, <2>2, JournalItemsAppend DEF RecordSession
  <2> QED
    BY <1>3, <2>3 DEF RecordSession, Listed
<1> QED
  BY <1>1, <1>2, <1>3

LEMMA StageEndsSafe ==
    ASSUME SafetyInv, TypeInv', NEW p \in Proc,
           StageNothing(p) \/ HandOver(p) \/ RecordSession(p)
    PROVE  SafetyInv'
<1>0. pc[p] # "idle" /\ Stop(p) /\ UNCHANGED <<disk, history, clock, faults>>
      /\ pc[p] \in Trashing
  BY DEF StageNothing, HandOver, RecordSession, Trashing
<1>1. Held = ToSet(items[p])
  BY <1>0, HeldOne DEF SafetyInv
<1>2. Listed' = Listed \cup ToSet(items[p])
  BY StageEndsListed
<1>3. Recorded'
  BY <1>0, <1>1, <1>2 DEF SafetyInv, Recorded, SlotsOf, disk
<1> QED
  BY <1>0, <1>2, <1>3, StopSafe DEF disk, history

\* What can be asked back when a restore has ended: all but what it put back.
LEMMA RestoreEndsListed ==
    ASSUME SafetyInv, NEW p \in Proc,
           RestoreError(p) \/ RestoreAssetSide(p) \/ ForgetSession(p)
    PROVE  Listed' \subseteq Listed /\ \A it \in Listed \ Listed' : trash[it.slot] = NoFile
<1>0. /\ pc[p] \in Restoring /\ pc[p] # "idle" /\ Stop(p)
  BY DEF RestoreError, RestoreAssetSide, ForgetSession, Restoring
<1>1. CASE RestoreError(p)
  BY <1>1 DEF RestoreError, Listed, store
<1>2. CASE RestoreAssetSide(p)
  BY <1>2 DEF RestoreAssetSide, Listed, SafetyInv, PutBackGone, Restoring
<1>3. CASE ForgetSession(p)
  <2>1. /\ mode[p] # "single" /\ items[p] = <<>>
        /\ mark[p] \in 1..Len(buf[p])
    BY <1>3 DEF ForgetSession, SafetyInv, TypeInv, LocalOK, Restoring
  <2>2. buf[p] = journal /\ journal \in Seq(Session)
    BY <1>0, <2>1 DEF SafetyInv, BufferFresh, TypeInv, TypeOK
  <2>3. \A it \in ToSet(journal[mark[p]].items) : trash[it.slot] = NoFile
    BY <1>0, <2>1, <2>2, ToSetEmpty DEF SafetyInv, PutBackGone
  <2>4. journal' = WithoutSession(journal, mark[p]) /\ handed' = handed
    BY <1>3, <2>2 DEF ForgetSession
  <2>5. /\ JournalItems(journal') \subseteq JournalItems(journal)
        /\ JournalItems(journal) \subseteq
             JournalItems(journal') \cup ToSet(journal[mark[p]].items)
    BY <2>1, <2>2, <2>4, JournalItemsWithout
  <2> QED
    BY <2>3, <2>4, <2>5 DEF Listed
<1> QED
  BY <1>1, <1>2, <1>3

LEMMA RestoreEndsSafe ==
    ASSUME SafetyInv, TypeInv', NEW p \in Proc,
           RestoreError(p) \/ RestoreAssetSide(p) \/ ForgetSession(p)
    PROVE  SafetyInv'
<1>0. /\ pc[p] # "idle" /\ pc[p] \notin Trashing /\ pc[p] \in Restoring
      /\ Stop(p) /\ UNCHANGED <<orig, trash, history, clock, faults>>
  BY DEF RestoreError, RestoreAssetSide, ForgetSession, Trashing, Restoring, disk
<1>1. Held = {}
  BY <1>0, HeldOne DEF SafetyInv
<1>2. Listed' \subseteq Listed /\ \A it \in Listed \ Listed' : trash[it.slot] = NoFile
  BY RestoreEndsListed
<1>3. Recorded'
  BY <1>0, <1>1, <1>2 DEF SafetyInv, Recorded, SlotsOf
<1> QED
  BY <1>0, <1>2, <1>3, StopSafe DEF history

-----------------------------------------------------------------------------
(* Operations begin.                                                       *)

LEMMA BeginSafe ==
    ASSUME SafetyInv, TypeInv', NEW p \in Proc, Quiet(p), Begin(p)
    PROVE  SafetyInv'
<1>0. /\ clock \in Nat /\ clock' = clock + 1 /\ pc[p] = "idle"
      /\ UNCHANGED <<disk, store, history, faults, dest>>
      /\ \A q \in Proc \ {p} : pc'[q] = "idle" /\ items'[q] = <<>>
  <2>1. /\ pc[p] = "idle" /\ clock' = clock + 1
        /\ UNCHANGED <<disk, store, history, faults, dest>>
        /\ \E l \in {"stage", "restore"} : pc' = [pc EXCEPT ![p] = l]
        /\ \E its : items' = [items EXCEPT ![p] = its]
    <3>1. CASE BeginTrash(p)
      <4>1. items' = [items EXCEPT ![p] = items[p]]
        BY <3>1 DEF BeginTrash, SafetyInv, TypeInv, TypeOK
      <4> QED
        BY <3>1, <4>1 DEF BeginTrash, Goto
    <3>2. CASE BeginRestore(p)
      BY <3>2 DEF BeginRestore, Goto
    <3>3. CASE BeginRestoreAsset(p)
      BY <3>3 DEF BeginRestoreAsset, Goto
    <3> QED
      BY <3>1, <3>2, <3>3 DEF Begin
  <2>2. /\ clock \in Nat
        /\ pc \in [Proc -> {"idle"} \cup Trashing \cup Restoring]
        /\ items \in [Proc -> Seq(Item)]
    BY DEF SafetyInv, TypeInv, TypeOK
  <2>3. \A q \in Proc \ {p} : pc[q] = "idle" /\ items[q] = <<>>
    BY DEF Quiet, SafetyInv, OneRunning
  <2> QED
    BY <2>1, <2>2, <2>3
<1>1. /\ pc'[p] \in {"stage", "restore"}
      /\ pc'[p] = "stage" => items'[p] = <<>>
      /\ ToSet(items'[p]) \subseteq Listed
      /\ pc'[p] = "restore" /\ mode'[p] # "single" =>
           /\ buf'[p] = journal
           /\ ToSet(buf'[p][mark'[p]].items) \subseteq ToSet(items'[p])
      /\ pc'[p] = "stage" /\ mode'[p] = "single" => Len(plan'[p]) <= 1
  <2>1. CASE BeginTrash(p)
    <3>1. PICK m \in {"strict", "partial", "single"}, n \in 1..MaxBatch :
             /\ m = "single" => n = 1
             /\ mode' = [mode EXCEPT ![p] = m]
             /\ \E paths \in [1..n -> Path] : plan' = [plan EXCEPT ![p] = paths]
      BY <2>1 DEF BeginTrash
    <3>2. PICK paths \in [1..n -> Path] : plan' = [plan EXCEPT ![p] = paths]
      BY <3>1
    <3>3. /\ pc'[p] = "stage" /\ items'[p] = <<>>
          /\ mode'[p] = m /\ plan'[p] = paths
      BY <2>1, <3>1, <3>2 DEF BeginTrash, Goto, SafetyInv, OneRunning, TypeInv, TypeOK
    <3>4. m = "single" => Len(paths) <= 1
      BY <3>1
    <3> QED
      BY <3>3, <3>4, ToSetEmpty
  <2>2. CASE BeginRestore(p)
    <3>1. PICK i \in 1..Len(journal) :
             /\ mark' = [mark EXCEPT ![p] = i]
             /\ items' = [items EXCEPT ![p] = journal[i].items]
      BY <2>2 DEF BeginRestore
    <3>2. /\ pc'[p] = "restore" /\ buf'[p] = journal
          /\ mark'[p] = i /\ items'[p] = journal[i].items
      BY <2>2, <3>1 DEF BeginRestore, Goto, SafetyInv, TypeInv, TypeOK
    <3>3. ToSet(items'[p]) \subseteq Listed
      BY <3>2, JournalItemsSession DEF SafetyInv, TypeInv, TypeOK, Listed
    <3> QED
      BY <3>2, <3>3
  <2>3. CASE BeginRestoreAsset(p)
    <3>1. PICK it \in handed : items' = [items EXCEPT ![p] = <<it>>]
      BY <2>3 DEF BeginRestoreAsset
    <3>2. pc'[p] = "restore" /\ mode'[p] = "single" /\ items'[p] = <<it>>
      BY <2>3, <3>1 DEF BeginRestoreAsset, Goto, SafetyInv, TypeInv, TypeOK
    <3>3. ToSet(<<it>>) = {it}
      BY DEF ToSet
    <3> QED
      BY <3>2, <3>3 DEF Listed
  <2> QED
    BY <2>1, <2>2, <2>3 DEF Begin
<1>2. Listed' = Listed /\ ToSet(<<>>) = {}
  BY <1>0, ToSetEmpty DEF Listed, store
<1>3. OneRunning'
  BY <1>0, <1>1 DEF OneRunning
<1>4. OnlyLiving' /\ Conserved'
  BY <1>0 DEF SafetyInv, OnlyLiving, Conserved, InPlace, InTrash, disk, history
<1>5. StillFree' /\ BatchInTrash'
  BY <1>0, <1>1, <1>2 DEF StillFree, BatchInTrash, Trashing
<1>6. BufferFresh'
  BY <1>0, <1>1 DEF BufferFresh, store, Restoring
<1>7. SlotsYounger'
  <2>1. \A it \in Listed : it.slot.dir <= clock /\ it.slot \in Slot /\ it.slot.dir \in Nat
    <3>1. Listed \subseteq Item
      BY ListedItems DEF SafetyInv, TypeInv
    <3> QED
      BY <3>1 DEF SafetyInv, SlotsYounger, Item, Slot
  <2>2. \A it \in Listed : it.slot.dir < clock + 1 /\ it.slot.dir <= clock + 1
    BY <1>0, <2>1
  <2> QED
    BY <1>0, <1>1, <1>2, <2>2 DEF SlotsYounger, Trashing
<1>8. ItemsHome'
  BY <1>0, <1>1, <1>2 DEF SafetyInv, ItemsHome, disk
<1>9. PutBackGone' /\ OneAtATime'
  <2>1. PutBackGone'
    BY <1>0, <1>1 DEF PutBackGone, Restoring
  <2>2. ASSUME NEW q \in Proc, pc'[q] \in Trashing, mode'[q] = "single"
        PROVE  Len(items'[q]) + Len(plan'[q]) <= IF pc'[q] = "stageSide" THEN 2 ELSE 1
    <3>1. q = p /\ pc'[q] = "stage"
      BY <1>0, <1>1, <2>2 DEF Trashing
    <3>2. Len(items'[q]) = 0 /\ Len(plan'[q]) <= 1 /\ Len(plan'[q]) \in Nat
      BY <1>1, <2>2, <3>1 DEF TypeInv, TypeOK
    <3> QED
      BY <3>1, <3>2
  <2>4. OneAtATime'
    BY <2>2 DEF OneAtATime, AtMostOne
  <2> QED
    BY <2>1, <2>4
<1>10. Recorded'
  <2>1. Held = {}
    BY <1>0, Zenon DEF Held, Quiet, Trashing
  <2> QED
    BY <1>0, <1>2, <2>1 DEF SafetyInv, Recorded, SlotsOf, disk
<1> QED
  BY <1>3, <1>4, <1>5, <1>6, <1>7, <1>8, <1>9, <1>10 DEF SafetyInv

-----------------------------------------------------------------------------
(* Operations go on: steps that move no file.                              *)

LEMMA StaysSafe ==
    ASSUME SafetyInv, TypeInv', NEW p \in Proc, pc[p] # "idle",
           UNCHANGED <<orig, trash, store, history, clock>>,
           faults' = faults \/ faults' # 0,
           \A q \in Proc \ {p} : pc'[q] = pc[q] /\ items'[q] = items[q],
           \/ pc[p] \in Trashing /\ pc'[p] \in Trashing /\ items'[p] = items[p]
           \/ /\ pc[p] \in Restoring /\ pc'[p] \in Restoring
              /\ ToSet(items'[p]) \subseteq ToSet(items[p]),
           pc'[p] = "stageMove" =>
               trash[dest'[p]] = NoFile /\ dest'[p].dir = clock,
           pc'[p] = "restoreMove" => orig[Head(items'[p]).path] = NoFile,
           pc'[p] = "write" \/ (pc'[p] \in Restoring /\ mode'[p] # "single") =>
               buf'[p] = journal,
           PutBackGone', OneAtATime'
    PROVE  SafetyInv'
<1>1. \A q \in Proc \ {p} : pc'[q] = "idle" /\ items'[q] = <<>>
  BY OthersIdle DEF SafetyInv
<1>2. pc'[p] # "idle" /\ Listed' = Listed
  BY DEF Trashing, Restoring, Listed, store
<1>3. OneRunning'
  BY <1>1, <1>2 DEF OneRunning
<1>4. OnlyLiving' /\ Conserved'
  BY DEF SafetyInv, OnlyLiving, Conserved, InPlace, InTrash, history
<1>5. StillFree' /\ BufferFresh'
  BY <1>1, <1>2 DEF StillFree, BufferFresh, Restoring, store
<1>6. BatchInTrash'
  BY <1>1, <1>2 DEF SafetyInv, BatchInTrash, Trashing, Restoring
<1>7. SlotsYounger'
  <2>1. \A it \in Listed : it.slot.dir <= clock
    BY DEF SafetyInv, SlotsYounger
  <2>2. pc'[p] \in Trashing =>
          /\ \A it \in Listed : it.slot.dir < clock
          /\ \A it \in ToSet(items'[p]) : it.slot.dir <= clock
    BY DEF SafetyInv, SlotsYounger, Trashing, Restoring
  <2>3. clock <= clock
    BY DEF SafetyInv, TypeInv, TypeOK
  <2>4. \A q \in Proc : pc'[q] \in Trashing \/ pc'[q] = "stageMove" => q = p
    BY <1>1 DEF Trashing
  <2>5. pc'[p] = "stageMove" =>
          /\ dest'[p].dir <= clock
          /\ \A it \in Listed : it.slot.dir < dest'[p].dir
    BY <2>2, <2>3 DEF Trashing
  <2> QED
    BY <1>2, <2>1, <2>2, <2>4, <2>5, Zenon DEF SlotsYounger
<1>8. ItemsHome'
  <2>1. \A q \in Proc : ToSet(items'[q]) \subseteq ToSet(items[q])
    BY <1>1, ToSetEmpty
  <2> QED
    BY <1>2, <2>1 DEF SafetyInv, ItemsHome
<1>9. Recorded'
  <2>1. Held' = Held
    BY <1>1, <1>2, HeldOne DEF Held, SafetyInv, Trashing, Restoring
  <2> QED
    BY <1>2, <2>1 DEF SafetyInv, Recorded, SlotsOf
<1> QED
  BY <1>3, <1>4, <1>5, <1>6, <1>7, <1>8, <1>9 DEF SafetyInv

LEMMA StageGoesOnSafe ==
    ASSUME SafetyInv, TypeInv', NEW p \in Proc,
           \/ StageChoose(p) \/ StageError(p) \/ StageSide(p) \/ ReadJournal(p)
           \/ SideError(p) /\ pc[p] = "stageSide"
    PROVE  SafetyInv'
<1> USE DEF Goto
<1>0. /\ pc \in [Proc -> {"idle"} \cup Trashing \cup Restoring]
      /\ dest \in [Proc -> Slot] /\ buf \in [Proc -> Seq(Session)]
      /\ plan \in [Proc -> Seq(Path)] /\ faults \in Nat
      /\ items \in [Proc -> Seq(Item)]
  BY DEF SafetyInv, TypeInv, TypeOK
<1>1. /\ pc[p] \in Trashing /\ pc'[p] \in Trashing /\ items' = items
      /\ mode' = mode
      /\ \A q \in Proc \ {p} : pc'[q] = pc[q]
      /\ UNCHANGED <<orig, trash, store, history, clock>>
  BY <1>0 DEF StageChoose, StageError, StageSide, ReadJournal, SideError, Trashing, disk
<1>2. faults' = faults \/ faults' # 0
  BY <1>0 DEF StageChoose, StageError, StageSide, ReadJournal, SideError
<1>3. pc'[p] = "stageMove" => trash[dest'[p]] = NoFile /\ dest'[p].dir = clock
  <2>1. CASE StageChoose(p)
    <3>1. PICK c \in Copy :
             LET s == [dir |-> clock, name |-> NameOf[Head(plan[p])], copy |-> c]
             IN  FirstFree(s) /\ dest' = [dest EXCEPT ![p] = s]
      BY <2>1 DEF StageChoose
    <3> QED
      BY <1>0, <3>1 DEF FirstFree
  <2>2. CASE ~StageChoose(p)
    BY <1>0, <2>2 DEF StageError, StageSide, ReadJournal, SideError
  <2> QED
    BY <2>1, <2>2
<1>4. pc'[p] = "write" => buf'[p] = journal
  BY <1>0 DEF StageChoose, StageError, StageSide, ReadJournal, SideError
<1>5. \A q \in Proc : pc'[q] \notin Restoring
  <2>1. \A q \in Proc \ {p} : pc'[q] = "idle"
    BY <1>1, OthersIdle DEF SafetyInv, Trashing
  <2> QED
    BY <1>1, <2>1 DEF Trashing, Restoring
<1>6. PutBackGone'
  BY <1>5 DEF PutBackGone
<1>7. OneAtATime'
  <2> SUFFICES ASSUME NEW q \in Proc, pc'[q] \in Trashing, mode'[q] = "single"
               PROVE  AtMostOne(q)'
    BY DEF OneAtATime, AtMostOne
  <2>1. q = p
    BY <1>1, OthersIdle DEF SafetyInv, Trashing
  <2>2. /\ Len(items[p]) \in Nat /\ Len(plan[p]) \in Nat /\ mode[p] = "single"
        /\ Len(items[p]) + Len(plan[p]) <= IF pc[p] = "stageSide" THEN 2 ELSE 1
    BY <1>0, <1>1, <2>1 DEF SafetyInv, OneAtATime, AtMostOne
  <2>3. CASE StageChoose(p) \/ ReadJournal(p)
    BY <1>0, <1>1, <2>1, <2>2, <2>3 DEF StageChoose, ReadJournal, AtMostOne
  <2>4. CASE StageError(p)
    <3>1. pc[p] # "stageSide" /\ pc'[p] = "stage" /\ plan'[p] = <<>>
      BY <1>0, <2>2, <2>4 DEF StageError, AfterError
    <3>2. Len(items'[q]) = Len(items[p]) /\ Len(plan'[q]) = 0
      BY <1>1, <2>1, <3>1
    <3>3. Len(items[p]) + Len(plan[p]) <= 1
      BY <2>2, <3>1
    <3>4. \A a, b \in Nat : a + b <= 1 => a + 0 <= 1
      OBVIOUS
    <3>5. Len(items'[q]) + Len(plan'[q]) <= 1
      BY <2>2, <3>2, <3>3, <3>4, Zenon
    <3> QED
      BY <2>1, <3>1, <3>5, Zenon DEF AtMostOne
  <2>5. CASE StageSide(p) \/ (SideError(p) /\ pc[p] = "stageSide")
    <3>1. pc[p] = "stageSide" /\ pc'[p] = "stage" /\ plan'[p] = Tail(plan[p])
      BY <1>0, <2>5 DEF StageSide, SideError
    <3>2. plan[p] # <<>>
      BY <3>1 DEF SafetyInv, TypeInv, LocalOK
    <3>3. Len(plan'[p]) = Len(plan[p]) - 1
      BY <1>0, <3>1, <3>2
    <3>4. Len(items'[q]) = Len(items[p]) /\ Len(plan'[q]) = Len(plan[p]) - 1
      BY <1>1, <2>1, <3>3
    <3>5. Len(items[p]) + Len(plan[p]) <= 2
      BY <2>2, <3>1
    <3>6. \A a, b \in Nat : a + b <= 2 => a + (b - 1) <= 1
      OBVIOUS
    <3>7. Len(items'[q]) + Len(plan'[q]) <= 1
      BY <2>2, <3>4, <3>5, <3>6, Zenon
    <3> QED
      BY <2>1, <3>1, <3>7, Zenon DEF AtMostOne
  <2> QED
    BY <2>3, <2>4, <2>5
<1> QED
  BY <1>1, <1>2, <1>3, <1>4, <1>5, <1>6, <1>7, StaysSafe DEF Trashing

LEMMA RestoreGoesOnSafe ==
    ASSUME SafetyInv, TypeInv', NEW p \in Proc,
           \/ RestoreSkip(p) \/ RestoreChoose(p) \/ RestoreSide(p)
           \/ SideError(p) /\ pc[p] = "restoreSide"
    PROVE  SafetyInv'
<1> USE DEF Goto
<1>0. /\ pc \in [Proc -> {"idle"} \cup Trashing \cup Restoring]
      /\ items \in [Proc -> Seq(Item)] /\ faults \in Nat
  BY DEF SafetyInv, TypeInv, TypeOK
<1>1. /\ pc[p] \in Restoring /\ pc'[p] \in Restoring
      /\ mode' = mode /\ buf' = buf /\ mark' = mark
      /\ \A q \in Proc \ {p} : pc'[q] = pc[q] /\ items'[q] = items[q]
      /\ UNCHANGED <<orig, trash, store, history, clock>>
      /\ faults' = faults \/ faults' # 0
  BY <1>0 DEF RestoreSkip, RestoreChoose, RestoreSide, SideError, Restoring, disk
<1>2. items[p] # <<>>
  BY DEF RestoreSkip, RestoreChoose, RestoreSide, SideError, SafetyInv, TypeInv, LocalOK
<1>3. /\ items'[p] \in {items[p], Tail(items[p])}
      /\ items'[p] = Tail(items[p]) => trash[Head(items[p]).slot] = NoFile
  <2>1. CASE RestoreSkip(p)
    BY <1>0, <2>1 DEF RestoreSkip, AlreadyBack
  <2>2. CASE RestoreChoose(p)
    <3>1. items[p] # Tail(items[p])
      BY <1>0, <1>2
    <3> QED
      BY <1>0, <2>2, <3>1 DEF RestoreChoose
  <2>3. CASE RestoreSide(p) \/ (SideError(p) /\ pc[p] = "restoreSide")
    <3>1. pc[p] = "restoreSide" /\ items'[p] = Tail(items[p])
      BY <1>0, <2>3 DEF RestoreSide, SideError
    <3> QED
      BY <1>1, <3>1 DEF SafetyInv, PutBackGone
  <2> QED
    BY <2>1, <2>2, <2>3
<1>4. ToSet(items[p]) = {Head(items[p])} \cup ToSet(Tail(items[p]))
  BY <1>0, <1>2, ToSetHead
<1>5. ToSet(items'[p]) \subseteq ToSet(items[p])
  BY <1>3, <1>4
<1>6. pc'[p] = "restoreMove" => orig[Head(items'[p]).path] = NoFile
  BY <1>0 DEF RestoreSkip, RestoreChoose, RestoreSide, SideError, MayPutBack
<1>7. pc'[p] = "write" \/ (pc'[p] \in Restoring /\ mode'[p] # "single") => buf'[p] = journal
  BY <1>1 DEF SafetyInv, BufferFresh, Restoring
<1>8. \A q \in Proc \ {p} : pc'[q] = "idle"
  BY <1>1, OthersIdle DEF SafetyInv, Restoring
<1>9. PutBackGone'
  <2>1. pc'[p] # "restoreSide"
    BY <1>0 DEF RestoreSkip, RestoreChoose, RestoreSide, SideError
  <2>2. mode[p] # "single" =>
          \A it \in ToSet(buf[p][mark[p]].items) \ ToSet(items[p]) : trash[it.slot] = NoFile
    BY <1>1 DEF SafetyInv, PutBackGone
  <2>3. mode[p] # "single" =>
          \A it \in ToSet(buf[p][mark[p]].items) \ ToSet(items'[p]) : trash[it.slot] = NoFile
    BY <1>3, <1>4, <2>2
  <2> QED
    BY <1>1, <1>8, <2>1, <2>3 DEF PutBackGone, Restoring
<1>10. OneAtATime'
  BY <1>1, <1>8 DEF OneAtATime, AtMostOne, Trashing, Restoring
<1>11. pc'[p] # "stageMove" /\ pc[p] # "idle"
  BY <1>1 DEF Restoring
<1> QED
  BY <1>1, <1>5, <1>6, <1>7, <1>9, <1>10, <1>11, StaysSafe

-----------------------------------------------------------------------------
(* Files move.                                                             *)

LEMMA StageMoveSafe ==
    ASSUME SafetyInv, TypeInv', NEW p \in Proc, StageMove(p)
    PROVE  SafetyInv'
<1> DEFINE path == Head(plan[p])
           f == orig[path]
           item == [path |-> path, slot |-> dest[p]]
<1>0. /\ pc[p] = "stageMove" /\ path \in Path /\ f \in File /\ dest[p] \in Slot
      /\ f # NoFile
      /\ trash[dest[p]] = NoFile
      /\ item \in Item /\ items[p] \in Seq(Item)
  <2>1. pc[p] = "stageMove" /\ f # NoFile
    BY DEF StageMove
  <2>2. plan[p] # <<>> /\ plan[p] \in Seq(Path) /\ dest[p] \in Slot /\ items[p] \in Seq(Item)
    BY <2>1 DEF SafetyInv, TypeInv, TypeOK, LocalOK
  <2>3. path \in Path
    BY <2>2
  <2> QED
    BY <2>1, <2>2, <2>3, TrashAssumption
    DEF SafetyInv, StillFree, TypeInv, TypeOK, Item
<1>1. /\ trash' = [trash EXCEPT ![dest[p]] = f]
      /\ orig' = [orig EXCEPT ![path] = NoFile]
      /\ orig \in [Path -> File \cup {NoFile}] /\ trash \in [Slot -> File \cup {NoFile}]
      /\ pc' = [pc EXCEPT ![p] = "stageSide"]
      /\ items'[p] = Append(items[p], item)
      /\ UNCHANGED <<store, history, clock, faults, mode, plan, dest, buf>>
      /\ pc'[p] = "stageSide"
      /\ \A q \in Proc \ {p} : pc'[q] = pc[q] /\ items'[q] = items[q]
  BY DEF StageMove, Goto, SafetyInv, TypeInv, TypeOK
<1>2. \A q \in Proc \ {p} : pc'[q] = "idle" /\ items'[q] = <<>>
  BY <1>0, <1>1, OthersIdle DEF SafetyInv
<1>3. Listed' = Listed /\ ToSet(items'[p]) = ToSet(items[p]) \cup {item}
  BY <1>0, <1>1, ToSetAppend DEF Listed, store
<1> HIDE DEF path, f, item
<1>4. f \in born \ deleted /\ HomeOf[f] = path
  BY <1>0 DEF SafetyInv, OnlyLiving, Conserved, f
<1>5. OneRunning'
  BY <1>1, <1>2 DEF OneRunning
<1>6. OnlyLiving'
  BY <1>0, <1>1, <1>4 DEF SafetyInv, OnlyLiving, history
<1>7. Conserved'
  <2>1. \A s \in Slot : trash[s] # f
    BY <1>0, <1>4 DEF SafetyInv, Conserved, InPlace, InTrash, f
  <2>2. \A q \in Path : orig[q] = f => q = path
    BY <1>0, <1>4 DEF SafetyInv, Conserved
  <2>3. ASSUME NEW g \in born' \ deleted' PROVE InPlace(g)' # InTrash(g)'
    <3>1. CASE g = f
      <4>1. \A q \in Path : orig'[q] # f
        BY <1>0, <1>1, <2>2
      <4>2. trash'[dest[p]] = f
        BY <1>0, <1>1
      <4> QED
        BY <1>0, <3>1, <4>1, <4>2 DEF InPlace, InTrash
    <3>2. CASE g # f
      <4>1. g # NoFile
        BY <1>1, TrashAssumption DEF history, SafetyInv, TypeInv, TypeOK
      <4>2. InPlace(g)' <=> InPlace(g)
        BY <1>0, <1>1, <3>2, <4>1 DEF InPlace, f
      <4>3. InTrash(g)' <=> InTrash(g)
        BY <1>0, <1>1, <3>2, <4>1 DEF InTrash
      <4>4. InPlace(g) # InTrash(g)
        BY <1>1 DEF SafetyInv, Conserved, history
      <4>5. InPlace(g) \in BOOLEAN /\ InTrash(g) \in BOOLEAN
            /\ InPlace(g)' \in BOOLEAN /\ InTrash(g)' \in BOOLEAN
        BY DEF InPlace, InTrash
      <4> QED
        BY <4>2, <4>3, <4>4, <4>5
    <3> QED
      BY <3>1, <3>2
  <2>4. \A q \in Path : orig'[q] # NoFile => HomeOf[orig'[q]] = q
    BY <1>0, <1>1 DEF SafetyInv, Conserved
  <2>5. \A s, t \in Slot : trash'[s] # NoFile /\ trash'[s] = trash'[t] => s = t
    BY <1>0, <1>1, <2>1 DEF SafetyInv, Conserved
  <2> QED
    BY <2>3, <2>4, <2>5 DEF Conserved
<1>8. StillFree' /\ BufferFresh' /\ PutBackGone'
  BY <1>1, <1>2 DEF StillFree, BufferFresh, PutBackGone, Restoring
<1>9. SlotsYounger'
  <2>1. /\ \A it \in Listed : it.slot.dir <= clock /\ it.slot.dir < clock
        /\ \A it \in ToSet(items[p]) : it.slot.dir <= clock
        /\ dest[p].dir <= clock
    BY <1>0 DEF SafetyInv, SlotsYounger, Trashing
  <2>2. \A it \in ToSet(items'[p]) : it.slot.dir <= clock
    BY <1>3, <2>1 DEF item
  <2> QED
    BY <1>1, <1>2, <1>3, <2>1, <2>2 DEF SlotsYounger, Trashing
<1>10. \A it \in ToSet(items[p]) : it.slot # dest[p]
  BY <1>0 DEF SafetyInv, BatchInTrash, Trashing
<1>11. BatchInTrash'
  <2>1. \A it \in ToSet(items'[p]) : trash'[it.slot] # NoFile
    <3>1. trash'[item.slot] = f
      BY <1>0, <1>1 DEF item
    <3>2. ASSUME NEW it \in ToSet(items[p]) PROVE trash'[it.slot] # NoFile
      <4>1. it \in Item
        BY <1>0, ToSetRange
      <4>2. it.slot \in Slot
        BY <4>1 DEF Item
      <4>3. trash[it.slot] # NoFile
        BY <1>0 DEF SafetyInv, BatchInTrash, Trashing
      <4> QED
        BY <1>0, <1>1, <4>2, <4>3
    <3> QED
      BY <1>0, <1>3, <3>1, <3>2
  <2> QED
    BY <1>2, <2>1 DEF BatchInTrash, Trashing
<1>12. ItemsHome'
  <2>1. ASSUME NEW it \in Listed \cup ToSet(items[p]) PROVE it.slot # dest[p]
    <3>1. CASE it \in Listed
      <4>1. it.slot.dir < dest[p].dir /\ dest[p].dir \in Nat
        BY <1>0, <3>1 DEF SafetyInv, SlotsYounger, Slot
      <4> QED
        BY <4>1
    <3> QED
      BY <1>10, <2>1, <3>1
  <2>2. ASSUME NEW it \in Listed' \cup ToSet(items'[p]), trash'[it.slot] # NoFile
        PROVE  HomeOf[trash'[it.slot]] = it.path
    <3>1. CASE it = item
      BY <1>0, <1>1, <1>4, <3>1 DEF item
    <3>2. CASE it # item
      <4>1. it \in Listed \cup ToSet(items[p])
        BY <1>3, <2>2, <3>2
      <4>2. trash'[it.slot] = trash[it.slot]
        BY <1>1, <2>1, <4>1
      <4> QED
        BY <2>2, <4>1, <4>2 DEF SafetyInv, ItemsHome
    <3> QED
      BY <3>1, <3>2
  <2>3. \A q \in Proc \ {p} : ToSet(items'[q]) = {}
    BY <1>2, ToSetEmpty
  <2> QED
    BY <2>2, <2>3 DEF ItemsHome
<1>13. OneAtATime'
  <2>1. mode[p] = "single" => Len(items'[p]) + Len(plan'[p]) <= 2
    <3>1. mode[p] = "single" => Len(items[p]) + Len(plan[p]) <= 1
      BY <1>0 DEF SafetyInv, OneAtATime, AtMostOne, Trashing
    <3>2. Len(items'[p]) = Len(items[p]) + 1 /\ plan'[p] = plan[p]
      BY <1>0, <1>1
    <3>3. Len(items[p]) \in Nat /\ Len(plan[p]) \in Nat
      BY <1>0 DEF SafetyInv, TypeInv, TypeOK
    <3>4. \A a, b \in Nat : a + b <= 1 => (a + 1) + b <= 2
      OBVIOUS
    <3> QED
      BY <3>1, <3>2, <3>3, <3>4, Zenon
  <2> QED
    BY <1>1, <1>2, <2>1 DEF OneAtATime, AtMostOne, Trashing
<1>14. Recorded'
  <2>1. Held = ToSet(items[p])
    BY <1>0, HeldOne DEF SafetyInv, Trashing
  <2>2. pc'[p] # "idle" /\ pc'[p] \in Trashing
    BY <1>1 DEF Trashing
  <2>3. Held' = ToSet(items'[p])
    <3>1. {q \in Proc : pc'[q] \in Trashing} = {p}
      BY <1>2, <2>2 DEF Trashing
    <3> QED
      BY <3>1 DEF Held
  <2>4. ASSUME faults' = 0, NEW s \in Slot, trash'[s] # NoFile
        PROVE  s \in SlotsOf(Listed' \cup Held')
    <3>1. CASE s = dest[p]
      BY <1>3, <2>3, <3>1 DEF SlotsOf, item
    <3>2. CASE s # dest[p]
      <4>1. trash[s] # NoFile /\ faults = 0
        BY <1>1, <2>4, <3>2
      <4>2. s \in SlotsOf(Listed \cup Held)
        BY <4>1 DEF SafetyInv, Recorded
      <4> QED
        BY <1>3, <2>1, <2>3, <4>2 DEF SlotsOf
    <3> QED
      BY <3>1, <3>2
  <2> QED
    BY <2>4 DEF Recorded
<1> QED
  BY <1>5, <1>6, <1>7, <1>8, <1>9, <1>11, <1>12, <1>13, <1>14 DEF SafetyInv

LEMMA RestoreMoveSafe ==
    ASSUME SafetyInv, TypeInv', NEW p \in Proc, RestoreMove(p)
    PROVE  SafetyInv'
<1> DEFINE it == Head(items[p])
           f == trash[it.slot]
<1>0. /\ pc[p] = "restoreMove" /\ it \in Item /\ it.path \in Path /\ it.slot \in Slot
      /\ items[p] \in Seq(Item) /\ it \in ToSet(items[p])
      /\ f # NoFile /\ f \in File /\ orig[it.path] = NoFile
  <2>1. pc[p] = "restoreMove" /\ f # NoFile
    BY DEF RestoreMove
  <2>2. items[p] # <<>> /\ items[p] \in Seq(Item)
    BY <2>1 DEF SafetyInv, TypeInv, TypeOK, LocalOK
  <2>3. it \in Item /\ it \in ToSet(items[p])
    BY <2>2, ToSetHead
  <2>4. it.path \in Path /\ it.slot \in Slot
    BY <2>3 DEF Item
  <2> QED
    BY <2>1, <2>2, <2>3, <2>4 DEF SafetyInv, StillFree, TypeInv, TypeOK
<1>1. /\ orig' = [orig EXCEPT ![it.path] = f]
      /\ trash' = [trash EXCEPT ![it.slot] = NoFile]
      /\ orig \in [Path -> File \cup {NoFile}] /\ trash \in [Slot -> File \cup {NoFile}]
      /\ UNCHANGED <<store, history, clock, faults, mode, plan, items, dest, buf, mark>>
      /\ pc'[p] = "restoreSide"
      /\ \A q \in Proc \ {p} : pc'[q] = pc[q]
  BY DEF RestoreMove, Goto, SafetyInv, TypeInv, TypeOK
<1>2. \A q \in Proc \ {p} : pc'[q] = "idle" /\ items'[q] = <<>>
  BY <1>0, <1>1, OthersIdle DEF SafetyInv
<1>3. Listed' = Listed
  BY <1>1 DEF Listed, store
<1>4. HomeOf[f] = it.path /\ f \in born \ deleted
  BY <1>0 DEF SafetyInv, ItemsHome, OnlyLiving
<1> HIDE DEF f
<1>5. OneRunning'
  BY <1>1, <1>2 DEF OneRunning
<1>6. OnlyLiving'
  BY <1>0, <1>1, <1>4 DEF SafetyInv, OnlyLiving, history
<1>7. Conserved'
  <2>1. \A s \in Slot : trash[s] = f => s = it.slot
    BY <1>0 DEF SafetyInv, Conserved, f
  <2>2. \A q \in Path : orig[q] # f
    BY <1>0, <1>4 DEF SafetyInv, Conserved
  <2>3. ASSUME NEW g \in born' \ deleted' PROVE InPlace(g)' # InTrash(g)'
    <3>1. CASE g = f
      <4>1. \A s \in Slot : trash'[s] # f
        BY <1>0, <1>1, <2>1
      <4>2. orig'[it.path] = f
        BY <1>0, <1>1
      <4> QED
        BY <1>0, <3>1, <4>1, <4>2 DEF InPlace, InTrash
    <3>2. CASE g # f
      <4>1. g # NoFile
        BY <1>1, TrashAssumption DEF history, SafetyInv, TypeInv, TypeOK
      <4>2. InPlace(g)' <=> InPlace(g)
        BY <1>0, <1>1, <3>2, <4>1 DEF InPlace
      <4>3. InTrash(g)' <=> InTrash(g)
        BY <1>0, <1>1, <3>2, <4>1 DEF InTrash, f
      <4>4. InPlace(g) # InTrash(g)
        BY <1>1 DEF SafetyInv, Conserved, history
      <4>5. InPlace(g) \in BOOLEAN /\ InTrash(g) \in BOOLEAN
            /\ InPlace(g)' \in BOOLEAN /\ InTrash(g)' \in BOOLEAN
        BY DEF InPlace, InTrash
      <4> QED
        BY <4>2, <4>3, <4>4, <4>5
    <3> QED
      BY <3>1, <3>2
  <2>4. \A q \in Path : orig'[q] # NoFile => HomeOf[orig'[q]] = q
    BY <1>0, <1>1, <1>4 DEF SafetyInv, Conserved
  <2>5. \A s, t \in Slot : trash'[s] # NoFile /\ trash'[s] = trash'[t] => s = t
    BY <1>0, <1>1 DEF SafetyInv, Conserved
  <2> QED
    BY <2>3, <2>4, <2>5 DEF Conserved
<1>8. StillFree' /\ BatchInTrash' /\ OneAtATime'
  BY <1>1, <1>2 DEF StillFree, BatchInTrash, OneAtATime, AtMostOne, Trashing
<1>9. BufferFresh'
  BY <1>0, <1>1, <1>2 DEF SafetyInv, BufferFresh, Restoring, store
<1>10. SlotsYounger'
  BY <1>1, <1>2, <1>3 DEF SafetyInv, SlotsYounger, Trashing
<1>11. ItemsHome'
  <2>1. ASSUME NEW i \in Listed \cup UNION {ToSet(items[q]) : q \in Proc},
               trash'[i.slot] # NoFile
        PROVE  HomeOf[trash'[i.slot]] = i.path
    <3>1. trash'[i.slot] = trash[i.slot]
      BY <1>0, <1>1, <2>1
    <3> QED
      BY <2>1, <3>1 DEF SafetyInv, ItemsHome
  <2> QED
    BY <1>1, <1>3, <2>1 DEF ItemsHome
<1>12. PutBackGone'
  <2>1. trash'[it.slot] = NoFile
    BY <1>0, <1>1
  <2>2. \A s : trash[s] = NoFile => trash'[s] = NoFile
    BY <1>1
  <2>3. mode[p] # "single" =>
          \A i \in ToSet(buf[p][mark[p]].items) \ ToSet(items[p]) : trash[i.slot] = NoFile
    BY <1>0 DEF SafetyInv, PutBackGone, Restoring
  <2> QED
    BY <1>1, <1>2, <2>1, <2>2, <2>3 DEF PutBackGone, Restoring
<1>13. Recorded'
  <2>1. Held = {}
    BY <1>0, HeldOne DEF SafetyInv, Trashing
  <2>2. ASSUME faults' = 0, NEW s \in Slot, trash'[s] # NoFile
        PROVE  s \in SlotsOf(Listed' \cup Held')
    <3>1. trash[s] # NoFile /\ faults = 0
      BY <1>1, <2>2
    <3>2. s \in SlotsOf(Listed)
      BY <2>1, <3>1 DEF SafetyInv, Recorded
    <3> QED
      BY <1>3, <3>2 DEF SlotsOf
  <2> QED
    BY <2>2 DEF Recorded
<1> QED
  BY <1>5, <1>6, <1>7, <1>8, <1>9, <1>10, <1>11, <1>12, <1>13 DEF SafetyInv

-----------------------------------------------------------------------------
(* Faults, time and the user.                                              *)

LEMMA FailSafe ==
    ASSUME SafetyInv, TypeInv', NEW p \in Proc, Fail(p)
    PROVE  SafetyInv'
<1>1. /\ pc[p] # "idle" /\ Stop(p) /\ UNCHANGED <<disk, store, history, clock>>
      /\ faults' # 0
  BY DEF Fail, SafetyInv, TypeInv, TypeOK
<1>2. Listed' = Listed /\ Recorded'
  BY <1>1 DEF Listed, store, Recorded
<1> QED
  BY <1>1, <1>2, StopSafe DEF disk, history

LEMMA TickSafe ==
    ASSUME SafetyInv, TypeInv', Tick
    PROVE  SafetyInv'
<1>1. /\ clock \in Nat /\ clock' = clock + 1
      /\ UNCHANGED <<disk, store, history, local, faults>>
      /\ \E p \in Proc : pc[p] = "stage"
  BY DEF Tick, SafetyInv, TypeInv, TypeOK
<1>2. PICK p \in Proc : pc[p] = "stage"
  BY <1>1
<1>3. \A q \in Proc \ {p} : pc[q] = "idle" /\ items[q] = <<>>
  BY <1>2, OthersIdle DEF SafetyInv
<1>4. Listed' = Listed /\ Held' = Held
  BY <1>1 DEF Listed, store, Held, local
<1>5. SlotsYounger'
  <2>1. \A it \in Listed \cup ToSet(items[p]) : it.slot.dir \in Nat
    <3>2. ToSet(items[p]) \subseteq Item
      <4>1. items[p] \in Seq(Item)
        BY DEF SafetyInv, TypeInv, TypeOK
      <4> QED
        BY <4>1, ToSetRange
    <3>3. Listed \subseteq Item
      BY ListedItems DEF SafetyInv, TypeInv
    <3> QED
      BY <3>2, <3>3 DEF Item, Slot
  <2>2. /\ \A it \in Listed : it.slot.dir < clock
        /\ \A it \in ToSet(items[p]) : it.slot.dir <= clock
    BY <1>2 DEF SafetyInv, SlotsYounger, Trashing
  <2>3. /\ \A it \in Listed : it.slot.dir < clock + 1 /\ it.slot.dir <= clock + 1
        /\ \A it \in ToSet(items[p]) : it.slot.dir <= clock + 1
    BY <1>1, <2>1, <2>2
  <2> QED
    BY <1>1, <1>2, <1>3, <1>4, <2>3 DEF SlotsYounger, Trashing, local
<1>6. (OneRunning /\ OnlyLiving /\ Conserved /\ StillFree /\ BufferFresh
       /\ BatchInTrash /\ ItemsHome /\ PutBackGone /\ OneAtATime /\ Recorded)'
  <2> USE <1>1, <1>4 DEF SafetyInv, disk, store, history, local
  <2>1. OneRunning' /\ StillFree' /\ BufferFresh' /\ BatchInTrash' /\ ItemsHome'
    BY DEF OneRunning, StillFree, BufferFresh, BatchInTrash, ItemsHome
  <2>2. OnlyLiving' /\ Conserved'
    BY DEF OnlyLiving, Conserved, InPlace, InTrash
  <2>3. PutBackGone'
    BY DEF PutBackGone
  <2>4. OneAtATime' /\ Recorded'
    BY DEF OneAtATime, AtMostOne, Recorded
  <2> QED
    BY <2>1, <2>2, <2>3, <2>4
<1> QED
  BY <1>5, <1>6 DEF SafetyInv

LEMMA UserSafe ==
    ASSUME SafetyInv, TypeInv', Calm,
           \/ \E f \in File : UserCreate(f)
           \/ \E path \in Path : UserDelete(path)
    PROVE  SafetyInv'
<1>1. /\ UNCHANGED <<trash, store, local, clock, faults>>
      /\ Listed' = Listed /\ Held' = Held
  BY DEF UserCreate, UserDelete, Listed, store, Held, local
<1>2. (OneRunning /\ StillFree /\ BufferFresh /\ SlotsYounger
       /\ BatchInTrash /\ ItemsHome /\ PutBackGone /\ OneAtATime /\ Recorded)'
  <2>1. (OneRunning /\ BufferFresh /\ SlotsYounger
         /\ BatchInTrash /\ ItemsHome /\ PutBackGone /\ OneAtATime /\ Recorded)'
    BY <1>1
    DEF SafetyInv, OneRunning, BufferFresh, SlotsYounger, BatchInTrash, ItemsHome, PutBackGone,
        OneAtATime, AtMostOne, Recorded, store, local
  <2>2. StillFree'
    BY <1>1 DEF Calm, StillFree, local
  <2> QED
    BY <2>1, <2>2
<1>3. ASSUME NEW f \in File, UserCreate(f) PROVE OnlyLiving' /\ Conserved'
  <2>1. /\ orig' = [orig EXCEPT ![HomeOf[f]] = f] /\ born' = born \cup {f}
        /\ trash' = trash /\ deleted' = deleted
        /\ HomeOf[f] \in Path /\ orig[HomeOf[f]] = NoFile
        /\ f # NoFile /\ f \notin born /\ f \notin deleted
        /\ orig \in [Path -> File \cup {NoFile}]
    BY <1>3, TrashAssumption DEF UserCreate, SafetyInv, OnlyLiving, TypeInv, TypeOK
  <2>2. OnlyLiving'
    BY <2>1 DEF SafetyInv, OnlyLiving
  <2>3. (\A s \in Slot : trash[s] # f) /\ orig'[HomeOf[f]] = f
    BY <2>1 DEF SafetyInv, OnlyLiving
  <2>4. ASSUME NEW g \in born' \ deleted' PROVE InPlace(g)' # InTrash(g)'
    <3>1. CASE g = f
      BY <2>1, <2>3, <3>1 DEF InPlace, InTrash
    <3>2. CASE g # f
      <4>1. g # NoFile /\ g \in born \ deleted
        BY <2>1, <3>2, TrashAssumption DEF SafetyInv, TypeInv, TypeOK
      <4>2. (InPlace(g)' <=> InPlace(g)) /\ (InTrash(g)' <=> InTrash(g))
        BY <2>1, <3>2, <4>1 DEF InPlace, InTrash
      <4>3. InPlace(g) # InTrash(g)
        BY <4>1 DEF SafetyInv, Conserved
      <4>4. InPlace(g) \in BOOLEAN /\ InTrash(g) \in BOOLEAN
            /\ InPlace(g)' \in BOOLEAN /\ InTrash(g)' \in BOOLEAN
        BY DEF InPlace, InTrash
      <4> QED
        BY <4>2, <4>3, <4>4
    <3> QED
      BY <3>1, <3>2
  <2>5. \A q \in Path : orig'[q] # NoFile => HomeOf[orig'[q]] = q
    BY <2>1 DEF SafetyInv, Conserved
  <2>6. \A s, t \in Slot : trash'[s] # NoFile /\ trash'[s] = trash'[t] => s = t
    BY <2>1 DEF SafetyInv, Conserved
  <2> QED
    BY <2>2, <2>4, <2>5, <2>6 DEF Conserved
<1>4. ASSUME NEW path \in Path, UserDelete(path) PROVE OnlyLiving' /\ Conserved'
  <2> DEFINE f == orig[path]
  <2>1. /\ orig' = [orig EXCEPT ![path] = NoFile] /\ f # NoFile
        /\ deleted' = deleted \cup {f} /\ trash' = trash /\ born' = born
        /\ orig \in [Path -> File \cup {NoFile}]
    BY <1>4 DEF UserDelete, SafetyInv, TypeInv, TypeOK
  <2>2. f \in born \ deleted /\ HomeOf[f] = path
    BY <2>1 DEF SafetyInv, OnlyLiving, Conserved
  <2>3. \A q \in Path : orig[q] = f => q = path
    BY <2>1, <2>2 DEF SafetyInv, Conserved
  <2>4. \A s \in Slot : trash[s] # f
    BY <2>2 DEF SafetyInv, Conserved, InPlace, InTrash
  <2>5. OnlyLiving'
    BY <2>1, <2>2, <2>3, <2>4 DEF SafetyInv, OnlyLiving
  <2>6. ASSUME NEW g \in born' \ deleted' PROVE InPlace(g)' # InTrash(g)'
    <3>1. g \in born \ deleted /\ g # f /\ g # NoFile
      BY <2>1, TrashAssumption DEF SafetyInv, TypeInv, TypeOK
    <3>2. (InPlace(g)' <=> InPlace(g)) /\ (InTrash(g)' <=> InTrash(g))
      BY <2>1, <3>1 DEF InPlace, InTrash
    <3>3. InPlace(g) # InTrash(g)
      BY <3>1 DEF SafetyInv, Conserved
    <3>4. InPlace(g) \in BOOLEAN /\ InTrash(g) \in BOOLEAN
          /\ InPlace(g)' \in BOOLEAN /\ InTrash(g)' \in BOOLEAN
      BY DEF InPlace, InTrash
    <3> QED
      BY <3>2, <3>3, <3>4
  <2>7. \A q \in Path : orig'[q] # NoFile => HomeOf[orig'[q]] = q
    BY <2>1 DEF SafetyInv, Conserved
  <2>8. \A s, t \in Slot : trash'[s] # NoFile /\ trash'[s] = trash'[t] => s = t
    BY <2>1 DEF SafetyInv, Conserved
  <2> QED
    BY <2>5, <2>6, <2>7, <2>8 DEF Conserved
<1> QED
  BY <1>2, <1>3, <1>4 DEF SafetyInv

-----------------------------------------------------------------------------
(* The theorems.                                                           *)

LEMMA SafetyInit == Init => SafetyInv
<1> SUFFICES ASSUME Init PROVE SafetyInv
  OBVIOUS
<1>1. TypeInv
  BY InitType
<1>2. /\ \A p \in Proc : pc[p] = "idle" /\ items[p] = <<>>
      /\ trash = [s \in Slot |-> NoFile] /\ journal = <<>> /\ handed = {}
      /\ deleted = {} /\ born \subseteq File
      /\ \A f, g \in born : HomeOf[f] = HomeOf[g] => f = g
  BY DEF Init
<1>3. ASSUME NEW p \in Path
      PROVE  /\ orig[p] # NoFile => orig[p] \in born /\ HomeOf[orig[p]] = p
             /\ \A f \in born : HomeOf[f] = p => orig[p] = f
  <2>1. orig[p] = IF \E f \in born : HomeOf[f] = p
                  THEN CHOOSE f \in born : HomeOf[f] = p ELSE NoFile
    BY DEF Init
  <2> QED
    BY <1>2, <2>1
<1>4. Listed = {} /\ Held = {} /\ \A p \in Proc : ToSet(items[p]) = {}
  BY <1>2, ToSetEmpty DEF Listed, JournalItems, Held, Trashing
<1>5. OneRunning /\ StillFree /\ BufferFresh /\ BatchInTrash /\ PutBackGone /\ OneAtATime
  BY <1>2 DEF OneRunning, StillFree, BufferFresh, BatchInTrash, PutBackGone, OneAtATime,
              AtMostOne, Trashing, Restoring
<1>6. OnlyLiving
  BY <1>2, <1>3 DEF OnlyLiving
<1>7. Conserved
  <2>1. ASSUME NEW f \in born \ deleted PROVE InPlace(f) /\ ~InTrash(f)
    <3>1. f \in File /\ f # NoFile /\ HomeOf[f] \in Path
      BY <1>2, TrashAssumption
    <3> QED
      BY <1>2, <1>3, <3>1 DEF InPlace, InTrash
  <2> QED
    BY <1>2, <1>3, <2>1 DEF Conserved
<1>8. SlotsYounger /\ ItemsHome /\ Recorded
  BY <1>2, <1>4 DEF SlotsYounger, ItemsHome, Recorded, Trashing
<1> QED
  BY <1>1, <1>5, <1>6, <1>7, <1>8 DEF SafetyInv

LEMMA SafetyStep == SafetyInv /\ [Next]_vars => SafetyInv'
<1> SUFFICES ASSUME SafetyInv, [Next]_vars PROVE SafetyInv'
  OBVIOUS
<1>1. TypeInv'
  BY TypeStep DEF SafetyInv
<1>2. CASE UNCHANGED vars
  <2> USE <1>2 DEF SafetyInv, vars, disk, store, history, local
  <2>1. Listed' = Listed /\ Held' = Held
    BY DEF Listed, Held
  <2>2. OneRunning' /\ StillFree' /\ BufferFresh' /\ BatchInTrash'
    BY DEF OneRunning, StillFree, BufferFresh, BatchInTrash
  <2>3. SlotsYounger' /\ ItemsHome'
    BY <2>1 DEF SlotsYounger, ItemsHome
  <2>4. OnlyLiving' /\ Conserved'
    BY DEF OnlyLiving, Conserved, InPlace, InTrash
  <2>5. PutBackGone'
    BY DEF PutBackGone
  <2>6. OneAtATime' /\ Recorded'
    BY <2>1 DEF OneAtATime, AtMostOne, Recorded
  <2> QED
    BY <1>1, <2>2, <2>3, <2>4, <2>5, <2>6
<1>3. ASSUME NEW p \in Proc, Quiet(p), Begin(p) PROVE SafetyInv'
  BY <1>1, <1>3, BeginSafe
<1>4. ASSUME NEW p \in Proc, Step(p) PROVE SafetyInv'
  <2>1. CASE Stage(p)
    BY <1>1, <2>1, StageEndsSafe, StageGoesOnSafe, StageMoveSafe DEF Stage
  <2>2. CASE Restore(p)
    BY <1>1, <2>2, RestoreEndsSafe, RestoreGoesOnSafe, RestoreMoveSafe DEF Restore
  <2>3. CASE Fail(p)
    BY <1>1, <2>3, FailSafe
  <2>4. CASE SideError(p)
    <3>1. pc[p] \in {"stageSide", "restoreSide"}
      BY <2>4 DEF SideError
    <3> QED
      BY <1>1, <2>4, <3>1, StageGoesOnSafe, RestoreGoesOnSafe
  <2> QED
    BY <1>4, <2>1, <2>2, <2>3, <2>4 DEF Step
<1>5. CASE Tick
  BY <1>1, <1>5, TickSafe
<1>6. CASE Calm /\ ((\E f \in File : UserCreate(f)) \/ (\E path \in Path : UserDelete(path)))
  BY <1>1, <1>6, UserSafe
<1> QED
  BY <1>2, <1>3, <1>4, <1>5, <1>6 DEF Next

\* No file is lost, doubled or put anywhere but at its own path or in one slot of
\* the trash, through any sequence of cleanups, restores, crashes and user edits.
THEOREM FilesConserved == Spec => []Conserved
<1>1. SafetyInv => Conserved
  BY DEF SafetyInv
<1> QED
  BY <1>1, SafetyInit, SafetyStep, PTL DEF Spec

\* While nothing has failed, whatever is in the trash can be asked back.
THEOREM TrashRecorded == Spec => []Recorded
<1>1. SafetyInv => Recorded
  BY DEF SafetyInv
<1> QED
  BY <1>1, SafetyInit, SafetyStep, PTL DEF Spec

\* Every step leaves the workspace alone, or moves one file.
LEMMA WorkspaceSteps ==
    ASSUME [Next]_vars
    PROVE  \/ orig' = orig
           \/ \E p \in Proc : StageMove(p) \/ RestoreMove(p)
           \/ \E f \in File : UserCreate(f)
           \/ \E path \in Path : UserDelete(path)
<1>1. ASSUME NEW p \in Proc, Begin(p) PROVE orig' = orig
  BY <1>1 DEF Begin, BeginTrash, BeginRestore, BeginRestoreAsset, disk
<1>2. ASSUME NEW p \in Proc, Stage(p), ~StageMove(p) PROVE orig' = orig
  BY <1>2 DEF Stage, StageChoose, StageError, StageSide, StageNothing, HandOver,
              ReadJournal, RecordSession, disk
<1>3. ASSUME NEW p \in Proc, Restore(p), ~RestoreMove(p) PROVE orig' = orig
  BY <1>3 DEF Restore, RestoreSkip, RestoreChoose, RestoreError, RestoreSide,
              RestoreAssetSide, ForgetSession, disk
<1>4. ASSUME NEW p \in Proc, Fail(p) \/ SideError(p) PROVE orig' = orig
  BY <1>4 DEF Fail, SideError, disk
<1>5. Tick \/ UNCHANGED vars => orig' = orig
  BY DEF Tick, vars, disk
<1> QED
  BY <1>1, <1>2, <1>3, <1>4, <1>5 DEF Next, Step

\* No step of the tool or of the user puts one file over another.
THEOREM NothingClobbered == Spec => NoClobber
<1> DEFINE A == \A p \in Path : orig'[p] # orig[p] /\ orig'[p] # NoFile
                  => orig[p] = NoFile /\ HomeOf[orig'[p]] = p
<1>1. SafetyInv /\ [Next]_vars => [A]_vars
  <2> SUFFICES ASSUME SafetyInv, [Next]_vars PROVE A
    OBVIOUS
  <2> USE DEF SafetyInv, TypeInv, TypeOK
  <2>1. ASSUME NEW p \in Proc, StageMove(p) PROVE A
    BY <2>1 DEF StageMove
  <2>2. ASSUME NEW p \in Proc, RestoreMove(p) PROVE A
    <3>1. /\ items[p] # <<>> /\ items[p] \in Seq(Item)
          /\ orig[Head(items[p]).path] = NoFile
      BY <2>2 DEF RestoreMove, LocalOK, StillFree
    <3>2. Head(items[p]) \in ToSet(items[p])
      BY <3>1, ToSetHead
    <3>3. HomeOf[trash[Head(items[p]).slot]] = Head(items[p]).path
      BY <2>2, <3>2 DEF RestoreMove, ItemsHome
    <3> QED
      BY <2>2, <3>1, <3>3 DEF RestoreMove
  <2>3. ASSUME NEW f \in File, UserCreate(f) PROVE A
    BY <2>3 DEF UserCreate
  <2>4. ASSUME NEW path \in Path, UserDelete(path) PROVE A
    BY <2>4 DEF UserDelete
  <2> QED
    BY <2>1, <2>2, <2>3, <2>4, WorkspaceSteps
<1> QED
  BY <1>1, SafetyInit, SafetyStep, PTL DEF Spec, NoClobber

\* Every step leaves the journal alone, or records or forgets a session.
LEMMA JournalSteps ==
    ASSUME [Next]_vars
    PROVE  journal' = journal \/ \E p \in Proc : RecordSession(p) \/ ForgetSession(p)
<1>1. ASSUME NEW p \in Proc, Begin(p) PROVE journal' = journal
  BY <1>1 DEF Begin, BeginTrash, BeginRestore, BeginRestoreAsset, store
<1>2. ASSUME NEW p \in Proc, Stage(p), ~RecordSession(p) PROVE journal' = journal
  BY <1>2 DEF Stage, StageChoose, StageError, StageMove, StageSide, StageNothing, HandOver,
              ReadJournal, store
<1>3. ASSUME NEW p \in Proc, Restore(p), ~ForgetSession(p) PROVE journal' = journal
  BY <1>3 DEF Restore, RestoreSkip, RestoreChoose, RestoreError, RestoreMove, RestoreSide,
              RestoreAssetSide, store
<1>4. ASSUME NEW p \in Proc, Fail(p) \/ SideError(p) PROVE journal' = journal
  BY <1>4 DEF Fail, SideError, store
<1>5. \/ Tick \/ UNCHANGED vars
      \/ (\E f \in File : UserCreate(f)) \/ (\E path \in Path : UserDelete(path))
      => journal' = journal
  BY DEF Tick, UserCreate, UserDelete, vars, store
<1> QED
  BY <1>1, <1>2, <1>3, <1>4, <1>5 DEF Next, Step

\* A session is forgotten only when nothing it lists is left in the trash.
THEOREM ForgottenEmpty == Spec => ForgottenWhenEmpty
<1> DEFINE A == \A s \in SlotsOf(JournalItems(journal) \ JournalItems(journal')) :
                    trash[s] = NoFile
<1>1. SafetyInv /\ [Next]_vars => [A]_vars
  <2> SUFFICES ASSUME SafetyInv, [Next]_vars PROVE A
    OBVIOUS
  <2>1. CASE journal' = journal
    BY <2>1 DEF SlotsOf
  <2>2. ASSUME NEW p \in Proc, RecordSession(p) PROVE A
    <3>1. /\ buf[p] = journal /\ journal \in Seq(Session)
          /\ [id |-> mark[p], items |-> items[p]] \in Session
      BY <2>2 DEF RecordSession, SafetyInv, BufferFresh, TypeInv, TypeOK, LocalOK, Session
    <3>2. JournalItems(journal) \subseteq JournalItems(journal')
      BY <2>2, <3>1, JournalItemsAppend DEF RecordSession
    <3> QED
      BY <3>2 DEF SlotsOf
  <2>3. ASSUME NEW p \in Proc, ForgetSession(p) PROVE A
    <3>1. /\ pc[p] \in Restoring /\ items[p] = <<>>
          /\ mode[p] # "single" /\ mark[p] \in 1..Len(buf[p])
      BY <2>3 DEF ForgetSession, SafetyInv, TypeInv, LocalOK, Restoring
    <3>2. buf[p] = journal /\ journal \in Seq(Session)
      BY <3>1 DEF SafetyInv, BufferFresh, TypeInv, TypeOK
    <3>3. \A it \in ToSet(journal[mark[p]].items) : trash[it.slot] = NoFile
      BY <3>1, <3>2, ToSetEmpty DEF SafetyInv, PutBackGone
    <3>4. JournalItems(journal) \subseteq
            JournalItems(journal') \cup ToSet(journal[mark[p]].items)
      BY <2>3, <3>1, <3>2, JournalItemsWithout DEF ForgetSession
    <3> QED
      BY <3>3, <3>4 DEF SlotsOf
  <2> QED
    BY <2>1, <2>2, <2>3, JournalSteps
<1> QED
  BY <1>1, SafetyInit, SafetyStep, PTL DEF Spec, ForgottenWhenEmpty
=============================================================================
