---------------------------- MODULE JournalProofs ----------------------------
(* Theorems about JournalFile, for any writers, sessions and inodes.         *)
EXTENDS JournalFile, TLAPS

-----------------------------------------------------------------------------
(* The invariant.                                                          *)

\* One read-modify-write cycle runs at a time; a writer outside one holds nothing.
OneCycle ==
    /\ \A v, w \in Writer : pc[v] # "idle" /\ pc[w] # "idle" => v = w
    /\ \A w \in Writer : pc[w] \in {"idle", "setAside"} => seen[w] = <<>> /\ w \notin blind

\* What a writer will put in place of the list it read.
Updated(new, old) == (\E e \in Entry : new = Append(old, e)) \/ new \in Removals(old)

\* A writer works on the journal as it is, unless the file system kept it from
\* looking; of a damaged one it begins an update only where its bytes are no text.
SeenIsCurrent ==
    \A w \in Writer :
        /\ pc[w] = "setAside" => Journal.kind \in {"empty", "text"}
        /\ pc[w] = "modify" =>
             \/ w \in blind \/ Journal.kind = "bytes"
             \/ Journal.kind = "json" /\ seen[w] = Journal.list
        /\ pc[w] \in {"open", "write", "rename"} =>
             \/ w \in blind \/ Journal.kind = "bytes"
             \/ Journal.kind = "json" /\ Updated(seen[w], Journal.list)

\* What is written, and later renamed over the journal, is the temporary file,
\* empty when the writing starts and whole when it has ended.
TmpIsOurs ==
    \A w \in Writer :
        /\ pc[w] # "write" => fd[w] = NoInode
        /\ pc[w] = "write" =>
             tmp # NoInode /\ fd[w] = tmp /\ content[tmp] = Bad("empty")
        /\ pc[w] = "rename" =>
             tmp # NoInode /\ content[tmp] = Json(seen[w])

JournalInv == JournalTypeOK /\ OneCycle /\ SeenIsCurrent /\ TmpIsOurs

-----------------------------------------------------------------------------
(* Contents and lists.                                                     *)

LEMMA BadContent == \A k \in {"empty", "text", "bytes"} : Bad(k) \in Content
  BY DEF Content, Damaged

LEMMA JsonContent == \A list \in Seq(Entry) : Json(list) \in Content
  BY DEF Json, Content

\* A content is a list or damaged, and says which.
LEMMA ContentKinds ==
    ASSUME NEW c \in Content
    PROVE  /\ c \in Damaged <=> c.kind # "json"
           /\ c.kind \in {"json", "empty", "text", "bytes"}
           /\ c.list \in Seq(Entry)
<1>1. CASE c \in Damaged
  <2>1. PICK k \in {"empty", "text", "bytes"} : c = Bad(k)
    BY <1>1 DEF Damaged
  <2> QED
    BY <1>1, <2>1 DEF Bad
<1>2. CASE c \in [kind : {"json"}, list : Seq(Entry)]
  <2>1. c.kind = "json" /\ c.list \in Seq(Entry)
    BY <1>2
  <2>2. ASSUME NEW k \in {"empty", "text", "bytes"}, c = Bad(k) PROVE FALSE
    BY <2>1, <2>2 DEF Bad
  <2> QED
    BY <2>1, <2>2 DEF Damaged
<1> QED
  BY <1>1, <1>2 DEF Content

LEMMA JournalContent ==
    ASSUME JournalTypeOK
    PROVE  Journal \in Content
<1>1. CASE target = NoInode
  <2>1. <<>> \in Seq(Entry)
    OBVIOUS
  <2>2. Json(<<>>) \in Content
    BY <2>1, JsonContent
  <2> QED
    BY <1>1, <2>2 DEF Journal
<1>2. CASE target # NoInode
  <2>1. target \in Inode /\ content \in [Inode -> Content]
    BY <1>2 DEF JournalTypeOK
  <2> QED
    BY <1>2, <2>1 DEF Journal
<1> QED
  BY <1>1, <1>2

LEMMA RemoveAtType ==
    ASSUME NEW list \in Seq(Entry), NEW i \in 1..Len(list)
    PROVE  RemoveAt(list, i) \in Seq(Entry)
<1>1. SubSeq(list, 1, i - 1) \in Seq(Entry)
  OBVIOUS
<1>2. SubSeq(list, i + 1, Len(list)) \in Seq(Entry)
  OBVIOUS
<1> QED
  BY <1>1, <1>2 DEF RemoveAt

\* A list written over an empty file is that list.
LEMMA OverEmpty ==
    ASSUME NEW list \in Seq(Entry)
    PROVE  Over(list, Bad("empty")) = Json(list)
  BY DEF Over, Bad

\* The journal of the next state, where the steps below leave it alone.
LEMMA SameJournal ==
    ASSUME target' = target, target # NoInode => content'[target] = content[target]
    PROVE  Journal' = Journal
  BY DEF Journal

LEMMA Others ==
    ASSUME OneCycle, NEW w \in Writer, pc[w] # "idle"
    PROVE  \A v \in Writer \ {w} : pc[v] = "idle"
  BY DEF OneCycle

-----------------------------------------------------------------------------
(* The invariant is inductive.                                             *)

LEMMA JournalInit == Init => JournalInv
<1> SUFFICES ASSUME Init PROVE JournalInv
  OBVIOUS
<1>1. JournalTypeOK
  BY BadContent, JournalAssumption DEF Init, JournalTypeOK
<1> QED
  BY <1>1 DEF Init, JournalInv, OneCycle, SeenIsCurrent, TmpIsOurs

\* A writer that stops leaves the invariant to what it did to the files.
LEMMA StopInv ==
    ASSUME JournalInv, NEW w \in Writer, pc[w] # "idle", Stop(w),
           content' \in [Inode -> Content],
           target' \in Inode \cup {NoInode}, tmp' \in Inode \cup {NoInode},
           corrupt' \in Inode \cup {NoInode},
           target' # NoInode => target' \notin {tmp', corrupt'},
           tmp' # NoInode => tmp' # corrupt',
           updates' \in 0..MaxUpdates, faults' \in 0..MaxFaults
    PROVE  JournalInv'
<1>1. \A v \in Writer : /\ pc'[v] = "idle" /\ seen'[v] = <<>> /\ fd'[v] = NoInode
                         /\ v \notin blind'
  <2>1. \A v \in Writer \ {w} : /\ pc[v] = "idle" /\ seen[v] = <<>> /\ fd[v] = NoInode
                                /\ v \notin blind
    BY Others DEF JournalInv, OneCycle, TmpIsOurs
  <2> QED
    BY <2>1 DEF Stop, Goto, JournalInv, JournalTypeOK
<1>2. JournalTypeOK'
  BY DEF JournalInv, JournalTypeOK, Stop, Goto
<1> QED
  BY <1>1, <1>2 DEF JournalInv, OneCycle, SeenIsCurrent, TmpIsOurs

LEMMA BeginInv ==
    ASSUME JournalInv, NEW w \in Writer, Quiet(w), Begin(w)
    PROVE  JournalInv'
<1> USE DEF JournalInv
<1>0. /\ pc[w] = "idle" /\ fd[w] = NoInode /\ seen[w] = <<>>
      /\ \A v \in Writer \ {w} : pc[v] = "idle"
      /\ UNCHANGED <<content, names, fd>>
      /\ updates' \in 0..MaxUpdates /\ faults' \in 0..MaxFaults
  BY JournalAssumption
  DEF Begin, Read, ReadUnparsable, ReadUnreadable, ReadFails, Quiet, OneCycle, TmpIsOurs,
      JournalTypeOK
<1>1. Journal' = Journal /\ Journal \in Content
  BY <1>0, JournalContent DEF Journal, names
<1>2. CASE Read(w)
  <2>1. Journal.kind = "json" /\ Journal.list \in Seq(Entry)
    BY <1>1, <1>2, ContentKinds DEF Read
  <2>2. /\ pc' = [pc EXCEPT ![w] = "modify"] /\ seen' = [seen EXCEPT ![w] = Journal.list]
        /\ blind' = blind
    BY <1>2 DEF Read, Goto
  <2>3. JournalTypeOK'
    BY <1>0, <2>1, <2>2 DEF JournalTypeOK, names
  <2> QED
    BY <1>0, <1>1, <2>1, <2>2, <2>3
    DEF JournalTypeOK, OneCycle, SeenIsCurrent, TmpIsOurs
<1>3. CASE ReadUnparsable(w)
  <2>1. pc' = [pc EXCEPT ![w] = "setAside"] /\ seen' = seen /\ blind' = blind
        /\ Journal.kind \in {"empty", "text"}
    BY <1>3 DEF ReadUnparsable, Goto
  <2> QED
    BY <1>0, <1>1, <2>1 DEF JournalTypeOK, OneCycle, SeenIsCurrent, TmpIsOurs, names
<1>4. CASE ReadUnreadable(w)
  <2>1. /\ pc' = [pc EXCEPT ![w] = "modify"] /\ seen' = seen /\ blind' = blind
        /\ Journal.kind = "bytes"
    BY <1>4 DEF ReadUnreadable, Goto
  <2> QED
    BY <1>0, <1>1, <2>1 DEF JournalTypeOK, OneCycle, SeenIsCurrent, TmpIsOurs, names
<1>5. CASE ReadFails(w)
  <2>1. /\ pc' = [pc EXCEPT ![w] = "modify"] /\ seen' = seen
        /\ blind' = blind \cup {w}
    BY <1>5 DEF ReadFails, Goto
  <2> QED
    BY <1>0, <1>1, <2>1 DEF JournalTypeOK, OneCycle, SeenIsCurrent, TmpIsOurs, names
<1> QED
  BY <1>2, <1>3, <1>4, <1>5 DEF Begin

LEMMA UpdateInv ==
    ASSUME JournalInv, NEW w \in Writer,
           SetAside(w) \/ SetAsideFails(w) \/ Push(w) \/ Pull(w)
    PROVE  JournalInv'
<1> USE DEF JournalInv
<1>0. /\ pc[w] \in {"setAside", "modify"} /\ fd[w] = NoInode
      /\ \A v \in Writer \ {w} : pc[v] = "idle"
      /\ UNCHANGED <<content, tmp, fd, updates>> /\ faults' \in 0..MaxFaults
  BY Others, JournalAssumption
  DEF SetAside, SetAsideFails, Push, Pull, TmpIsOurs, names, JournalTypeOK
<1>1. CASE SetAside(w)
  <2>1. /\ pc' = [pc EXCEPT ![w] = "modify"] /\ seen' = seen /\ seen[w] = <<>>
        /\ blind' = blind
    BY <1>1 DEF SetAside, Goto, OneCycle
  <2>2. Journal.kind \in {"empty", "text"}
    BY <1>1 DEF SetAside, SeenIsCurrent
  <2>3. target # NoInode
    BY <2>2 DEF Journal, Json
  <2>4. target' = NoInode /\ corrupt' = target
    BY <1>1, <2>3 DEF SetAside
  <2>5. Journal' = Json(<<>>)
    BY <2>4 DEF Journal
  <2>6. JournalTypeOK'
    BY <1>0, <2>1, <2>3, <2>4 DEF JournalTypeOK
  <2> QED
    BY <1>0, <2>1, <2>5, <2>6 DEF JournalTypeOK, OneCycle, SeenIsCurrent, TmpIsOurs, Json
<1>2. CASE Push(w) \/ Pull(w)
  <2>1. /\ pc[w] = "modify" /\ pc' = [pc EXCEPT ![w] = "open"]
        /\ UNCHANGED <<names, blind>>
    BY <1>2 DEF Push, Pull, Goto
  <2>2. PICK new \in Seq(Entry) : seen' = [seen EXCEPT ![w] = new] /\ Updated(new, seen[w])
    <3>0. seen[w] \in Seq(Entry)
      BY DEF JournalTypeOK
    <3>1. CASE Push(w)
      <4>1. PICK e \in Entry : seen' = [seen EXCEPT ![w] = Append(@, e)]
        BY <3>1 DEF Push
      <4>2. Append(seen[w], e) \in Seq(Entry)
        BY <3>0
      <4> QED
        BY <4>1, <4>2 DEF Updated
    <3>2. CASE Pull(w)
      <4>1. PICK i \in 1..Len(seen[w]) : seen' = [seen EXCEPT ![w] = RemoveAt(@, i)]
        BY <3>2 DEF Pull
      <4>2. RemoveAt(seen[w], i) \in Seq(Entry)
        BY <3>0, RemoveAtType
      <4> QED
        BY <4>1, <4>2 DEF Updated, Removals
    <3> QED
      BY <1>2, <3>1, <3>2
  <2>3. Journal' = Journal
    BY <1>0, <2>1 DEF Journal, names
  <2>4. JournalTypeOK'
    BY <1>0, <2>1, <2>2 DEF JournalTypeOK, names
  <2> QED
    BY <1>0, <2>1, <2>2, <2>3, <2>4
    DEF JournalTypeOK, OneCycle, SeenIsCurrent, TmpIsOurs, names
<1>3. CASE SetAsideFails(w)
  <2>1. /\ pc' = [pc EXCEPT ![w] = "modify"] /\ seen' = seen
        /\ blind' = blind \cup {w} /\ UNCHANGED names
    BY <1>3 DEF SetAsideFails, Goto
  <2>2. Journal' = Journal
    BY <1>0, <2>1 DEF Journal, names
  <2> QED
    BY <1>0, <2>1, <2>2 DEF JournalTypeOK, OneCycle, SeenIsCurrent, TmpIsOurs, names
<1> QED
  BY <1>1, <1>2, <1>3

LEMMA OpenInv ==
    ASSUME JournalInv, NEW w \in Writer, Open(w)
    PROVE  JournalInv'
<1> USE DEF JournalInv
<1>0. /\ pc[w] = "open" /\ pc' = [pc EXCEPT ![w] = "write"]
      /\ \A v \in Writer \ {w} : pc[v] = "idle"
      /\ UNCHANGED <<target, corrupt, seen, blind, updates, faults>>
  BY Others DEF Open, Goto
<1>1. PICK i \in Inode : /\ IF tmp = NoInode THEN Unused(i) ELSE i = tmp
                         /\ tmp' = i /\ fd' = [fd EXCEPT ![w] = i]
                         /\ content' = [content EXCEPT ![i] = Bad("empty")]
  BY <1>0 DEF Open, Truncated
<1>2. i # NoInode /\ i # target /\ i # corrupt
  BY <1>1, JournalAssumption DEF Unused, JournalTypeOK
<1>3. Journal' = Journal
  BY <1>0, <1>1, <1>2, SameJournal DEF JournalTypeOK
<1>4. JournalTypeOK'
  BY <1>0, <1>1, <1>2, BadContent DEF JournalTypeOK
<1> QED
  BY <1>0, <1>1, <1>2, <1>3, <1>4 DEF JournalTypeOK, OneCycle, SeenIsCurrent, TmpIsOurs

LEMMA WriteInv ==
    ASSUME JournalInv, NEW w \in Writer, Write(w)
    PROVE  JournalInv'
<1> USE DEF JournalInv
<1>0. /\ pc[w] = "write" /\ pc' = [pc EXCEPT ![w] = "rename"]
      /\ \A v \in Writer \ {w} : pc[v] = "idle"
      /\ UNCHANGED <<names, seen, blind, updates, faults>> /\ fd' = [fd EXCEPT ![w] = NoInode]
  BY Others DEF Write, Goto
<1>1. fd[w] = tmp /\ tmp \in Inode /\ tmp # NoInode /\ content[tmp] = Bad("empty")
  BY <1>0 DEF TmpIsOurs, JournalTypeOK
<1>2. content' = [content EXCEPT ![tmp] = Json(seen[w])] /\ Json(seen[w]) \in Content
  BY <1>0, <1>1, OverEmpty, JsonContent DEF Write, JournalTypeOK
<1>3. Journal' = Journal
  BY <1>0, <1>1, <1>2, SameJournal DEF JournalTypeOK, names
<1>4. JournalTypeOK'
  BY <1>0, <1>1, <1>2 DEF JournalTypeOK, names
<1> QED
  BY <1>0, <1>1, <1>2, <1>3, <1>4
  DEF JournalTypeOK, OneCycle, SeenIsCurrent, TmpIsOurs, names

LEMMA EndInv ==
    ASSUME JournalInv, NEW w \in Writer,
           Leave(w) \/ Rename(w) \/ Fail(w) \/ WriteCut(w) \/ RenameFails(w)
    PROVE  JournalInv'
<1> USE DEF JournalInv, JournalTypeOK
<1>1. CASE Leave(w)
  BY <1>1, StopInv DEF Leave, names
<1>2. CASE Rename(w)
  BY <1>2, StopInv DEF Rename
<1>3. faults < MaxFaults /\ faults' = faults + 1 => faults' \in 0..MaxFaults
  BY JournalAssumption
<1>4. CASE Fail(w)
  BY <1>3, <1>4, StopInv DEF Fail, names
<1>5. CASE WriteCut(w)
  <2>1. content' \in [Inode -> Content]
    BY <1>5, BadContent DEF WriteCut
  <2> QED
    BY <1>3, <1>5, <2>1, StopInv DEF WriteCut, names
<1>6. CASE RenameFails(w)
  BY <1>3, <1>6, StopInv DEF RenameFails
<1> QED
  BY <1>1, <1>2, <1>4, <1>5, <1>6

LEMMA DamageInv ==
    ASSUME JournalInv, Damage
    PROVE  JournalInv'
<1> USE DEF JournalInv
<1>1. content' \in [Inode -> Content]
  BY DEF Damage, Content, JournalTypeOK
<1>2. /\ \A w \in Writer : pc[w] = "idle"
      /\ UNCHANGED <<names, pc, seen, fd, blind, updates>> /\ faults' \in 0..MaxFaults
  BY JournalAssumption DEF Damage, JournalTypeOK
<1> QED
  BY <1>1, <1>2 DEF JournalTypeOK, OneCycle, SeenIsCurrent, TmpIsOurs, names

LEMMA JournalStep == JournalInv /\ [Next]_vars => JournalInv'
<1> SUFFICES ASSUME JournalInv, [Next]_vars PROVE JournalInv'
  OBVIOUS
<1>1. CASE UNCHANGED vars
  BY <1>1 DEF vars, names, JournalInv, JournalTypeOK, OneCycle, SeenIsCurrent, TmpIsOurs, Journal
<1>2. CASE Next
  BY <1>2, BeginInv, UpdateInv, OpenInv, WriteInv, EndInv, DamageInv DEF Next, Step
<1> QED
  BY <1>1, <1>2

LEMMA JournalInvariant == Spec => []JournalInv
  BY JournalInit, JournalStep, PTL DEF Spec

\* Every variable keeps its type, and no two names lead to one inode.
THEOREM JournalTypeCorrect == Spec => []JournalTypeOK
<1>1. JournalInv => JournalTypeOK
  BY DEF JournalInv
<1> QED
  BY <1>1, JournalInvariant, PTL

-----------------------------------------------------------------------------
(* What a step does to the journal.                                        *)

\* Only three kinds of step change what a reader finds, or where it looks.
LEMMA JournalChanges ==
    ASSUME JournalInv, [Next]_vars
    PROVE  \/ Journal' = Journal /\ target' = target
           \/ \E w \in Writer : SetAside(w) \/ Rename(w)
           \/ Damage
<1>1. CASE UNCHANGED vars
  BY <1>1 DEF vars, names, Journal
<1>2. ASSUME NEW w \in Writer, Begin(w) PROVE Journal' = Journal /\ target' = target
  BY <1>2 DEF Begin, Read, ReadUnparsable, ReadUnreadable, ReadFails, names, Journal
<1>3. ASSUME NEW w \in Writer,
             SetAsideFails(w) \/ Push(w) \/ Pull(w) \/ Leave(w) \/ Fail(w)
      PROVE  Journal' = Journal /\ target' = target
  BY <1>3 DEF SetAsideFails, Push, Pull, Leave, Fail, names, Journal
<1>4. ASSUME NEW w \in Writer, RenameFails(w)
      PROVE  Journal' = Journal /\ target' = target
  BY <1>4 DEF RenameFails, Journal
<1>5. ASSUME NEW w \in Writer, Open(w)
      PROVE  Journal' = Journal /\ target' = target
  <2>1. PICK i \in Inode : /\ IF tmp = NoInode THEN Unused(i) ELSE i = tmp
                           /\ content' = [content EXCEPT ![i] = Truncated(@)]
    BY <1>5 DEF Open
  <2>2. i # target
    BY <2>1, JournalAssumption DEF Unused, JournalInv, JournalTypeOK
  <2> QED
    BY <1>5, <2>1, <2>2, SameJournal DEF Open, JournalInv, JournalTypeOK
<1>6. ASSUME NEW w \in Writer, Write(w) \/ WriteCut(w)
      PROVE  Journal' = Journal /\ target' = target
  <2>1. fd[w] = tmp /\ tmp # NoInode /\ target' = target
    BY <1>6 DEF Write, WriteCut, names, JournalInv, TmpIsOurs
  <2>2. target # NoInode => content'[target] = content[target]
    BY <1>6, <2>1 DEF Write, WriteCut, JournalInv, JournalTypeOK
  <2> QED
    BY <2>1, <2>2, SameJournal
<1> QED
  BY <1>1, <1>2, <1>3, <1>4, <1>5, <1>6 DEF Next, Step

\* The list a rename puts in place.
LEMMA RenameInstalls ==
    ASSUME JournalInv, NEW w \in Writer, Rename(w)
    PROVE  /\ Journal' = Json(seen[w])
           /\ \/ BlindSave \/ Journal.kind = "bytes"
              \/ Journal.kind = "json" /\ Updated(seen[w], Journal.list)
<1>1. target' = tmp /\ tmp # NoInode /\ content' = content /\ content[tmp] = Json(seen[w])
  BY DEF Rename, JournalInv, TmpIsOurs
<1> QED
  BY <1>1 DEF Rename, Journal, JournalInv, SeenIsCurrent, BlindSave

LEMMA SetAsideEmpties ==
    ASSUME JournalInv, NEW w \in Writer, SetAside(w)
    PROVE  /\ Journal.kind \in {"empty", "text"}
           /\ Journal' = Json(<<>>) /\ corrupt' = target
<1>1. Journal.kind \in {"empty", "text"}
  BY DEF SetAside, JournalInv, SeenIsCurrent
<1>2. target # NoInode
  BY <1>1 DEF Journal, Json
<1> QED
  BY <1>1, <1>2 DEF SetAside, Journal

LEMMA JsonIsGood == \A list : Json(list) \notin Damaged
  BY DEF Json, Damaged, Bad

\* No step of a writer turns a good journal into a damaged one, wherever it fails.
THEOREM JournalNeverTorn == Spec => NeverTorn
<1>1. JournalInv /\ [Next]_vars
        => [Journal' \in Damaged => (Journal' = Journal \/ Damage)]_vars
  BY JournalChanges, RenameInstalls, SetAsideEmpties, JsonIsGood
<1> QED
  BY <1>1, JournalInvariant, PTL DEF Spec, NeverTorn

\* A good journal changes by one session recorded or one removed, whatever failed
\* before and whatever an earlier writer left in the temporary file, unless the
\* update that replaces it was itself refused a look at it.
THEOREM JournalNoLostUpdate == Spec => NoLostUpdate
<1> DEFINE A == Journal \notin Damaged /\ Journal' \notin Damaged /\ Journal' # Journal =>
                  \/ \E e \in Entry : Journal'.list = Append(Journal.list, e)
                  \/ Journal'.list \in Removals(Journal.list)
                  \/ BlindSave
<1>1. JournalInv /\ [Next]_vars => [A]_vars
  <2> SUFFICES ASSUME JournalInv, [Next]_vars, Journal \notin Damaged,
                      Journal' \notin Damaged, Journal' # Journal
               PROVE  \/ \E e \in Entry : Journal'.list = Append(Journal.list, e)
                      \/ Journal'.list \in Removals(Journal.list)
                      \/ BlindSave
    OBVIOUS
  <2>0. Journal.kind = "json"
    BY JournalContent, ContentKinds DEF JournalInv
  <2>1. CASE Damage
    <3>1. PICK d \in Damaged : content' = [content EXCEPT ![target] = d]
      BY <2>1 DEF Damage
    <3>2. Journal' = d
      BY <2>1, <3>1 DEF Damage, Journal, names, JournalInv, JournalTypeOK
    <3> QED
      BY <3>2
  <2>2. ASSUME NEW w \in Writer, SetAside(w) PROVE FALSE
    BY <2>0, <2>2, SetAsideEmpties
  <2>3. ASSUME NEW w \in Writer, Rename(w)
        PROVE  \/ \E e \in Entry : Journal'.list = Append(Journal.list, e)
               \/ Journal'.list \in Removals(Journal.list)
               \/ BlindSave
    <3>1. BlindSave \/ (Journal'.list = seen[w] /\ Updated(seen[w], Journal.list))
      BY <2>0, <2>3, RenameInstalls DEF Json
    <3> QED
      BY <3>1 DEF Updated
  <2> QED
    BY <2>1, <2>2, <2>3, JournalChanges
<1> QED
  BY <1>1, JournalInvariant, PTL DEF Spec, NoLostUpdate

\* A journal that does not parse is replaced only with the damaged file left at
\* sessions.json.corrupt, or by an update whose own rename or read was refused.
THEOREM JournalUnparsableKept == Spec => UnparsableKept
<1>1. JournalInv /\ [Next]_vars
        => [(Journal.kind \in {"empty", "text"} /\ target' # target)
              => (corrupt' = target \/ BlindSave)]_vars
  <2>1. Damage => target' = target
    BY DEF Damage, names
  <2> QED
    BY <2>1, JournalChanges, RenameInstalls, SetAsideEmpties
<1> QED
  BY <1>1, JournalInvariant, PTL DEF Spec, UnparsableKept
=============================================================================
