----------------------------- MODULE JournalFile -----------------------------
(***************************************************************************)
(* sessions.json on disk: read_sessions and write_sessions of              *)
(* daemon/cleanup.rs over write_atomic of remediation/atomic_write.rs.     *)
(* Writers name the same temporary file; names lead to inodes, so a writer *)
(* keeps writing the inode it opened wherever that has been renamed to.    *)
(***************************************************************************)
EXTENDS Naturals, SequencesExt

CONSTANTS
    Writer,     \* processes that record and restore sessions
    Entry,      \* sessions
    Inode,
    NoInode,    \* a name that leads nowhere
    MaxUpdates, \* bound on the read-modify-write cycles begun
    MaxFaults   \* bound on crashes, failed calls and damage from outside

ASSUME JournalAssumption ==
    /\ NoInode \notin Inode
    /\ MaxUpdates \in Nat /\ MaxFaults \in Nat

VARIABLES
    content,    \* what each inode holds
    target,     \* sessions.json
    tmp,        \* .sessions.json.animoria-tmp
    corrupt,    \* sessions.json.corrupt
    pc,
    seen,       \* the sessions each writer works on
    fd,         \* the inode each writer has open
    blind,      \* history: writers whose own read or set-aside was refused in this update
    updates, faults

\* What a file holds: a list of sessions as JSON, nothing, other text, other bytes.
Json(list) == [kind |-> "json", list |-> list]
Bad(kind) == [kind |-> kind, list |-> <<>>]
Damaged == {Bad(k) : k \in {"empty", "text", "bytes"}}
Content == [kind : {"json"}, list : Seq(Entry)] \cup Damaged

names == <<target, tmp, corrupt>>
vars == <<content, names, pc, seen, fd, blind, updates, faults>>

JournalTypeOK ==
    /\ content \in [Inode -> Content]
    /\ target \in Inode \cup {NoInode}
    /\ tmp \in Inode \cup {NoInode}
    /\ corrupt \in Inode \cup {NoInode}
    /\ target # NoInode => target \notin {tmp, corrupt}
    /\ tmp # NoInode => tmp # corrupt
    /\ pc \in [Writer -> {"idle", "setAside", "modify", "open", "write", "rename"}]
    /\ seen \in [Writer -> Seq(Entry)]
    /\ fd \in [Writer -> Inode \cup {NoInode}]
    /\ blind \subseteq Writer
    /\ updates \in 0..MaxUpdates /\ faults \in 0..MaxFaults

Init ==
    /\ content = [i \in Inode |-> Bad("empty")]
    /\ target = NoInode /\ tmp = NoInode /\ corrupt = NoInode
    /\ pc = [w \in Writer |-> "idle"]
    /\ seen = [w \in Writer |-> <<>>] /\ fd = [w \in Writer |-> NoInode]
    /\ blind = {} /\ updates = 0 /\ faults = 0

Goto(w, l) == pc' = [pc EXCEPT ![w] = l]

Stop(w) ==
    /\ Goto(w, "idle")
    /\ seen' = [seen EXCEPT ![w] = <<>>] /\ fd' = [fd EXCEPT ![w] = NoInode]
    /\ blind' = blind \ {w}

\* The journal as a reader finds it.
Journal == IF target = NoInode THEN Json(<<>>) ELSE content[target]

-----------------------------------------------------------------------------
(* read_sessions                                                           *)

Read(w) ==
    /\ pc[w] = "idle" /\ updates < MaxUpdates
    /\ updates' = updates + 1
    /\ Journal \notin Damaged
    /\ seen' = [seen EXCEPT ![w] = Journal.list]
    /\ Goto(w, "modify")
    /\ UNCHANGED <<content, names, fd, blind, faults>>

\* Mutant: the journal is taken for empty and left where it is.
ReadUnparsableInPlace(w) ==
    /\ pc[w] = "idle" /\ updates < MaxUpdates
    /\ updates' = updates + 1
    /\ Journal.kind \in {"empty", "text"}
    /\ Goto(w, "modify")
    /\ UNCHANGED <<content, names, seen, fd, blind, faults>>

\* Text that is no JSON: rename the journal away and go on with no sessions.
ReadUnparsable(w) ==
    /\ pc[w] = "idle" /\ updates < MaxUpdates
    /\ updates' = updates + 1
    /\ Journal.kind \in {"empty", "text"}
    /\ Goto(w, "setAside")
    /\ UNCHANGED <<content, names, seen, fd, blind, faults>>

SetAside(w) ==
    /\ pc[w] = "setAside"
    /\ IF target = NoInode THEN UNCHANGED names
       ELSE /\ corrupt' = target /\ target' = NoInode
            /\ UNCHANGED tmp
    /\ Goto(w, "modify")
    /\ UNCHANGED <<content, seen, fd, blind, updates, faults>>

\* The rename is refused, and nobody looks: go on with no sessions all the same.
SetAsideFails(w) ==
    /\ pc[w] = "setAside" /\ faults < MaxFaults
    /\ faults' = faults + 1
    /\ blind' = blind \cup {w}
    /\ Goto(w, "modify")
    /\ UNCHANGED <<content, names, seen, fd, updates>>

\* Bytes that are no UTF-8: go on with no sessions.
ReadUnreadable(w) ==
    /\ pc[w] = "idle" /\ updates < MaxUpdates
    /\ updates' = updates + 1
    /\ Journal.kind = "bytes"
    /\ Goto(w, "modify")
    /\ UNCHANGED <<content, names, seen, fd, blind, faults>>

\* The file is there and the read fails: go on with no sessions.
ReadFails(w) ==
    /\ pc[w] = "idle" /\ updates < MaxUpdates
    /\ target # NoInode /\ faults < MaxFaults
    /\ updates' = updates + 1 /\ faults' = faults + 1
    /\ blind' = blind \cup {w}
    /\ Goto(w, "modify")
    /\ UNCHANGED <<content, names, seen, fd>>

-----------------------------------------------------------------------------
(* record_trash_session pushes a session, restore_session removes one.     *)

Push(w) ==
    /\ pc[w] = "modify"
    /\ \E e \in Entry : seen' = [seen EXCEPT ![w] = Append(@, e)]
    /\ Goto(w, "open")
    /\ UNCHANGED <<content, names, fd, blind, updates, faults>>

Pull(w) ==
    /\ pc[w] = "modify"
    /\ \E i \in 1..Len(seen[w]) :
         seen' = [seen EXCEPT ![w] = RemoveAt(@, i)]
    /\ Goto(w, "open")
    /\ UNCHANGED <<content, names, fd, blind, updates, faults>>

\* restore_session finds no such session, or an item refuses to come back.
Leave(w) ==
    /\ pc[w] = "modify"
    /\ Stop(w)
    /\ UNCHANGED <<content, names, updates, faults>>

-----------------------------------------------------------------------------
(* write_atomic: fs::write creates or truncates the temporary file and     *)
(* fills it from the start, then the file is renamed over the journal.     *)

\* Mutant: the temporary file is opened without being emptied.
NotTruncated(old) == old

Truncated(old) == Bad("empty")

Unused(i) == i \notin {target, tmp, corrupt} /\ \A w \in Writer : fd[w] # i

Open(w) ==
    /\ pc[w] = "open"
    /\ \E i \in Inode :
         /\ IF tmp = NoInode THEN Unused(i) ELSE i = tmp
         /\ tmp' = i
         /\ fd' = [fd EXCEPT ![w] = i]
         /\ content' = [content EXCEPT ![i] = Truncated(@)]
    /\ Goto(w, "write")
    /\ UNCHANGED <<target, corrupt, seen, blind, updates, faults>>

\* Bytes written from the start of a file over what it already holds.
Over(new, old) ==
    IF old.kind \in {"text", "bytes"} \/ Len(old.list) > Len(new) THEN Bad("text") ELSE Json(new)

Write(w) ==
    /\ pc[w] = "write"
    /\ content' = [content EXCEPT ![fd[w]] = Over(seen[w], @)]
    /\ fd' = [fd EXCEPT ![w] = NoInode]
    /\ Goto(w, "rename")
    /\ UNCHANGED <<names, seen, blind, updates, faults>>

\* Mutant: the new journal is linked in place and the temporary name stays.
RenameKeepsTmp(w) ==
    /\ pc[w] = "rename" /\ tmp # NoInode
    /\ target' = tmp
    /\ Stop(w)
    /\ UNCHANGED <<content, tmp, corrupt, updates, faults>>

Rename(w) ==
    /\ pc[w] = "rename" /\ tmp # NoInode
    /\ target' = tmp /\ tmp' = NoInode
    /\ Stop(w)
    /\ UNCHANGED <<content, corrupt, updates, faults>>

\* Another writer renamed the temporary file away: the error is reported.
RenameMissing(w) ==
    /\ pc[w] = "rename" /\ tmp = NoInode
    /\ Stop(w)
    /\ UNCHANGED <<content, names, updates, faults>>

-----------------------------------------------------------------------------
\* The process dies, or creating or filling the temporary file fails.
Fail(w) ==
    /\ pc[w] # "idle" /\ faults < MaxFaults
    /\ faults' = faults + 1
    /\ Stop(w)
    /\ UNCHANGED <<content, names, updates>>

\* The write stops half-way (a full disk): the temporary file stays behind.
WriteCut(w) ==
    /\ pc[w] = "write" /\ faults < MaxFaults
    /\ faults' = faults + 1
    /\ content' = [content EXCEPT ![fd[w]] = Bad("text")]
    /\ Stop(w)
    /\ UNCHANGED <<names, updates>>

\* The rename is refused: the temporary file is removed.
RenameFails(w) ==
    /\ pc[w] = "rename" /\ faults < MaxFaults
    /\ faults' = faults + 1
    /\ tmp' = NoInode
    /\ Stop(w)
    /\ UNCHANGED <<content, target, corrupt, updates>>

\* Something else than Animoria damages the journal in place.
Damage ==
    /\ \A w \in Writer : pc[w] = "idle"
    /\ target # NoInode /\ Journal \notin Damaged /\ faults < MaxFaults
    /\ faults' = faults + 1
    /\ \E d \in Damaged : content' = [content EXCEPT ![target] = d]
    /\ UNCHANGED <<names, pc, seen, fd, blind, updates>>

-----------------------------------------------------------------------------
Begin(w) == Read(w) \/ ReadUnparsable(w) \/ ReadUnreadable(w) \/ ReadFails(w)

Step(w) ==
    \/ SetAside(w) \/ SetAsideFails(w) \/ Push(w) \/ Pull(w) \/ Leave(w)
    \/ Open(w) \/ Write(w) \/ Rename(w)
    \/ Fail(w) \/ WriteCut(w) \/ RenameFails(w)

\* Mutant: requests are served before the previous one has ended.
NotQuiet(w) == TRUE

Quiet(w) == \A v \in Writer \ {w} : pc[v] = "idle"

\* One read-modify-write cycle at a time.
Next ==
    \/ \E w \in Writer : Quiet(w) /\ Begin(w)
    \/ \E w \in Writer : Step(w)
    \/ Damage

\* Two processes interleave, and nothing else touches the journal.
RacyNext == \E w \in Writer : Begin(w) \/ Step(w) \/ RenameMissing(w)

Spec == Init /\ [][Next]_vars
RacySpec == Init /\ [][RacyNext]_vars

-----------------------------------------------------------------------------
(* Properties.                                                             *)

\* No step of a writer, and no writer that stops between two steps, turns a good
\* journal into a damaged one.  (write_atomic: never empty or half-written)
NeverTorn ==
    [][Journal' \in Damaged => (Journal' = Journal \/ Damage)]_vars

Removals(list) ==
    {RemoveAt(list, i) : i \in 1..Len(list)}

\* The save of a writer that the file system had refused a look at the journal, or
\* the rename that was to set it aside: read_sessions hides both errors.
BlindSave == \E w \in blind : Rename(w)

\* A good journal changes by one session recorded or one removed, whatever failed
\* before, unless the very update that replaces it could not read it: what an
\* earlier update missed, damaged or left behind never costs a later one a session.
\* (record_trash_session, restore_session)
NoLostUpdate ==
    [][Journal \notin Damaged /\ Journal' \notin Damaged /\ Journal' # Journal =>
          \/ \E e \in Entry : Journal'.list = Append(Journal.list, e)
          \/ Journal'.list \in Removals(Journal.list)
          \/ BlindSave]_vars

\* A journal that does not parse is replaced only with the damaged file left at
\* sessions.json.corrupt, or by an update whose own rename to that name, or read,
\* was refused and whose error read_sessions drops.
UnparsableKept ==
    [][(Journal.kind \in {"empty", "text"} /\ target' # target)
          => (corrupt' = target \/ BlindSave)]_vars

\* "Keep the unreadable journal for manual recovery; the next write would
\* overwrite it."  (cleanup.rs, the comment in read_sessions)
UnreadableKept ==
    [][(Journal \in Damaged /\ target' # target) => (corrupt' = target)]_vars

\* "two simultaneous writers can lose an update (never corrupt the file)"
\* (cleanup.rs, the comment on write_sessions)
NeverCorrupt == Journal \notin Damaged
=============================================================================
