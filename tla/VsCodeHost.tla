----------------------------- MODULE VsCodeHost -----------------------------
(***************************************************************************)
(* The VS Code extension over one workspace folder: its daemon client      *)
(* (daemon-client.ts: request ids, timeouts, the exit handler), its scan   *)
(* loop and file watcher (extension.ts), the panel's bridge that runs      *)
(* cleanups, resolutions and restores one awaited request at a time        *)
(* (vscode-host-bridge.ts), and the panel that releases its controls when  *)
(* an answer comes back.  The daemon is the part of DaemonServer these     *)
(* requests reach; it may be slow, stuck or killed at any point.           *)
(***************************************************************************)
EXTENDS Integers, FiniteSetsExt, SequencesExt

CONSTANTS
  Assets,               \* paths under the folder, byte-identical when there
  Watched,              \* those of an extension in WATCHED_EXTENSIONS
  Commands,             \* the commands the user gives in this instance
  None,                 \* no plan on the panel, no kept copy
  MaxActs, MaxFaults    \* bounds: user acts; kills and window reloads

ASSUME HostAssumption ==
  /\ None \notin Assets \cup Nat
  /\ IsFiniteSet(Assets) /\ Watched \subseteq Assets
  /\ {MaxActs, MaxFaults} \subseteq Nat

VARIABLES
  there, trash,         \* assets on disk; items in .animoria/trash
  process, scanned,     \* the daemon's process; it has an index of the folder
  inbox, outbox,        \* its stdin and stdout
  pending, settled,     \* requests without an answer; answers not yet awaited
  isScanning, scanPending,            \* extension.ts
  timer, watching,      \* the watcher's debounce; there is a watcher
  analysis, scanFailed, \* assets of the last good scan; the last scan failed
  plans, panel, jobs,   \* the bridge's plans, the panel, handlers under way
  sessions,             \* trash sessions in the memento
  lost,                 \* items trashed for a handler that never heard of it
  missed,               \* changed with no watcher on it since a scan read the disk
  issued,               \* ids given to plans, handlers and sessions
  acts, faults          \* user acts; kills and reloads

disk   == <<there, trash>>
daemon == <<process, scanned, inbox, outbox>>
client == <<pending, settled>>
scans  == <<isScanning, scanPending>>
result == <<analysis, scanFailed>>
bridge == <<plans, panel, jobs, sessions>>
watcher == <<watching, missed>>
count  == <<acts, faults>>
vars   == <<disk, daemon, client, scans, timer, watcher, result, bridge, lost, issued, count>>

Kinds == {"cleanup", "resolution"}
EmptyPanel == [applying |-> FALSE, restoring |-> FALSE, shown |-> [k \in Kinds |-> None]]

-----------------------------------------------------------------------------
(* The client.  A request spawns the process when there is none; written   *)
(* to a process that has gone but whose exit is not known yet, it is lost. *)
\* Who awaits the answer: the scan loop, a command, or a handler of the bridge.
\* It has one request out at most, so this stands for the request's id, and a
\* line with an id that is not pending any more is one that comes late.
By(who, job) == [who |-> who, job |-> job]
Request(op, arg, by) == [op |-> op, arg |-> arg, by |-> by, late |-> FALSE]

Send(op, arg, by) ==
  LET r == Request(op, arg, by)
  IN  /\ pending' = Append(pending, by)
      /\ process' = IF process = "none" THEN "up" ELSE process
      /\ scanned' = (process # "none" /\ scanned)
      /\ inbox' = IF process = "gone" THEN inbox ELSE Append(inbox, r)
      /\ UNCHANGED outbox

SendNothing == UNCHANGED <<daemon, pending>>

Reply(r, ok, value) == [op |-> r.op, by |-> r.by, late |-> r.late, ok |-> ok, value |-> value]
Answer(by, ok, value) == [by |-> by, ok |-> ok, value |-> value]
Failure(by) == Answer(by, FALSE, {})

\* Settling a promise runs its continuation before the next event; what the
\* daemon does meanwhile it may as well do before or after.
AtRest == settled = <<>> /\ \A j \in jobs : j.waiting

Settle(i, answer) ==
  /\ pending' = RemoveAt(pending, i)
  /\ settled' = <<answer>>

Items(seq) == {seq[i] : i \in DOMAIN seq}
TrashedIn(replies) ==
  {replies[i].value : i \in {k \in DOMAIN replies : replies[k].op = "trash" /\ replies[k].ok}}

\* handleLine: an answer nobody waits for is dropped.
Deliver ==
  /\ AtRest /\ outbox # <<>>
  /\ outbox' = Tail(outbox)
  /\ LET reply == Head(outbox)
     IN  IF reply.late
         THEN /\ lost' = lost \cup TrashedIn(<<reply>>)
              /\ UNCHANGED client
         ELSE /\ \E i \in DOMAIN pending :
                    /\ pending[i] = reply.by
                    /\ Settle(i, Answer(reply.by, reply.ok, reply.value))
              /\ UNCHANGED lost
  /\ UNCHANGED <<disk, process, scanned, inbox, scans, timer, watcher, result, bridge, issued, count>>

Abandoned(lines, by) ==
  [i \in DOMAIN lines |-> [lines[i] EXCEPT !.late = @ \/ lines[i].by = by]]

Timeout ==
  /\ AtRest
  /\ \E i \in DOMAIN pending :
        /\ Settle(i, Failure(pending[i]))
        /\ inbox' = Abandoned(inbox, pending[i])
        /\ outbox' = Abandoned(outbox, pending[i])
  /\ UNCHANGED <<disk, process, scanned, scans, timer, watcher, result, bridge, lost, issued, count>>

\* The exit handler: reject what is pending, forget the process and its stdout.
ExitEvent ==
  /\ AtRest /\ process = "gone"
  /\ settled' = [i \in DOMAIN pending |-> Failure(pending[i])]
  /\ pending' = <<>>
  /\ process' = "none" /\ outbox' = <<>>
  /\ lost' = lost \cup TrashedIn(outbox)
  /\ UNCHANGED <<disk, scanned, inbox, scans, timer, watcher, result, bridge, issued, count>>

-----------------------------------------------------------------------------
(* The daemon, one request at a time (DaemonServer, Trash).                *)
Item(a, r) == [asset |-> a, by |-> r.by]

\* The watcher sees a file go, come or change, if there is one and it looks
\* at files of that extension.
Report(a) ==
  IF watching /\ a \in Watched
  THEN timer' = TRUE /\ UNCHANGED missed
  ELSE missed' = missed \cup {a} /\ UNCHANGED timer

Move(a, there2, trash2) ==
  /\ there' = there2 /\ trash' = trash2
  /\ Report(a)

Serves(r) ==
  CASE r.op = "scan" ->
         /\ scanned' = TRUE
         /\ outbox' = Append(outbox, Reply(r, TRUE, there))
         /\ missed' = {}
         /\ UNCHANGED <<disk, timer>>
    [] r.op = "plan" ->
         /\ outbox' = Append(outbox, Reply(r, TRUE, r.arg))
         /\ UNCHANGED <<disk, timer, missed, scanned>>
    [] r.op = "trash" /\ scanned /\ r.arg \in there ->
         /\ Move(r.arg, there \ {r.arg}, trash \cup {Item(r.arg, r)})
         /\ outbox' = Append(outbox, Reply(r, TRUE, Item(r.arg, r)))
         /\ UNCHANGED scanned
    [] r.op = "restore" /\ r.arg \in trash /\ r.arg.asset \notin there ->
         /\ Move(r.arg.asset, there \cup {r.arg.asset}, trash \ {r.arg})
         /\ outbox' = Append(outbox, Reply(r, TRUE, r.arg))
         /\ UNCHANGED scanned
    [] OTHER ->
         /\ outbox' = Append(outbox, Reply(r, FALSE, {}))
         /\ UNCHANGED <<disk, timer, missed, scanned>>

Serve ==
  /\ AtRest /\ process = "up" /\ inbox # <<>>
  /\ Serves(Head(inbox))
  /\ inbox' = Tail(inbox)
  /\ UNCHANGED <<process, client, scans, watching, result, bridge, lost, issued, count>>

Kill ==
  /\ AtRest /\ process = "up" /\ faults < MaxFaults
  /\ process' = "gone" /\ inbox' = <<>> /\ scanned' = FALSE
  /\ faults' = faults + 1
  /\ UNCHANGED <<disk, outbox, client, scans, timer, watcher, result, bridge, lost, issued, acts>>

-----------------------------------------------------------------------------
(* extension.ts: one scan at a time, and one more when asked meanwhile.    *)
ScanWorkspaceAtOnce ==   \* a bug: no lock
  /\ isScanning' = TRUE /\ scanPending' = FALSE
  /\ Send("scan", None, By("scan", 0))

ScanWorkspace ==
  IF isScanning
  THEN /\ scanPending' = TRUE
       /\ SendNothing /\ UNCHANGED isScanning
  ELSE /\ isScanning' = TRUE /\ scanPending' = FALSE
       /\ Send("scan", None, By("scan", 0))

TimerFires ==
  /\ AtRest /\ timer
  /\ timer' = FALSE
  /\ ScanWorkspace
  /\ UNCHANGED <<disk, settled, watcher, result, bridge, lost, issued, count>>

ScanReturnsOnce(s) ==   \* a bug: what was asked meanwhile is dropped
  /\ analysis' = IF s.ok THEN s.value ELSE analysis
  /\ scanFailed' = ~s.ok
  /\ scanPending' = FALSE /\ isScanning' = FALSE /\ watching' = TRUE
  /\ SendNothing
  /\ UNCHANGED bridge

\* performScanWorkspace returns: a good scan replaces the analysis, a failed
\* one leaves it; the loop of scanWorkspace goes round if it was asked to.
\* activate makes the watcher when its own scan, the first, has ended.
ScanReturns(s) ==
  /\ analysis' = IF s.ok THEN s.value ELSE analysis
  /\ scanFailed' = ~s.ok
  /\ scanPending' = FALSE
  /\ IF scanPending
     THEN Send("scan", None, By("scan", 0)) /\ UNCHANGED <<isScanning, watching>>
     ELSE SendNothing /\ isScanning' = FALSE /\ watching' = TRUE
  /\ UNCHANGED bridge

-----------------------------------------------------------------------------
(* The bridge: plans, and handlers that await one request per file.        *)
Shown(kind, id) == [panel EXCEPT !.shown[kind] = id]
Released == [panel EXCEPT !.applying = FALSE, !.restoring = FALSE]   \* an error message

\* The answer of remediate_plan, which the group the request carries decides.
PlanArrives(s) ==
  /\ IF s.ok
     THEN /\ plans' = plans \cup {[id |-> s.by.job, kind |-> "resolution",
                  keep |-> s.value.keep, targets |-> s.value.targets, refusals |-> {}]}
          /\ panel' = Shown("resolution", s.by.job)
     ELSE /\ panel' = Released
          /\ UNCHANGED plans
  /\ SendNothing
  /\ UNCHANGED <<scans, watching, result, jobs, sessions>>

AdvancedUncaught(j, s) ==   \* a bug: a rejected request is not caught
  IF s.ok THEN [j EXCEPT !.waiting = FALSE, !.done = Append(@, s.value), !.todo = Tail(@)]
  ELSE j

\* One file answered: a removal stops at the first failure unless partial, a
\* restore goes on with the next.
Advanced(j, s) ==
  [j EXCEPT !.waiting = FALSE,
            !.done = IF s.ok THEN Append(@, s.value) ELSE @,
            !.todo = IF s.ok \/ j.kind = "restore" \/ j.partial THEN Tail(@) ELSE <<>>]

JobAdvances(s) ==
  /\ jobs' = {IF j.id = s.by.job THEN Advanced(j, s) ELSE j : j \in jobs}
  /\ SendNothing
  /\ UNCHANGED <<scans, watching, result, plans, panel, sessions>>

\* The deleteAsset command: rescan, or an error popup.
DeleteReturns(s) ==
  /\ IF s.ok THEN ScanWorkspace ELSE SendNothing /\ UNCHANGED scans
  /\ UNCHANGED <<watching, result, bridge>>

Resume ==
  /\ settled # <<>>
  /\ LET s == Head(settled)
     IN  CASE s.by.who = "scan"   -> ScanReturns(s)
           [] s.by.who = "plan"   -> PlanArrives(s)
           [] s.by.who = "delete" -> DeleteReturns(s)
           [] s.by.who = "job"    -> JobAdvances(s)
  /\ settled' = Tail(settled)
  /\ UNCHANGED <<disk, timer, missed, lost, issued, count>>

\* The loops of executeCleanupPlan, executeResolutionPlan and restore-session.
Unknown(j) == j.kind = "resolution" /\ Head(j.todo) \notin j.known

NextFile(j) ==
  /\ j.todo # <<>>
  /\ IF Unknown(j)
     THEN /\ jobs' = (jobs \ {j}) \cup
                {[j EXCEPT !.todo = IF j.partial THEN Tail(@) ELSE <<>>]}
          /\ SendNothing
     ELSE /\ jobs' = (jobs \ {j}) \cup {[j EXCEPT !.waiting = TRUE]}
          /\ Send(IF j.kind = "restore" THEN "restore" ELSE "trash", Head(j.todo), By("job", j.id))
  /\ UNCHANGED <<plans, panel, sessions>>

RemovalEndsWhole(j) ==   \* a bug: a removal stopped half-way records nothing
  /\ j.todo = <<>> /\ j.kind \in Kinds
  /\ jobs' = jobs \ {j}
  /\ plans' = {p \in plans : p.id # j.plan}
  /\ sessions' = IF \E p \in plans : p.id = j.plan /\ Len(p.targets) # Len(j.done)
                 THEN sessions
                 ELSE sessions \cup {[id |-> j.id, keep |-> j.keep, items |-> j.done]}
  /\ panel' = [panel EXCEPT !.applying = FALSE, !.shown[j.kind] = None]
  /\ SendNothing

\* _recordTrashSession, if anything was moved; the plan goes either way.
RemovalEnds(j) ==
  /\ j.todo = <<>> /\ j.kind \in Kinds
  /\ jobs' = jobs \ {j}
  /\ plans' = {p \in plans : p.id # j.plan}
  /\ sessions' = IF j.done = <<>> THEN sessions
                 ELSE sessions \cup {[id |-> j.id, keep |-> j.keep, items |-> j.done]}
  /\ panel' = [panel EXCEPT !.applying = FALSE, !.shown[j.kind] = None]
  /\ SendNothing

RestoreEndsAnyhow(j) ==   \* a bug: one file back is enough
  /\ j.todo = <<>> /\ j.kind = "restore"
  /\ jobs' = jobs \ {j}
  /\ sessions' = {s \in sessions : s.id # j.plan \/ j.done = <<>>}
  /\ panel' = [panel EXCEPT !.restoring = FALSE]
  /\ SendNothing /\ UNCHANGED plans

\* _removeTrashSession, only when every item of it came back.
RestoreEnds(j) ==
  /\ j.todo = <<>> /\ j.kind = "restore"
  /\ jobs' = jobs \ {j}
  /\ sessions' = {s \in sessions : s.id # j.plan \/ Len(j.done) # Len(s.items)}
  /\ panel' = [panel EXCEPT !.restoring = FALSE]
  /\ SendNothing /\ UNCHANGED plans

Continue ==
  /\ settled = <<>>
  /\ \E j \in jobs : ~j.waiting /\ (NextFile(j) \/ RemovalEnds(j) \/ RestoreEnds(j))
  /\ UNCHANGED <<disk, settled, scans, timer, watcher, result, lost, issued, count>>

-----------------------------------------------------------------------------
(* The user: edits files, gives commands, works the panel, closes windows. *)
Act(command) ==
  /\ AtRest /\ command \in Commands
  /\ acts < MaxActs /\ acts' = acts + 1
  /\ UNCHANGED faults

EditFiles ==
  /\ Act("edit")
  /\ \E a \in Assets : Report(a) /\ there' = (there \cup {a}) \ (there \cap {a})
  /\ UNCHANGED <<trash, daemon, client, scans, watching, result, bridge, lost, issued>>

Refresh ==
  /\ Act("refresh")
  /\ ScanWorkspace
  /\ UNCHANGED <<disk, settled, timer, watcher, result, bridge, lost, issued>>

DeleteAsset ==
  /\ Act("delete")
  /\ \E a \in analysis : Send("trash", a, By("delete", issued + 1))
  /\ issued' = issued + 1
  /\ UNCHANGED <<disk, settled, scans, timer, watcher, result, bridge, lost>>

\* request-resolution-plan: the group as the last scan found it.
SelectCopy ==
  /\ Act("resolve") /\ ~panel.applying /\ Cardinality(analysis) > 1
  /\ \E keep \in analysis :
        Send("plan", [keep |-> keep, targets |-> SetToSeq(analysis \ {keep})],
             By("plan", issued + 1))
  /\ issued' = issued + 1
  /\ panel' = Shown("resolution", None)
  /\ UNCHANGED <<disk, settled, scans, timer, watcher, result, plans, jobs, sessions, lost>>

\* request-cleanup-plan: what is selected and no longer proposed is refused.
PreviewCleanup ==
  /\ Act("cleanup") /\ panel.shown["cleanup"] = None
  /\ \E wanted \in (SUBSET Assets) \ {{}} :
        plans' = plans \cup {[id |-> issued + 1, kind |-> "cleanup", keep |-> None,
            targets |-> SetToSeq(wanted \cap analysis), refusals |-> wanted \ analysis]}
  /\ panel' = Shown("cleanup", issued + 1)
  /\ issued' = issued + 1
  /\ UNCHANGED <<disk, daemon, client, scans, timer, watcher, result, jobs, sessions, lost>>

Job(p, todo, partial) ==
  [id |-> issued + 1, kind |-> p.kind, plan |-> p.id, keep |-> p.keep, todo |-> todo,
   done |-> <<>>, partial |-> partial, known |-> analysis, waiting |-> FALSE]

\* apply-cleanup-plan, apply-resolution-plan after its confirmation.  A plan
\* with refusals moves nothing unless partial application is allowed.
Apply ==
  /\ AtRest /\ ~panel.applying
  /\ \E p \in plans, partial \in BOOLEAN :
        /\ panel.shown[p.kind] = p.id
        /\ jobs' = jobs \cup {Job(p, IF p.refusals = {} \/ partial THEN p.targets ELSE <<>>,
                                  partial)}
  /\ panel' = [panel EXCEPT !.applying = TRUE]
  /\ issued' = issued + 1
  /\ UNCHANGED <<disk, daemon, client, scans, timer, watcher, result, plans, sessions, lost, count>>

\* Cancelled, or the confirmation dismissed: the panel forgets the plan, the
\* bridge keeps it.
Dismiss ==
  /\ AtRest /\ ~panel.applying
  /\ \E kind \in Kinds : panel.shown[kind] # None /\ panel' = Shown(kind, None)
  /\ UNCHANGED <<disk, daemon, client, scans, timer, watcher, result, plans, jobs, sessions, lost,
                 issued, count>>

RestoreSession ==
  /\ Act("restore") /\ ~panel.restoring
  /\ \E s \in sessions :
        jobs' = jobs \cup {[Job([kind |-> "restore", id |-> s.id, keep |-> None], s.items, TRUE)
                             EXCEPT !.known = {}]}
  /\ panel' = [panel EXCEPT !.restoring = TRUE]
  /\ issued' = issued + 1
  /\ UNCHANGED <<disk, daemon, client, scans, timer, watcher, result, plans, sessions, lost>>

\* The window is reloaded: all but the memento and the disk goes, the daemon
\* with it, and activate scans again, with no watcher until that ends.
Removals == {j \in jobs : j.kind \in Kinds}

Reload ==
  /\ AtRest /\ faults < MaxFaults /\ faults' = faults + 1
  /\ lost' = lost \cup TrashedIn(outbox) \cup UNION {Items(j.done) : j \in Removals}
  /\ plans' = {} /\ panel' = EmptyPanel /\ jobs' = {}
  /\ analysis' = {} /\ scanFailed' = FALSE
  /\ timer' = FALSE /\ watching' = FALSE /\ isScanning' = TRUE /\ scanPending' = FALSE
  /\ pending' = <<By("scan", 0)>> /\ inbox' = <<Request("scan", None, By("scan", 0))>>
  /\ process' = "up" /\ scanned' = FALSE /\ outbox' = <<>>
  /\ UNCHANGED <<disk, settled, sessions, missed, issued, acts>>

-----------------------------------------------------------------------------
Init ==
  /\ there = Assets /\ trash = {}
  /\ process = "up" /\ scanned = FALSE /\ outbox = <<>>
  /\ pending = <<By("scan", 0)>> /\ inbox = <<Request("scan", None, By("scan", 0))>>
  /\ settled = <<>> /\ issued = 0
  /\ isScanning = TRUE /\ scanPending = FALSE /\ timer = FALSE
  /\ watching = FALSE /\ missed = {}
  /\ analysis = {} /\ scanFailed = FALSE
  /\ plans = {} /\ panel = EmptyPanel /\ jobs = {} /\ sessions = {} /\ lost = {}
  /\ acts = 0 /\ faults = 0

User  == EditFiles \/ Refresh \/ DeleteAsset \/ SelectCopy \/ PreviewCleanup
         \/ Apply \/ Dismiss \/ RestoreSession
Host  == Deliver \/ Timeout \/ ExitEvent \/ TimerFires \/ Resume \/ Continue
Next  == User \/ Host \/ Serve \/ Kill \/ Reload

\* The event loop of the editor runs; of the daemon nothing is assumed.
Fairness ==
  /\ WF_vars(Deliver) /\ WF_vars(Timeout) /\ WF_vars(ExitEvent)
  /\ WF_vars(TimerFires) /\ WF_vars(Resume) /\ WF_vars(Continue)

Spec == Init /\ [][Next]_vars /\ Fairness

-----------------------------------------------------------------------------
(* Properties.                                                             *)

(* Type invariant.  Nobody awaits two answers, a handler waits exactly     *)
(* while its request is out, the scan lock is held exactly while the       *)
(* request of a scan is pending or just settled, and only the first scan   *)
(* runs without a watcher.                                                 *)
TrashItems == [asset : Assets, by : [who : {"delete", "job"}, job : Nat]]
Askers(answers) == [i \in DOMAIN answers |-> answers[i].by]
Awaiting == Items(pending) \cup Items(Askers(settled))

HostTypeOK ==
  /\ there \subseteq Assets /\ analysis \subseteq Assets
  /\ trash \subseteq TrashItems /\ lost \subseteq TrashItems
  /\ process \in {"none", "up", "gone"}
  /\ {scanned, isScanning, scanPending, timer, watching, scanFailed} \subseteq BOOLEAN
  /\ missed \subseteq Assets
  /\ scanned => process = "up"
  /\ \A p \in plans : p.kind \in Kinds /\ Items(p.targets) \subseteq Assets \ {p.keep}
  /\ IsInjective(pending) /\ IsInjective(Askers(settled))
  /\ Items(pending) \cap Items(Askers(settled)) = {}
  /\ \A j \in jobs : /\ j.kind \in Kinds \cup {"restore"}
                     /\ By("job", j.id) \in Awaiting <=> j.waiting
  /\ By("scan", 0) \in Awaiting <=> isScanning
  /\ ~watching => isScanning /\ ~timer

(* Whatever is in .animoria/trash because a plan was applied is in a       *)
(* session, or on its way to one, unless its answer came too late for the  *)
(* handler that asked or the window was reloaded under it: bridge          *)
(* _recordTrashSession after executeCleanupPlan and executeResolutionPlan, *)
(* stopped half-way or not.                                                *)
RemovalsAccounted ==
  \A i \in trash \ lost :
     \/ i.by.who = "delete"
     \/ \E s \in sessions : i \in Items(s.items)
     \/ \E j \in Removals : i \in Items(j.done)
     \/ i \in TrashedIn(outbox)
     \/ \E k \in DOMAIN settled :
           settled[k].ok /\ settled[k].by = i.by /\ settled[k].value = i

(* A session leaves the list only when nothing of it is in the trash, even *)
(* if a file could not be put back, the daemon was killed between two, or  *)
(* the same session is being restored twice (restore-session).             *)
SessionsKeepTrash ==
  [][\A s \in sessions \ sessions' : Items(s.items) \cap trash' = {}]_vars

(* After the last change the panel shows what is on disk, or the last scan *)
(* told the user it failed: a change the watcher reports while a scan runs *)
(* is not lost, and neither a stuck daemon nor a dead one holds the lock.  *)
(* Left out are the files changed where no watcher looked since a scan     *)
(* read the disk: behind the first scan, which the watcher only follows    *)
(* (activate), and, at any time, those of an extension it does not watch.  *)
ScanCatchesUp == <>[](scanFailed \/ SymDiff(analysis, there) \subseteq missed)

(* A removal or a restore always ends and gives the panel its controls     *)
(* back, whether the daemon answers, is stuck, or dies.                    *)
ControlsReleased == []<>(~panel.applying /\ ~panel.restoring /\ jobs = {})

(* "Resolve duplicate groups by choosing a canonical copy to preserve"     *)
(* (animoria-vscode/README.md): when a resolution is recorded, the copy it *)
(* was to keep is on disk.                                                 *)
ChosenCopyIsKept ==
  [][\A s \in sessions' \ sessions : s.keep # None => s.keep \in there]_vars
=============================================================================
