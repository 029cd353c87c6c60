---------------------------- MODULE DaemonServer ----------------------------
(***************************************************************************)
(* The daemon's request loop (daemon/server.rs) with one host on the other *)
(* end of its pipes.  The daemon answers one request at a time, in order,  *)
(* from an index per scanned root and from the plans it keeps by id; the   *)
(* host keeps the plan its panel shows, sends requests without waiting for *)
(* answers, and reports changed files with markStale.                      *)
(*                                                                         *)
(* Files are abstracted to assets with a root and a content; present and   *)
(* used say which are on disk and which the sources name.  What happens to *)
(* a trashed file is module Trash; here it is a session of its root.       *)
(***************************************************************************)
EXTENDS Integers, FiniteSetsExt, SequencesExt

CONSTANTS
  Roots, Assets,      \* workspace roots, and the asset paths under them
  FirstRoot,          \* the root the host's file listener reports changes of
  RootOf, ContentOf,  \* Assets -> Roots, Assets -> content hashes
  Selections,         \* the selections of assets a user makes for cleanup
  Methods,            \* the methods the host calls in this instance
  NoPath, None,       \* no workspace_path in a request; nothing at all
  MaxRequests, MaxPipe, MaxEdits, MaxStarts   \* bounds

ASSUME DaemonAssumption ==
  /\ FirstRoot \in Roots /\ IsFiniteSet(Assets)
  /\ RootOf \in [Assets -> Roots]
  /\ DOMAIN ContentOf = Assets
  /\ Selections \subseteq SUBSET Assets
  /\ {NoPath, None} \cap (Roots \cup Assets) = {} /\ NoPath # None
  /\ {MaxRequests, MaxPipe, MaxEdits, MaxStarts} \subseteq Nat

VARIABLES
  present, used,      \* assets on disk; assets some source line names
  sessions, loose,    \* recorded trash sessions; assets trash_asset moved
  indices,            \* root -> the index of its last good scan, or None
  cleanupPlans, resolutionPlans, planCounter,   \* plans by id
  eventSequence,      \* of the last event of this process
  scanning,           \* the crawl a scan under way has done, or None
  inbox, outbox,      \* the daemon's stdin and stdout
  up, starts,         \* the process runs; how often it was started
  shown,              \* per kind, the plan in the host's panel, or None
  waiting, sent,      \* request numbers without an answer yet; requests sent
  lastSequence,       \* the highest event number the host ever read
  lastEvent,          \* history: number of the last event read from this process
  unreported,         \* roots with changes the host has not reported yet
  edits,              \* edits the user made
  ran                 \* plans executed, each by the request that built it

disk     == <<present, used, sessions, loose>>
plans    == <<cleanupPlans, resolutionPlans, planCounter>>
host     == <<shown, waiting, sent, lastSequence, lastEvent>>
process  == <<up, starts>>
vars     == <<disk, indices, plans, eventSequence, scanning, inbox, outbox,
              process, host, unreported, edits, ran>>

Kinds  == {"cleanup", "resolution"}
Paths  == Roots \cup {NoPath}
AssetsOf(r) == {a \in Assets : RootOf[a] = r}

-----------------------------------------------------------------------------
(* What a scan computes, and what a method reads from it.                  *)

(* Byte-identical assets: the buckets of more than one, which              *)
(* find_duplicate_groups numbers in the order a HashMap yields them.       *)
Clusters(S) ==
  {G \in {{b \in S : ContentOf[b] = ContentOf[a]} : a \in S} : \E a, b \in G : a # b}

Numberings(S) == SetToSeqs(Clusters(S))

(* resolve_root: the index of the path given, or of the only root scanned. *)
Scanned == {r \in Roots : indices[r] # None}

Resolve(path) ==
  IF path \in Scanned THEN path
  ELSE IF path = NoPath /\ \E r \in Roots : Scanned = {r}
    THEN CHOOSE r \in Roots : Scanned = {r}
  ELSE None

(* no-unreferenced-assets diagnostics of an index, its cleanup proposal.   *)
Candidates(index) == index.assets \ index.references

CleanupPlan(r, wanted, id, n) ==
  LET proposed == Candidates(indices[r])
      asked    == IF wanted = {} THEN proposed ELSE wanted
  IN  [kind |-> "cleanup", id |-> id, root |-> r, born |-> n,
       targets |-> asked \cap proposed, refusals |-> asked \ proposed]

ResolutionPlan(r, g, keep, n) ==
  [kind |-> "resolution", id |-> g, root |-> r, born |-> n,
   targets |-> indices[r].groups[g] \ {keep}, refusals |-> {}]

(* What staging a plan's targets may move: all of them, or what came       *)
(* before the first that cannot be moved, or with allow_partial the rest.  *)
Staged(targets, fit, partial) ==
  IF targets \subseteq fit \/ partial
  THEN {targets \cap fit}
  ELSE SUBSET (targets \cap fit)

-----------------------------------------------------------------------------
(* Requests and answers.                                                   *)

Post(method, args) ==
  /\ up /\ method \in Methods
  /\ sent < MaxRequests /\ Len(inbox) < MaxPipe
  /\ inbox' = Append(inbox, [n |-> sent + 1, method |-> method, args |-> args])
  /\ sent' = sent + 1
  /\ waiting' = waiting \cup {sent + 1}

Answer(n, plan) == <<[type |-> "response", n |-> n, plan |-> plan]>>
Event(seq)      == <<[type |-> "event", seq |-> seq]>>

Req == Head(inbox)

ServingBuffered(method) ==
  /\ up /\ scanning = None
  /\ Len(inbox) > 1 /\ Req.method = method
  /\ Len(outbox) < MaxPipe

(* The loop takes the next line when it has written all it had to; a full  *)
(* stdout stops it.                                                        *)
Serving(method) ==
  /\ up /\ scanning = None
  /\ inbox # <<>> /\ Req.method = method
  /\ Len(outbox) < MaxPipe

Reply(plan) ==
  /\ inbox' = Tail(inbox)
  /\ outbox' = outbox \o Answer(Req.n, plan)

ReplyThenUncounted ==
  /\ inbox' = Tail(inbox)
  /\ outbox' = outbox \o Answer(Req.n, None) \o Event(eventSequence + 1)
  /\ UNCHANGED eventSequence

ReplyThenEvent ==
  /\ inbox' = Tail(inbox)
  /\ outbox' = outbox \o Answer(Req.n, None) \o Event(eventSequence + 1)
  /\ eventSequence' = eventSequence + 1

Idle == UNCHANGED <<process, host, edits>>

-----------------------------------------------------------------------------
(* scan, check, analyze: the started event, the crawl; then hashing,       *)
(* tracing, the answer and the completed event.  The user may edit between.*)

CrawlAll(r) == present

Crawl(r) == present \cap AssetsOf(r)

ScanStarted ==
  /\ Serving("scan")
  /\ scanning' = [root |-> Req.args, found |-> Crawl(Req.args)]
  /\ eventSequence' = eventSequence + 1
  /\ outbox' = outbox \o Event(eventSequence + 1)
  /\ UNCHANGED <<disk, indices, plans, inbox, unreported, ran>> /\ Idle

ScannedState(found) == IF found \subseteq present THEN "Ready" ELSE "Incomplete"

ScanCompleted ==
  /\ scanning # None
  /\ LET assets == scanning.found \cap present
     IN  \E groups \in Numberings(assets) :
           indices' = [indices EXCEPT ![scanning.root] =
             [state |-> ScannedState(scanning.found), assets |-> assets,
              groups |-> groups, references |-> used \cap assets]]
  /\ scanning' = None
  /\ ReplyThenEvent
  /\ UNCHANGED <<disk, plans, unreported, ran>> /\ Idle

ScanFailedTwice ==
  /\ scanning # None
  /\ scanning' = None
  /\ outbox' = outbox \o Answer(Req.n, None)
  /\ UNCHANGED <<disk, indices, plans, eventSequence, inbox, unreported, ran>> /\ Idle

(* The scanner refuses the ignore patterns, or a handler panics: an error  *)
(* answer, no event, and the index of the last good scan stays.            *)
ScanFailed ==
  /\ scanning # None
  /\ scanning' = None
  /\ Reply(None)
  /\ UNCHANGED <<disk, indices, plans, eventSequence, unreported, ran>> /\ Idle

(* getAnalysis repeats the completed event when it has an index.           *)
GetAnalysis ==
  /\ Serving("getAnalysis")
  /\ IF Resolve(Req.args) # None
     THEN ReplyThenEvent
     ELSE Reply(None) /\ UNCHANGED eventSequence
  /\ UNCHANGED <<disk, indices, plans, scanning, unreported, ran>> /\ Idle

(* Methods that only read, refused versions, unknown methods.              *)
AnswerOther ==
  /\ Serving("other")
  /\ Reply(None)
  /\ UNCHANGED <<disk, indices, plans, eventSequence, scanning, unreported, ran>> /\ Idle

NotStaled(index) == index

Staled(index) == IF index.state = "Ready" THEN [index EXCEPT !.state = "Stale"] ELSE index

MarkStale ==
  /\ Serving("markStale")
  /\ IF Resolve(Req.args) # None
     THEN /\ indices' = [indices EXCEPT ![Req.args] = Staled(@)]
          /\ ReplyThenEvent
     ELSE Reply(None) /\ UNCHANGED <<indices, eventSequence>>
  /\ UNCHANGED <<disk, plans, scanning, unreported, ran>> /\ Idle

-----------------------------------------------------------------------------
(* Plans.  buildCleanupPlan counts the plan even when it refuses to build. *)

BuildCleanupPlan ==
  /\ Serving("buildCleanupPlan")
  /\ planCounter' = planCounter + 1
  /\ LET r    == Resolve(Req.args.path)
         plan == CleanupPlan(r, Req.args.wanted, planCounter', Req.n)
     IN  IF r # None
         THEN /\ cleanupPlans' = cleanupPlans \cup {plan}
              /\ Reply(plan)
         ELSE Reply(None) /\ UNCHANGED cleanupPlans
  /\ UNCHANGED <<disk, indices, resolutionPlans, eventSequence, scanning, unreported, ran>>
  /\ Idle

(* The id is the group's: a plan for it replaces the one of that id.       *)
BuildResolutionPlan ==
  /\ Serving("buildResolutionPlan")
  /\ LET r == Resolve(Req.args.path)
         g == Req.args.group
     IN  IF r # None /\ g \in DOMAIN indices[r].groups /\ Req.args.keep \in indices[r].assets
         THEN LET plan == ResolutionPlan(r, g, Req.args.keep, Req.n)
              IN  /\ resolutionPlans' = {p \in resolutionPlans : p.id # g} \cup {plan}
                  /\ Reply(plan)
         ELSE Reply(None) /\ UNCHANGED resolutionPlans
  /\ UNCHANGED <<disk, indices, cleanupPlans, planCounter, eventSequence, scanning,
                 unreported, ran>>
  /\ Idle

(* Moves what it can of targets to the trash, in one session of the root.  *)
Stage(r, targets, fit, partial) ==
  \E gone \in Staged(targets, fit, partial) :
    /\ present' = present \ gone
    /\ sessions' = IF gone = {} THEN sessions ELSE [sessions EXCEPT ![r] = @ \cup {gone}]
    /\ unreported' = IF gone = {} THEN unreported ELSE unreported \cup {r}
    /\ UNCHANGED <<used, loose>>

Refuse == Reply(None) /\ UNCHANGED <<disk, unreported, ran>>

NotSpent(kept, plan) == kept

(* A plan is spent by the attempt, refused or not.                         *)
Spent(kept, plan) == kept \ {plan}

EntriesNow(plan) == Candidates(indices[plan.root])

(* What executing a cleanup plan stages: the entries it was built with.    *)
Entries(plan) == plan.targets

ApplyCleanupPlan ==
  /\ Serving("applyCleanupPlan")
  /\ \/ /\ \A p \in cleanupPlans : p.id # Req.args.id
        /\ Refuse
        /\ UNCHANGED cleanupPlans
     \/ \E p \in cleanupPlans :
          /\ p.id = Req.args.id
          /\ cleanupPlans' = Spent(cleanupPlans, p)
          /\ LET partial == Req.args.refusals # {}    \* the panel's allowPartial
             IN  IF p.refusals # {} /\ ~partial
                 THEN Refuse
                 ELSE /\ Stage(p.root, Entries(p), present, partial)
                      /\ ran' = Append(ran, p.born)
                      /\ Reply(None)
  /\ UNCHANGED <<indices, resolutionPlans, planCounter, eventSequence, scanning>> /\ Idle

ApplyResolutionPlan ==
  /\ Serving("applyResolutionPlan")
  /\ \/ /\ \A p \in resolutionPlans : p.id # Req.args.id
        /\ Refuse
        /\ UNCHANGED resolutionPlans
     \/ \E p \in resolutionPlans :
          /\ p.id = Req.args.id
          /\ resolutionPlans' = Spent(resolutionPlans, p)
          /\ IF indices[p.root] = None
             THEN Refuse
             ELSE /\ Stage(p.root, p.targets, present \cap indices[p.root].assets, FALSE)
                  /\ ran' = Append(ran, p.born)
                  /\ Reply(None)
  /\ UNCHANGED <<indices, cleanupPlans, planCounter, eventSequence, scanning>> /\ Idle

-----------------------------------------------------------------------------
(* Single files, sessions, references.                                     *)

AnyTrashRoot(path) == IF path \in Roots THEN path ELSE Resolve(path)

(* trash_asset wants a root this process has scanned; restoring does not.  *)
TrashRoot(path) == Resolve(path)

TrashAsset ==
  /\ Serving("trash_asset")
  /\ LET a == Req.args.asset
         r == TrashRoot(Req.args.path)
     IN  IF r = RootOf[a] /\ a \in present
         THEN /\ present' = present \ {a}
              /\ loose' = loose \cup {a}
              /\ unreported' = unreported \cup {r}
         ELSE UNCHANGED <<present, loose, unreported>>
  /\ Reply(None)
  /\ UNCHANGED <<used, sessions, indices, plans, eventSequence, scanning, ran>> /\ Idle

RestoreAsset ==
  /\ Serving("restore_asset")
  /\ LET a == Req.args
     IN  IF a \in loose /\ a \notin present
         THEN /\ present' = present \cup {a}
              /\ loose' = loose \ {a}
              /\ unreported' = unreported \cup {RootOf[a]}
         ELSE UNCHANGED <<present, loose, unreported>>
  /\ Reply(None)
  /\ UNCHANGED <<used, sessions, indices, plans, eventSequence, scanning, ran>> /\ Idle

RestoreTrashSession ==
  /\ Serving("restoreTrashSession")
  /\ LET r     == Req.args.root
         batch == Req.args.session
     IN  IF batch \in sessions[r]
         THEN /\ present' = present \cup batch
              /\ sessions' = [sessions EXCEPT ![r] = @ \ {batch}]
              /\ unreported' = unreported \cup {r}
         ELSE UNCHANGED <<present, sessions, unreported>>
  /\ Reply(None)
  /\ UNCHANGED <<used, loose, indices, plans, eventSequence, scanning, ran>> /\ Idle

(* applyReferenceRewrite: only a line the last scan traced, still there.   *)
ApplyReferenceRewrite ==
  /\ Serving("applyReferenceRewrite")
  /\ LET r    == Resolve(Req.args.path)
         from == Req.args.from
     IN  used' = IF r # None /\ from \in indices[r].references /\ from \in used
                 THEN (used \ {from}) \cup {Req.args.to}
                 ELSE used
  /\ Reply(None)
  /\ UNCHANGED <<present, sessions, loose, indices, plans, eventSequence, scanning,
                 unreported, ran>>
  /\ Idle

-----------------------------------------------------------------------------
(* The process ends: its memory is gone and so are the lines it had not    *)
(* read; a crash takes what it had not flushed too.  The host gives up the *)
(* requests it was waiting for, and a new process starts empty and numbers *)
(* its events from 1; the host's highest number stays as it is.            *)

Forgotten ==
  /\ up' = FALSE /\ scanning' = None
  /\ inbox' = <<>>
  /\ indices' = [r \in Roots |-> None]
  /\ cleanupPlans' = {} /\ resolutionPlans' = {} /\ planCounter' = 0
  /\ eventSequence' = 0
  /\ UNCHANGED <<disk, starts, shown, sent, lastSequence, lastEvent, unreported, edits, ran>>

(* shutdown is answered before the loop ends.                              *)
Shutdown ==
  /\ Serving("shutdown")
  /\ outbox' = outbox \o Answer(Req.n, None)
  /\ waiting' = waiting \ {inbox[i].n : i \in 2..Len(inbox)}
  /\ Forgotten

Crash ==
  /\ up
  /\ outbox' = <<>> /\ waiting' = {}
  /\ Forgotten

Start ==
  /\ ~up /\ outbox = <<>> /\ starts < MaxStarts
  /\ up' = TRUE /\ starts' = starts + 1
  /\ lastEvent' = 0
  /\ UNCHANGED <<disk, indices, plans, eventSequence, scanning, inbox, outbox, shown,
                 waiting, sent, lastSequence, unreported, edits, ran>>

Serve ==
  \/ ScanStarted \/ ScanCompleted \/ ScanFailed
  \/ GetAnalysis \/ AnswerOther \/ MarkStale
  \/ BuildCleanupPlan \/ BuildResolutionPlan
  \/ ApplyCleanupPlan \/ ApplyResolutionPlan
  \/ TrashAsset \/ RestoreAsset \/ RestoreTrashSession \/ ApplyReferenceRewrite
  \/ Shutdown

-----------------------------------------------------------------------------
(* The host and the user.                                                  *)

HostUnchanged == UNCHANGED <<disk, indices, plans, eventSequence, scanning, outbox,
                             process, lastSequence, lastEvent, edits, ran>>

(* Groups have two members or more; one number past them is an unknown id. *)
GroupIds == 1..(Cardinality(Assets) \div 2 + 1)

(* The host's ordering check on a number read: it warns of a lost or       *)
(* reordered event (CoreProcessManager.kt, recordSequence).                *)
Warns(seq) == seq \in 1..lastSequence

(* The panel's apply names the plan it shows: id and what it listed.       *)
Apply(kind, method) == shown[kind] # None /\ Post(method, shown[kind])

(* Asking for a resolution plan takes the one on screen away.              *)
Send ==
  /\ \/ /\ \/ \E r \in Roots : Post("scan", r)
           \/ \E path \in Paths : Post("getAnalysis", path)
           \/ Post("other", NoPath)
           \/ Post("shutdown", NoPath)
           \/ \E path \in Paths, wanted \in Selections :
                Post("buildCleanupPlan", [path |-> path, wanted |-> wanted])
           \/ Apply("cleanup", "applyCleanupPlan")
           \/ Apply("resolution", "applyResolutionPlan")
           \/ \E path \in Paths, a \in present : Post("trash_asset", [path |-> path, asset |-> a])
           \/ \E a \in loose : Post("restore_asset", a)
           \/ \E r \in Roots : \E batch \in sessions[r] :
                Post("restoreTrashSession", [root |-> r, session |-> batch])
           \/ \E path \in Paths, from, to \in Assets :
                Post("applyReferenceRewrite", [path |-> path, from |-> from, to |-> to])
        /\ UNCHANGED shown
     \/ /\ \E path \in Paths, g \in GroupIds, keep \in Assets :
             Post("buildResolutionPlan", [path |-> path, group |-> g, keep |-> keep])
        /\ shown' = [shown EXCEPT !["resolution"] = None]
  /\ UNCHANGED unreported /\ HostUnchanged

(* The file listener reports a change some time after it, and names the    *)
(* first root whichever root changed.                                      *)
Report ==
  /\ \E r \in unreported :
       /\ Post("markStale", FirstRoot)
       /\ unreported' = unreported \ {r}
  /\ UNCHANGED shown /\ HostUnchanged

Read ==
  /\ outbox # <<>>
  /\ outbox' = Tail(outbox)
  /\ LET msg == Head(outbox)
     IN  IF msg.type = "response"
         THEN /\ waiting' = waiting \ {msg.n}
              /\ shown' = IF msg.plan = None THEN shown
                          ELSE [shown EXCEPT ![msg.plan.kind] = msg.plan]
              /\ UNCHANGED <<lastSequence, lastEvent>>
         ELSE /\ lastEvent' = msg.seq
              /\ lastSequence' = IF msg.seq > lastSequence THEN msg.seq ELSE lastSequence
              /\ UNCHANGED <<waiting, shown>>
  /\ UNCHANGED <<disk, indices, plans, eventSequence, scanning, inbox, process, sent,
                 unreported, edits, ran>>

(* The user deletes or creates a file, or drops or adds a use of one.      *)
Trashed == loose \cup UNION {UNION sessions[r] : r \in Roots}

EditFile ==
  /\ edits < MaxEdits
  /\ \E a \in Assets \ Trashed :
       /\ present' = SymDiff(present, {a})
       /\ unreported' = unreported \cup {RootOf[a]}
  /\ edits' = edits + 1
  /\ UNCHANGED <<used, sessions, loose, indices, plans, eventSequence, scanning, inbox,
                 outbox, process, host, ran>>

EditSource ==
  /\ edits < MaxEdits
  /\ \E a \in Assets : used' = SymDiff(used, {a})
  /\ edits' = edits + 1
  /\ UNCHANGED <<present, sessions, loose, indices, plans, eventSequence, scanning, inbox,
                 outbox, process, host, unreported, ran>>

Init ==
  /\ present = Assets /\ used \in {{}, Assets}
  /\ sessions = [r \in Roots |-> {}] /\ loose = {}
  /\ indices = [r \in Roots |-> None]
  /\ cleanupPlans = {} /\ resolutionPlans = {} /\ planCounter = 0
  /\ eventSequence = 0 /\ scanning = None
  /\ inbox = <<>> /\ outbox = <<>>
  /\ up = TRUE /\ starts = 1
  /\ shown = [k \in Kinds |-> None]
  /\ waiting = {} /\ sent = 0 /\ lastSequence = 0 /\ lastEvent = 0
  /\ unreported = {} /\ edits = 0 /\ ran = <<>>

Next == Serve \/ Crash \/ Start \/ Send \/ Report \/ Read \/ EditFile \/ EditSource

Spec == Init /\ [][Next]_vars

(* The loop never stops while a line waits, and the host's reader thread   *)
(* never stops either.                                                     *)
LiveSpec == Spec /\ WF_vars(Serve) /\ WF_vars(Read)

-----------------------------------------------------------------------------
(* Properties.                                                             *)

Index == [state : {"Ready", "Stale", "Incomplete"}, assets : SUBSET Assets,
          groups : Seq(SUBSET Assets), references : SUBSET Assets]
Plan  == [kind : Kinds, id : Nat, root : Roots, born : 1..MaxRequests,
          targets : SUBSET Assets, refusals : SUBSET Assets]

ASSUME NothingAssumption == None \notin Index \cup Plan

(* Every variable keeps its type: in particular an index names only assets *)
(* of its root, and a plan only assets of the root it will be applied in.  *)
DaemonTypeOK ==
  /\ {present, used, loose} \subseteq SUBSET Assets
  /\ \A r \in Roots : UNION sessions[r] \subseteq AssetsOf(r)
  /\ \A r \in Scanned : indices[r] \in Index /\ indices[r].assets \subseteq AssetsOf(r)
  /\ \A p \in cleanupPlans \cup resolutionPlans :
       p \in Plan /\ p.targets \subseteq AssetsOf(p.root)
  /\ planCounter \in Nat /\ eventSequence \in Nat
  /\ lastEvent \in Nat /\ lastSequence \in Nat
  /\ \A k \in Kinds : shown[k] \in Plan \cup {None}
  /\ waiting \subseteq 1..sent /\ unreported \subseteq Roots
  /\ up \in BOOLEAN /\ ran \in Seq(1..MaxRequests)

Unread    == {inbox[i].n : i \in DOMAIN inbox}
Responses == {i \in DOMAIN outbox : outbox[i].type = "response"}
Events    == {i \in DOMAIN outbox : outbox[i].type = "event"}

(* One request, one answer: a request the host waits for is in exactly one *)
(* place, unread by the daemon, under way, or answered; and nothing else   *)
(* is there (server.rs:238-320, the loop writes one response per line).    *)
OneAnswer ==
  LET replied == {outbox[i].n : i \in Responses}
  IN  /\ \A i, j \in DOMAIN inbox : inbox[i].n = inbox[j].n => i = j
      /\ \A i, j \in Responses : outbox[i].n = outbox[j].n => i = j
      /\ Unread \cap replied = {} /\ Unread \cup replied = waiting

(* Events reach the host in the order of their sequence numbers, none      *)
(* repeated or left out, whatever mix of scans, getAnalysis and markStale  *)
(* caused them: those on their way continue from the last one read of this *)
(* process, up to the last one it numbered.  So the host's check, which    *)
(* would see a number repeated or going back (lastEvent <= lastSequence),  *)
(* warns of no event of the first process.  Of a later one it does: start  *)
(* and stop leave lastSequence as it is, and the numbers begin again at 1. *)
EventsInOrder ==
  LET underWay == {outbox[i].seq : i \in Events}
  IN  /\ \A i, j \in Events : i < j => outbox[i].seq < outbox[j].seq
      /\ \E last \in underWay \cup {lastEvent} :
           underWay = (lastEvent + 1)..last /\ (up => eventSequence = last)
      /\ lastEvent <= lastSequence
      /\ \A i \in Events : Warns(outbox[i].seq) => starts > 1

(* A step that takes a request of this method and answers it.              *)
Taken(method) == inbox # <<>> /\ Req.method = method /\ inbox' = Tail(inbox)

(* Applying a cleanup plan moves only assets the panel listed when the     *)
(* user applied it, in the root it named, however the index and the plans  *)
(* changed since (JetBrainsHostBridge.kt:456: "what you saw is what ran"). *)
(* Within the first process: the next counts its plans from 1 again.       *)
CleanupAsShown ==
  [][Taken("applyCleanupPlan") /\ starts = 1
       => present \ present' \subseteq Req.args.targets]_vars

(* The same for a resolution plan.                                         *)
ResolutionAsShown ==
  [][Taken("applyResolutionPlan") => present \ present' \subseteq Req.args.targets]_vars

(* A plan runs at most once, also when the panel applies it twice or files *)
(* were restored in between (server.rs:1295, remove before executing).     *)
NeverReplayed == IsInjective(ran)

(* Files leave only a root this process has scanned (server.rs:188-191,    *)
(* "a client cannot widen the boundary").                                  *)
Confined ==
  [][\A method \in Methods : Taken(method) =>
       \A a \in present \ present' : RootOf[a] \in Scanned]_vars

(* Once the changes of the root the host reports for are reported and the  *)
(* daemon has served the reports, an index of that root that calls itself  *)
(* Ready lists the files on disk: an edit during a scan is never hidden by *)
(* the scan's end.  The changes of another root are reported as this one's *)
(* (AnimoriaVFSListener.kt:78), so of its index nothing like it holds.    *)
Reported(r) ==
  /\ r \notin unreported
  /\ \A i \in DOMAIN inbox : inbox[i].method = "markStale" => inbox[i].args # r

ReadyIsCurrent ==
  \A r \in Scanned \cap {FirstRoot} :
    up /\ Reported(r) /\ indices[r].state = "Ready"
    => indices[r].assets = present \cap AssetsOf(r)

(* Every request is answered, or its process ends and the host stops       *)
(* waiting.                                                                *)
Answered == \A n \in 1..MaxRequests : n \in waiting ~> n \notin waiting
=============================================================================
