---------------------------- MODULE DaemonProofs ----------------------------
(* Theorems about DaemonServer, for any roots, files, methods and bounds.    *)
EXTENDS DaemonServer, FiniteSetTheorems, TLAPS

-----------------------------------------------------------------------------
(* The invariant.                                                          *)

CleanupPlans == {p \in Plan : p.kind = "cleanup"}

\* What the host asks of each method, and what the daemon writes.
Requests ==
  [n : Nat, method : {"scan"}, args : Roots]
    \cup [n : Nat, method : {"markStale"}, args : {FirstRoot}]
    \cup [n : Nat, method : {"buildCleanupPlan"}, args : [path : Paths, wanted : Selections]]
    \cup [n : Nat, method : {"applyCleanupPlan"}, args : CleanupPlans]
    \cup [n : Nat, method : {"restoreTrashSession"},
          args : [root : Roots, session : SUBSET Assets]]
    \cup [n : Nat, method : {"applyReferenceRewrite"},
          args : [path : Paths, from : Assets, to : Assets]]
    \cup [n : Nat, method : {"getAnalysis", "other", "shutdown", "buildResolutionPlan",
                             "applyResolutionPlan", "trash_asset", "restore_asset"},
          args : Paths \cup Plan \cup Assets
                   \cup [path : Paths, group : GroupIds, keep : Assets]
                   \cup [path : Paths, asset : Assets]]

Messages == [type : {"response"}, n : Nat, plan : Plan \cup {None}]
              \cup [type : {"event"}, seq : Nat]

\* The groups of an index are made of its assets.
Grouped(index) == \A g \in DOMAIN index.groups : index.groups[g] \subseteq index.assets

Typed ==
  /\ DaemonTypeOK
  /\ sessions \in [Roots -> SUBSET SUBSET Assets]
  /\ indices \in [Roots -> Index \cup {None}]
  /\ \A r \in Scanned : Grouped(indices[r])
  /\ cleanupPlans \subseteq CleanupPlans
  /\ \A p \in resolutionPlans : p.kind = "resolution"
  /\ shown \in [Kinds -> Plan \cup {None}]
  /\ \A k \in Kinds : shown[k] # None => shown[k].kind = k
  /\ inbox \in Seq(Requests) /\ outbox \in Seq(Messages)
  /\ sent \in 0..MaxRequests /\ starts \in Nat \ {0}

\* A scan under way is that of the first request, and has crawled its root.
ScanUnderWay ==
  scanning # None =>
    /\ up /\ inbox # <<>> /\ Req.method = "scan"
    /\ scanning.root \in Roots /\ scanning.found \subseteq AssetsOf(scanning.root)

\* Between two processes there is nothing of the first left.
NothingKept ==
  ~up => /\ inbox = <<>> /\ scanning = None /\ Scanned = {}
         /\ cleanupPlans = {} /\ resolutionPlans = {}
         /\ planCounter = 0 /\ eventSequence = 0

\* The messages of one type in a pipe.
Of(out, type) == {i \in DOMAIN out : out[i].type = type}

\* Request numbers go up along the way of a request: those answered are below
\* those unread, and every one is waited for.
NumberedIn(in, out, awaited, asked) ==
  /\ \A i \in DOMAIN in : in[i].n \in 1..asked
  /\ \A i \in Of(out, "response") : out[i].n \in 1..asked
  /\ \A i, j \in DOMAIN in : i < j => in[i].n < in[j].n
  /\ \A i, j \in Of(out, "response") : i < j => out[i].n < out[j].n
  /\ \A i \in Of(out, "response"), j \in DOMAIN in : out[i].n < in[j].n
  /\ {in[i].n : i \in DOMAIN in} \cup {out[i].n : i \in Of(out, "response")} = awaited

Numbered == NumberedIn(inbox, outbox, waiting, sent)

\* EventsInOrder, of any pipe and the number last read from it.
EventsIn(out, read, running, numbered) ==
  LET underWay == {out[i].seq : i \in Of(out, "event")}
  IN  /\ \A i, j \in Of(out, "event") : i < j => out[i].seq < out[j].seq
      /\ \E last \in underWay \cup {read} :
           underWay = (read + 1)..last /\ (running => numbered = last)

InSequence == EventsIn(outbox, lastEvent, up, eventSequence)

\* The host's highest number is that of the first process, or an earlier one's.
HighestRead == lastEvent <= lastSequence /\ (starts = 1 => lastSequence = lastEvent)

\* A plan kept was built by a request already taken, no two by the same one,
\* and has not run.
Built == cleanupPlans \cup resolutionPlans

Fresh ==
  /\ \A p, q \in Built : p.born = q.born => p = q
  /\ \A p \in Built : p.born \in 1..sent /\ \A i \in DOMAIN ran : ran[i] # p.born
  /\ \A i \in DOMAIN ran : ran[i] \in 1..sent
  /\ \A j \in DOMAIN inbox : /\ \A p \in Built : p.born < inbox[j].n
                             /\ \A i \in DOMAIN ran : ran[i] < inbox[j].n
  /\ NeverReplayed

\* The crawl of a scan under way is out of date only when a report is due.
ScanIsCurrent ==
  scanning # None /\ scanning.root = FirstRoot /\ Reported(FirstRoot)
    => scanning.found = present \cap AssetsOf(FirstRoot)

\* A plan was built from an index, which stays as long as the plan.
PlansHaveIndex == \A p \in Built : p.root \in Scanned

\* The cleanup plans of a process, wherever one is kept, shown or on its way.
OutPlans(out) == {out[i].plan : i \in Of(out, "response")}
InPlans(in) == {in[i].args : i \in {j \in DOMAIN in : in[j].method = "applyCleanupPlan"}}

Issued ==
  (cleanupPlans \cup {shown["cleanup"]} \cup OutPlans(outbox) \cup InPlans(inbox)) \cap CleanupPlans

\* In the first process a cleanup plan's id tells it from every other one.
OneIdOnePlan ==
  up /\ starts = 1 =>
    /\ \A p \in Issued : p.id <= planCounter
    /\ \A p, q \in Issued : p.id = q.id => p = q

DaemonInv ==
  /\ Typed /\ ScanUnderWay /\ NothingKept /\ Numbered /\ Fresh
  /\ InSequence /\ HighestRead /\ ReadyIsCurrent /\ ScanIsCurrent /\ PlansHaveIndex /\ OneIdOnePlan

-----------------------------------------------------------------------------
(* Sequences and pipes.                                                    *)

LEMMA AppendFacts ==
  ASSUME NEW S, NEW s \in Seq(S), NEW x \in S
  PROVE  /\ Append(s, x) \in Seq(S) /\ Append(s, x)[Len(s) + 1] = x
         /\ DOMAIN s = 1..Len(s) /\ Len(s) \in Nat
         /\ DOMAIN Append(s, x) = DOMAIN s \cup {Len(s) + 1}
         /\ \A i \in DOMAIN s : Append(s, x)[i] = s[i] /\ i < Len(s) + 1 /\ s[i] \in S
<1>1. Len(Append(s, x)) = Len(s) + 1 /\ DOMAIN Append(s, x) = 1..Len(Append(s, x))
  OBVIOUS
<1>2. 1..(Len(s) + 1) = 1..Len(s) \cup {Len(s) + 1}
  OBVIOUS
<1> QED
  BY <1>1, <1>2

LEMMA TailFacts ==
  ASSUME NEW S, NEW s \in Seq(S), s # <<>>
  PROVE  /\ Tail(s) \in Seq(S) /\ DOMAIN s = 1..Len(s) /\ Len(s) \in Nat \ {0}
         /\ Head(s) = s[1] /\ Head(s) \in S /\ 1 \in DOMAIN s
         /\ DOMAIN Tail(s) = 1..(Len(s) - 1)
         /\ \A i \in DOMAIN Tail(s) : Tail(s)[i] = s[i + 1] /\ i + 1 \in DOMAIN s
         /\ \A i \in DOMAIN s \ {1} : i - 1 \in DOMAIN Tail(s) /\ Tail(s)[i - 1] = s[i]
<1>1. Len(Tail(s)) = Len(s) - 1 /\ DOMAIN Tail(s) = 1..Len(Tail(s))
  OBVIOUS
<1> QED
  BY <1>1

LEMMA ConcatOne ==
  ASSUME NEW S, NEW s \in Seq(S), NEW x \in S, NEW y \in S
  PROVE  s \o <<x>> = Append(s, x) /\ s \o <<x>> \o <<y>> = Append(Append(s, x), y)
  OBVIOUS

LEMMA OfAppend ==
  ASSUME NEW out \in Seq(Messages), NEW m \in Messages, NEW type
  PROVE  Of(Append(out, m), type) =
           IF m.type = type THEN Of(out, type) \cup {Len(out) + 1} ELSE Of(out, type)
<1> DEFINE longer == Append(out, m)
<1>1. /\ DOMAIN longer = DOMAIN out \cup {Len(out) + 1} /\ longer[Len(out) + 1] = m
      /\ \A i \in DOMAIN out : longer[i] = out[i]
  BY AppendFacts
<1> HIDE DEF longer
<1> QED
  BY <1>1 DEF Of, longer

\* A message has the fields of its type.
LEMMA MessageFields ==
  ASSUME NEW m \in Messages
  PROVE  /\ m.type = "response" => m.n \in Nat /\ m.plan \in Plan \cup {None}
         /\ m.type # "response" => m.type = "event" /\ m.seq \in Nat
  BY DEF Messages

LEMMA MessagesMade ==
  /\ \A n \in Nat, plan \in Plan \cup {None} :
       [type |-> "response", n |-> n, plan |-> plan] \in Messages
  /\ \A seq \in Nat : [type |-> "event", seq |-> seq] \in Messages
  BY DEF Messages

\* The arguments of a request are those of its method.
LEMMA RequestFields ==
  ASSUME NEW req \in Requests
  PROVE  /\ req.n \in Nat
         /\ req.method = "scan" => req.args \in Roots
         /\ req.method = "markStale" => req.args = FirstRoot
         /\ req.method = "buildCleanupPlan" => req.args.wanted \in Selections
         /\ req.method = "applyCleanupPlan" => req.args \in CleanupPlans
         /\ req.method = "restoreTrashSession" => req.args.root \in Roots
         /\ req.method = "applyReferenceRewrite" => req.args.to \in Assets
  BY DEF Requests

-----------------------------------------------------------------------------
(* What one message does to the numbers on their way.                      *)

Response(n, plan) == [type |-> "response", n |-> n, plan |-> plan]
Told(seq) == [type |-> "event", seq |-> seq]

LEMMA NumberedAnswer ==
  ASSUME NEW in \in Seq(Requests), in # <<>>, NEW out \in Seq(Messages),
         NEW awaited, NEW asked, NumberedIn(in, out, awaited, asked),
         NEW plan \in Plan \cup {None}
  PROVE  NumberedIn(Tail(in), Append(out, Response(Head(in).n, plan)), awaited, asked)
<1> DEFINE rest == Tail(in)
           m == Response(Head(in).n, plan)
           longer == Append(out, m)
           replies == Of(out, "response")
<1>1. /\ DOMAIN rest = 1..(Len(in) - 1) /\ 1 \in DOMAIN in /\ Head(in) = in[1]
      /\ \A i \in DOMAIN rest : rest[i] = in[i + 1] /\ i + 1 \in DOMAIN in
      /\ \A i \in DOMAIN in \ {1} : i - 1 \in DOMAIN rest /\ rest[i - 1] = in[i]
      /\ DOMAIN in = 1..Len(in) /\ Len(in) \in Nat /\ Head(in) \in Requests
  BY TailFacts
<1>2. m \in Messages /\ m.n = in[1].n /\ m.type = "response"
  BY <1>1, RequestFields DEF Messages, Response
<1>3. /\ Of(longer, "response") = replies \cup {Len(out) + 1}
      /\ longer[Len(out) + 1] = m
      /\ \A i \in DOMAIN out : longer[i] = out[i] /\ i < Len(out) + 1
      /\ replies \subseteq DOMAIN out /\ DOMAIN out = 1..Len(out) /\ Len(out) \in Nat
  BY <1>2, AppendFacts, OfAppend DEF Of
<1> HIDE DEF rest, m, longer, replies
<1>4. /\ \A i \in DOMAIN in : in[i].n \in 1..asked
      /\ \A i \in replies : out[i].n \in 1..asked
      /\ \A i, j \in DOMAIN in : i < j => in[i].n < in[j].n
      /\ \A i, j \in replies : i < j => out[i].n < out[j].n
      /\ \A i \in replies, j \in DOMAIN in : out[i].n < in[j].n
      /\ {in[i].n : i \in DOMAIN in} \cup {out[i].n : i \in replies} = awaited
  BY DEF NumberedIn, replies
<1>5. \A i \in DOMAIN rest : rest[i].n \in 1..asked
  BY <1>1, <1>4
<1>6. \A i \in Of(longer, "response") : longer[i].n \in 1..asked
  BY <1>1, <1>2, <1>3, <1>4
<1>7. \A i, j \in DOMAIN rest : i < j => rest[i].n < rest[j].n
  BY <1>1, <1>4
<1>8. \A i, j \in Of(longer, "response") : i < j => longer[i].n < longer[j].n
  BY <1>1, <1>2, <1>3, <1>4
<1>9. \A i \in Of(longer, "response"), j \in DOMAIN rest : longer[i].n < rest[j].n
  <2> SUFFICES ASSUME NEW i \in Of(longer, "response"), NEW j \in DOMAIN rest
               PROVE  longer[i].n < rest[j].n
    OBVIOUS
  <2>1. rest[j] = in[j + 1] /\ j + 1 \in DOMAIN in /\ 1 < j + 1
    BY <1>1
  <2>2. CASE i = Len(out) + 1
    BY <1>1, <1>2, <1>3, <1>4, <2>1, <2>2
  <2>3. CASE i \in replies
    <3>1. longer[i].n = out[i].n
      BY <1>3, <2>3
    <3> QED
      BY <1>4, <2>1, <2>3, <3>1
  <2> QED
    BY <1>3, <2>2, <2>3
<1>10. /\ {in[i].n : i \in DOMAIN in} = {in[1].n} \cup {rest[i].n : i \in DOMAIN rest}
       /\ {longer[i].n : i \in Of(longer, "response")}
            = {out[i].n : i \in replies} \cup {in[1].n}
  <2>1. {in[i].n : i \in DOMAIN in} \subseteq {in[1].n} \cup {rest[i].n : i \in DOMAIN rest}
    BY <1>1
  <2>2. {in[1].n} \cup {rest[i].n : i \in DOMAIN rest} \subseteq {in[i].n : i \in DOMAIN in}
    BY <1>1
  <2>3. {longer[i].n : i \in Of(longer, "response")}
          = {out[i].n : i \in replies} \cup {in[1].n}
    BY <1>2, <1>3
  <2> QED
    BY <2>1, <2>2, <2>3
<1>11. {rest[i].n : i \in DOMAIN rest} \cup {longer[i].n : i \in Of(longer, "response")} = awaited
  BY <1>4, <1>10
<1> QED
  BY <1>5, <1>6, <1>7, <1>8, <1>9, <1>11 DEF NumberedIn, rest, longer, m

LEMMA NumberedTold ==
  ASSUME NEW in, NEW out \in Seq(Messages), NEW awaited, NEW asked,
         NumberedIn(in, out, awaited, asked), NEW seq \in Nat
  PROVE  NumberedIn(in, Append(out, Told(seq)), awaited, asked)
<1> DEFINE longer == Append(out, Told(seq))
<1>1. Told(seq) \in Messages /\ Told(seq).type = "event"
  BY DEF Messages, Told
<1>2. /\ Of(longer, "response") = Of(out, "response")
      /\ \A i \in Of(out, "response") : longer[i] = out[i]
  BY <1>1, AppendFacts, OfAppend DEF Of
<1> DEFINE replies == Of(out, "response")
<1> HIDE DEF longer, replies
<1>3. Of(longer, "response") = replies /\ \A i \in replies : longer[i] = out[i]
  BY <1>2 DEF replies
<1>4. /\ \A i \in DOMAIN in : in[i].n \in 1..asked
      /\ \A i \in replies : out[i].n \in 1..asked
      /\ \A i, j \in DOMAIN in : i < j => in[i].n < in[j].n
      /\ \A i, j \in replies : i < j => out[i].n < out[j].n
      /\ \A i \in replies, j \in DOMAIN in : out[i].n < in[j].n
      /\ {in[i].n : i \in DOMAIN in} \cup {out[i].n : i \in replies} = awaited
  BY DEF NumberedIn, replies
<1>5. {longer[i].n : i \in replies} = {out[i].n : i \in replies}
  BY <1>3
<1>6. /\ \A i \in replies : longer[i].n \in 1..asked
      /\ \A i, j \in replies : i < j => longer[i].n < longer[j].n
      /\ \A i \in replies, j \in DOMAIN in : longer[i].n < in[j].n
  BY <1>3, <1>4
<1>7. NumberedIn(in, longer, awaited, asked)
  BY <1>3, <1>4, <1>5, <1>6 DEF NumberedIn
<1> QED
  BY <1>7 DEF longer

LEMMA NumberedAsk ==
  ASSUME NEW in \in Seq(Requests), NEW out, NEW awaited, NEW asked \in Nat,
         NumberedIn(in, out, awaited, asked), NEW req \in Requests, req.n = asked + 1
  PROVE  NumberedIn(Append(in, req), out, awaited \cup {asked + 1}, asked + 1)
<1> DEFINE longer == Append(in, req)
           replies == Of(out, "response")
<1>1. /\ DOMAIN longer = DOMAIN in \cup {Len(in) + 1} /\ longer[Len(in) + 1] = req
      /\ \A i \in DOMAIN in : longer[i] = in[i] /\ i < Len(in) + 1
      /\ DOMAIN in = 1..Len(in) /\ Len(in) \in Nat
  BY AppendFacts
<1> HIDE DEF longer, replies
<1>2. /\ \A i \in DOMAIN in : in[i].n \in 1..asked
      /\ \A i \in replies : out[i].n \in 1..asked
      /\ \A i, j \in DOMAIN in : i < j => in[i].n < in[j].n
      /\ \A i, j \in replies : i < j => out[i].n < out[j].n
      /\ \A i \in replies, j \in DOMAIN in : out[i].n < in[j].n
      /\ {in[i].n : i \in DOMAIN in} \cup {out[i].n : i \in replies} = awaited
  BY DEF NumberedIn, replies
<1>3. \A i \in DOMAIN longer : longer[i].n \in 1..(asked + 1)
  BY <1>1, <1>2
<1>4. \A i \in replies : out[i].n \in 1..(asked + 1)
  BY <1>2
<1>5. \A i, j \in DOMAIN longer : i < j => longer[i].n < longer[j].n
  BY <1>1, <1>2
<1>6. \A i \in replies, j \in DOMAIN longer : out[i].n < longer[j].n
  BY <1>1, <1>2
<1>7. {longer[i].n : i \in DOMAIN longer} = {in[i].n : i \in DOMAIN in} \cup {asked + 1}
  BY <1>1
<1> QED
  BY <1>2, <1>3, <1>4, <1>5, <1>6, <1>7 DEF NumberedIn, longer, replies

\* The host reads one message: a response is no longer awaited.
LEMMA NumberedRead ==
  ASSUME NEW in, NEW out \in Seq(Messages), out # <<>>, NEW awaited, NEW asked \in Nat,
         NumberedIn(in, out, awaited, asked), \A j \in DOMAIN in : in[j].n \in Nat
  PROVE  NumberedIn(in, Tail(out),
           IF Head(out).type = "response" THEN awaited \ {Head(out).n} ELSE awaited, asked)
<1> DEFINE rest == Tail(out)
           replies == Of(out, "response")
           left == Of(rest, "response")
           now == IF Head(out).type = "response" THEN awaited \ {Head(out).n} ELSE awaited
<1>1. /\ DOMAIN rest = 1..(Len(out) - 1) /\ 1 \in DOMAIN out /\ Head(out) = out[1]
      /\ \A i \in DOMAIN rest : rest[i] = out[i + 1] /\ i + 1 \in DOMAIN out
      /\ \A i \in DOMAIN out \ {1} : i - 1 \in DOMAIN rest /\ rest[i - 1] = out[i]
      /\ DOMAIN out = 1..Len(out) /\ Len(out) \in Nat
  BY TailFacts
<1>2. /\ \A i \in left : i + 1 \in replies /\ rest[i] = out[i + 1] /\ i \in Nat \ {0}
      /\ \A i \in replies \ {1} : i - 1 \in left /\ rest[i - 1] = out[i] /\ 1 < i
      /\ 1 \in replies <=> Head(out).type = "response"
      /\ replies \subseteq Nat
  BY <1>1 DEF Of
<1> HIDE DEF rest, replies, left
<1>3. /\ \A i \in DOMAIN in : in[i].n \in 1..asked
      /\ \A i \in replies : out[i].n \in 1..asked
      /\ \A i, j \in DOMAIN in : i < j => in[i].n < in[j].n
      /\ \A i, j \in replies : i < j => out[i].n < out[j].n
      /\ \A i \in replies, j \in DOMAIN in : out[i].n < in[j].n
      /\ {in[i].n : i \in DOMAIN in} \cup {out[i].n : i \in replies} = awaited
  BY DEF NumberedIn, replies
<1>4. \A i \in left : rest[i].n \in 1..asked
  BY <1>2, <1>3
<1>5. ASSUME NEW i \in left, NEW j \in left, i < j PROVE rest[i].n < rest[j].n
  <2>1. i + 1 \in replies /\ j + 1 \in replies /\ i + 1 < j + 1
    BY <1>2, <1>5
  <2>2. out[i + 1].n < out[j + 1].n
    BY <1>3, <2>1
  <2> QED
    BY <1>2, <2>2
<1>6. \A i \in left, j \in DOMAIN in : rest[i].n < in[j].n
  BY <1>2, <1>3
<1>7. {rest[i].n : i \in left} = {out[i].n : i \in replies \ {1}}
  <2>1. {rest[i].n : i \in left} \subseteq {out[i].n : i \in replies \ {1}}
    BY <1>2
  <2>2. {out[i].n : i \in replies \ {1}} \subseteq {rest[i].n : i \in left}
    BY <1>2
  <2> QED
    BY <2>1, <2>2
<1>8. {in[i].n : i \in DOMAIN in} \cup {rest[i].n : i \in left} = now
  <2>1. CASE Head(out).type = "response"
    <3>1. 1 \in replies /\ Head(out).n = out[1].n
      BY <1>1, <1>2, <2>1
    <3>2. \A i \in replies \ {1} : out[i].n # out[1].n
      BY <1>2, <1>3, <3>1
    <3>3. \A i \in DOMAIN in : in[i].n # out[1].n
      BY <1>3, <3>1
    <3>4. {out[i].n : i \in replies} = {out[i].n : i \in replies \ {1}} \cup {out[1].n}
      BY <3>1
    <3> QED
      BY <1>3, <1>7, <2>1, <3>1, <3>2, <3>3, <3>4
  <2>2. CASE Head(out).type # "response"
    <3>1. replies \ {1} = replies
      BY <1>2, <2>2
    <3> QED
      BY <1>3, <1>7, <2>2, <3>1
  <2> QED
    BY <2>1, <2>2
<1> QED
  BY <1>3, <1>4, <1>5, <1>6, <1>8 DEF NumberedIn, rest, left

LEMMA EventsAnswer ==
  ASSUME NEW out \in Seq(Messages), NEW read, NEW running, NEW numbered,
         EventsIn(out, read, running, numbered), NEW m \in Messages, m.type = "response"
  PROVE  EventsIn(Append(out, m), read, running, numbered)
<1> DEFINE longer == Append(out, m)
           events == Of(out, "event")
<1>1. Of(longer, "event") = events /\ \A i \in events : longer[i] = out[i]
  BY AppendFacts, OfAppend DEF Of
<1> HIDE DEF longer, events
<1>2. {longer[i].seq : i \in events} = {out[i].seq : i \in events}
  BY <1>1
<1>3. /\ \A i, j \in events : i < j => out[i].seq < out[j].seq
      /\ \E last \in {out[i].seq : i \in events} \cup {read} :
           /\ {out[i].seq : i \in events} = (read + 1)..last
           /\ running => numbered = last
  BY DEF EventsIn, events
<1>4. \A i, j \in events : i < j => longer[i].seq < longer[j].seq
  BY <1>1, <1>3
<1>5. EventsIn(longer, read, running, numbered)
  BY <1>1, <1>2, <1>3, <1>4 DEF EventsIn
<1> QED
  BY <1>5 DEF longer

\* The next number follows the last one under way.
LEMMA EventsTold ==
  ASSUME NEW out \in Seq(Messages), NEW read \in Nat, NEW numbered \in Nat,
         EventsIn(out, read, TRUE, numbered)
  PROVE  EventsIn(Append(out, Told(numbered + 1)), read, TRUE, numbered + 1)
<1> DEFINE longer == Append(out, Told(numbered + 1))
           events == Of(out, "event")
           underWay == {out[i].seq : i \in events}
           now == {longer[i].seq : i \in Of(longer, "event")}
<1>1. /\ Told(numbered + 1) \in Messages /\ Told(numbered + 1).type = "event"
      /\ Told(numbered + 1).seq = numbered + 1
  BY DEF Messages, Told
<1>2. /\ Of(longer, "event") = events \cup {Len(out) + 1}
      /\ longer[Len(out) + 1].seq = numbered + 1 /\ Len(out) \in Nat
      /\ \A i \in events : longer[i] = out[i] /\ i \in 1..Len(out)
  BY <1>1, AppendFacts, OfAppend DEF Of
<1> HIDE DEF longer, events
<1>3. /\ \A i, j \in events : i < j => out[i].seq < out[j].seq
      /\ underWay = (read + 1)..numbered /\ numbered \in underWay \cup {read}
  BY DEF EventsIn, events
<1>4. \A i \in events : out[i].seq \in (read + 1)..numbered
  BY <1>3
<1>5. now = underWay \cup {numbered + 1}
  BY <1>2
<1>6. read <= numbered
  <2>1. CASE numbered \in underWay
    <3> HIDE DEF underWay
    <3> QED
      BY <1>3, <2>1
  <2> QED
    BY <1>3, <2>1
<1>7. now = (read + 1)..(numbered + 1)
  <2>1. (read + 1)..(numbered + 1) = ((read + 1)..numbered) \cup {numbered + 1}
    BY <1>6
  <2> QED
    BY <1>3, <1>5, <2>1
<1>8. ASSUME NEW i \in Of(longer, "event"), NEW j \in Of(longer, "event"), i < j
      PROVE  longer[i].seq < longer[j].seq
  <2>1. i \in events
    BY <1>2, <1>8
  <2>2. longer[i].seq = out[i].seq /\ out[i].seq \in (read + 1)..numbered
    BY <1>2, <1>4, <2>1
  <2>3. CASE j \in events
    BY <1>2, <1>3, <1>8, <2>1, <2>2, <2>3
  <2>4. CASE j = Len(out) + 1
    BY <1>2, <2>2, <2>4
  <2> QED
    BY <1>2, <2>3, <2>4
<1>9. numbered + 1 \in now \cup {read}
  BY <1>5
<1>10. EventsIn(longer, read, TRUE, numbered + 1)
  BY <1>7, <1>8, <1>9 DEF EventsIn
<1> QED
  BY <1>10 DEF longer

\* The first event under way follows the one read last.
LEMMA EventsRead ==
  ASSUME NEW out \in Seq(Messages), out # <<>>, NEW read \in Nat,
         NEW running, NEW numbered, EventsIn(out, read, running, numbered)
  PROVE  /\ Head(out).type = "event" => Head(out).seq = read + 1
         /\ EventsIn(Tail(out), IF Head(out).type = "event" THEN Head(out).seq ELSE read,
                     running, numbered)
<1> DEFINE rest == Tail(out)
           events == Of(out, "event")
           left == Of(rest, "event")
           underWay == {out[i].seq : i \in events}
           now == {rest[i].seq : i \in left}
<1>1. /\ DOMAIN rest = 1..(Len(out) - 1) /\ 1 \in DOMAIN out /\ Head(out) = out[1]
      /\ \A i \in DOMAIN rest : rest[i] = out[i + 1] /\ i + 1 \in DOMAIN out
      /\ \A i \in DOMAIN out \ {1} : i - 1 \in DOMAIN rest /\ rest[i - 1] = out[i]
      /\ DOMAIN out = 1..Len(out) /\ Len(out) \in Nat
      /\ \A i \in DOMAIN out : out[i] \in Messages
  BY TailFacts, AppendFacts
<1>2. /\ \A i \in left : i + 1 \in events /\ rest[i] = out[i + 1] /\ i \in Nat \ {0}
      /\ \A i \in events \ {1} : i - 1 \in left /\ rest[i - 1] = out[i] /\ 1 < i
      /\ 1 \in events <=> Head(out).type = "event"
      /\ events \subseteq Nat
  BY <1>1 DEF Of
<1>3. \A i \in events : out[i].seq \in Nat
  BY <1>1, MessageFields DEF Of
<1> HIDE DEF rest, events, left
<1>4. \A i, j \in events : i < j => out[i].seq < out[j].seq
  BY DEF EventsIn, events
<1>5. PICK last \in underWay \cup {read} :
        underWay = (read + 1)..last /\ (running => numbered = last)
  BY DEF EventsIn, events
<1>6. last \in Nat /\ read <= last
  BY <1>3, <1>5
<1>7. ASSUME NEW i \in left, NEW j \in left, i < j PROVE rest[i].seq < rest[j].seq
  <2>1. i + 1 \in events /\ j + 1 \in events /\ i + 1 < j + 1
    BY <1>2, <1>7
  <2>2. out[i + 1].seq < out[j + 1].seq
    BY <1>4, <2>1
  <2> QED
    BY <1>2, <2>2
<1>8. now = {out[i].seq : i \in events \ {1}}
  <2>1. now \subseteq {out[i].seq : i \in events \ {1}}
    BY <1>2
  <2>2. {out[i].seq : i \in events \ {1}} \subseteq now
    BY <1>2
  <2> QED
    BY <2>1, <2>2
<1>9. CASE Head(out).type = "event"
  <2>1. 1 \in events /\ \A i \in events \ {1} : out[1].seq < out[i].seq
    BY <1>2, <1>4, <1>9
  <2>2. out[1].seq = read + 1
    <3>1. out[1].seq \in underWay
      BY <2>1
    <3>2. out[1].seq \in (read + 1)..last
      BY <1>5, <3>1
    <3>3. read + 1 \in (read + 1)..last
      BY <1>6, <3>2
    <3>4. PICK i \in events : out[i].seq = read + 1
      BY <1>5, <3>3
    <3> QED
      BY <1>3, <2>1, <3>2, <3>4
  <2>3. now = underWay \ {read + 1} /\ read + 1 \in underWay
    <3>1. \A i \in events \ {1} : out[i].seq # read + 1
      BY <1>3, <2>1, <2>2
    <3>2. underWay = {out[i].seq : i \in events \ {1}} \cup {read + 1}
      BY <2>1, <2>2
    <3> QED
      BY <1>8, <3>1, <3>2
  <2>4. now = (read + 1 + 1)..last /\ last \in now \cup {read + 1}
    <3>1. now = ((read + 1)..last) \ {read + 1} /\ read + 1 <= last
      <4> HIDE DEF now, underWay
      <4> QED
        BY <1>5, <1>6, <2>3
    <3> HIDE DEF now, underWay
    <3> QED
      BY <1>6, <3>1
  <2> QED
    BY <1>1, <1>5, <1>7, <1>9, <2>2, <2>4 DEF EventsIn, rest, left
<1>10. CASE Head(out).type # "event"
  <2>1. now = underWay
    <3>1. events \ {1} = events
      BY <1>2, <1>10
    <3> QED
      BY <1>8, <3>1
  <2> QED
    BY <1>5, <1>7, <1>10, <2>1 DEF EventsIn, rest, left
<1> QED
  BY <1>9, <1>10

-----------------------------------------------------------------------------
(* Plans and requests have their types.                                    *)

LEMMA TypedFacts ==
  ASSUME Typed
  PROVE  /\ present \subseteq Assets /\ used \subseteq Assets /\ loose \subseteq Assets
         /\ \A r \in Roots : sessions[r] \subseteq SUBSET Assets
         /\ Scanned \subseteq Roots /\ \A r \in Scanned : indices[r] \in Index
         /\ planCounter \in Nat /\ eventSequence \in Nat
         /\ lastEvent \in Nat /\ lastSequence \in Nat
         /\ inbox \in Seq(Requests) /\ outbox \in Seq(Messages)
         /\ sent \in 0..MaxRequests /\ sent \in Nat /\ MaxRequests \in Nat
         /\ cleanupPlans \subseteq CleanupPlans /\ resolutionPlans \subseteq Plan
         /\ \A k \in Kinds : shown[k] \in Plan \cup {None} /\ (shown[k] # None => shown[k].kind = k)
         /\ up \in BOOLEAN
<1>1. MaxRequests \in Nat
  BY DaemonAssumption
<1> QED
  BY <1>1 DEF Typed, DaemonTypeOK, Scanned

LEMMA ResolveType ==
  ASSUME NEW path
  PROVE  /\ Resolve(path) \in Scanned \cup {None}
         /\ path \in Scanned => Resolve(path) = path
<1>1. CASE path \in Scanned
  BY <1>1 DEF Resolve
<1>2. CASE path \notin Scanned /\ path = NoPath /\ \E r \in Roots : Scanned = {r}
  <2>1. (CHOOSE r \in Roots : Scanned = {r}) \in Scanned
    BY <1>2
  <2> QED
    BY <1>2, <2>1 DEF Resolve
<1>3. CASE path \notin Scanned /\ ~(path = NoPath /\ \E r \in Roots : Scanned = {r})
  BY <1>3 DEF Resolve
<1> QED
  BY <1>1, <1>2, <1>3

LEMMA NoneIsNothing == None \notin Plan /\ None \notin Index /\ None \notin Roots
  BY NothingAssumption, DaemonAssumption

LEMMA CleanupPlanType ==
  ASSUME Typed, NEW r \in Scanned, NEW wanted \in Selections, NEW id \in Nat,
         NEW n \in 1..MaxRequests
  PROVE  LET plan == CleanupPlan(r, wanted, id, n)
         IN  /\ plan \in CleanupPlans /\ plan.targets \subseteq AssetsOf(r)
             /\ plan.root = r /\ plan.id = id /\ plan.born = n
<1> DEFINE proposed == Candidates(indices[r])
           asked == IF wanted = {} THEN proposed ELSE wanted
           plan == CleanupPlan(r, wanted, id, n)
<1>1. r \in Roots /\ indices[r] \in Index /\ indices[r].assets \subseteq AssetsOf(r)
  BY DEF Typed, DaemonTypeOK, Scanned
<1>2. proposed \subseteq AssetsOf(r) /\ proposed \subseteq Assets
  BY <1>1 DEF Candidates, AssetsOf
<1>3. asked \subseteq Assets
  BY <1>2, DaemonAssumption
<1>4. plan = [kind |-> "cleanup", id |-> id, root |-> r, born |-> n,
              targets |-> asked \cap proposed, refusals |-> asked \ proposed]
  BY DEF CleanupPlan
<1> HIDE DEF proposed, asked, plan
<1>5. plan \in Plan
  BY <1>1, <1>2, <1>3, <1>4 DEF Plan, Kinds
<1> QED
  BY <1>2, <1>4, <1>5 DEF CleanupPlans, plan

LEMMA ResolutionPlanType ==
  ASSUME Typed, NEW r \in Scanned, NEW g \in DOMAIN indices[r].groups, NEW keep,
         NEW n \in 1..MaxRequests
  PROVE  LET plan == ResolutionPlan(r, g, keep, n)
         IN  /\ plan \in Plan /\ plan.targets \subseteq AssetsOf(r)
             /\ plan.root = r /\ plan.id = g /\ plan.born = n /\ plan.kind = "resolution"
<1> DEFINE plan == ResolutionPlan(r, g, keep, n)
           group == indices[r].groups[g]
<1>1. /\ r \in Roots /\ indices[r] \in Index /\ indices[r].assets \subseteq AssetsOf(r)
      /\ group \subseteq indices[r].assets
  BY DEF Typed, DaemonTypeOK, Scanned, Grouped
<1>2. indices[r].groups \in Seq(SUBSET Assets)
  BY <1>1 DEF Index
<1>3. g \in Nat
  BY <1>2
<1>4. group \subseteq AssetsOf(r) /\ group \subseteq Assets
  BY <1>1 DEF AssetsOf
<1>5. plan = [kind |-> "resolution", id |-> g, root |-> r, born |-> n,
              targets |-> group \ {keep}, refusals |-> {}]
  BY DEF ResolutionPlan
<1> HIDE DEF plan, group
<1>6. plan \in Plan
  BY <1>1, <1>3, <1>4, <1>5 DEF Plan, Kinds
<1> QED
  BY <1>4, <1>5, <1>6 DEF plan

LEMMA RequestIn ==
  ASSUME Typed, ScanUnderWay, Numbered, inbox # <<>>
  PROVE  Req \in Requests /\ Req = inbox[1] /\ 1 \in DOMAIN inbox /\ Req.n \in 1..MaxRequests
         /\ Req.n \in 1..sent
<1>0. inbox \in Seq(Requests)
  BY TypedFacts
<1>1. Req \in Requests /\ Req = inbox[1] /\ 1 \in DOMAIN inbox
  BY <1>0, TailFacts DEF Req
<1>2. inbox[1].n \in 1..sent
  BY <1>1 DEF Numbered, NumberedIn
<1> QED
  BY <1>1, <1>2, TypedFacts

-----------------------------------------------------------------------------
(* What a step does to the pipes.                                          *)

PipesStay == UNCHANGED <<inbox, outbox, eventSequence, process, host>>

Asks(req) ==
  /\ up /\ sent < MaxRequests /\ req.n = sent + 1
  /\ inbox' = Append(inbox, req)
  /\ sent' = sent + 1 /\ waiting' = waiting \cup {sent + 1}
  /\ req.method = "applyCleanupPlan" => req.args = shown["cleanup"]
  /\ shown' \in {shown, [shown EXCEPT !["resolution"] = None]}
  /\ UNCHANGED <<outbox, eventSequence, process, lastSequence, lastEvent>>

Answers(plan) ==
  /\ up /\ inbox # <<>>
  /\ inbox' = Tail(inbox) /\ outbox' = Append(outbox, Response(Req.n, plan))
  /\ UNCHANGED <<eventSequence, process, host>>

AnswersAndTells ==
  /\ up /\ inbox # <<>>
  /\ inbox' = Tail(inbox)
  /\ outbox' = Append(Append(outbox, Response(Req.n, None)), Told(eventSequence + 1))
  /\ eventSequence' = eventSequence + 1
  /\ UNCHANGED <<process, host>>

Tells ==
  /\ up /\ inbox # <<>>
  /\ outbox' = Append(outbox, Told(eventSequence + 1))
  /\ eventSequence' = eventSequence + 1
  /\ UNCHANGED <<inbox, process, host>>

LEMMA ReplyAnswers ==
  ASSUME Typed, ScanUnderWay, Numbered, up, inbox # <<>>, NEW plan \in Plan \cup {None},
         Reply(plan), UNCHANGED <<eventSequence, process, host>>
  PROVE  Answers(plan)
<1>1. Response(Req.n, plan) \in Messages
  BY RequestIn, RequestFields, MessagesMade DEF Response
<1>2. outbox' = Append(outbox, Response(Req.n, plan))
  BY <1>1, TypedFacts, ConcatOne DEF Reply, Answer, Response
<1> QED
  BY <1>2 DEF Reply, Answers

LEMMA ReplyTells ==
  ASSUME Typed, ScanUnderWay, Numbered, up, inbox # <<>>,
         ReplyThenEvent, UNCHANGED <<process, host>>
  PROVE  AnswersAndTells
<1>1. Response(Req.n, None) \in Messages /\ Told(eventSequence + 1) \in Messages
  BY RequestIn, RequestFields, MessagesMade, TypedFacts DEF Response, Told
<1>2. outbox' = Append(Append(outbox, Response(Req.n, None)), Told(eventSequence + 1))
  BY <1>1, TypedFacts, ConcatOne DEF ReplyThenEvent, Answer, Event, Response, Told
<1> QED
  BY <1>2 DEF ReplyThenEvent, AnswersAndTells

LEMMA PostAsks ==
  ASSUME Typed, NEW method, NEW args, Post(method, args), HostUnchanged,
         shown' \in {shown, [shown EXCEPT !["resolution"] = None]},
         [n |-> sent + 1, method |-> method, args |-> args] \in Requests,
         method = "applyCleanupPlan" => args = shown["cleanup"]
  PROVE  \E req \in Requests : Asks(req)
<1> DEFINE req == [n |-> sent + 1, method |-> method, args |-> args]
<1>1. req.n = sent + 1 /\ req.method = method /\ req.args = args
  OBVIOUS
<1>2. Asks(req)
  BY <1>1 DEF Asks, Post, HostUnchanged
<1> QED
  BY <1>2

LEMMA SendAsks ==
  ASSUME Typed, Send
  PROVE  \E req \in Requests : Asks(req)
<1> USE PostAsks
<1>0. /\ sent + 1 \in Nat /\ HostUnchanged
      /\ shown' \in {shown, [shown EXCEPT !["resolution"] = None]}
  <2>1. sent + 1 \in Nat
    BY TypedFacts
  <2>2. HostUnchanged
    BY DEF Send
  <2>3. shown' = shown \/ shown' = [shown EXCEPT !["resolution"] = None]
    BY Zenon DEF Send
  <2> QED
    BY <2>1, <2>2, <2>3
<1>1. ASSUME NEW r \in Roots, Post("scan", r) PROVE \E req \in Requests : Asks(req)
  BY <1>0, <1>1 DEF Requests
<1>2. ASSUME NEW path \in Paths, Post("getAnalysis", path)
      PROVE  \E req \in Requests : Asks(req)
  BY <1>0, <1>2 DEF Requests
<1>3. ASSUME Post("other", NoPath) PROVE \E req \in Requests : Asks(req)
  BY <1>0, <1>3 DEF Requests, Paths
<1>4. ASSUME Post("shutdown", NoPath) PROVE \E req \in Requests : Asks(req)
  BY <1>0, <1>4 DEF Requests, Paths
<1>5. ASSUME NEW path \in Paths, NEW wanted \in Selections,
             Post("buildCleanupPlan", [path |-> path, wanted |-> wanted])
      PROVE  \E req \in Requests : Asks(req)
  BY <1>0, <1>5 DEF Requests
<1>6. ASSUME NEW path \in Paths, NEW g \in GroupIds, NEW keep \in Assets,
             Post("buildResolutionPlan", [path |-> path, group |-> g, keep |-> keep])
      PROVE  \E req \in Requests : Asks(req)
  BY <1>0, <1>6 DEF Requests
<1>7. ASSUME Apply("cleanup", "applyCleanupPlan") PROVE \E req \in Requests : Asks(req)
  <2>1. shown["cleanup"] \in CleanupPlans
    BY <1>7, TypedFacts DEF Apply, CleanupPlans, Kinds
  <2> QED
    BY <1>0, <1>7, <2>1 DEF Apply, Requests
<1>8. ASSUME Apply("resolution", "applyResolutionPlan") PROVE \E req \in Requests : Asks(req)
  <2>1. shown["resolution"] \in Plan
    BY <1>8, TypedFacts DEF Apply, Kinds
  <2> QED
    BY <1>0, <1>8, <2>1 DEF Apply, Requests
<1>9. ASSUME NEW path \in Paths, NEW a \in present,
             Post("trash_asset", [path |-> path, asset |-> a])
      PROVE  \E req \in Requests : Asks(req)
  <2>1. a \in Assets
    BY TypedFacts
  <2> QED
    BY <1>0, <1>9, <2>1 DEF Requests
<1>10. ASSUME NEW a \in loose, Post("restore_asset", a)
       PROVE  \E req \in Requests : Asks(req)
  <2>1. a \in Assets
    BY TypedFacts
  <2> QED
    BY <1>0, <1>10, <2>1 DEF Requests
<1>11. ASSUME NEW r \in Roots, NEW batch \in sessions[r],
              Post("restoreTrashSession", [root |-> r, session |-> batch])
       PROVE  \E req \in Requests : Asks(req)
  <2>1. batch \in SUBSET Assets
    BY TypedFacts
  <2> QED
    BY <1>0, <1>11, <2>1 DEF Requests
<1>12. ASSUME NEW path \in Paths, NEW from \in Assets, NEW to \in Assets,
              Post("applyReferenceRewrite", [path |-> path, from |-> from, to |-> to])
       PROVE  \E req \in Requests : Asks(req)
  BY <1>0, <1>12 DEF Requests
<1> QED
  BY <1>1, <1>2, <1>3, <1>4, <1>5, <1>6, <1>7, <1>8, <1>9, <1>10, <1>11, <1>12, Zenon DEF Send

LEMMA ReportAsks ==
  ASSUME Typed, Report
  PROVE  \E req \in Requests : Asks(req)
<1>1. [n |-> sent + 1, method |-> "markStale", args |-> FirstRoot] \in Requests
  BY TypedFacts DEF Requests
<1> QED
  BY <1>1, PostAsks DEF Report

Serves ==
  \/ PipesStay \/ AnswersAndTells \/ Tells \/ Shutdown
  \/ \E plan \in Plan \cup {None} :
       Answers(plan) /\ (plan = None \/ plan.kind = "resolution" \/ BuildCleanupPlan)

LEMMA ServeShapes ==
  ASSUME Typed, ScanUnderWay, Numbered, Serve
  PROVE  Serves
<1> USE ReplyAnswers, ReplyTells DEF Serves
<1>0. ASSUME Reply(None), up, inbox # <<>>, UNCHANGED <<eventSequence, process, host>>
      PROVE  Serves
  BY <1>0
<1>1. CASE ScanStarted
  <2>1. up /\ inbox # <<>> /\ Told(eventSequence + 1) \in Messages
    BY <1>1, TypedFacts, MessagesMade DEF ScanStarted, Serving, Told
  <2>2. outbox' = Append(outbox, Told(eventSequence + 1))
    BY <1>1, <2>1, TypedFacts, ConcatOne DEF ScanStarted, Event, Told
  <2> QED
    BY <1>1, <2>1, <2>2 DEF ScanStarted, Tells, Idle
<1>2. CASE ScanCompleted
  BY <1>2 DEF ScanCompleted, ScanUnderWay, Idle
<1>3. CASE ScanFailed
  BY <1>0, <1>3 DEF ScanFailed, ScanUnderWay, Idle
<1>4. CASE GetAnalysis
  BY <1>0, <1>4 DEF GetAnalysis, Serving, Idle
<1>5. CASE AnswerOther
  BY <1>0, <1>5 DEF AnswerOther, Serving, Idle
<1>6. CASE MarkStale
  BY <1>0, <1>6 DEF MarkStale, Serving, Idle
<1>7. CASE BuildCleanupPlan
  <2> DEFINE r == Resolve(Req.args.path)
             plan == CleanupPlan(r, Req.args.wanted, planCounter + 1, Req.n)
  <2>1. up /\ inbox # <<>> /\ Req.method = "buildCleanupPlan"
        /\ UNCHANGED <<eventSequence, process, host>>
    BY <1>7 DEF BuildCleanupPlan, Serving, Idle
  <2>2. CASE r # None
    <3>1. r \in Scanned /\ Req.args.wanted \in Selections /\ planCounter + 1 \in Nat
      BY <2>1, <2>2, ResolveType, RequestIn, RequestFields, TypedFacts
    <3>2. plan \in Plan /\ Reply(plan)
      BY <1>7, <2>1, <2>2, <3>1, CleanupPlanType, RequestIn DEF BuildCleanupPlan, CleanupPlans
    <3> QED
      BY <1>7, <2>1, <3>2
  <2>3. CASE r = None
    BY <1>0, <1>7, <2>1, <2>3 DEF BuildCleanupPlan
  <2> QED
    BY <2>2, <2>3
<1>8. CASE BuildResolutionPlan
  <2> DEFINE r == Resolve(Req.args.path)
             g == Req.args.group
             plan == ResolutionPlan(r, g, Req.args.keep, Req.n)
             buildable == r # None /\ g \in DOMAIN indices[r].groups
                          /\ Req.args.keep \in indices[r].assets
  <2>1. up /\ inbox # <<>> /\ UNCHANGED <<eventSequence, process, host>>
    BY <1>8 DEF BuildResolutionPlan, Serving, Idle
  <2>2. CASE buildable
    <3>1. r \in Scanned
      BY <2>2, ResolveType
    <3>2. plan \in Plan /\ plan.kind = "resolution" /\ Reply(plan)
      BY <1>8, <2>1, <2>2, <3>1, ResolutionPlanType, RequestIn DEF BuildResolutionPlan
    <3> QED
      BY <2>1, <3>2
  <2>3. CASE ~buildable
    BY <1>0, <1>8, <2>1, <2>3 DEF BuildResolutionPlan
  <2> QED
    BY <2>2, <2>3
<1>9. CASE ApplyCleanupPlan
  BY <1>0, <1>9 DEF ApplyCleanupPlan, Serving, Idle, Refuse
<1>10. CASE ApplyResolutionPlan
  BY <1>0, <1>10 DEF ApplyResolutionPlan, Serving, Idle, Refuse
<1>11. CASE TrashAsset
  BY <1>0, <1>11 DEF TrashAsset, Serving, Idle
<1>12. CASE RestoreAsset
  BY <1>0, <1>12 DEF RestoreAsset, Serving, Idle
<1>13. CASE RestoreTrashSession
  BY <1>0, <1>13 DEF RestoreTrashSession, Serving, Idle
<1>14. CASE ApplyReferenceRewrite
  BY <1>0, <1>14 DEF ApplyReferenceRewrite, Serving, Idle
<1>15. CASE Shutdown
  BY <1>15
<1> QED
  BY <1>1, <1>2, <1>3, <1>4, <1>5, <1>6, <1>7, <1>8, <1>9, <1>10, <1>11, <1>12, <1>13,
     <1>14, <1>15 DEF Serve

LEMMA Shapes ==
  ASSUME Typed, ScanUnderWay, Numbered, [Next]_vars
  PROVE  Serves \/ (\E req \in Requests : Asks(req)) \/ Read \/ Crash \/ Start
<1>1. CASE UNCHANGED vars \/ EditFile \/ EditSource
  BY <1>1 DEF vars, EditFile, EditSource, Serves, PipesStay
<1> QED
  BY <1>1, ServeShapes, SendAsks, ReportAsks DEF Next

-----------------------------------------------------------------------------
(* The numbers of requests and events, step by step.                       *)

LEMMA OfEmpty == \A type : Of(<<>>, type) = {}
  BY DEF Of

LEMMA NumberedDrop ==
  ASSUME NEW in \in Seq(Requests), NEW out \in Seq(Messages), NEW awaited, NEW asked \in Nat,
         NumberedIn(in, out, awaited, asked)
  PROVE  NumberedIn(<<>>, out, awaited \ {in[i].n : i \in DOMAIN in}, asked)
<1> DEFINE replies == Of(out, "response")
           unread == {in[i].n : i \in DOMAIN in}
           replied == {out[i].n : i \in replies}
<1> HIDE DEF replies
<1>1. /\ \A i \in DOMAIN in : in[i].n \in 1..asked
      /\ \A i \in replies : out[i].n \in 1..asked
      /\ \A i, j \in replies : i < j => out[i].n < out[j].n
      /\ \A i \in replies, j \in DOMAIN in : out[i].n < in[j].n
      /\ unread \cup replied = awaited
  BY DEF NumberedIn, replies
<1>2. \A i \in replies, j \in DOMAIN in : out[i].n # in[j].n
  BY <1>1
<1>3. replied = awaited \ unread
  BY <1>1, <1>2
<1>4. DOMAIN <<>> = {}
  OBVIOUS
<1> HIDE DEF unread
<1>5. NumberedIn(<<>>, out, awaited \ unread, asked)
  BY <1>1, <1>3, <1>4 DEF NumberedIn, replies
<1> QED
  BY <1>5 DEF unread

LEMMA NumberedStep ==
  ASSUME Typed, ScanUnderWay, Numbered, [Next]_vars
  PROVE  Numbered'
<1> DEFINE reply(plan) == Append(outbox, Response(Req.n, plan))
<1>0. /\ inbox \in Seq(Requests) /\ outbox \in Seq(Messages) /\ sent \in Nat
      /\ eventSequence + 1 \in Nat
      /\ NumberedIn(inbox, outbox, waiting, sent)
  BY TypedFacts DEF Numbered
<1>1. CASE PipesStay
  BY <1>1 DEF PipesStay, host, Numbered
<1>2. ASSUME NEW req \in Requests, Asks(req) PROVE Numbered'
  BY <1>0, <1>2, NumberedAsk DEF Asks, Numbered
<1>3. ASSUME NEW plan \in Plan \cup {None}, inbox # <<>>
      PROVE  /\ NumberedIn(Tail(inbox), reply(plan), waiting, sent)
             /\ reply(plan) \in Seq(Messages)
  <2>1. Response(Req.n, plan) \in Messages
    BY <1>3, RequestIn, RequestFields, MessagesMade DEF Response
  <2>2. reply(plan) \in Seq(Messages)
    BY <1>0, <2>1
  <2>3. NumberedIn(Tail(inbox), reply(plan), waiting, sent)
    BY <1>0, <1>3, NumberedAnswer DEF Req
  <2> QED
    BY <2>2, <2>3
<1>4. ASSUME NEW plan \in Plan \cup {None}, Answers(plan) PROVE Numbered'
  BY <1>3, <1>4 DEF Answers, host, Numbered
<1>5. CASE AnswersAndTells
  <2>1. NumberedIn(Tail(inbox), Append(reply(None), Told(eventSequence + 1)), waiting, sent)
    BY <1>0, <1>3, <1>5, NumberedTold DEF AnswersAndTells
  <2> QED
    BY <1>5, <2>1 DEF AnswersAndTells, host, Numbered
<1>6. CASE Tells
  BY <1>0, <1>6, NumberedTold DEF Tells, host, Numbered
<1>7. CASE Read
  <2>1. \A j \in DOMAIN inbox : inbox[j].n \in Nat
    BY DEF Numbered, NumberedIn
  <2>2. outbox # <<>> /\ inbox' = inbox /\ outbox' = Tail(outbox) /\ sent' = sent
    BY <1>7 DEF Read
  <2>3. waiting' = IF Head(outbox).type = "response" THEN waiting \ {Head(outbox).n} ELSE waiting
    BY <1>7 DEF Read
  <2> QED
    BY <1>0, <2>1, <2>2, <2>3, NumberedRead DEF Numbered
<1>8. CASE Shutdown
  <2>1. /\ inbox # <<>> /\ inbox' = <<>> /\ outbox' = reply(None) /\ sent' = sent
        /\ waiting' = waiting \ {inbox[i].n : i \in 2..Len(inbox)}
    <3>1. inbox # <<>> /\ outbox' = outbox \o Answer(Req.n, None)
      BY <1>8 DEF Shutdown, Serving
    <3>2. Response(Req.n, None) \in Messages
      BY <3>1, RequestIn, RequestFields, MessagesMade DEF Response
    <3>3. outbox \o <<Response(Req.n, None)>> = reply(None)
      BY <1>0, <3>2, ConcatOne
    <3> QED
      BY <1>8, <3>1, <3>3 DEF Shutdown, Forgotten, Answer, Response
  <2>2. {inbox[i].n : i \in 2..Len(inbox)} = {Tail(inbox)[i].n : i \in DOMAIN Tail(inbox)}
    <3> DEFINE rest == Tail(inbox)
    <3>1. /\ DOMAIN rest = 1..(Len(inbox) - 1) /\ Len(inbox) \in Nat
          /\ DOMAIN inbox = 1..Len(inbox)
          /\ \A i \in DOMAIN rest : rest[i] = inbox[i + 1]
          /\ \A i \in DOMAIN inbox \ {1} : i - 1 \in DOMAIN rest /\ rest[i - 1] = inbox[i]
      BY <1>0, <2>1, TailFacts
    <3> HIDE DEF rest
    <3>2. {rest[i].n : i \in DOMAIN rest} \subseteq {inbox[i].n : i \in 2..Len(inbox)}
      BY <3>1
    <3>3. {inbox[i].n : i \in 2..Len(inbox)} \subseteq {rest[i].n : i \in DOMAIN rest}
      BY <3>1
    <3> QED
      BY <3>2, <3>3 DEF rest
  <2>3. Tail(inbox) \in Seq(Requests)
    BY <1>0, <2>1
  <2>4. NumberedIn(<<>>, reply(None), waiting', sent)
    BY <1>0, <1>3, <2>1, <2>2, <2>3, NumberedDrop
  <2> QED
    BY <2>1, <2>4 DEF Numbered
<1>9. CASE Crash
  <2>1. inbox' = <<>> /\ outbox' = <<>> /\ waiting' = {} /\ DOMAIN <<>> = {}
    BY <1>9 DEF Crash, Forgotten
  <2> QED
    BY <2>1, OfEmpty DEF Numbered, NumberedIn
<1>10. CASE Start
  BY <1>10 DEF Start, Numbered
<1> QED
  BY <1>1, <1>2, <1>4, <1>5, <1>6, <1>7, <1>8, <1>9, <1>10, Shapes DEF Serves

LEMMA EventsStep ==
  ASSUME Typed, ScanUnderWay, NothingKept, Numbered, InSequence, [Next]_vars
  PROVE  InSequence'
<1> DEFINE reply(plan) == Append(outbox, Response(Req.n, plan))
<1>0. /\ outbox \in Seq(Messages) /\ lastEvent \in Nat /\ eventSequence \in Nat /\ up \in BOOLEAN
      /\ EventsIn(outbox, lastEvent, up, eventSequence)
  BY TypedFacts DEF InSequence
<1>01. ASSUME EventsIn(outbox, lastEvent, up, eventSequence)' PROVE InSequence'
  BY <1>01 DEF InSequence
<1>1. CASE PipesStay
  BY <1>0, <1>01, <1>1 DEF PipesStay, host, process
<1>2. ASSUME NEW req \in Requests, Asks(req) PROVE InSequence'
  BY <1>0, <1>01, <1>2 DEF Asks, process
<1>3. ASSUME NEW plan \in Plan \cup {None}, inbox # <<>>
      PROVE  EventsIn(reply(plan), lastEvent, up, eventSequence) /\ reply(plan) \in Seq(Messages)
  <2>1. Response(Req.n, plan) \in Messages /\ Response(Req.n, plan).type = "response"
    BY <1>3, RequestIn, RequestFields, MessagesMade DEF Response
  <2> QED
    BY <1>0, <2>1, EventsAnswer
<1>4. ASSUME NEW plan \in Plan \cup {None}, Answers(plan) PROVE InSequence'
  BY <1>01, <1>3, <1>4 DEF Answers, host, process
<1>5. CASE AnswersAndTells
  <2>0. up = TRUE /\ up' = TRUE
    BY <1>0, <1>5 DEF AnswersAndTells, process
  <2>1. EventsIn(reply(None), lastEvent, TRUE, eventSequence) /\ reply(None) \in Seq(Messages)
    BY <1>3, <1>5, <2>0 DEF AnswersAndTells
  <2>2. EventsIn(Append(reply(None), Told(eventSequence + 1)), lastEvent, TRUE, eventSequence + 1)
    BY <1>0, <2>1, EventsTold
  <2> QED
    BY <1>01, <1>5, <2>0, <2>2 DEF AnswersAndTells, host
<1>6. CASE Tells
  <2>0. up = TRUE /\ up' = TRUE
    BY <1>0, <1>6 DEF Tells, process
  <2>1. EventsIn(Append(outbox, Told(eventSequence + 1)), lastEvent, TRUE, eventSequence + 1)
    BY <1>0, <2>0, EventsTold
  <2> QED
    BY <1>01, <1>6, <2>0, <2>1 DEF Tells, host
<1>7. CASE Read
  <2>1. /\ outbox # <<>> /\ outbox' = Tail(outbox) /\ up' = up /\ eventSequence' = eventSequence
        /\ lastEvent' = IF Head(outbox).type = "response" THEN lastEvent ELSE Head(outbox).seq
    BY <1>7 DEF Read, process
  <2>2. Head(outbox) \in Messages
    BY <1>0, <2>1
  <2>3. lastEvent' = IF Head(outbox).type = "event" THEN Head(outbox).seq ELSE lastEvent
    BY <2>1, <2>2, MessageFields
  <2> QED
    BY <1>0, <1>01, <2>1, <2>3, EventsRead
<1>8. CASE Shutdown
  <2>1. /\ inbox # <<>> /\ outbox' = reply(None) /\ up' = FALSE /\ lastEvent' = lastEvent
    <3>1. inbox # <<>> /\ outbox' = outbox \o Answer(Req.n, None)
      BY <1>8 DEF Shutdown, Serving
    <3>2. Response(Req.n, None) \in Messages
      BY <3>1, RequestIn, RequestFields, MessagesMade DEF Response
    <3>3. outbox \o <<Response(Req.n, None)>> = reply(None)
      BY <1>0, <3>2, ConcatOne
    <3> QED
      BY <1>8, <3>1, <3>3 DEF Shutdown, Forgotten, Answer, Response
  <2>2. EventsIn(reply(None), lastEvent, FALSE, eventSequence')
    BY <1>3, <2>1 DEF EventsIn
  <2> QED
    BY <1>01, <2>1, <2>2
<1>9. CASE Crash
  <2>1. outbox' = <<>> /\ lastEvent' = lastEvent /\ up' = FALSE
    BY <1>9 DEF Crash, Forgotten
  <2>2. EventsIn(<<>>, lastEvent, FALSE, eventSequence')
    BY <1>0, OfEmpty DEF EventsIn
  <2> QED
    BY <1>01, <2>1, <2>2
<1>10. CASE Start
  <2>1. outbox' = <<>> /\ lastEvent' = 0 /\ up' = TRUE /\ eventSequence' = 0
    BY <1>10 DEF Start, NothingKept
  <2>2. EventsIn(<<>>, 0, TRUE, 0)
    BY OfEmpty DEF EventsIn
  <2> QED
    BY <1>01, <2>1, <2>2
<1> QED
  BY <1>1, <1>2, <1>4, <1>5, <1>6, <1>7, <1>8, <1>9, <1>10, Shapes DEF Serves

LEMMA HighestStep ==
  ASSUME Typed, ScanUnderWay, NothingKept, Numbered, InSequence, HighestRead, [Next]_vars
  PROVE  HighestRead'
<1>0. /\ outbox \in Seq(Messages) /\ lastEvent \in Nat /\ lastSequence \in Nat
      /\ starts \in Nat \ {0}
  BY TypedFacts DEF Typed
<1>1. CASE UNCHANGED <<process, host>>
  BY <1>1 DEF HighestRead, process, host
<1>2. ASSUME NEW req \in Requests, Asks(req) PROVE HighestRead'
  BY <1>2 DEF HighestRead, Asks, process
<1>3. CASE PipesStay \/ AnswersAndTells \/ Tells \/ \E plan \in Plan \cup {None} : Answers(plan)
  BY <1>1, <1>3 DEF PipesStay, AnswersAndTells, Tells, Answers
<1>4. CASE Read
  <2>1. outbox # <<>> /\ starts' = starts
    BY <1>4 DEF Read, process
  <2>2. CASE Head(outbox).type = "response"
    BY <1>4, <2>1, <2>2 DEF Read, HighestRead
  <2>3. CASE Head(outbox).type # "response"
    <3>1. Head(outbox).type = "event" /\ 1 \in Of(outbox, "event") /\ Head(outbox) = outbox[1]
      <4>1. Head(outbox) \in Messages /\ 1 \in DOMAIN outbox /\ Head(outbox) = outbox[1]
        BY <1>0, <2>1
      <4> QED
        BY <2>3, <4>1 DEF Messages, Of
    <3>2. PICK last : {outbox[i].seq : i \in Of(outbox, "event")} = (lastEvent + 1)..last
      BY DEF InSequence, EventsIn
    <3>3. Head(outbox).seq \in (lastEvent + 1)..last
      BY <3>1, <3>2
    <3>4. Head(outbox).seq \in Nat
      BY <1>0, <2>1, <3>1, MessageFields
    <3>5. /\ lastEvent' = Head(outbox).seq
          /\ lastSequence' = IF Head(outbox).seq > lastSequence THEN Head(outbox).seq ELSE lastSequence
      BY <1>4, <2>3 DEF Read
    <3>6. lastEvent < Head(outbox).seq
      BY <1>0, <3>3, <3>4
    <3> QED
      BY <1>0, <2>1, <3>4, <3>5, <3>6 DEF HighestRead
  <2> QED
    BY <2>2, <2>3
<1>5. CASE Shutdown \/ Crash
  BY <1>5 DEF Shutdown, Crash, Forgotten, HighestRead
<1>6. CASE Start
  <2>1. starts' = starts + 1 /\ lastEvent' = 0 /\ lastSequence' = lastSequence
    BY <1>6 DEF Start
  <2> QED
    BY <1>0, <2>1 DEF HighestRead
<1> QED
  BY <1>2, <1>3, <1>4, <1>5, <1>6, Shapes DEF Serves

\* What the two say of the events on their way.
LEMMA OrderFromParts ==
  ASSUME Typed, InSequence, HighestRead
  PROVE  EventsInOrder
<1>0. /\ outbox \in Seq(Messages) /\ lastEvent \in Nat /\ lastSequence \in Nat
      /\ starts \in Nat \ {0}
  BY TypedFacts DEF Typed
<1>1. Of(outbox, "event") = Events
  BY DEF Of, Events
<1>2. ASSUME NEW i \in Events, Warns(outbox[i].seq) PROVE starts > 1
  <2>1. PICK last : {outbox[j].seq : j \in Of(outbox, "event")} = (lastEvent + 1)..last
    BY DEF InSequence, EventsIn
  <2>2. outbox[i].seq \in (lastEvent + 1)..last
    BY <1>1, <2>1
  <2>3. outbox[i].seq \in Int /\ outbox[i].seq > lastEvent /\ outbox[i].seq <= lastSequence
    BY <1>0, <1>2, <2>2 DEF Warns
  <2> QED
    BY <1>0, <2>3 DEF HighestRead
<1> QED
  BY <1>1, <1>2 DEF EventsInOrder, InSequence, HighestRead, EventsIn

-----------------------------------------------------------------------------
(* Types, step by step.                                                    *)

PipesTyped ==
  /\ inbox \in Seq(Requests) /\ outbox \in Seq(Messages)
  /\ eventSequence \in Nat /\ lastEvent \in Nat /\ lastSequence \in Nat /\ up \in BOOLEAN
  /\ sent \in 0..MaxRequests /\ starts \in Nat \ {0}
  /\ shown \in [Kinds -> Plan \cup {None}]
  /\ \A k \in Kinds : shown[k] # None => shown[k].kind = k

LEMMA PipesTypedStep ==
  ASSUME Typed, ScanUnderWay, Numbered, [Next]_vars
  PROVE  PipesTyped'
<1>0. PipesTyped
  BY DEF Typed, DaemonTypeOK, PipesTyped
<1>01. <<>> \in Seq(Requests) /\ <<>> \in Seq(Messages) /\ 0 \in Nat
  OBVIOUS
<1>1. CASE PipesStay
  BY <1>0, <1>1 DEF PipesStay, PipesTyped, host, process
<1>2. ASSUME NEW req \in Requests, Asks(req) PROVE PipesTyped'
  <2>1. /\ shown' \in [Kinds -> Plan \cup {None}]
        /\ \A k \in Kinds : shown'[k] # None => shown'[k].kind = k
    BY <1>0, <1>2 DEF Asks, PipesTyped, Kinds
  <2> QED
    BY <1>0, <1>2, <2>1, TypedFacts DEF Asks, PipesTyped, process
<1>3. ASSUME inbox # <<>>
      PROVE  /\ Tail(inbox) \in Seq(Requests)
             /\ \A plan \in Plan \cup {None} : Response(Req.n, plan) \in Messages
             /\ Told(eventSequence + 1) \in Messages /\ eventSequence + 1 \in Nat
  BY <1>0, <1>3, RequestIn, RequestFields, MessagesMade DEF Response, Told, PipesTyped
<1>4. ASSUME NEW plan \in Plan \cup {None}, Answers(plan) PROVE PipesTyped'
  BY <1>0, <1>3, <1>4 DEF Answers, PipesTyped, host, process
<1>5. CASE AnswersAndTells
  BY <1>0, <1>3, <1>5 DEF AnswersAndTells, PipesTyped, host, process
<1>6. CASE Tells
  BY <1>0, <1>3, <1>6 DEF Tells, PipesTyped, host, process
<1>7. CASE Read
  <2>1. /\ outbox # <<>> /\ outbox' = Tail(outbox)
        /\ UNCHANGED <<inbox, eventSequence, process, sent>>
    BY <1>7 DEF Read
  <2>2. Head(outbox) \in Messages /\ Tail(outbox) \in Seq(Messages)
    BY <1>0, <2>1 DEF PipesTyped
  <2>3. lastEvent' \in Nat /\ lastSequence' \in Nat
    BY <1>0, <1>7, <2>2, MessageFields DEF Read, PipesTyped
  <2>4. /\ shown' \in [Kinds -> Plan \cup {None}]
        /\ \A k \in Kinds : shown'[k] # None => shown'[k].kind = k
    <3>1. CASE Head(outbox).type = "response" /\ Head(outbox).plan # None
      <4>1. Head(outbox).plan \in Plan
        BY <2>2, <3>1, MessageFields
      <4>2. Head(outbox).plan.kind \in Kinds
        BY <4>1 DEF Plan
      <4>3. shown' = [shown EXCEPT ![Head(outbox).plan.kind] = Head(outbox).plan]
        BY <1>7, <3>1 DEF Read
      <4> QED
        BY <1>0, <4>1, <4>2, <4>3 DEF PipesTyped
    <3>2. CASE ~(Head(outbox).type = "response" /\ Head(outbox).plan # None)
      BY <1>0, <1>7, <3>2 DEF Read, PipesTyped
    <3> QED
      BY <3>1, <3>2
  <2> QED
    BY <1>0, <2>1, <2>2, <2>3, <2>4 DEF PipesTyped, process
<1>8. CASE Shutdown
  <2>1. inbox # <<>> /\ outbox' = outbox \o <<Response(Req.n, None)>>
    BY <1>8 DEF Shutdown, Serving, Answer, Response
  <2>2. outbox' \in Seq(Messages)
    BY <1>0, <1>3, <2>1 DEF PipesTyped
  <2> QED
    BY <1>0, <1>01, <1>8, <2>2 DEF Shutdown, Forgotten, PipesTyped
<1>9. CASE Crash
  BY <1>0, <1>01, <1>9 DEF Crash, Forgotten, PipesTyped
<1>10. CASE Start
  BY <1>0, <1>10 DEF Start, PipesTyped
<1> QED
  BY <1>1, <1>2, <1>4, <1>5, <1>6, <1>7, <1>8, <1>9, <1>10, Shapes DEF Serves

\* What is staged is among the targets.
LEMMA StagedWithin ==
  ASSUME NEW targets, NEW fit, NEW partial, NEW gone \in Staged(targets, fit, partial)
  PROVE  gone \subseteq targets /\ gone \subseteq fit
  BY DEF Staged

DiskTyped ==
  /\ present \subseteq Assets /\ used \subseteq Assets /\ loose \subseteq Assets
  /\ sessions \in [Roots -> SUBSET SUBSET Assets]
  /\ \A r \in Roots : UNION sessions[r] \subseteq AssetsOf(r)
  /\ unreported \subseteq Roots

\* Files come and go in one root, whose change is then due for a report.
Moves(r) ==
  /\ r \in Roots /\ present' \subseteq Assets
  /\ present \ AssetsOf(r) = present' \ AssetsOf(r)
  /\ unreported' = unreported \cup {r}
  /\ UNCHANGED <<indices, scanning>>
  /\ \/ inbox' = inbox
     \/ inbox # <<>> /\ inbox' = Tail(inbox) /\ Req.method # "markStale"

LEMMA StageMoves ==
  ASSUME Typed, NEW r \in Roots, NEW targets, targets \subseteq AssetsOf(r), NEW fit, NEW partial,
         Stage(r, targets, fit, partial), DiskTyped
  PROVE  /\ DiskTyped' /\ present \ present' \subseteq targets
         /\ \/ UNCHANGED <<present, unreported>>
            \/ /\ present' \subseteq Assets
               /\ present \ AssetsOf(r) = present' \ AssetsOf(r)
               /\ unreported' = unreported \cup {r}
<1>1. PICK gone \in Staged(targets, fit, partial) :
        /\ present' = present \ gone
        /\ sessions' = IF gone = {} THEN sessions ELSE [sessions EXCEPT ![r] = @ \cup {gone}]
        /\ unreported' = IF gone = {} THEN unreported ELSE unreported \cup {r}
        /\ UNCHANGED <<used, loose>>
  BY DEF Stage
<1>2. gone \subseteq AssetsOf(r) /\ gone \subseteq Assets /\ gone \subseteq targets
  BY StagedWithin DEF AssetsOf
<1>3. CASE gone = {}
  BY <1>1, <1>3 DEF DiskTyped
<1>4. CASE gone # {}
  <2>1. /\ sessions' = [sessions EXCEPT ![r] = @ \cup {gone}]
        /\ sessions \in [Roots -> SUBSET SUBSET Assets]
    BY <1>1, <1>4 DEF DiskTyped
  <2>2. sessions' \in [Roots -> SUBSET SUBSET Assets]
    BY <1>2, <2>1
  <2>3. ASSUME NEW q \in Roots PROVE UNION sessions'[q] \subseteq AssetsOf(q)
    <3>1. UNION sessions[q] \subseteq AssetsOf(q)
      BY DEF DiskTyped
    <3>2. CASE q = r
      <4>1. sessions'[q] = sessions[q] \cup {gone}
        BY <2>1, <3>2
      <4> QED
        BY <1>2, <3>1, <3>2, <4>1
    <3>3. CASE q # r
      BY <2>1, <3>1, <3>3
    <3> QED
      BY <3>2, <3>3
  <2> QED
    BY <1>1, <1>2, <1>4, <2>2, <2>3 DEF DiskTyped
<1> QED
  BY <1>3, <1>4

\* The plans whose execution stages files.
LEMMA ApplyMoves ==
  ASSUME Typed, ApplyCleanupPlan \/ ApplyResolutionPlan
  PROVE  \/ UNCHANGED <<disk, unreported, ran>>
         \/ \E p \in Built : \E fit, partial :
              /\ Stage(p.root, p.targets, fit, partial) /\ ran' = Append(ran, p.born)
              /\ p.root \in Roots /\ p.targets \subseteq AssetsOf(p.root)
              /\ Req.method = "applyCleanupPlan" => p \in cleanupPlans /\ p.id = Req.args.id
<1>0. \A p \in Built : p.root \in Roots /\ p.targets \subseteq AssetsOf(p.root)
  BY DEF Typed, DaemonTypeOK, Built, Plan
<1>1. CASE ApplyCleanupPlan
  BY <1>0, <1>1 DEF ApplyCleanupPlan, Refuse, Built, Entries
<1>2. CASE ApplyResolutionPlan
  <2>1. Req.method # "applyCleanupPlan"
    BY <1>2 DEF ApplyResolutionPlan, Serving
  <2> QED
    BY <1>0, <1>2, <2>1 DEF ApplyResolutionPlan, Refuse, Built
<1> QED
  BY <1>1, <1>2

LEMMA DiskStep ==
  ASSUME Typed, ScanUnderWay, Numbered, [Next]_vars
  PROVE  DiskTyped' /\ (present' = present \/ \E r \in Roots : Moves(r))
<1>0. DiskTyped
  BY DEF Typed, DaemonTypeOK, DiskTyped
<1> DEFINE G == DiskTyped' /\ (present' = present \/ \E r \in Roots : Moves(r))
<1>1. ASSUME UNCHANGED <<disk, unreported>> PROVE G
  BY <1>0, <1>1 DEF disk, DiskTyped
<1>2. CASE ApplyCleanupPlan \/ ApplyResolutionPlan
  <2>1. /\ inbox # <<>> /\ inbox' = Tail(inbox) /\ Req.method # "markStale"
        /\ UNCHANGED <<indices, scanning>>
    BY <1>2 DEF ApplyCleanupPlan, ApplyResolutionPlan, Serving, Refuse, Reply
  <2>2. CASE UNCHANGED <<disk, unreported, ran>>
    BY <1>1, <2>2
  <2>3. ASSUME NEW p \in Built, NEW fit, NEW partial, Stage(p.root, p.targets, fit, partial),
               p.root \in Roots, p.targets \subseteq AssetsOf(p.root)
        PROVE  G
    BY <1>0, <2>1, <2>3, StageMoves DEF Moves
  <2> QED
    BY <1>2, <2>2, <2>3, ApplyMoves
<1>3. CASE TrashAsset
  <2>1. /\ inbox # <<>> /\ inbox' = Tail(inbox) /\ Req.method # "markStale"
        /\ UNCHANGED <<indices, scanning, used, sessions>>
    BY <1>3 DEF TrashAsset, Serving, Reply
  <2>2. CASE UNCHANGED <<present, loose, unreported>>
    BY <1>0, <2>1, <2>2 DEF DiskTyped
  <2>3. CASE ~UNCHANGED <<present, loose, unreported>>
    <3>0. PICK a \in present : /\ present' = present \ {a} /\ loose' = loose \cup {a}
                               /\ unreported' = unreported \cup {RootOf[a]}
      BY <1>3, <2>3 DEF TrashAsset
    <3> DEFINE r == RootOf[a]
    <3>1. /\ r = RootOf[a] /\ present' = present \ {a} /\ loose' = loose \cup {a}
          /\ unreported' = unreported \cup {r}
      BY <3>0
    <3> HIDE DEF r
    <3>2. a \in Assets /\ r \in Roots /\ a \in AssetsOf(r)
      BY <1>0, <3>1, DaemonAssumption DEF DiskTyped, AssetsOf
    <3>3. DiskTyped'
      BY <1>0, <2>1, <3>1, <3>2 DEF DiskTyped
    <3>4. Moves(r)
      BY <1>0, <2>1, <3>1, <3>2 DEF Moves, DiskTyped
    <3> QED
      BY <3>2, <3>3, <3>4
  <2> QED
    BY <2>2, <2>3
<1>4. CASE RestoreAsset
  <2>1. /\ inbox # <<>> /\ inbox' = Tail(inbox) /\ Req.method # "markStale"
        /\ UNCHANGED <<indices, scanning, used, sessions>>
    BY <1>4 DEF RestoreAsset, Serving, Reply
  <2>2. CASE UNCHANGED <<present, loose, unreported>>
    BY <1>0, <2>1, <2>2 DEF DiskTyped
  <2>3. CASE ~UNCHANGED <<present, loose, unreported>>
    <3>1. PICK a \in loose : /\ present' = present \cup {a} /\ loose' = loose \ {a}
                             /\ unreported' = unreported \cup {RootOf[a]}
      BY <1>4, <2>3 DEF RestoreAsset
    <3>2. a \in Assets /\ RootOf[a] \in Roots /\ a \in AssetsOf(RootOf[a])
      BY <1>0, <3>1, DaemonAssumption DEF DiskTyped, AssetsOf
    <3>3. DiskTyped'
      BY <1>0, <2>1, <3>1, <3>2 DEF DiskTyped
    <3>4. Moves(RootOf[a])
      BY <1>0, <2>1, <3>1, <3>2 DEF Moves, DiskTyped
    <3> QED
      BY <3>2, <3>3, <3>4
  <2> QED
    BY <2>2, <2>3
<1>5. CASE RestoreTrashSession
  <2>1. /\ inbox # <<>> /\ inbox' = Tail(inbox) /\ Req.method = "restoreTrashSession"
        /\ UNCHANGED <<indices, scanning, used, loose>>
    BY <1>5 DEF RestoreTrashSession, Serving, Reply
  <2>2. CASE UNCHANGED <<present, sessions, unreported>>
    BY <1>0, <2>1, <2>2 DEF DiskTyped
  <2>3. CASE ~UNCHANGED <<present, sessions, unreported>>
    <3>1. Req.args.root \in Roots
      BY <2>1, RequestIn, RequestFields
    <3>2. PICK r \in Roots, batch \in SUBSET Assets :
            /\ batch \in sessions[r]
            /\ present' = present \cup batch
            /\ sessions' = [sessions EXCEPT ![r] = @ \ {batch}]
            /\ unreported' = unreported \cup {r}
      <4>1. \A r \in Roots : sessions[r] \subseteq SUBSET Assets
        BY <1>0 DEF DiskTyped
      <4> QED
        BY <1>5, <2>3, <3>1, <4>1 DEF RestoreTrashSession
    <3>3. batch \subseteq AssetsOf(r) /\ batch \subseteq Assets
      BY <1>0, <3>2 DEF DiskTyped, AssetsOf
    <3>4. sessions' \in [Roots -> SUBSET SUBSET Assets]
      BY <1>0, <3>2 DEF DiskTyped
    <3>5. \A q \in Roots : sessions'[q] \subseteq sessions[q]
      BY <1>0, <3>2 DEF DiskTyped
    <3>6. DiskTyped'
      BY <1>0, <2>1, <3>2, <3>3, <3>4, <3>5 DEF DiskTyped
    <3>7. Moves(r)
      BY <1>0, <2>1, <3>2, <3>3 DEF Moves, DiskTyped
    <3> QED
      BY <3>6, <3>7
  <2> QED
    BY <2>2, <2>3
<1>6. CASE ApplyReferenceRewrite
  <2>1. inbox # <<>> /\ Req.method = "applyReferenceRewrite"
        /\ UNCHANGED <<present, sessions, loose, unreported>>
    BY <1>6 DEF ApplyReferenceRewrite, Serving
  <2>2. Req.args.to \in Assets
    BY <2>1, RequestIn, RequestFields
  <2>3. used' \subseteq Assets
    BY <1>0, <1>6, <2>2 DEF ApplyReferenceRewrite, DiskTyped
  <2> QED
    BY <1>0, <2>1, <2>3 DEF DiskTyped
<1>7. CASE EditFile
  <2>1. PICK a \in Assets : /\ present' = SymDiff(present, {a})
                            /\ unreported' = unreported \cup {RootOf[a]}
    BY <1>7 DEF EditFile
  <2>2. UNCHANGED <<used, sessions, loose, indices, scanning, inbox>>
    BY <1>7 DEF EditFile
  <2>3. RootOf[a] \in Roots /\ a \in AssetsOf(RootOf[a])
    BY <2>1, DaemonAssumption DEF AssetsOf
  <2>4. present' \subseteq present \cup {a} /\ present \subseteq present' \cup {a}
    BY <2>1 DEF SymDiff
  <2>5. DiskTyped'
    BY <1>0, <2>1, <2>2, <2>3, <2>4 DEF DiskTyped
  <2>6. Moves(RootOf[a])
    BY <1>0, <2>1, <2>2, <2>3, <2>4 DEF Moves, DiskTyped
  <2> QED
    BY <2>3, <2>5, <2>6
<1>8. CASE EditSource
  BY <1>0, <1>8 DEF EditSource, SymDiff, DiskTyped
<1>9. CASE Report
  BY <1>0, <1>9 DEF Report, HostUnchanged, disk, DiskTyped
<1>10. CASE UNCHANGED vars \/ Send \/ Read \/ Start \/ Crash \/ Shutdown
  BY <1>1, <1>10 DEF vars, Send, HostUnchanged, Read, Start, Crash, Shutdown, Forgotten
<1>11. CASE ScanStarted \/ ScanCompleted \/ ScanFailed \/ GetAnalysis \/ AnswerOther
            \/ MarkStale \/ BuildCleanupPlan \/ BuildResolutionPlan
  BY <1>1, <1>11 DEF ScanStarted, ScanCompleted, ScanFailed, GetAnalysis, AnswerOther,
     MarkStale, BuildCleanupPlan, BuildResolutionPlan
<1> QED
  BY <1>2, <1>3, <1>4, <1>5, <1>6, <1>7, <1>8, <1>9, <1>10, <1>11 DEF Next, Serve

\* An index names assets of its root only, and its groups are made of its assets.
IndicesTyped ==
  /\ indices \in [Roots -> Index \cup {None}]
  /\ \A r \in Roots : indices[r] # None =>
       indices[r].assets \subseteq AssetsOf(r) /\ Grouped(indices[r])

LEMMA NumberingsType ==
  ASSUME NEW S, S \subseteq Assets, NEW groups \in Numberings(S)
  PROVE  /\ groups \in Seq(SUBSET Assets)
         /\ \A g \in DOMAIN groups : groups[g] \subseteq S
<1>1. Clusters(S) \subseteq SUBSET S
  BY DEF Clusters
<1>2. IsFiniteSet(Clusters(S))
  <2>1. IsFiniteSet(S)
    BY FS_Subset, DaemonAssumption
  <2>2. IsFiniteSet(SUBSET S)
    BY <2>1, FS_SUBSET
  <2> QED
    BY <1>1, <2>2, FS_Subset
<1>3. Cardinality(Clusters(S)) \in Nat
  BY <1>2, FS_CardinalityType
<1>4. groups \in [1..Cardinality(Clusters(S)) -> Clusters(S)]
  BY DEF Numberings, SetToSeqs
<1>5. groups \in [1..Cardinality(Clusters(S)) -> SUBSET Assets]
  BY <1>1, <1>4
<1> QED
  BY <1>1, <1>3, <1>4, <1>5

LEMMA IndicesStep ==
  ASSUME Typed, ScanUnderWay, Numbered, [Next]_vars
  PROVE  IndicesTyped' /\ (Scanned \subseteq Scanned' \/ Shutdown \/ Crash)
<1> DEFINE G == IndicesTyped' /\ (Scanned \subseteq Scanned' \/ Shutdown \/ Crash)
<1>0. IndicesTyped
  BY DEF Typed, DaemonTypeOK, IndicesTyped, Scanned
<1>1. ASSUME UNCHANGED indices PROVE G
  BY <1>0, <1>1 DEF IndicesTyped, Scanned
<1>01. ASSUME NEW r \in Roots, NEW index \in Index, indices' = [indices EXCEPT ![r] = index],
              index.assets \subseteq AssetsOf(r), Grouped(index)
       PROVE  G
  <2>1. IndicesTyped'
    BY <1>0, <1>01 DEF IndicesTyped
  <2>2. \A q \in Roots : indices[q] # None => indices'[q] # None
    BY <1>0, <1>01, NothingAssumption DEF IndicesTyped
  <2> QED
    BY <2>1, <2>2 DEF Scanned
<1>2. CASE ScanCompleted
  <2> DEFINE assets == scanning.found \cap present
             r == scanning.root
  <2>1. PICK groups \in Numberings(assets) :
          indices' = [indices EXCEPT ![r] =
             [state |-> ScannedState(scanning.found), assets |-> assets,
              groups |-> groups, references |-> used \cap assets]]
    BY <1>2 DEF ScanCompleted
  <2>2. r \in Roots /\ assets \subseteq AssetsOf(r) /\ assets \subseteq Assets
    BY <1>2, TypedFacts DEF ScanCompleted, ScanUnderWay
  <2>3. groups \in Seq(SUBSET Assets) /\ \A g \in DOMAIN groups : groups[g] \subseteq assets
    BY <2>2, NumberingsType
  <2>4. ScannedState(scanning.found) \in {"Ready", "Stale", "Incomplete"}
    BY DEF ScannedState
  <2> DEFINE index == [state |-> ScannedState(scanning.found), assets |-> assets,
                       groups |-> groups, references |-> used \cap assets]
  <2>5. index \in Index
    BY <2>2, <2>3, <2>4 DEF Index
  <2>6. index.assets \subseteq AssetsOf(r) /\ Grouped(index)
    BY <2>2, <2>3 DEF Grouped
  <2>7. indices' = [indices EXCEPT ![r] = index]
    BY <2>1
  <2> HIDE DEF index
  <2> QED
    BY <1>01, <2>2, <2>5, <2>6, <2>7
<1>3. CASE MarkStale
  <2>1. CASE UNCHANGED indices
    BY <1>1, <2>1
  <2>2. CASE ~UNCHANGED indices
    <3>1. /\ Req.args = FirstRoot /\ Resolve(FirstRoot) # None
          /\ indices' = [indices EXCEPT ![FirstRoot] = Staled(indices[FirstRoot])]
      BY <1>3, <2>2, RequestIn, RequestFields DEF MarkStale, Serving
    <3> DEFINE old == indices[FirstRoot]
               new == Staled(old)
    <3>2. FirstRoot \in Roots
      BY DaemonAssumption
    <3>3. CASE old = None
      <4>1. FirstRoot \notin Scanned
        BY <3>3 DEF Scanned
      <4>2. Resolve(FirstRoot) = None
        BY <4>1, <3>2, DaemonAssumption DEF Resolve
      <4> QED
        BY <3>1, <4>2
    <3>4. CASE old # None
      <4>1. old \in Index /\ old.assets \subseteq AssetsOf(FirstRoot) /\ Grouped(old)
        BY <1>0, <3>2, <3>4 DEF IndicesTyped
      <4>2. new \in Index /\ new.assets = old.assets /\ new.groups = old.groups
        BY <4>1 DEF Staled, Index
      <4>3. new.assets \subseteq AssetsOf(FirstRoot) /\ Grouped(new)
        BY <4>1, <4>2 DEF Grouped
      <4> HIDE DEF new
      <4> QED
        BY <1>01, <3>1, <3>2, <4>2, <4>3 DEF new
    <3> QED
      BY <3>3, <3>4
  <2> QED
    BY <2>1, <2>2
<1>4. CASE Shutdown \/ Crash
  BY <1>4 DEF Shutdown, Crash, Forgotten, IndicesTyped
<1>5. CASE UNCHANGED vars \/ Send \/ Report \/ Read \/ Start \/ EditFile \/ EditSource
  BY <1>1, <1>5 DEF vars, Send, Report, HostUnchanged, Read, Start, EditFile, EditSource
<1>6. CASE ScanStarted \/ ScanFailed \/ GetAnalysis \/ AnswerOther
            \/ BuildCleanupPlan \/ BuildResolutionPlan
            \/ ApplyCleanupPlan \/ ApplyResolutionPlan
            \/ TrashAsset \/ RestoreAsset \/ RestoreTrashSession \/ ApplyReferenceRewrite
  BY <1>1, <1>6 DEF ScanStarted, ScanFailed, GetAnalysis, AnswerOther, BuildCleanupPlan,
     BuildResolutionPlan, ApplyCleanupPlan, ApplyResolutionPlan, TrashAsset, RestoreAsset,
     RestoreTrashSession, ApplyReferenceRewrite
<1> QED
  BY <1>2, <1>3, <1>4, <1>5, <1>6 DEF Next, Serve

-----------------------------------------------------------------------------
(* What a step does to the plans.                                          *)

PlansTyped ==
  /\ cleanupPlans \subseteq CleanupPlans /\ resolutionPlans \subseteq Plan
  /\ \A p \in resolutionPlans : p.kind = "resolution"
  /\ \A p \in Built : p.targets \subseteq AssetsOf(p.root)
  /\ planCounter \in Nat /\ ran \in Seq(1..MaxRequests)

\* A request is taken and its plan kept.
Builds(plan) ==
  /\ inbox # <<>> /\ inbox' = Tail(inbox) /\ sent' = sent
  /\ plan \in Plan /\ plan.targets \subseteq AssetsOf(plan.root)
  /\ plan.born = Req.n /\ plan.root \in Scanned /\ UNCHANGED <<indices, ran>>
  /\ \/ /\ plan.kind = "cleanup" /\ planCounter' = planCounter + 1
        /\ cleanupPlans' = cleanupPlans \cup {plan} /\ resolutionPlans' = resolutionPlans
     \/ /\ plan.kind = "resolution" /\ planCounter' = planCounter
        /\ cleanupPlans' = cleanupPlans
        /\ plan \in resolutionPlans' /\ resolutionPlans' \subseteq resolutionPlans \cup {plan}

\* A request is taken and a plan runs, which is kept no longer.
Runs(p) ==
  /\ inbox # <<>> /\ inbox' = Tail(inbox) /\ sent' = sent
  /\ p \in Built /\ Built' \subseteq Built \ {p}
  /\ cleanupPlans' \subseteq cleanupPlans /\ resolutionPlans' \subseteq resolutionPlans
  /\ ran' = Append(ran, p.born) /\ UNCHANGED <<indices, planCounter>>

PlansStay ==
  /\ cleanupPlans' \subseteq cleanupPlans /\ resolutionPlans' \subseteq resolutionPlans
  /\ \/ planCounter' \in {planCounter, planCounter + 1}
     \/ planCounter' = 0 /\ ~up'
  /\ ran' = ran

LEMMA PlanShapes ==
  ASSUME Typed, ScanUnderWay, Numbered, [Next]_vars
  PROVE  \/ PlansStay
         \/ \E plan : Builds(plan) /\ (plan.kind = "cleanup" => BuildCleanupPlan)
         \/ \E p : Runs(p)
<1>1. ASSUME UNCHANGED <<plans, ran>> PROVE PlansStay
  BY <1>1 DEF plans, PlansStay
<1>2. CASE BuildCleanupPlan
  <2> DEFINE r == Resolve(Req.args.path)
             plan == CleanupPlan(r, Req.args.wanted, planCounter + 1, Req.n)
  <2>1. /\ inbox # <<>> /\ Req.method = "buildCleanupPlan" /\ planCounter' = planCounter + 1
        /\ UNCHANGED <<indices, resolutionPlans, ran, sent>>
    BY <1>2 DEF BuildCleanupPlan, Serving, Idle, host
  <2>2. CASE r # None
    <3>1. r \in Scanned /\ Req.args.wanted \in Selections /\ planCounter + 1 \in Nat
      BY <2>1, <2>2, ResolveType, RequestIn, RequestFields, TypedFacts
    <3>2. /\ plan \in CleanupPlans /\ plan.targets \subseteq AssetsOf(plan.root)
          /\ plan.root = r /\ plan.born = Req.n
      BY <2>1, <3>1, CleanupPlanType, RequestIn
    <3>3. cleanupPlans' = cleanupPlans \cup {plan} /\ inbox' = Tail(inbox)
      BY <1>2, <2>1, <2>2 DEF BuildCleanupPlan, Reply
    <3> HIDE DEF plan
    <3>4. Builds(plan)
      BY <2>1, <3>1, <3>2, <3>3 DEF Builds, CleanupPlans
    <3> QED
      BY <1>2, <3>4
  <2>3. CASE r = None
    BY <1>2, <2>1, <2>3 DEF BuildCleanupPlan, PlansStay
  <2> QED
    BY <2>2, <2>3
<1>3. CASE BuildResolutionPlan
  <2> DEFINE r == Resolve(Req.args.path)
             g == Req.args.group
             plan == ResolutionPlan(r, g, Req.args.keep, Req.n)
             buildable == r # None /\ g \in DOMAIN indices[r].groups
                          /\ Req.args.keep \in indices[r].assets
  <2>1. inbox # <<>> /\ UNCHANGED <<indices, cleanupPlans, planCounter, ran, sent>>
    BY <1>3 DEF BuildResolutionPlan, Serving, Idle, host
  <2>2. CASE buildable
    <3>1. r \in Scanned
      BY <2>2, ResolveType
    <3>2. /\ plan \in Plan /\ plan.targets \subseteq AssetsOf(plan.root)
          /\ plan.root = r /\ plan.born = Req.n /\ plan.kind = "resolution"
      BY <2>1, <2>2, <3>1, ResolutionPlanType, RequestIn
    <3>3. /\ resolutionPlans' = {p \in resolutionPlans : p.id # g} \cup {plan}
          /\ inbox' = Tail(inbox)
      BY <1>3, <2>1, <2>2 DEF BuildResolutionPlan, Reply
    <3> HIDE DEF plan
    <3>4. Builds(plan)
      BY <2>1, <3>1, <3>2, <3>3 DEF Builds
    <3> QED
      BY <3>2, <3>4
  <2>3. CASE ~buildable
    BY <1>3, <2>1, <2>3 DEF BuildResolutionPlan, PlansStay
  <2> QED
    BY <2>2, <2>3
<1>4. \A p \in cleanupPlans, q \in resolutionPlans : p # q
  BY DEF Typed, CleanupPlans
<1>5. CASE ApplyCleanupPlan
  <2>1. /\ inbox # <<>> /\ inbox' = Tail(inbox)
        /\ UNCHANGED <<indices, resolutionPlans, planCounter, sent>>
    BY <1>5 DEF ApplyCleanupPlan, Serving, Idle, host, Refuse, Reply
  <2>2. CASE UNCHANGED cleanupPlans /\ UNCHANGED ran
    BY <2>1, <2>2 DEF PlansStay
  <2>3. ASSUME NEW p \in cleanupPlans, cleanupPlans' = cleanupPlans \ {p},
               ran' = ran \/ ran' = Append(ran, p.born)
        PROVE  PlansStay \/ Runs(p)
    BY <1>4, <2>1, <2>3 DEF PlansStay, Runs, Built
  <2> QED
    BY <1>5, <2>2, <2>3 DEF ApplyCleanupPlan, Refuse, Spent
<1>6. CASE ApplyResolutionPlan
  <2>1. /\ inbox # <<>> /\ inbox' = Tail(inbox)
        /\ UNCHANGED <<indices, cleanupPlans, planCounter, sent>>
    BY <1>6 DEF ApplyResolutionPlan, Serving, Idle, host, Refuse, Reply
  <2>2. CASE UNCHANGED resolutionPlans /\ UNCHANGED ran
    BY <2>1, <2>2 DEF PlansStay
  <2>3. ASSUME NEW p \in resolutionPlans, resolutionPlans' = resolutionPlans \ {p},
               ran' = ran \/ ran' = Append(ran, p.born)
        PROVE  PlansStay \/ Runs(p)
    BY <1>4, <2>1, <2>3 DEF PlansStay, Runs, Built
  <2> QED
    BY <1>6, <2>2, <2>3 DEF ApplyResolutionPlan, Refuse, Spent
<1>7. CASE Shutdown \/ Crash
  BY <1>7 DEF Shutdown, Crash, Forgotten, PlansStay
<1>8. CASE UNCHANGED vars \/ Send \/ Report \/ Read \/ Start \/ EditFile \/ EditSource
  BY <1>1, <1>8 DEF vars, Send, Report, HostUnchanged, Read, Start, EditFile, EditSource
<1>9. CASE ScanStarted \/ ScanCompleted \/ ScanFailed \/ GetAnalysis \/ AnswerOther \/ MarkStale
            \/ TrashAsset \/ RestoreAsset \/ RestoreTrashSession \/ ApplyReferenceRewrite
  BY <1>1, <1>9 DEF ScanStarted, ScanCompleted, ScanFailed, GetAnalysis, AnswerOther, MarkStale,
     TrashAsset, RestoreAsset, RestoreTrashSession, ApplyReferenceRewrite
<1> QED
  BY <1>2, <1>3, <1>5, <1>6, <1>7, <1>8, <1>9 DEF Next, Serve

LEMMA PlansTypedStep ==
  ASSUME Typed, ScanUnderWay, Numbered, [Next]_vars
  PROVE  PlansTyped'
<1>0. PlansTyped
  BY DEF Typed, DaemonTypeOK, PlansTyped, Built
<1>1. CASE PlansStay
  BY <1>0, <1>1 DEF PlansStay, PlansTyped, Built
<1>2. ASSUME NEW plan, Builds(plan) PROVE PlansTyped'
  BY <1>0, <1>2 DEF Builds, PlansTyped, Built, CleanupPlans
<1>3. ASSUME NEW p, Runs(p) PROVE PlansTyped'
  <2>1. p \in Plan
    BY <1>0, <1>3 DEF Runs, PlansTyped, Built, CleanupPlans
  <2>2. p.born \in 1..MaxRequests
    BY <2>1 DEF Plan
  <2> QED
    BY <1>0, <1>3, <2>2 DEF Runs, PlansTyped, Built
<1> QED
  BY <1>1, <1>2, <1>3, PlanShapes

\* Every variable keeps its type.
LEMMA TypedStep ==
  ASSUME Typed, ScanUnderWay, Numbered, [Next]_vars
  PROVE  Typed'
<1>1. PipesTyped' /\ DiskTyped' /\ IndicesTyped' /\ PlansTyped' /\ Numbered'
  BY PipesTypedStep, DiskStep, IndicesStep, PlansTypedStep, NumberedStep
<1>2. (waiting \subseteq 1..sent)'
  BY <1>1 DEF Numbered, NumberedIn
<1>3. (\A r \in Scanned : indices[r] \in Index /\ indices[r].assets \subseteq AssetsOf(r)
                          /\ Grouped(indices[r]))'
  BY <1>1 DEF IndicesTyped, Scanned
<1>4. (\A p \in cleanupPlans \cup resolutionPlans :
         p \in Plan /\ p.targets \subseteq AssetsOf(p.root))'
  BY <1>1 DEF PlansTyped, Built, CleanupPlans
<1>5. (\A k \in Kinds : shown[k] \in Plan \cup {None})'
  BY <1>1 DEF PipesTyped
<1>6. DaemonTypeOK'
  BY <1>1, <1>2, <1>3, <1>4, <1>5 DEF PipesTyped, DiskTyped, IndicesTyped, PlansTyped, DaemonTypeOK
<1> QED
  BY <1>1, <1>3, <1>6 DEF PipesTyped, DiskTyped, IndicesTyped, PlansTyped, Typed

-----------------------------------------------------------------------------
(* The other parts of the invariant, step by step.                         *)

LEMMA ScanStep ==
  ASSUME Typed, ScanUnderWay, Numbered, [Next]_vars
  PROVE  ScanUnderWay'
<1>1. CASE ScanStarted
  <2>1. up /\ inbox # <<>> /\ Req.method = "scan" /\ UNCHANGED <<inbox, up>>
        /\ scanning' = [root |-> Req.args, found |-> Crawl(Req.args)]
    BY <1>1 DEF ScanStarted, Serving, Idle, process
  <2>2. Req.args \in Roots /\ Crawl(Req.args) \subseteq AssetsOf(Req.args)
    BY <2>1, RequestIn, RequestFields DEF Crawl
  <2> QED
    BY <2>1, <2>2 DEF ScanUnderWay, Req
<1>2. CASE ScanCompleted \/ ScanFailed
  BY <1>2 DEF ScanCompleted, ScanFailed, ScanUnderWay
<1>3. CASE Shutdown \/ Crash
  BY <1>3 DEF Shutdown, Crash, Forgotten, ScanUnderWay
<1>4. CASE GetAnalysis \/ AnswerOther \/ MarkStale \/ BuildCleanupPlan \/ BuildResolutionPlan
            \/ ApplyCleanupPlan \/ ApplyResolutionPlan
            \/ TrashAsset \/ RestoreAsset \/ RestoreTrashSession \/ ApplyReferenceRewrite
  BY <1>4 DEF GetAnalysis, AnswerOther, MarkStale, BuildCleanupPlan, BuildResolutionPlan,
     ApplyCleanupPlan, ApplyResolutionPlan, TrashAsset, RestoreAsset, RestoreTrashSession,
     ApplyReferenceRewrite, Serving, ScanUnderWay
<1>5. CASE Send \/ Report
  <2>1. PICK req \in Requests : Asks(req)
    BY <1>5, SendAsks, ReportAsks
  <2>2. inbox # <<>> => inbox' # <<>> /\ Head(inbox') = Head(inbox)
    <3>1. inbox' = Append(inbox, req) /\ inbox \in Seq(Requests)
      BY <2>1, TypedFacts DEF Asks
    <3> QED
      BY <3>1
  <2>3. up' = up /\ scanning' = scanning
    BY <1>5 DEF Send, Report, HostUnchanged, process
  <2> QED
    BY <2>2, <2>3 DEF ScanUnderWay, Req
<1>6. CASE UNCHANGED vars \/ Read \/ Start \/ EditFile \/ EditSource
  BY <1>6 DEF vars, Read, Start, EditFile, EditSource, process, ScanUnderWay, Req
<1> QED
  BY <1>1, <1>2, <1>3, <1>4, <1>5, <1>6 DEF Next, Serve

LEMMA NothingStep ==
  ASSUME Typed, ScanUnderWay, NothingKept, Numbered, [Next]_vars
  PROVE  NothingKept'
<1>1. CASE Shutdown \/ Crash
  BY <1>1 DEF Shutdown, Crash, Forgotten, NothingKept, Scanned
<1>2. CASE Serve /\ ~Shutdown
  <2>1. up
    BY <1>2 DEF Serve, ScanStarted, ScanCompleted, ScanFailed, GetAnalysis, AnswerOther, MarkStale,
       BuildCleanupPlan, BuildResolutionPlan, ApplyCleanupPlan, ApplyResolutionPlan, TrashAsset,
       RestoreAsset, RestoreTrashSession, ApplyReferenceRewrite, Serving, ScanUnderWay
  <2>2. up' = up
    BY <1>2 DEF Serve, ScanStarted, ScanCompleted, ScanFailed, GetAnalysis, AnswerOther, MarkStale,
       BuildCleanupPlan, BuildResolutionPlan, ApplyCleanupPlan, ApplyResolutionPlan, TrashAsset,
       RestoreAsset, RestoreTrashSession, ApplyReferenceRewrite, Idle, process
  <2> QED
    BY <2>1, <2>2 DEF NothingKept
<1>3. CASE Send \/ Report
  <2>1. PICK req \in Requests : Asks(req)
    BY <1>3, SendAsks, ReportAsks
  <2> QED
    BY <2>1 DEF Asks, process, NothingKept
<1>4. CASE Start
  BY <1>4 DEF Start, NothingKept
<1>5. CASE UNCHANGED vars \/ Read \/ EditFile \/ EditSource
  BY <1>5 DEF vars, Read, EditFile, EditSource, process, plans, NothingKept, Scanned
<1> QED
  BY <1>1, <1>2, <1>3, <1>4, <1>5 DEF Next

LEMMA PlansIndexStep ==
  ASSUME Typed, ScanUnderWay, Numbered, PlansHaveIndex, [Next]_vars
  PROVE  PlansHaveIndex'
<1>1. CASE Shutdown \/ Crash
  BY <1>1 DEF Shutdown, Crash, Forgotten, PlansHaveIndex, Built
<1>2. CASE Scanned \subseteq Scanned'
  <2>1. CASE PlansStay
    BY <1>2, <2>1 DEF PlansStay, PlansHaveIndex, Built
  <2>2. ASSUME NEW plan, Builds(plan) PROVE PlansHaveIndex'
    BY <1>2, <2>2 DEF Builds, PlansHaveIndex, Built
  <2>3. ASSUME NEW p, Runs(p) PROVE PlansHaveIndex'
    BY <1>2, <2>3 DEF Runs, PlansHaveIndex, Built
  <2> QED
    BY <2>1, <2>2, <2>3, PlanShapes
<1> QED
  BY <1>1, <1>2, IndicesStep

\* How requests move along the way to the daemon.
LEMMA InboxShapes ==
  ASSUME Typed, ScanUnderWay, Numbered, [Next]_vars
  PROVE  \/ inbox' = inbox /\ sent' = sent
         \/ inbox # <<>> /\ inbox' = Tail(inbox) /\ sent' = sent
         \/ inbox' = <<>> /\ sent' = sent
         \/ \E req \in Requests : req.n = sent + 1 /\ inbox' = Append(inbox, req) /\ sent' = sent + 1
<1>1. CASE Serves
  BY <1>1 DEF Serves, PipesStay, AnswersAndTells, Tells, Answers, Shutdown, Forgotten, host
<1>2. CASE Read \/ Crash \/ Start
  BY <1>2 DEF Read, Crash, Start, Forgotten
<1> QED
  BY <1>1, <1>2, Shapes DEF Asks

LEMMA FreshStep ==
  ASSUME Typed, ScanUnderWay, Numbered, Fresh, [Next]_vars
  PROVE  Fresh'
<1> DEFINE below(b) == \A j \in DOMAIN inbox' : b < inbox'[j].n
<1>0. /\ inbox \in Seq(Requests) /\ sent \in Nat /\ ran \in Seq(1..MaxRequests)
      /\ \A i, j \in DOMAIN inbox : i < j => inbox[i].n < inbox[j].n
  BY TypedFacts DEF Numbered, NumberedIn, Typed, DaemonTypeOK
\* What lay below the numbers of all requests stays below them.
<1>1. ASSUME NEW b \in 1..sent, \A j \in DOMAIN inbox : b < inbox[j].n
      PROVE  below(b) /\ b \in 1..sent'
  <2>1. CASE inbox # <<>> /\ inbox' = Tail(inbox) /\ sent' = sent
    BY <1>0, <1>1, <2>1, TailFacts
  <2>2. ASSUME NEW req \in Requests, req.n = sent + 1, inbox' = Append(inbox, req), sent' = sent + 1
        PROVE  below(b) /\ b \in 1..sent'
    <3>1. /\ DOMAIN inbox' = DOMAIN inbox \cup {Len(inbox) + 1} /\ inbox'[Len(inbox) + 1] = req
          /\ \A i \in DOMAIN inbox : inbox'[i] = inbox[i]
      BY <1>0, <2>2, AppendFacts
    <3> QED
      BY <1>0, <1>1, <2>2, <3>1
  <2>3. CASE inbox' = <<>> /\ sent' = sent
    BY <2>3
  <2> QED
    BY <1>1, <2>1, <2>2, <2>3, InboxShapes
\* So does the number of the request that is taken.
<1>2. ASSUME inbox # <<>>, inbox' = Tail(inbox), sent' = sent
      PROVE  below(Req.n) /\ Req.n \in 1..sent'
  <2>1. /\ Req = inbox[1] /\ 1 \in DOMAIN inbox
        /\ \A i \in DOMAIN inbox' : inbox'[i] = inbox[i + 1] /\ i + 1 \in DOMAIN inbox /\ 1 < i + 1
    BY <1>0, <1>2, TailFacts DEF Req
  <2>2. Req.n \in 1..sent
    BY <1>2, RequestIn
  <2> QED
    BY <1>0, <1>2, <2>1, <2>2
<1>3. /\ \A p \in Built : p.born \in 1..sent' /\ below(p.born)
      /\ \A i \in DOMAIN ran : ran[i] \in 1..sent' /\ below(ran[i])
  BY <1>1 DEF Fresh
<1> HIDE DEF below
<1>4. ASSUME Built' \subseteq Built, ran' = ran PROVE Fresh'
  <2>1. \A j \in DOMAIN inbox' : /\ \A p \in Built : p.born < inbox'[j].n
                                 /\ \A i \in DOMAIN ran : ran[i] < inbox'[j].n
    BY <1>3 DEF below
  <2> QED
    BY <1>3, <1>4, <2>1 DEF Fresh, NeverReplayed
<1>5. CASE PlansStay
  BY <1>4, <1>5 DEF PlansStay, Built
<1>6. ASSUME NEW plan, Builds(plan) PROVE Fresh'
  <2>1. /\ inbox # <<>> /\ inbox' = Tail(inbox) /\ sent' = sent /\ ran' = ran
        /\ plan.born = Req.n /\ Built' \subseteq Built \cup {plan}
    BY <1>6 DEF Builds, Built
  <2>2. below(Req.n) /\ Req.n \in 1..sent'
    BY <1>2, <2>1
  <2>3. /\ \A p \in Built : p.born < Req.n
        /\ \A i \in DOMAIN ran : ran[i] < Req.n
    <3>1. Req = inbox[1] /\ 1 \in DOMAIN inbox
      BY <2>1, RequestIn
    <3> QED
      BY <3>1 DEF Fresh
  <2>4. \A p \in Built : p.born # Req.n /\ p.born \in Nat
    BY <1>3, <2>2, <2>3
  <2>5. \A i \in DOMAIN ran : ran[i] # Req.n
    BY <1>3, <2>2, <2>3
  <2>6. \A p, q \in Built' : p.born = q.born => p = q
    BY <2>1, <2>4 DEF Fresh
  <2>7. \A j \in DOMAIN inbox' : /\ \A p \in Built' : p.born < inbox'[j].n
                                 /\ \A i \in DOMAIN ran' : ran'[i] < inbox'[j].n
    BY <1>3, <2>1, <2>2 DEF below
  <2> QED
    BY <1>3, <2>1, <2>2, <2>5, <2>6, <2>7 DEF Fresh, NeverReplayed
<1>7. ASSUME NEW p, Runs(p) PROVE Fresh'
  <2>1. p \in Built /\ Built' \subseteq Built \ {p} /\ ran' = Append(ran, p.born)
    BY <1>7 DEF Runs
  <2>2. p.born \in 1..MaxRequests
    BY <2>1 DEF Typed, DaemonTypeOK, Built, Plan
  <2>3. /\ DOMAIN ran' = DOMAIN ran \cup {Len(ran) + 1} /\ ran'[Len(ran) + 1] = p.born
        /\ \A i \in DOMAIN ran : ran'[i] = ran[i]
    BY <1>0, <2>1, <2>2, AppendFacts
  <2>4. \A i \in DOMAIN ran : ran[i] # p.born
    BY <2>1 DEF Fresh
  <2>5. NeverReplayed'
    BY <2>3, <2>4 DEF Fresh, NeverReplayed, IsInjective
  <2>6. \A q \in Built' : q \in Built /\ q.born # p.born
    BY <2>1 DEF Fresh
  <2>7. \A q \in Built' : q.born \in 1..sent' /\ \A i \in DOMAIN ran' : ran'[i] # q.born
    BY <1>3, <2>3, <2>6 DEF Fresh
  <2>8. \A i \in DOMAIN ran' : ran'[i] \in 1..sent' /\ below(ran'[i])
    BY <1>3, <2>1, <2>3
  <2>9. \A j \in DOMAIN inbox' : /\ \A q \in Built' : q.born < inbox'[j].n
                                 /\ \A i \in DOMAIN ran' : ran'[i] < inbox'[j].n
    BY <1>3, <2>6, <2>8 DEF below
  <2>10. \A q, s \in Built' : q.born = s.born => q = s
    BY <2>6 DEF Fresh
  <2> QED
    BY <2>5, <2>7, <2>8, <2>9, <2>10 DEF Fresh
<1> QED
  BY <1>5, <1>6, <1>7, PlanShapes

\* A report is taken off the way only by markStale.
LEMMA ReportedBack ==
  ASSUME Typed, unreported \subseteq unreported', Reported(FirstRoot)',
         \/ inbox' = inbox
         \/ inbox # <<>> /\ inbox' = Tail(inbox) /\ Req.method # "markStale"
         \/ \E req \in Requests : inbox' = Append(inbox, req)
  PROVE  Reported(FirstRoot)
<1>0. inbox \in Seq(Requests) /\ FirstRoot \notin unreported
  BY TypedFacts DEF Reported
<1>1. CASE inbox' = inbox
  BY <1>0, <1>1 DEF Reported
<1>2. CASE inbox # <<>> /\ inbox' = Tail(inbox) /\ Req.method # "markStale"
  <2>1. /\ \A i \in DOMAIN inbox \ {1} : i - 1 \in DOMAIN inbox' /\ inbox'[i - 1] = inbox[i]
        /\ Req = inbox[1]
    BY <1>0, <1>2, TailFacts DEF Req
  <2> QED
    BY <1>0, <1>2, <2>1 DEF Reported
<1>3. ASSUME NEW req \in Requests, inbox' = Append(inbox, req) PROVE Reported(FirstRoot)
  <2>1. \A i \in DOMAIN inbox : i \in DOMAIN inbox' /\ inbox'[i] = inbox[i]
    BY <1>0, <1>3, AppendFacts
  <2> QED
    BY <1>0, <2>1 DEF Reported
<1> QED
  BY <1>1, <1>2, <1>3

LEMMA ReadyStep ==
  ASSUME Typed, ScanUnderWay, NothingKept, Numbered, ReadyIsCurrent, ScanIsCurrent, [Next]_vars
  PROVE  ReadyIsCurrent' /\ ScanIsCurrent'
<1> DEFINE G == ReadyIsCurrent' /\ ScanIsCurrent'
           here == present \cap AssetsOf(FirstRoot)
<1>0. FirstRoot \in Roots
  BY DaemonAssumption
<1>01. CASE Start
  BY <1>01 DEF Start, NothingKept, ReadyIsCurrent, ScanIsCurrent, Scanned
<1>1. ASSUME NEW r \in Roots, Moves(r) PROVE G
  <2>1. CASE r = FirstRoot
    BY <1>1, <2>1 DEF Moves, ReadyIsCurrent, ScanIsCurrent, Reported
  <2>2. CASE r # FirstRoot /\ ~Start
    <3>1. AssetsOf(FirstRoot) \cap AssetsOf(r) = {}
      BY <2>2 DEF AssetsOf
    <3>2. present' \cap AssetsOf(FirstRoot) = here
      BY <1>1, <3>1 DEF Moves
    <3>3. Reported(FirstRoot)' => Reported(FirstRoot)
      BY <1>1, ReportedBack DEF Moves
    <3>4. up' => up
      BY <2>2, Shapes DEF Serves, PipesStay, Answers, AnswersAndTells, Tells, Asks, Read,
         Shutdown, Crash, Forgotten, process
    <3> QED
      BY <1>1, <3>2, <3>3, <3>4 DEF Moves, ReadyIsCurrent, ScanIsCurrent, Scanned
  <2> QED
    BY <1>01, <2>1, <2>2
\* Steps that leave files, indices and scan alone, and take no report.
<1>2. ASSUME UNCHANGED <<present, indices, scanning, up>>, unreported \subseteq unreported',
             \/ inbox' = inbox
             \/ inbox # <<>> /\ inbox' = Tail(inbox) /\ Req.method # "markStale"
             \/ \E req \in Requests : inbox' = Append(inbox, req)
      PROVE  G
  BY <1>2, ReportedBack DEF ReadyIsCurrent, ScanIsCurrent, Scanned
<1>3. CASE ScanStarted
  <2>1. /\ UNCHANGED <<present, indices, unreported, inbox, up>>
        /\ scanning' = [root |-> Req.args, found |-> Crawl(Req.args)]
    BY <1>3 DEF ScanStarted, disk, Idle, process
  <2>2. scanning'.root = FirstRoot => scanning'.found = here
    BY <2>1 DEF Crawl
  <2>3. Reported(FirstRoot)' => Reported(FirstRoot)
    BY <2>1 DEF Reported
  <2> QED
    BY <2>1, <2>2, <2>3 DEF ReadyIsCurrent, ScanIsCurrent, Scanned
<1>4. CASE ScanCompleted
  <2> DEFINE assets == scanning.found \cap present
             r == scanning.root
  <2>1. /\ UNCHANGED <<present, unreported, up>> /\ scanning' = None /\ scanning # None
        /\ inbox # <<>> /\ inbox' = Tail(inbox) /\ Req.method = "scan" /\ r \in Roots
    BY <1>4 DEF ScanCompleted, ScanUnderWay, ReplyThenEvent, disk, Idle, process
  <2>2. PICK groups \in Numberings(assets) :
          indices' = [indices EXCEPT ![r] =
             [state |-> ScannedState(scanning.found), assets |-> assets,
              groups |-> groups, references |-> used \cap assets]]
    BY <1>4 DEF ScanCompleted
  <2>3. Reported(FirstRoot)' => Reported(FirstRoot)
    BY <2>1, ReportedBack
  <2>4. ScanIsCurrent'
    BY <2>1 DEF ScanIsCurrent
  <2>5. CASE r # FirstRoot
    <3>1. indices'[FirstRoot] = indices[FirstRoot]
      BY <2>2, <2>5, <1>0 DEF Typed
    <3> QED
      BY <2>1, <2>3, <2>4, <3>1 DEF ReadyIsCurrent, Scanned
  <2>6. CASE r = FirstRoot
    <3>1. /\ indices'[FirstRoot].state = ScannedState(scanning.found)
          /\ indices'[FirstRoot].assets = assets
      BY <2>2, <2>6, <1>0 DEF Typed
    <3>2. ScannedState(scanning.found) = "Ready" => assets = scanning.found
      BY DEF ScannedState
    <3>3. Reported(FirstRoot)' => scanning.found = here
      BY <2>1, <2>3, <2>6 DEF ScanIsCurrent
    <3> QED
      BY <2>1, <2>4, <3>1, <3>2, <3>3 DEF ReadyIsCurrent
  <2> QED
    BY <2>5, <2>6
<1>5. CASE MarkStale
  <2>1. /\ scanning = None /\ scanning' = None /\ UNCHANGED <<present, unreported, up>>
        /\ Req.args = FirstRoot
    BY <1>5, RequestIn, RequestFields DEF MarkStale, Serving, disk, Idle, process
  <2>2. ScanIsCurrent'
    BY <2>1 DEF ScanIsCurrent
  <2>3. CASE FirstRoot \in Scanned
    <3>1. Resolve(FirstRoot) # None
      BY <2>3, ResolveType, NoneIsNothing, <1>0
    <3>2. indices'[FirstRoot] = Staled(indices[FirstRoot])
      BY <1>5, <2>1, <3>1, <1>0 DEF MarkStale, Typed
    <3>3. indices[FirstRoot] \in Index
      BY <2>3, TypedFacts
    <3>4. indices'[FirstRoot].state # "Ready"
      BY <3>2, <3>3 DEF Staled, Index
    <3> QED
      BY <2>2, <3>4 DEF ReadyIsCurrent
  <2>4. CASE FirstRoot \notin Scanned
    <3>1. Resolve(FirstRoot) = None
      BY <2>4, <1>0, DaemonAssumption DEF Resolve
    <3>2. indices' = indices
      BY <1>5, <2>1, <3>1 DEF MarkStale
    <3> QED
      BY <2>2, <2>4, <3>2 DEF ReadyIsCurrent, Scanned
  <2> QED
    BY <2>3, <2>4
<1>6. CASE Shutdown \/ Crash
  BY <1>6 DEF Shutdown, Crash, Forgotten, ReadyIsCurrent, ScanIsCurrent
\* The report names the first root, and is on its way.
<1>8. CASE Report
  <2>1. inbox' = Append(inbox, [n |-> sent + 1, method |-> "markStale", args |-> FirstRoot])
    BY <1>8 DEF Report, Post
  <2>2. [n |-> sent + 1, method |-> "markStale", args |-> FirstRoot] \in Requests
    BY TypedFacts DEF Requests
  <2>3. Len(inbox) + 1 \in DOMAIN inbox'
        /\ inbox'[Len(inbox) + 1] = [n |-> sent + 1, method |-> "markStale", args |-> FirstRoot]
    BY <2>1, <2>2, TypedFacts, AppendFacts
  <2>4. ~Reported(FirstRoot)'
    BY <2>3 DEF Reported
  <2> QED
    BY <2>4 DEF ReadyIsCurrent, ScanIsCurrent
<1>9. CASE Send
  <2>1. PICK req \in Requests : Asks(req)
    BY <1>9, SendAsks
  <2> QED
    BY <1>2, <1>9, <2>1 DEF Send, HostUnchanged, Asks, disk, process
<1>10. CASE ScanFailed
  <2>1. /\ UNCHANGED <<present, indices, unreported, up>> /\ scanning' = None
        /\ inbox # <<>> /\ inbox' = Tail(inbox) /\ Req.method = "scan"
    BY <1>10 DEF ScanFailed, ScanUnderWay, Reply, disk, Idle, process
  <2>2. Reported(FirstRoot)' => Reported(FirstRoot)
    BY <2>1, ReportedBack
  <2> QED
    BY <2>1, <2>2 DEF ReadyIsCurrent, ScanIsCurrent, Scanned
<1>11. CASE (GetAnalysis \/ AnswerOther \/ BuildCleanupPlan \/ BuildResolutionPlan
             \/ ApplyCleanupPlan \/ ApplyResolutionPlan
             \/ TrashAsset \/ RestoreAsset \/ RestoreTrashSession \/ ApplyReferenceRewrite)
            /\ present' = present
  <2>1. /\ inbox # <<>> /\ inbox' = Tail(inbox) /\ Req.method # "markStale"
        /\ UNCHANGED <<indices, scanning, up>> /\ unreported \subseteq unreported'
    BY <1>11 DEF GetAnalysis, AnswerOther, BuildCleanupPlan, BuildResolutionPlan,
       ApplyCleanupPlan, ApplyResolutionPlan, TrashAsset, RestoreAsset, RestoreTrashSession,
       ApplyReferenceRewrite, Serving, Reply, ReplyThenEvent, Refuse, Stage, Idle, process
  <2> QED
    BY <1>2, <1>11, <2>1
<1>12. CASE (UNCHANGED vars \/ Read \/ EditFile \/ EditSource) /\ present' = present
  <2>1. UNCHANGED <<indices, scanning, up, inbox>> /\ unreported \subseteq unreported'
    BY <1>12 DEF vars, Read, EditFile, EditSource, process
  <2> QED
    BY <1>2, <1>12, <2>1
<1>13. present' = present \/ \E r \in Roots : Moves(r)
  BY DiskStep
<1> QED
  BY <1>1, <1>3, <1>4, <1>5, <1>6, <1>01, <1>8, <1>9, <1>10, <1>11, <1>12, <1>13 DEF Next, Serve

LEMMA PlansOnTheWay ==
  /\ \A out \in Seq(Messages), n \in Nat, plan \in Plan \cup {None} :
       OutPlans(Append(out, Response(n, plan))) \subseteq OutPlans(out) \cup {plan}
  /\ \A out \in Seq(Messages), seq \in Nat : OutPlans(Append(out, Told(seq))) \subseteq OutPlans(out)
  /\ \A out \in Seq(Messages) : out # <<>> =>
       /\ OutPlans(Tail(out)) \subseteq OutPlans(out)
       /\ Head(out).type = "response" => Head(out).plan \in OutPlans(out)
  /\ \A in \in Seq(Requests), req \in Requests :
       InPlans(Append(in, req)) \subseteq
         InPlans(in) \cup (IF req.method = "applyCleanupPlan" THEN {req.args} ELSE {})
  /\ \A in \in Seq(Requests) : in # <<>> =>
       /\ InPlans(Tail(in)) \subseteq InPlans(in)
       /\ Head(in).method = "applyCleanupPlan" => Head(in).args \in InPlans(in)
<1>1. ASSUME NEW out \in Seq(Messages), NEW n \in Nat, NEW plan \in Plan \cup {None}
      PROVE  OutPlans(Append(out, Response(n, plan))) \subseteq OutPlans(out) \cup {plan}
  <2> DEFINE m == Response(n, plan)
             longer == Append(out, m)
  <2>1. m \in Messages /\ m.type = "response" /\ m.plan = plan
    BY MessagesMade DEF Response
  <2>2. /\ Of(longer, "response") = Of(out, "response") \cup {Len(out) + 1}
        /\ longer[Len(out) + 1] = m /\ \A i \in Of(out, "response") : longer[i] = out[i]
    BY <2>1, OfAppend, AppendFacts DEF Of
  <2> HIDE DEF longer, m
  <2> QED
    BY <2>1, <2>2 DEF OutPlans, longer, m
<1>2. ASSUME NEW out \in Seq(Messages), NEW seq \in Nat
      PROVE  OutPlans(Append(out, Told(seq))) \subseteq OutPlans(out)
  <2> DEFINE m == Told(seq)
             longer == Append(out, m)
  <2>1. m \in Messages /\ m.type = "event"
    BY MessagesMade DEF Told
  <2>2. /\ Of(longer, "response") = Of(out, "response")
        /\ \A i \in Of(out, "response") : longer[i] = out[i]
    BY <2>1, OfAppend, AppendFacts DEF Of
  <2> HIDE DEF longer, m
  <2> QED
    BY <2>2 DEF OutPlans, longer, m
<1>3. ASSUME NEW out \in Seq(Messages), out # <<>>
      PROVE  /\ OutPlans(Tail(out)) \subseteq OutPlans(out)
             /\ Head(out).type = "response" => Head(out).plan \in OutPlans(out)
  <2> DEFINE rest == Tail(out)
  <2>1. /\ \A i \in DOMAIN rest : rest[i] = out[i + 1] /\ i + 1 \in DOMAIN out
        /\ Head(out) = out[1] /\ 1 \in DOMAIN out
    BY <1>3, TailFacts
  <2> HIDE DEF rest
  <2> QED
    BY <2>1 DEF OutPlans, Of, rest
<1>4. ASSUME NEW in \in Seq(Requests), NEW req \in Requests
      PROVE  InPlans(Append(in, req)) \subseteq
               InPlans(in) \cup (IF req.method = "applyCleanupPlan" THEN {req.args} ELSE {})
  <2> DEFINE longer == Append(in, req)
  <2>1. /\ DOMAIN longer = DOMAIN in \cup {Len(in) + 1} /\ longer[Len(in) + 1] = req
        /\ \A i \in DOMAIN in : longer[i] = in[i]
    BY AppendFacts
  <2> HIDE DEF longer
  <2> QED
    BY <2>1 DEF InPlans, longer
<1>5. ASSUME NEW in \in Seq(Requests), in # <<>>
      PROVE  /\ InPlans(Tail(in)) \subseteq InPlans(in)
             /\ Head(in).method = "applyCleanupPlan" => Head(in).args \in InPlans(in)
  <2> DEFINE rest == Tail(in)
  <2>1. /\ \A i \in DOMAIN rest : rest[i] = in[i + 1] /\ i + 1 \in DOMAIN in
        /\ Head(in) = in[1] /\ 1 \in DOMAIN in
    BY <1>5, TailFacts
  <2> HIDE DEF rest
  <2> QED
    BY <2>1 DEF InPlans, rest
<1> QED
  BY <1>1, <1>2, <1>3, <1>4, <1>5

LEMMA OneIdStep ==
  ASSUME Typed, ScanUnderWay, Numbered, OneIdOnePlan, [Next]_vars
  PROVE  OneIdOnePlan'
<1> SUFFICES ASSUME up', starts' = 1 PROVE OneIdOnePlan'
  BY DEF OneIdOnePlan
<1>0. /\ inbox \in Seq(Requests) /\ outbox \in Seq(Messages) /\ planCounter \in Nat
      /\ eventSequence + 1 \in Nat /\ starts \in Nat \ {0}
      /\ \A p \in CleanupPlans : p.id \in Nat /\ p.kind = "cleanup" /\ p \in Plan
  BY TypedFacts DEF Typed, CleanupPlans, Plan
<1>1. up /\ starts = 1 /\ ~Crash /\ ~Shutdown /\ ~Start
  <2>1. ~Start
    BY <1>0 DEF Start
  <2>2. ~Crash /\ ~Shutdown
    BY DEF Crash, Shutdown, Forgotten
  <2> QED
    BY <2>1, <2>2, Shapes DEF Serves, PipesStay, Answers, AnswersAndTells, Tells, Asks, Read, process
<1>2. /\ \A p \in Issued : p.id <= planCounter
      /\ \A p, q \in Issued : p.id = q.id => p = q
  BY <1>1 DEF OneIdOnePlan
<1>3. planCounter' \in Nat /\ planCounter <= planCounter'
  BY <1>0, PlanShapes DEF PlansStay, Builds, Runs
<1>4. ASSUME Issued' \subseteq Issued PROVE OneIdOnePlan'
  <2>1. \A p \in Issued : p.id \in Nat
    BY <1>0 DEF Issued
  <2> QED
    BY <1>0, <1>2, <1>3, <1>4, <2>1 DEF OneIdOnePlan
<1>5. CASE BuildCleanupPlan
  <2> DEFINE r == Resolve(Req.args.path)
             plan == CleanupPlan(r, Req.args.wanted, planCounter + 1, Req.n)
  <2>1. /\ inbox # <<>> /\ Req.method = "buildCleanupPlan" /\ planCounter' = planCounter + 1
        /\ UNCHANGED <<eventSequence, process, host>>
    BY <1>5 DEF BuildCleanupPlan, Serving, Idle
  <2>2. shown' = shown /\ InPlans(inbox') \subseteq InPlans(inbox)
    BY <1>0, <1>5, <2>1, PlansOnTheWay DEF BuildCleanupPlan, Reply, host
  <2>3. CASE r # None
    <3>1. r \in Scanned /\ Req.args.wanted \in Selections /\ planCounter + 1 \in Nat
      BY <1>0, <2>1, <2>3, ResolveType, RequestIn, RequestFields
    <3>2. plan \in Plan /\ plan.id = planCounter + 1
      BY <2>1, <3>1, CleanupPlanType, RequestIn DEF CleanupPlans
    <3>3. cleanupPlans' = cleanupPlans \cup {plan} /\ Reply(plan)
      BY <1>5, <2>1, <2>3 DEF BuildCleanupPlan
    <3> HIDE DEF plan
    <3>4. Answers(plan)
      BY <1>1, <2>1, <3>2, <3>3, ReplyAnswers
    <3>5. OutPlans(outbox') \subseteq OutPlans(outbox) \cup {plan}
      BY <1>0, <2>1, <3>2, <3>4, PlansOnTheWay, RequestIn, RequestFields DEF Answers
    <3>6. Issued' \subseteq Issued \cup {plan}
      BY <2>2, <3>3, <3>5 DEF Issued
    <3>7. \A p \in Issued : p.id \in Nat /\ p.id # plan.id /\ p.id <= planCounter'
      <4>1. \A p \in Issued : p.id \in Nat
        BY <1>0 DEF Issued
      <4> QED
        BY <1>0, <1>2, <2>1, <3>2, <4>1
    <3> QED
      BY <1>0, <1>2, <2>1, <3>2, <3>6, <3>7 DEF OneIdOnePlan
  <2>4. CASE r = None
    <3>1. cleanupPlans' = cleanupPlans /\ Reply(None)
      BY <1>5, <2>1, <2>4 DEF BuildCleanupPlan
    <3>2. Answers(None)
      BY <1>1, <2>1, <3>1, ReplyAnswers
    <3>3. OutPlans(outbox') \subseteq OutPlans(outbox) \cup {None}
      BY <1>0, <2>1, <3>2, PlansOnTheWay, RequestIn, RequestFields DEF Answers
    <3>4. Issued' \subseteq Issued
      BY <1>0, <2>2, <3>1, <3>3, NoneIsNothing DEF Issued
    <3> QED
      BY <1>4, <3>4
  <2> QED
    BY <2>3, <2>4
<1>6. CASE ~BuildCleanupPlan
  <2>1. cleanupPlans' \subseteq cleanupPlans
    BY <1>6, PlanShapes DEF PlansStay, Builds, Runs, Plan, Kinds
  <2>2. CASE PipesStay
    BY <1>4, <2>1, <2>2 DEF PipesStay, host, Issued
  <2>3. ASSUME NEW req \in Requests, Asks(req) PROVE OneIdOnePlan'
    <3>1. InPlans(inbox') \subseteq InPlans(inbox) \cup {shown["cleanup"]}
      BY <1>0, <2>3, PlansOnTheWay DEF Asks
    <3>2. shown'["cleanup"] = shown["cleanup"] /\ outbox' = outbox
      BY <2>3 DEF Asks, Typed, Kinds
    <3> QED
      BY <1>4, <2>1, <3>1, <3>2 DEF Issued
  <2>4. inbox # <<>> => Req.n \in Nat /\ InPlans(Tail(inbox)) \subseteq InPlans(inbox)
    BY <1>0, PlansOnTheWay, RequestIn, RequestFields
  <2>5. ASSUME NEW plan \in Plan \cup {None}, Answers(plan), plan = None \/ plan.kind = "resolution"
        PROVE  OneIdOnePlan'
    <3>1. plan \notin CleanupPlans
      BY <2>5, NoneIsNothing DEF CleanupPlans
    <3>2. OutPlans(outbox') \subseteq OutPlans(outbox) \cup {plan}
      BY <1>0, <2>4, <2>5, PlansOnTheWay DEF Answers
    <3> QED
      BY <1>4, <2>1, <2>4, <2>5, <3>1, <3>2 DEF Answers, host, Issued
  <2>6. CASE AnswersAndTells
    <3> DEFINE replied == Append(outbox, Response(Req.n, None))
    <3>1. replied \in Seq(Messages)
      BY <1>0, <2>4, <2>6, MessagesMade DEF AnswersAndTells, Response
    <3>2. OutPlans(replied) \subseteq OutPlans(outbox) \cup {None}
      BY <1>0, <2>4, <2>6, PlansOnTheWay DEF AnswersAndTells
    <3>3. OutPlans(outbox') \subseteq OutPlans(replied)
      BY <1>0, <2>6, <3>1, PlansOnTheWay DEF AnswersAndTells
    <3> QED
      BY <1>0, <1>4, <2>1, <2>4, <2>6, <3>2, <3>3, NoneIsNothing DEF AnswersAndTells, host, Issued
  <2>7. CASE Tells
    <3>1. OutPlans(outbox') \subseteq OutPlans(outbox)
      BY <1>0, <2>7, PlansOnTheWay DEF Tells
    <3> QED
      BY <1>4, <2>1, <2>7, <3>1 DEF Tells, host, Issued
  <2>8. CASE Read
    <3>1. outbox # <<>> /\ outbox' = Tail(outbox) /\ inbox' = inbox
      BY <2>8 DEF Read
    <3>2. OutPlans(outbox') \subseteq OutPlans(outbox)
      BY <1>0, <3>1, PlansOnTheWay
    <3>3. Head(outbox) \in Messages
      BY <1>0, <3>1
    <3>4. CASE Head(outbox).type = "response" /\ Head(outbox).plan # None
      <4>1. Head(outbox).plan \in OutPlans(outbox) /\ Head(outbox).plan.kind \in Kinds
        BY <1>0, <3>1, <3>3, <3>4, PlansOnTheWay, MessageFields DEF Plan
      <4>2. shown' = [shown EXCEPT ![Head(outbox).plan.kind] = Head(outbox).plan]
        BY <2>8, <3>4 DEF Read
      <4>3. shown'["cleanup"] \in {shown["cleanup"], Head(outbox).plan}
        BY <4>1, <4>2 DEF Typed, Kinds
      <4> QED
        BY <1>4, <2>1, <3>1, <3>2, <4>1, <4>3 DEF Issued
    <3>5. CASE ~(Head(outbox).type = "response" /\ Head(outbox).plan # None)
      <4>1. shown' = shown
        BY <2>8, <3>5 DEF Read
      <4> QED
        BY <1>4, <2>1, <3>1, <3>2, <4>1 DEF Issued
    <3> QED
      BY <3>4, <3>5
  <2> QED
    BY <1>1, <1>6, <2>2, <2>3, <2>5, <2>6, <2>7, <2>8, Shapes DEF Serves
<1> QED
  BY <1>5, <1>6

-----------------------------------------------------------------------------
(* The invariant holds, and what follows.                                  *)

LEMMA DaemonInit == Init => DaemonInv
<1> SUFFICES ASSUME Init PROVE DaemonInv
  OBVIOUS
<1>1. /\ <<>> \in Seq(Requests) /\ <<>> \in Seq(Messages) /\ <<>> \in Seq(1..MaxRequests)
      /\ MaxRequests \in Nat /\ DOMAIN <<>> = {}
  BY DaemonAssumption
<1>2. Scanned = {} /\ Responses = {} /\ Events = {} /\ Built = {}
  BY DEF Init, Scanned, Responses, Events, Built
<1>3. DaemonTypeOK
  BY <1>1, <1>2 DEF Init, DaemonTypeOK, Kinds
<1>4. Typed
  BY <1>1, <1>2, <1>3 DEF Init, Typed, Kinds
<1>5. ScanUnderWay /\ NothingKept /\ ScanIsCurrent /\ PlansHaveIndex
  BY <1>2 DEF Init, ScanUnderWay, NothingKept, ScanIsCurrent, PlansHaveIndex
<1>6. Numbered
  BY <1>1, OfEmpty DEF Init, Numbered, NumberedIn
<1>7. Fresh
  BY <1>1, <1>2 DEF Init, Fresh, NeverReplayed, IsInjective
<1>8. InSequence /\ HighestRead /\ ReadyIsCurrent
  BY <1>1, <1>2, OfEmpty DEF Init, InSequence, EventsIn, HighestRead, ReadyIsCurrent
<1>9. OneIdOnePlan
  <2>1. OutPlans(outbox) = {} /\ InPlans(inbox) = {} /\ shown["cleanup"] = None
    BY <1>1, OfEmpty DEF Init, OutPlans, InPlans, Kinds
  <2>2. Issued = {}
    BY <2>1, NoneIsNothing DEF Issued, Init, CleanupPlans
  <2> QED
    BY <2>2 DEF OneIdOnePlan
<1> QED
  BY <1>4, <1>5, <1>6, <1>7, <1>8, <1>9 DEF DaemonInv

LEMMA DaemonStep == DaemonInv /\ [Next]_vars => DaemonInv'
  BY TypedStep, ScanStep, NothingStep, NumberedStep, FreshStep, EventsStep, HighestStep, ReadyStep,
     PlansIndexStep, OneIdStep DEF DaemonInv

LEMMA DaemonInvariant == Spec => []DaemonInv
  BY DaemonInit, DaemonStep, PTL DEF Spec

\* Every variable keeps its type; an index and a plan name files of their root only.
THEOREM DaemonTypeCorrect == Spec => []DaemonTypeOK
<1>1. DaemonInv => DaemonTypeOK
  BY DEF DaemonInv, Typed
<1> QED
  BY <1>1, DaemonInvariant, PTL

\* A request the host waits for is in exactly one place, and nothing else is there.
THEOREM RequestsAnsweredOnce == Spec => []OneAnswer
<1>1. ASSUME DaemonInv PROVE OneAnswer
  <2>1. /\ inbox \in Seq(Requests) /\ outbox \in Seq(Messages) /\ sent \in Nat
    BY <1>1, TypedFacts DEF DaemonInv
  <2>2. /\ \A i \in DOMAIN inbox : inbox[i].n \in Nat
        /\ \A i \in Responses : outbox[i].n \in Nat
        /\ \A i, j \in DOMAIN inbox : i < j => inbox[i].n < inbox[j].n
        /\ \A i, j \in Responses : i < j => outbox[i].n < outbox[j].n
        /\ \A i \in Responses, j \in DOMAIN inbox : outbox[i].n < inbox[j].n
        /\ Unread \cup {outbox[i].n : i \in Responses} = waiting
    BY <1>1, <2>1 DEF DaemonInv, Numbered, NumberedIn, Of, Responses, Unread
  <2>3. DOMAIN inbox \subseteq Nat /\ Responses \subseteq Nat
    BY <2>1 DEF Responses
  <2>4. \A i, j \in DOMAIN inbox : inbox[i].n = inbox[j].n => i = j
    <3> SUFFICES ASSUME NEW i \in DOMAIN inbox, NEW j \in DOMAIN inbox, i # j
                 PROVE  inbox[i].n # inbox[j].n
      OBVIOUS
    <3>1. i < j \/ j < i
      BY <2>3
    <3> QED
      BY <2>2, <3>1
  <2>5. \A i, j \in Responses : outbox[i].n = outbox[j].n => i = j
    <3> SUFFICES ASSUME NEW i \in Responses, NEW j \in Responses, i # j
                 PROVE  outbox[i].n # outbox[j].n
      OBVIOUS
    <3>1. i < j \/ j < i
      BY <2>3
    <3> QED
      BY <2>2, <3>1
  <2>6. Unread \cap {outbox[i].n : i \in Responses} = {}
    BY <2>2 DEF Unread
  <2> QED
    BY <2>2, <2>4, <2>5, <2>6 DEF OneAnswer
<1> QED
  BY <1>1, DaemonInvariant, PTL

\* Events reach the host in the order of their numbers, none repeated or left out,
\* for every process; and the host's own check, whose number outlives the process,
\* warns of none of the first one's.
THEOREM EventsOrdered == Spec => []EventsInOrder
<1>1. DaemonInv => EventsInOrder
  BY OrderFromParts DEF DaemonInv
<1> QED
  BY <1>1, DaemonInvariant, PTL

\* An index of the first root that calls itself Ready lists the files on disk, once
\* the changes of that root have been reported and served.
THEOREM ReadyIndexIsCurrent == Spec => []ReadyIsCurrent
<1>1. DaemonInv => ReadyIsCurrent
  BY DEF DaemonInv
<1> QED
  BY <1>1, DaemonInvariant, PTL

\* A plan runs at most once, in however many processes.
THEOREM PlansRunOnce == Spec => []NeverReplayed
<1>1. DaemonInv => NeverReplayed
  BY DEF DaemonInv, Fresh
<1> QED
  BY <1>1, DaemonInvariant, PTL

\* The steps that take a file away while they take a request.
LEMMA FilesTaken ==
  ASSUME DaemonInv, Next, inbox # <<>>, inbox' = Tail(inbox), NEW a \in present \ present'
  PROVE  \/ TrashAsset
         \/ (ApplyCleanupPlan \/ ApplyResolutionPlan)
<1>1. inbox' # inbox
  BY TypedFacts DEF DaemonInv
<1>2. CASE EditFile \/ EditSource \/ Read \/ Start
  BY <1>1, <1>2 DEF EditFile, EditSource, Read, Start
<1>3. CASE Send \/ Report \/ Crash \/ Shutdown
  BY <1>3 DEF Send, Report, HostUnchanged, Crash, Shutdown, Forgotten, disk
<1>4. CASE ScanStarted \/ ScanCompleted \/ ScanFailed \/ GetAnalysis \/ AnswerOther \/ MarkStale
            \/ BuildCleanupPlan \/ BuildResolutionPlan
  BY <1>4 DEF ScanStarted, ScanCompleted, ScanFailed, GetAnalysis, AnswerOther, MarkStale,
     BuildCleanupPlan, BuildResolutionPlan, disk
<1>5. CASE RestoreAsset \/ RestoreTrashSession \/ ApplyReferenceRewrite
  BY <1>5 DEF RestoreAsset, RestoreTrashSession, ApplyReferenceRewrite
<1> QED
  BY <1>2, <1>3, <1>4, <1>5 DEF Next, Serve

\* What executing a plan takes away are targets of that plan.
LEMMA PlanTaken ==
  ASSUME DaemonInv, ApplyCleanupPlan \/ ApplyResolutionPlan
  PROVE  \/ present' = present
         \/ \E p \in Built :
              /\ present \ present' \subseteq p.targets /\ p.targets \subseteq AssetsOf(p.root)
              /\ Req.method = "applyCleanupPlan" => p \in cleanupPlans /\ p.id = Req.args.id
<1>1. Typed
  BY DEF DaemonInv
<1>2. DiskTyped
  BY <1>1 DEF Typed, DaemonTypeOK, DiskTyped
<1>3. CASE UNCHANGED <<disk, unreported, ran>>
  BY <1>3 DEF disk
<1>4. ASSUME NEW p \in Built, NEW fit, NEW partial, Stage(p.root, p.targets, fit, partial),
             p.root \in Roots, p.targets \subseteq AssetsOf(p.root)
      PROVE  present \ present' \subseteq p.targets
  BY <1>1, <1>2, <1>4, StageMoves
<1> QED
  BY <1>1, <1>3, <1>4, ApplyMoves

\* Requests take files only out of roots this process has scanned.
THEOREM FilesConfined == Spec => Confined
<1> DEFINE A == \A method \in Methods : Taken(method) =>
                  \A a \in present \ present' : RootOf[a] \in Scanned
<1>1. DaemonInv /\ [Next]_vars => [A]_vars
  <2> SUFFICES ASSUME DaemonInv, Next, NEW method \in Methods, Taken(method),
                      NEW a \in present \ present'
               PROVE  RootOf[a] \in Scanned
    OBVIOUS
  <2>1. inbox # <<>> /\ inbox' = Tail(inbox)
    BY DEF Taken
  <2>2. CASE TrashAsset
    <3>1. a = Req.args.asset /\ RootOf[a] = Resolve(Req.args.path)
      BY <2>2 DEF TrashAsset, TrashRoot
    <3>2. RootOf[a] \in Roots
      BY TypedFacts, DaemonAssumption DEF DaemonInv
    <3> QED
      BY <3>1, <3>2, ResolveType, NoneIsNothing
  <2>3. CASE ApplyCleanupPlan \/ ApplyResolutionPlan
    <3>1. PICK p \in Built : present \ present' \subseteq AssetsOf(p.root)
      BY <2>3, PlanTaken
    <3>2. p.root \in Scanned
      BY DEF DaemonInv, PlansHaveIndex
    <3> QED
      BY <3>1, <3>2 DEF AssetsOf
  <2> QED
    BY <2>1, <2>2, <2>3, FilesTaken
<1> QED
  BY <1>1, DaemonInvariant, PTL DEF Spec, Confined

\* In the first process, applying a cleanup plan takes only files the panel listed.
THEOREM CleanupRunsAsShown == Spec => CleanupAsShown
<1> DEFINE A == Taken("applyCleanupPlan") /\ starts = 1
                  => present \ present' \subseteq Req.args.targets
<1>1. DaemonInv /\ [Next]_vars => [A]_vars
  <2> SUFFICES ASSUME DaemonInv, Next, Taken("applyCleanupPlan"), starts = 1,
                      NEW a \in present \ present'
               PROVE  a \in Req.args.targets
    OBVIOUS
  <2>1. inbox # <<>> /\ inbox' = Tail(inbox) /\ Req.method = "applyCleanupPlan"
    BY DEF Taken
  <2>2. ~TrashAsset
    BY <2>1 DEF TrashAsset, Serving
  <2>3. ApplyCleanupPlan \/ ApplyResolutionPlan
    BY <2>1, <2>2, FilesTaken
  <2>4. PICK p \in cleanupPlans : present \ present' \subseteq p.targets /\ p.id = Req.args.id
    BY <2>1, <2>3, PlanTaken
  <2>5. up
    BY <2>3 DEF ApplyCleanupPlan, ApplyResolutionPlan, Serving
  <2>6. Req.args \in Issued /\ p \in Issued
    <3>1. Req.args \in CleanupPlans /\ cleanupPlans \subseteq CleanupPlans
      BY <2>1, RequestIn, RequestFields DEF DaemonInv, Typed
    <3>2. Req.args \in InPlans(inbox)
      BY <2>1, TypedFacts, PlansOnTheWay DEF DaemonInv, Req
    <3> QED
      BY <3>1, <3>2 DEF Issued
  <2>7. p = Req.args
    BY <2>4, <2>5, <2>6 DEF DaemonInv, OneIdOnePlan
  <2> QED
    BY <2>4, <2>7
<1> QED
  BY <1>1, DaemonInvariant, PTL DEF Spec, CleanupAsShown

=============================================================================
