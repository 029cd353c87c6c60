----------------------------- MODULE HostProofs -----------------------------
(* What the VS Code host keeps whatever the daemon does: one request each, no *)
(* file trashed without a session, no session forgotten with a file left.    *)
EXTENDS VsCodeHost, FiniteSetTheorems, SequenceTheorems, TLAPS

-----------------------------------------------------------------------------
(* Types.                                                                  *)

Bys == [who : {"scan", "plan", "delete", "job"}, job : Nat]
Ops == {"scan", "plan", "trash", "restore"}

\* A group's copies but for the one to keep, none twice.
Groups == {g \in [keep : Assets, targets : Seq(Assets)] :
             IsInjective(g.targets) /\ g.keep \notin Items(g.targets)}
Values == (SUBSET Assets) \cup Groups \cup TrashItems

\* Who asks for what.
Fits(op, by) ==
  /\ op = "scan" <=> by.who = "scan"
  /\ by.who = "scan" => by.job = 0
  /\ op = "plan" <=> by.who = "plan"
  /\ op = "restore" => by.who = "job"

Requests ==
  {r \in [op : Ops, arg : {None} \cup Assets \cup Values, by : Bys, late : BOOLEAN] :
     /\ Fits(r.op, r.by)
     /\ r.op = "plan" => r.arg \in Groups
     /\ r.op = "trash" => r.arg \in Assets
     /\ r.op = "restore" => r.arg \in TrashItems}

Replies ==
  {p \in [op : Ops, by : Bys, late : BOOLEAN, ok : BOOLEAN, value : Values] :
     /\ Fits(p.op, p.by)
     /\ p.ok => /\ p.op = "scan" => p.value \in SUBSET Assets
                /\ p.op = "plan" => p.value \in Groups
                /\ p.op = "trash" => p.value \in TrashItems /\ p.value.by = p.by
                /\ p.op = "restore" => p.value \in TrashItems}

Answers ==
  {s \in [by : Bys, ok : BOOLEAN, value : Values] :
     s.ok => /\ s.by.who = "scan" => s.value \in SUBSET Assets
             /\ s.by.who = "plan" => s.value \in Groups
             /\ s.by.who = "job" => s.value \in TrashItems}

Plans ==
  {p \in [id : Nat, kind : Kinds, keep : Assets \cup {None}, targets : Seq(Assets),
          refusals : SUBSET Assets] :
     IsInjective(p.targets) /\ p.keep \notin Items(p.targets)}

Jobs ==
  {j \in [id : Nat, kind : Kinds \cup {"restore"}, plan : Nat, keep : Assets \cup {None},
          todo : Seq(Assets \cup TrashItems), done : Seq(TrashItems), partial : BOOLEAN,
          known : SUBSET Assets, waiting : BOOLEAN] :
     /\ j.kind \in Kinds => j.todo \in Seq(Assets) /\ IsInjective(j.todo)
     /\ j.kind = "restore" => j.todo \in Seq(TrashItems)
     /\ j.waiting => j.todo # <<>>}

Sessions == [id : Nat, keep : Assets \cup {None}, items : Seq(TrashItems)]

HostTyped ==
  /\ there \subseteq Assets /\ analysis \subseteq Assets
  /\ trash \subseteq TrashItems /\ lost \subseteq TrashItems
  /\ process \in {"none", "up", "gone"}
  /\ isScanning \in BOOLEAN /\ scanPending \in BOOLEAN /\ timer \in BOOLEAN
  /\ scanFailed \in BOOLEAN /\ scanned \in BOOLEAN
  /\ scanned => process = "up"
  /\ process # "up" => inbox = <<>>
  /\ plans \subseteq Plans /\ jobs \subseteq Jobs /\ sessions \subseteq Sessions
  /\ issued \in Nat

-----------------------------------------------------------------------------
(* The invariant, part by part: of sequences (requests p, answers s, lines *)
(* in and out), and of the sets of what is on them.                        *)

\* Of the lines between host and daemon, one at most is for each that still waits.
Live(lines) == {l.by : l \in {m \in Items(lines) : ~m.late}}
Once(lines) ==
  \A i, k \in DOMAIN lines :
     ~lines[i].late /\ ~lines[k].late /\ lines[i].by = lines[k].by => i = k

\* No file is asked for twice in one name.
SameFile(q, r) == q.op = "trash" /\ r.op = "trash" /\ q.arg = r.arg /\ q.by = r.by
AskedOnce(lines) == \A i, k \in DOMAIN lines : SameFile(lines[i], lines[k]) => i = k

\* Nobody awaits two answers, and no two lines are for one that waits.
Orderly(p, s, in, out) ==
  /\ p \in Seq(Bys) /\ s \in Seq(Answers) /\ in \in Seq(Requests) /\ out \in Seq(Replies)
  /\ IsInjective(p) /\ IsInjective(Askers(s)) /\ Items(p) \cap Items(Askers(s)) = {}
  /\ Once(in) /\ Once(out) /\ AskedOnce(in)
  /\ Live(in) \cap Live(out) = {} /\ Live(in) \cup Live(out) \subseteq Items(p)

\* Who awaits an answer is there to hear it.
Listening(W, J, n, scanning) ==
  /\ \A b \in W : /\ b.who = "scan" => b.job = 0
                  /\ b.job <= n
                  /\ b.who = "job" => \E j \in J : j.id = b.job
  /\ \A j \in J : By("job", j.id) \in W <=> j.waiting
  /\ By("scan", 0) \in W <=> scanning

\* Ids name one handler, one session, and a session is not the handler's any more.
RemovalsOf(J) == {j \in J : j.kind \in Kinds}
RestoresOf(J) == {j \in J : j.kind = "restore"}

IdsNameOne(J, S, P, n) ==
  /\ \A j \in J : j.id <= n /\ j.plan <= n
  /\ \A j, k \in J : j.id = k.id => j = k
  /\ \A s \in S : s.id <= n
  /\ \A s, t \in S : s.id = t.id => s = t
  /\ \A p \in P : p.id <= n
  /\ \A j \in RemovalsOf(J) : \A s \in S : s.id # j.id
  /\ \A j \in RemovalsOf(J) : \A k \in RestoresOf(J) : k.plan # j.id

\* What is on the way to a handler is about the file it waits for.
Answering(in, out, ans, J, T) ==
  /\ \A r \in in : \A j \in J : ~r.late /\ r.by = By("job", j.id) =>
        /\ r.op = "restore" <=> j.kind = "restore"
        /\ r.arg = Head(j.todo)
  /\ \A p \in out : \A j \in J : ~p.late /\ p.by = By("job", j.id) =>
        /\ p.op = "restore" <=> j.kind = "restore"
        /\ p.ok /\ p.op = "restore" => p.value = Head(j.todo) /\ p.value \notin T
  /\ \A s \in ans : \A j \in J : s.ok /\ s.by = By("job", j.id) =>
        /\ j.kind = "restore" => s.value = Head(j.todo) /\ s.value \notin T
        /\ j.kind \in Kinds => s.value.by = s.by

\* The trash items that somebody has, and those that a request may still make.
Recorded(S) == UNION {Items(s.items) : s \in S}
Handled(J) ==
  (UNION {Items(j.done) : j \in J}) \cup (UNION {Items(j.todo) : j \in RestoresOf(J)})
ToRestore(in) == {r.arg : r \in {l \in in : l.op = "restore"}}
Replied(out) == {p.value : p \in {l \in out : l.ok /\ l.op \in {"trash", "restore"}}}
Heard(ans) == {s.value : s \in {l \in ans : l.ok /\ l.by.who = "job"}}
Seen(in, out, ans, J, S) ==
  Recorded(S) \cup Handled(J) \cup ToRestore(in) \cup Replied(out) \cup Heard(ans)

Asked(in) == {Item(r.arg, r) : r \in {l \in in : l.op = "trash"}}
Unsent(j) == Items(IF j.waiting THEN Tail(j.todo) ELSE j.todo)
WouldBe(a, j) == [asset |-> a, by |-> By("job", j.id)]

\* No file is trashed twice for the same handler: an item put back stays back.
Fresh(in, seen, J, n) ==
  /\ Asked(in) \cap seen = {}
  /\ \A j \in RemovalsOf(J) : \A a \in Unsent(j) : WouldBe(a, j) \notin seen \cup Asked(in)
  /\ \A i \in seen \cup Asked(in) : i.by.job <= n

\* A restore that missed nothing yet has put back all but what it has to do.
NoneMissed(J, S, T) ==
  \A s \in S : \A j \in RestoresOf(J) : j.plan = s.id =>
     /\ Len(j.done) + Len(j.todo) <= Len(s.items)
     /\ Len(j.done) + Len(j.todo) = Len(s.items) =>
          \A i \in Items(s.items) : i \in Items(j.todo) \/ i \notin T

\* Every item in the trash, but the lost ones, is with somebody.
Trashed(out) == {p.value : p \in {l \in out : l.op = "trash" /\ l.ok}}
Accounted(out, ans, J, S, T, L) ==
  \A i \in T \ L :
     \/ i.by.who = "delete"
     \/ i \in Recorded(S)
     \/ \E j \in RemovalsOf(J) : i \in Items(j.done)
     \/ i \in Trashed(out)
     \/ \E s \in ans : s.ok /\ s.by = i.by /\ s.value = i

HostInv ==
  /\ HostTyped
  /\ Orderly(pending, settled, inbox, outbox)
  /\ Listening(Awaiting, jobs, issued, isScanning)
  /\ IdsNameOne(jobs, sessions, plans, issued)
  /\ Answering(Items(inbox), Items(outbox), Items(settled), jobs, trash)
  /\ Fresh(Items(inbox),
           Seen(Items(inbox), Items(outbox), Items(settled), jobs, sessions), jobs, issued)
  /\ NoneMissed(jobs, sessions, trash)
  /\ Accounted(Items(outbox), Items(settled), jobs, sessions, trash, lost)
-----------------------------------------------------------------------------
(* Sequences.                                                              *)

LEMMA AppendItems ==
    ASSUME NEW X, NEW s \in Seq(X), NEW x \in X
    PROVE  /\ Append(s, x) \in Seq(X) /\ Append(s, x) # <<>>
           /\ DOMAIN Append(s, x) = DOMAIN s \cup {Len(s) + 1}
           /\ Len(s) + 1 \notin DOMAIN s
           /\ \A i \in DOMAIN s : Append(s, x)[i] = s[i]
           /\ Append(s, x)[Len(s) + 1] = x
           /\ Items(Append(s, x)) = Items(s) \cup {x}
           /\ Len(Append(s, x)) = Len(s) + 1
<1>1. /\ Append(s, x) \in Seq(X) /\ Append(s, x) # <<>>
      /\ DOMAIN Append(s, x) = DOMAIN s \cup {Len(s) + 1}
      /\ Len(s) + 1 \notin DOMAIN s
      /\ \A i \in DOMAIN s : Append(s, x)[i] = s[i]
      /\ Append(s, x)[Len(s) + 1] = x
      /\ Len(Append(s, x)) = Len(s) + 1
  OBVIOUS
<1> HIDE DEF Items
<1> DEFINE t == Append(s, x)
<1> HIDE DEF t
<1>2. Items(t) = Items(s) \cup {x}
  BY <1>1 DEF Items, t
<1> QED
  BY <1>1, <1>2 DEF t

LEMMA TailItems ==
    ASSUME NEW X, NEW s \in Seq(X), s # <<>>
    PROVE  /\ Head(s) \in X /\ Tail(s) \in Seq(X) /\ 1 \in DOMAIN s /\ Head(s) = s[1]
           /\ \A i \in DOMAIN Tail(s) : i \in Nat /\ i + 1 \in DOMAIN s /\ i # 0 /\ Tail(s)[i] = s[i + 1]
           /\ Len(Tail(s)) = Len(s) - 1 /\ Len(s) \in Nat
           /\ Items(s) = {Head(s)} \cup Items(Tail(s))
<1>1. /\ Head(s) \in X /\ Tail(s) \in Seq(X) /\ 1 \in DOMAIN s /\ Head(s) = s[1]
      /\ \A i \in DOMAIN Tail(s) : i \in Nat /\ i + 1 \in DOMAIN s /\ i # 0 /\ Tail(s)[i] = s[i + 1]
      /\ Len(Tail(s)) = Len(s) - 1 /\ Len(s) \in Nat
  OBVIOUS
<1>2. \A k \in DOMAIN s : k = 1 \/ (k - 1 \in DOMAIN Tail(s) /\ Tail(s)[k - 1] = s[k])
  OBVIOUS
<1> DEFINE t == Tail(s)
<1> HIDE DEF t
<1>3. Items(s) = {Head(s)} \cup Items(t)
  <2>1. ASSUME NEW x \in Items(s) PROVE x = Head(s) \/ x \in Items(t)
    <3>1. PICK k \in DOMAIN s : x = s[k]
      BY DEF Items
    <3>2. CASE k = 1
      BY <1>1, <3>1, <3>2
    <3>3. CASE k # 1
      <4>1. k - 1 \in DOMAIN t /\ t[k - 1] = x
        BY <1>2, <3>1, <3>3 DEF t
      <4> QED
        BY <4>1 DEF Items
    <3> QED
      BY <3>2, <3>3
  <2>2. \A x \in Items(t) : x \in Items(s)
    BY <1>1, <1>2 DEF Items, t
  <2>3. Head(s) \in Items(s)
    BY <1>1 DEF Items
  <2> QED
    BY <2>1, <2>2, <2>3
<1> QED
  BY <1>1, <1>3 DEF t

LEMMA ItemsTyped ==
    ASSUME NEW X, NEW s \in Seq(X)
    PROVE  Items(s) \subseteq X
BY DEF Items

LEMMA NoItems == Items(<<>>) = {} /\ IsInjective(<<>>) /\ \A X : <<>> \in Seq(X)
BY DEF Items, IsInjective

LEMMA OneItem ==
    ASSUME NEW X, NEW x \in X
    PROVE  <<x>> \in Seq(X) /\ <<x>> # <<>> /\ Items(<<x>>) = {x} /\ IsInjective(<<x>>)
           /\ DOMAIN <<x>> = {1} /\ <<x>>[1] = x
BY DEF Items, IsInjective

\* What RemoveAt leaves: all the others, where they stood or one place before.
LEMMA RemoveAtPlaces ==
    ASSUME NEW X, NEW j \in Seq(X), NEW i \in DOMAIN j
    PROVE  /\ RemoveAt(j, i) \in Seq(X) /\ Len(RemoveAt(j, i)) = Len(j) - 1
           /\ Len(j) \in Nat /\ i \in 1..Len(j)
           /\ \A n \in 1..(Len(j) - 1) : RemoveAt(j, i)[n] = IF n < i THEN j[n] ELSE j[n + 1]
<1> DEFINE k == RemoveAt(j, i)
           a == SubSeq(j, 1, i - 1)
           b == SubSeq(j, i + 1, Len(j))
<1>0. i \in 1..Len(j) /\ Len(j) \in Nat
  OBVIOUS
<1>1. /\ a \in Seq(X) /\ Len(a) = i - 1
      /\ \A n \in 1..(i - 1) : a[n] = j[n]
  BY <1>0
<1>2. /\ b \in Seq(X) /\ Len(b) = Len(j) - i
      /\ \A n \in 1..(Len(j) - i) : b[n] = j[n + i]
  BY <1>0
<1>3. k = a \o b
  BY DEF RemoveAt
<1> HIDE DEF a, b, k
<1>4. Len(a) \in Nat /\ Len(b) \in Nat /\ i \in Nat /\ Len(j) \in Nat
  BY <1>0, <1>1, <1>2
<1>5. /\ k \in Seq(X) /\ Len(k) = Len(a) + Len(b)
      /\ \A n \in 1..(Len(a) + Len(b)) :
           k[n] = IF n <= Len(a) THEN a[n] ELSE b[n - Len(a)]
  BY <1>1, <1>2, <1>3, ConcatProperties, Zenon
<1>8. Len(a) = i - 1 /\ Len(b) = Len(j) - i
  BY <1>1, <1>2
<1>6. ASSUME NEW n \in 1..(Len(j) - 1)
      PROVE  k[n] = IF n < i THEN j[n] ELSE j[n + 1]
  <2>1. CASE n < i
    <3>1. n \in 1..(i - 1) /\ n <= Len(a) /\ n \in 1..(Len(a) + Len(b))
      BY <1>0, <1>1, <1>2, <1>4, <2>1
    <3>2. k[n] = a[n]
      BY <1>5, <3>1
    <3> QED
      BY <1>1, <2>1, <3>1, <3>2
  <2>2. CASE n >= i
    <3>1. n - (i - 1) \in 1..(Len(j) - i) /\ (n - (i - 1)) + i = n + 1
      BY <2>2, <1>4
    <3>2. ~(n <= Len(a)) /\ n \in 1..(Len(a) + Len(b)) /\ ~(n < i)
      <4>1. n \in Nat /\ 1 <= n /\ n <= Len(j) - 1
        BY <1>4
      <4>2. PICK size \in Nat : size = Len(a) + Len(b)
        BY <1>4
      <4>3. size = Len(j) - 1
        BY <1>4, <1>8, <4>2
      <4>4. n \in 1..size
        BY <4>1, <4>3
      <4>5. ~(n <= Len(a)) /\ ~(n < i)
        BY <1>4, <1>8, <2>2, <4>1
      <4> QED
        BY <4>2, <4>4, <4>5
    <3>3. k[n] = b[n - Len(a)]
      BY <1>5, <3>2
    <3>4. n - Len(a) = n - (i - 1)
      BY <1>1
    <3> QED
      BY <1>2, <3>1, <3>2, <3>3, <3>4
  <2> QED
    BY <2>1, <2>2, <1>4
<1>7. Len(k) = Len(j) - 1
  BY <1>1, <1>2, <1>4, <1>5
<1> QED
  BY <1>0, <1>5, <1>6, <1>7 DEF k

LEMMA RemoveAtItems ==
    ASSUME NEW X, NEW s \in Seq(X), NEW i \in DOMAIN s, IsInjective(s)
    PROVE  /\ RemoveAt(s, i) \in Seq(X) /\ IsInjective(RemoveAt(s, i))
           /\ Items(RemoveAt(s, i)) = Items(s) \ {s[i]}
<1> DEFINE t == RemoveAt(s, i)
<1>1. /\ t \in Seq(X) /\ Len(t) = Len(s) - 1 /\ Len(s) \in Nat /\ i \in 1..Len(s)
      /\ \A n \in 1..(Len(s) - 1) : t[n] = IF n < i THEN s[n] ELSE s[n + 1]
  BY RemoveAtPlaces
<1> HIDE DEF t
<1>2. DOMAIN t = 1..(Len(s) - 1) /\ DOMAIN s = 1..Len(s)
  BY <1>1
<1>6. \A n, m \in 1..Len(s) : s[n] = s[m] => n = m
  BY <1>2 DEF IsInjective
<1>7. \A n \in 1..(Len(s) - 1) :
        \E m \in 1..Len(s) : t[n] = s[m] /\ m # i /\ m = IF n < i THEN n ELSE n + 1
  BY <1>1
<1>3. IsInjective(t)
  <2> SUFFICES ASSUME NEW n \in 1..(Len(s) - 1), NEW m \in 1..(Len(s) - 1), t[n] = t[m]
               PROVE  n = m
    BY <1>2 DEF IsInjective
  <2>1. (IF n < i THEN n ELSE n + 1) = (IF m < i THEN m ELSE m + 1)
    BY <1>6, <1>7
  <2> QED
    BY <1>1, <2>1
<1>4. ASSUME NEW x \in Items(t) PROVE x \in Items(s) /\ x # s[i]
  <2>1. PICK n \in 1..(Len(s) - 1) : x = t[n]
    BY <1>2 DEF Items
  <2>2. PICK m \in 1..Len(s) : x = s[m] /\ m # i
    BY <1>7, <2>1
  <2>3. x \in Items(s)
    BY <1>2, <2>2 DEF Items
  <2> QED
    BY <1>1, <1>6, <2>2, <2>3
<1>5. ASSUME NEW x \in Items(s), x # s[i] PROVE x \in Items(t)
  <2>1. PICK n \in 1..Len(s) : x = s[n] /\ n # i
    BY <1>2, <1>5 DEF Items
  <2>2. CASE n < i
    <3>1. n \in 1..(Len(s) - 1) /\ t[n] = x
      BY <1>1, <2>1, <2>2
    <3> QED
      BY <1>2, <3>1 DEF Items
  <2>3. CASE n > i
    <3>1. n - 1 \in 1..(Len(s) - 1) /\ ~(n - 1 < i) /\ (n - 1) + 1 = n
      BY <1>1, <2>1, <2>3
    <3>2. t[n - 1] = x
      BY <1>1, <2>1, <3>1
    <3> QED
      BY <1>2, <3>1, <3>2 DEF Items
  <2> QED
    BY <1>1, <2>1, <2>2, <2>3
<1> QED
  BY <1>1, <1>3, <1>4, <1>5 DEF t

\* A finite set as a sequence: each element once.
LEMMA SetAsSequence ==
    ASSUME NEW S, IsFiniteSet(S)
    PROVE  SetToSeq(S) \in Seq(S) /\ IsInjective(SetToSeq(S)) /\ Items(SetToSeq(S)) \subseteq S
<1>1. Cardinality(S) \in Nat /\ ExistsBijection(1..Cardinality(S), S)
  BY FS_CardinalityType
<1>2. PICK f \in [1..Cardinality(S) -> S] : IsInjective(f)
  BY <1>1 DEF ExistsBijection, Bijection, Injection, IsInjective
<1>3. SetToSeq(S) \in [1..Cardinality(S) -> S] /\ IsInjective(SetToSeq(S))
  BY <1>2 DEF SetToSeq
<1>4. SetToSeq(S) \in Seq(S)
  BY <1>1, <1>3
<1> QED
  BY <1>3, <1>4 DEF Items

-----------------------------------------------------------------------------
(* Lines whose sender has given up.                                        *)

LEMMA AbandonedRequests ==
    ASSUME NEW lines \in Seq(Requests), NEW by \in Bys
    PROVE  LET left == Abandoned(lines, by)
           IN  /\ left \in Seq(Requests) /\ DOMAIN left = DOMAIN lines
               /\ \A i \in DOMAIN lines :
                     /\ left[i].op = lines[i].op /\ left[i].arg = lines[i].arg
                     /\ left[i].by = lines[i].by
                     /\ left[i].late <=> lines[i].late \/ lines[i].by = by
                     /\ ~left[i].late => left[i] = lines[i]
<1> DEFINE left == Abandoned(lines, by)
<1>1. \A i \in DOMAIN lines : lines[i] \in Requests
  OBVIOUS
<1>2. /\ DOMAIN left = DOMAIN lines
      /\ \A i \in DOMAIN lines : left[i] = [lines[i] EXCEPT !.late = @ \/ lines[i].by = by]
  BY DEF Abandoned
<1> HIDE DEF left
<1>3. ASSUME NEW i \in DOMAIN lines
      PROVE  /\ left[i] \in Requests
             /\ left[i].op = lines[i].op /\ left[i].arg = lines[i].arg
             /\ left[i].by = lines[i].by
             /\ left[i].late <=> lines[i].late \/ lines[i].by = by
             /\ ~left[i].late => left[i] = lines[i]
  <2> DEFINE r == lines[i]
             l == left[i]
  <2>1. r \in Requests /\ l = [r EXCEPT !.late = r.late \/ r.by = by]
    BY <1>1, <1>2
  <2> HIDE DEF r, l
  <2>2. r.late \in BOOLEAN /\ (r.late \/ r.by = by) \in BOOLEAN
    BY <2>1 DEF Requests
  <2>3. l.op = r.op /\ l.arg = r.arg /\ l.by = r.by
    BY <2>1 DEF Requests
  <2>4. l.late = (r.late \/ r.by = by)
    BY <2>1 DEF Requests
  <2>5. l \in Requests
    BY <2>1, <2>2 DEF Requests
  <2>6. ~l.late => l = r
    <3>1. SUFFICES ASSUME ~l.late PROVE l = r
      OBVIOUS
    <3>2. ~r.late /\ r.late = FALSE /\ (r.late \/ r.by = by) = FALSE
      BY <2>2, <2>4, <3>1
    <3> QED
      BY <2>1, <3>2 DEF Requests
  <2> QED
    BY <2>3, <2>4, <2>5, <2>6 DEF r, l
<1>4. left \in Seq(Requests)
  <2>1. Len(lines) \in Nat /\ DOMAIN lines = 1..Len(lines)
    OBVIOUS
  <2>2. left = [i \in DOMAIN lines |-> left[i]]
    BY DEF left, Abandoned
  <2> QED
    BY <1>2, <1>3, <2>1, <2>2
<1> QED
  BY <1>2, <1>3, <1>4 DEF left

LEMMA AbandonedReplies ==
    ASSUME NEW lines \in Seq(Replies), NEW by \in Bys
    PROVE  LET left == Abandoned(lines, by)
           IN  /\ left \in Seq(Replies) /\ DOMAIN left = DOMAIN lines
               /\ \A i \in DOMAIN lines :
                     /\ left[i].op = lines[i].op /\ left[i].value = lines[i].value
                     /\ left[i].by = lines[i].by /\ left[i].ok = lines[i].ok
                     /\ left[i].late <=> lines[i].late \/ lines[i].by = by
                     /\ ~left[i].late => left[i] = lines[i]
<1> DEFINE left == Abandoned(lines, by)
<1>1. \A i \in DOMAIN lines : lines[i] \in Replies
  OBVIOUS
<1>2. /\ DOMAIN left = DOMAIN lines
      /\ \A i \in DOMAIN lines : left[i] = [lines[i] EXCEPT !.late = @ \/ lines[i].by = by]
  BY DEF Abandoned
<1> HIDE DEF left
<1>3. ASSUME NEW i \in DOMAIN lines
      PROVE  /\ left[i] \in Replies
             /\ left[i].op = lines[i].op /\ left[i].value = lines[i].value
             /\ left[i].by = lines[i].by /\ left[i].ok = lines[i].ok
             /\ left[i].late <=> lines[i].late \/ lines[i].by = by
             /\ ~left[i].late => left[i] = lines[i]
  <2> DEFINE r == lines[i]
             l == left[i]
  <2>1. r \in Replies /\ l = [r EXCEPT !.late = r.late \/ r.by = by]
    BY <1>1, <1>2
  <2> HIDE DEF r, l
  <2>2. r.late \in BOOLEAN /\ (r.late \/ r.by = by) \in BOOLEAN
    BY <2>1 DEF Replies
  <2>3. l.op = r.op /\ l.value = r.value /\ l.by = r.by /\ l.ok = r.ok
    BY <2>1 DEF Replies
  <2>4. l.late = (r.late \/ r.by = by)
    BY <2>1 DEF Replies
  <2>5. l \in Replies
    BY <2>1, <2>2 DEF Replies
  <2>6. ~l.late => l = r
    <3>1. SUFFICES ASSUME ~l.late PROVE l = r
      OBVIOUS
    <3>2. ~r.late /\ r.late = FALSE /\ (r.late \/ r.by = by) = FALSE
      BY <2>2, <2>4, <3>1
    <3> QED
      BY <2>1, <3>2 DEF Replies
  <2> QED
    BY <2>3, <2>4, <2>5, <2>6 DEF r, l
<1>4. left \in Seq(Replies)
  <2>1. Len(lines) \in Nat /\ DOMAIN lines = 1..Len(lines)
    OBVIOUS
  <2>2. left = [i \in DOMAIN lines |-> left[i]]
    BY DEF left, Abandoned
  <2> QED
    BY <1>2, <1>3, <2>1, <2>2
<1> QED
  BY <1>2, <1>3, <1>4 DEF left

\* Giving up changes nothing but who still waits.
LEMMA AbandonedInbox ==
    ASSUME NEW lines \in Seq(Requests), NEW by \in Bys
    PROVE  LET left == Abandoned(lines, by)
           IN  /\ Live(left) = Live(lines) \ {by}
               /\ Once(lines) => Once(left)
               /\ AskedOnce(lines) => AskedOnce(left)
               /\ {m \in Items(left) : ~m.late} \subseteq Items(lines)
               /\ Asked(Items(left)) = Asked(Items(lines))
               /\ ToRestore(Items(left)) = ToRestore(Items(lines))
<1> DEFINE left == Abandoned(lines, by)
<1>1. /\ DOMAIN left = DOMAIN lines
      /\ \A i \in DOMAIN lines :
            /\ left[i].op = lines[i].op /\ left[i].arg = lines[i].arg
            /\ left[i].by = lines[i].by
            /\ left[i].late <=> lines[i].late \/ lines[i].by = by
            /\ ~left[i].late => left[i] = lines[i]
  BY AbandonedRequests
<1> HIDE DEF left
<1>2. \A l : l \in Items(left) <=> \E i \in DOMAIN lines : l = left[i]
  BY <1>1 DEF Items
<1>3. \A l : l \in Items(lines) <=> \E i \in DOMAIN lines : l = lines[i]
  BY DEF Items
<1>4. \A b : b \in Live(left) <=> \E i \in DOMAIN lines : ~left[i].late /\ b = left[i].by
  BY <1>2 DEF Live
<1>5. \A b : b \in Live(lines) <=> \E i \in DOMAIN lines : ~lines[i].late /\ b = lines[i].by
  BY <1>3 DEF Live
<1>6. Live(left) = Live(lines) \ {by}
  BY <1>1, <1>4, <1>5
<1>7. /\ Once(lines) => Once(left)
      /\ AskedOnce(lines) => AskedOnce(left)
  BY <1>1 DEF Once, AskedOnce, SameFile
<1>8. {m \in Items(left) : ~m.late} \subseteq Items(lines)
  BY <1>1, <1>2, <1>3
<1>9. Asked(Items(left)) = Asked(Items(lines))
  <2>1. \A x : x \in Asked(Items(left)) <=>
                 \E i \in DOMAIN lines : left[i].op = "trash" /\ x = Item(left[i].arg, left[i])
    BY <1>2 DEF Asked
  <2>2. \A x : x \in Asked(Items(lines)) <=>
                 \E i \in DOMAIN lines : lines[i].op = "trash" /\ x = Item(lines[i].arg, lines[i])
    BY <1>3 DEF Asked
  <2>3. \A x : x \in Asked(Items(left)) <=> x \in Asked(Items(lines))
    BY <1>1, <2>1, <2>2 DEF Item
  <2> QED
    BY <2>3
<1>10. ToRestore(Items(left)) = ToRestore(Items(lines))
  <2>1. \A x : x \in ToRestore(Items(left)) <=>
                 \E i \in DOMAIN lines : left[i].op = "restore" /\ x = left[i].arg
    BY <1>2 DEF ToRestore
  <2>2. \A x : x \in ToRestore(Items(lines)) <=>
                 \E i \in DOMAIN lines : lines[i].op = "restore" /\ x = lines[i].arg
    BY <1>3 DEF ToRestore
  <2>3. \A x : x \in ToRestore(Items(left)) <=> x \in ToRestore(Items(lines))
    BY <1>1, <2>1, <2>2
  <2> QED
    BY <2>3
<1> QED
  BY <1>6, <1>7, <1>8, <1>9, <1>10 DEF left

LEMMA AbandonedOutbox ==
    ASSUME NEW lines \in Seq(Replies), NEW by \in Bys
    PROVE  LET left == Abandoned(lines, by)
           IN  /\ Live(left) = Live(lines) \ {by}
               /\ Once(lines) => Once(left)
               /\ {m \in Items(left) : ~m.late} \subseteq Items(lines)
               /\ Replied(Items(left)) = Replied(Items(lines))
               /\ Trashed(Items(left)) = Trashed(Items(lines))
<1> DEFINE left == Abandoned(lines, by)
<1>1. /\ DOMAIN left = DOMAIN lines
      /\ \A i \in DOMAIN lines :
            /\ left[i].op = lines[i].op /\ left[i].value = lines[i].value
            /\ left[i].by = lines[i].by /\ left[i].ok = lines[i].ok
            /\ left[i].late <=> lines[i].late \/ lines[i].by = by
            /\ ~left[i].late => left[i] = lines[i]
  BY AbandonedReplies
<1> HIDE DEF left
<1>2. \A l : l \in Items(left) <=> \E i \in DOMAIN lines : l = left[i]
  BY <1>1 DEF Items
<1>3. \A l : l \in Items(lines) <=> \E i \in DOMAIN lines : l = lines[i]
  BY DEF Items
<1>4. \A b : b \in Live(left) <=> \E i \in DOMAIN lines : ~left[i].late /\ b = left[i].by
  BY <1>2 DEF Live
<1>5. \A b : b \in Live(lines) <=> \E i \in DOMAIN lines : ~lines[i].late /\ b = lines[i].by
  BY <1>3 DEF Live
<1>6. Live(left) = Live(lines) \ {by}
  BY <1>1, <1>4, <1>5
<1>7. Once(lines) => Once(left)
  BY <1>1 DEF Once
<1>8. {m \in Items(left) : ~m.late} \subseteq Items(lines)
  BY <1>1, <1>2, <1>3
<1>9. Replied(Items(left)) = Replied(Items(lines))
  <2>1. \A x : x \in Replied(Items(left)) <=>
          \E i \in DOMAIN lines : left[i].ok /\ left[i].op \in {"trash", "restore"} /\ x = left[i].value
    BY <1>2 DEF Replied
  <2>2. \A x : x \in Replied(Items(lines)) <=>
          \E i \in DOMAIN lines : lines[i].ok /\ lines[i].op \in {"trash", "restore"} /\ x = lines[i].value
    BY <1>3 DEF Replied
  <2>3. \A x : x \in Replied(Items(left)) <=> x \in Replied(Items(lines))
    BY <1>1, <2>1, <2>2
  <2> QED
    BY <2>3
<1>10. Trashed(Items(left)) = Trashed(Items(lines))
  <2>1. \A x : x \in Trashed(Items(left)) <=>
          \E i \in DOMAIN lines : left[i].op = "trash" /\ left[i].ok /\ x = left[i].value
    BY <1>2 DEF Trashed
  <2>2. \A x : x \in Trashed(Items(lines)) <=>
          \E i \in DOMAIN lines : lines[i].op = "trash" /\ lines[i].ok /\ x = lines[i].value
    BY <1>3 DEF Trashed
  <2>3. \A x : x \in Trashed(Items(left)) <=> x \in Trashed(Items(lines))
    BY <1>1, <2>1, <2>2
  <2> QED
    BY <2>3
<1> QED
  BY <1>6, <1>7, <1>8, <1>9, <1>10 DEF left

\* The model's way of naming what the daemon said it trashed.
LEMMA TrashedInItems ==
    ASSUME NEW lines \in Seq(Replies)
    PROVE  TrashedIn(lines) = Trashed(Items(lines))
BY DEF TrashedIn, Trashed, Items

-----------------------------------------------------------------------------
(* Lines come and go.                                                      *)

LEMMA RequestFields ==
    \A op, arg, by : LET r == Request(op, arg, by)
                     IN  r.op = op /\ r.arg = arg /\ r.by = by /\ ~r.late
BY DEF Request

LEMMA ReplyFields ==
    \A r, ok, value : LET p == Reply(r, ok, value)
                      IN  /\ p.op = r.op /\ p.by = r.by /\ p.late = r.late
                          /\ p.ok = ok /\ p.value = value
BY DEF Reply

LEMMA AnswerFields ==
    \A by, ok, value : LET s == Answer(by, ok, value)
                       IN  s.by = by /\ s.ok = ok /\ s.value = value
BY DEF Answer

LEMMA LiveAppend ==
    ASSUME NEW X, NEW lines \in Seq(X), NEW x \in X
    PROVE  /\ ~x.late => Live(Append(lines, x)) = Live(lines) \cup {x.by}
           /\ x.late => Live(Append(lines, x)) = Live(lines)
           /\ Once(lines) /\ (x.late \/ x.by \notin Live(lines)) => Once(Append(lines, x))
<1> DEFINE t == Append(lines, x)
<1>1. /\ DOMAIN t = DOMAIN lines \cup {Len(lines) + 1} /\ Len(lines) + 1 \notin DOMAIN lines
      /\ \A i \in DOMAIN lines : t[i] = lines[i]
      /\ t[Len(lines) + 1] = x
      /\ Items(t) = Items(lines) \cup {x}
  BY AppendItems
<1> HIDE DEF t
<1>2. ~x.late => Live(t) = Live(lines) \cup {x.by}
  BY <1>1 DEF Live
<1>3. x.late => Live(t) = Live(lines)
  BY <1>1 DEF Live
<1>4. ASSUME Once(lines), x.late \/ x.by \notin Live(lines) PROVE Once(t)
  <2>1. ASSUME NEW i \in DOMAIN t, NEW k \in DOMAIN t,
               ~t[i].late, ~t[k].late, t[i].by = t[k].by, i \in DOMAIN lines, k \notin DOMAIN lines
        PROVE  FALSE
    <3>1. t[k] = x /\ t[i] = lines[i]
      BY <1>1, <2>1
    <3>2. x.by \in Live(lines) /\ ~x.late
      BY <2>1, <3>1 DEF Live, Items
    <3> QED
      BY <1>4, <3>2
  <2>2. ASSUME NEW i \in DOMAIN t, NEW k \in DOMAIN t,
               ~t[i].late, ~t[k].late, t[i].by = t[k].by
        PROVE  i = k
    <3>1. CASE i \in DOMAIN lines /\ k \in DOMAIN lines
      BY <1>1, <1>4, <2>2, <3>1 DEF Once
    <3>2. CASE i \notin DOMAIN lines /\ k \notin DOMAIN lines
      BY <1>1, <3>2
    <3> QED
      BY <2>1, <2>2, <3>1, <3>2
  <2> QED
    BY <2>2 DEF Once
<1> QED
  BY <1>2, <1>3, <1>4 DEF t

LEMMA LiveTail ==
    ASSUME NEW X, NEW lines \in Seq(X), lines # <<>>
    PROVE  /\ Live(Tail(lines)) \subseteq Live(lines)
           /\ ~Head(lines).late => Head(lines).by \in Live(lines)
           /\ Once(lines) => /\ Once(Tail(lines))
                             /\ ~Head(lines).late => Head(lines).by \notin Live(Tail(lines))
<1> DEFINE t == Tail(lines)
           h == Head(lines)
<1>1. /\ 1 \in DOMAIN lines /\ h = lines[1]
      /\ \A i \in DOMAIN t : i \in Nat /\ i + 1 \in DOMAIN lines /\ i # 0 /\ t[i] = lines[i + 1]
      /\ Items(lines) = {h} \cup Items(t)
  BY TailItems
<1> HIDE DEF t, h
<1>2. Live(t) \subseteq Live(lines) /\ (~h.late => h.by \in Live(lines))
  BY <1>1 DEF Live
<1>3. ASSUME Once(lines) PROVE Once(t)
  <2>1. ASSUME NEW i \in DOMAIN t, NEW k \in DOMAIN t,
               ~t[i].late, ~t[k].late, t[i].by = t[k].by
        PROVE  i = k
    <3>1. i + 1 = k + 1
      BY <1>1, <1>3, <2>1 DEF Once
    <3> QED
      BY <1>1, <3>1
  <2> QED
    BY <2>1 DEF Once
<1>4. ASSUME Once(lines), ~h.late, h.by \in Live(t) PROVE FALSE
  <2>1. PICK i \in DOMAIN t : ~t[i].late /\ t[i].by = h.by
    BY <1>4 DEF Live, Items
  <2>2. 1 = i + 1
    BY <1>1, <1>4, <2>1 DEF Once
  <2> QED
    BY <1>1, <2>2
<1> QED
  BY <1>2, <1>3, <1>4 DEF t, h

LEMMA AskedOnceAppend ==
    ASSUME NEW lines \in Seq(Requests), NEW x \in Requests, AskedOnce(lines),
           x.op = "trash" => Item(x.arg, x) \notin Asked(Items(lines))
    PROVE  AskedOnce(Append(lines, x))
<1> DEFINE t == Append(lines, x)
<1>1. /\ DOMAIN t = DOMAIN lines \cup {Len(lines) + 1} /\ Len(lines) + 1 \notin DOMAIN lines
      /\ \A i \in DOMAIN lines : t[i] = lines[i]
      /\ t[Len(lines) + 1] = x
  BY AppendItems
<1> HIDE DEF t
<1>2. ASSUME NEW i \in DOMAIN lines,
             lines[i].op = "trash", x.op = "trash", lines[i].arg = x.arg, lines[i].by = x.by
      PROVE  FALSE
  <2>1. Item(x.arg, x) = Item(lines[i].arg, lines[i]) /\ lines[i] \in Items(lines)
    BY <1>2 DEF Item, Items
  <2> QED
    BY <1>2, <2>1 DEF Asked
<1> QED
  BY <1>1, <1>2 DEF AskedOnce, SameFile, t

LEMMA AskedOnceTail ==
    ASSUME NEW lines \in Seq(Requests), lines # <<>>, AskedOnce(lines)
    PROVE  /\ AskedOnce(Tail(lines))
           /\ Head(lines).op = "trash" =>
                Item(Head(lines).arg, Head(lines)) \notin Asked(Items(Tail(lines)))
<1> DEFINE t == Tail(lines)
           h == Head(lines)
<1>1. /\ 1 \in DOMAIN lines /\ h = lines[1]
      /\ \A i \in DOMAIN t : i \in Nat /\ i + 1 \in DOMAIN lines /\ i # 0 /\ t[i] = lines[i + 1]
  BY TailItems
<1> HIDE DEF t, h
<1>2. AskedOnce(t)
  <2>1. ASSUME NEW i \in DOMAIN t, NEW k \in DOMAIN t, SameFile(t[i], t[k]) PROVE i = k
    <3>1. i + 1 = k + 1
      BY <1>1, <2>1 DEF AskedOnce
    <3> QED
      BY <1>1, <3>1
  <2> QED
    BY <2>1 DEF AskedOnce
<1>3. ASSUME h.op = "trash", Item(h.arg, h) \in Asked(Items(t)) PROVE FALSE
  <2>1. PICK i \in DOMAIN t : t[i].op = "trash" /\ Item(h.arg, h) = Item(t[i].arg, t[i])
    BY <1>3 DEF Asked, Items
  <2>2. h.arg = t[i].arg /\ h.by = t[i].by
    BY <2>1 DEF Item
  <2>3. 1 = i + 1
    BY <1>1, <1>3, <2>1, <2>2 DEF AskedOnce, SameFile
  <2> QED
    BY <1>1, <2>3
<1> QED
  BY <1>2, <1>3 DEF t, h

-----------------------------------------------------------------------------
(* Requests, lines and answers stay orderly.                               *)

LEMMA AskersItems ==
    ASSUME NEW s \in Seq(Answers)
    PROVE  /\ DOMAIN Askers(s) = DOMAIN s /\ Items(Askers(s)) = {a.by : a \in Items(s)}
           /\ Items(Askers(s)) \subseteq Bys
<1>1. DOMAIN Askers(s) = DOMAIN s /\ \A i \in DOMAIN s : Askers(s)[i] = s[i].by
  BY DEF Askers
<1>2. \A i \in DOMAIN s : s[i] \in Answers
  OBVIOUS
<1>3. Items(Askers(s)) = {a.by : a \in Items(s)}
  BY <1>1 DEF Items
<1>4. \A a \in Answers : a.by \in Bys
  BY DEF Answers
<1> QED
  BY <1>1, <1>2, <1>3, <1>4 DEF Items

LEMMA OrderlySends ==
    ASSUME NEW p, NEW s, NEW in, NEW out, Orderly(p, s, in, out),
           NEW r \in Requests, ~r.late, r.by \in Bys, r.by \notin Items(p) \cup Items(Askers(s)),
           r.op = "trash" => Item(r.arg, r) \notin Asked(Items(in))
    PROVE  /\ Orderly(Append(p, r.by), s, in, out)
           /\ Orderly(Append(p, r.by), s, Append(in, r), out)
           /\ Items(Append(p, r.by)) = Items(p) \cup {r.by}
           /\ Items(Append(in, r)) = Items(in) \cup {r}
<1>0. /\ p \in Seq(Bys) /\ s \in Seq(Answers) /\ in \in Seq(Requests) /\ out \in Seq(Replies)
      /\ IsInjective(p) /\ IsInjective(Askers(s)) /\ Items(p) \cap Items(Askers(s)) = {}
      /\ Once(in) /\ Once(out) /\ AskedOnce(in)
      /\ Live(in) \cap Live(out) = {} /\ Live(in) \cup Live(out) \subseteq Items(p)
  BY DEF Orderly
<1> DEFINE p2 == Append(p, r.by)
           in2 == Append(in, r)
<1>1. /\ p2 \in Seq(Bys)
      /\ DOMAIN p2 = DOMAIN p \cup {Len(p) + 1} /\ Len(p) + 1 \notin DOMAIN p
      /\ \A i \in DOMAIN p : p2[i] = p[i]
      /\ p2[Len(p) + 1] = r.by
      /\ Items(p2) = Items(p) \cup {r.by}
  BY <1>0, AppendItems
<1>2. in2 \in Seq(Requests) /\ Items(in2) = Items(in) \cup {r}
  BY <1>0, AppendItems
<1>3. Live(in2) = Live(in) \cup {r.by} /\ Once(in2)
  BY <1>0, LiveAppend
<1>4. AskedOnce(in2)
  BY <1>0, AskedOnceAppend
<1> HIDE DEF p2, in2
<1>5. IsInjective(p2)
  <2>1. \A i \in DOMAIN p : p[i] # r.by
    BY DEF Items
  <2> QED
    BY <1>0, <1>1, <2>1 DEF IsInjective
<1>6. Orderly(p2, s, in, out)
  BY <1>0, <1>1, <1>5 DEF Orderly
<1>7. Orderly(p2, s, in2, out)
  BY <1>0, <1>1, <1>2, <1>3, <1>4, <1>5 DEF Orderly
<1> QED
  BY <1>1, <1>2, <1>6, <1>7 DEF p2, in2

LEMMA OrderlyHears ==
    ASSUME NEW p, NEW s, NEW in, NEW out, Orderly(p, s, in, out), s # <<>>
    PROVE  /\ Orderly(p, Tail(s), in, out)
           /\ Head(s) \in Answers
           /\ Items(s) = {Head(s)} \cup Items(Tail(s))
           /\ Head(s).by \notin Items(Askers(Tail(s))) \cup Items(p)
           /\ Items(Askers(s)) = {Head(s).by} \cup Items(Askers(Tail(s)))
<1>0. /\ p \in Seq(Bys) /\ s \in Seq(Answers) /\ in \in Seq(Requests) /\ out \in Seq(Replies)
      /\ IsInjective(p) /\ IsInjective(Askers(s)) /\ Items(p) \cap Items(Askers(s)) = {}
      /\ Once(in) /\ Once(out) /\ AskedOnce(in)
      /\ Live(in) \cap Live(out) = {} /\ Live(in) \cup Live(out) \subseteq Items(p)
  BY DEF Orderly
<1> DEFINE t == Tail(s)
           h == Head(s)
<1>1. /\ h \in Answers /\ t \in Seq(Answers) /\ 1 \in DOMAIN s /\ h = s[1]
      /\ \A i \in DOMAIN t : i \in Nat /\ i + 1 \in DOMAIN s /\ i # 0 /\ t[i] = s[i + 1]
      /\ Items(s) = {h} \cup Items(t)
  BY <1>0, TailItems
<1> HIDE DEF t, h
<1>2. /\ DOMAIN Askers(s) = DOMAIN s /\ \A i \in DOMAIN s : Askers(s)[i] = s[i].by
      /\ DOMAIN Askers(t) = DOMAIN t /\ \A i \in DOMAIN t : Askers(t)[i] = t[i].by
  BY DEF Askers
<1>3. IsInjective(Askers(t))
  <2>1. ASSUME NEW i \in DOMAIN t, NEW k \in DOMAIN t, t[i].by = t[k].by PROVE i = k
    <3>1. i + 1 \in DOMAIN s /\ k + 1 \in DOMAIN s /\ s[i + 1].by = s[k + 1].by
      BY <1>1, <2>1
    <3>2. i + 1 = k + 1
      BY <1>0, <1>2, <3>1 DEF IsInjective
    <3> QED
      BY <1>1, <3>2
  <2> QED
    BY <1>2, <2>1 DEF IsInjective
<1>4. h.by \notin Items(Askers(t))
  <2>1. SUFFICES ASSUME NEW i \in DOMAIN t, t[i].by = h.by PROVE FALSE
    BY <1>2 DEF Items
  <2>2. 1 = i + 1
    BY <1>0, <1>1, <1>2, <2>1 DEF IsInjective
  <2> QED
    BY <1>1, <2>2
<1>5. Items(Askers(s)) = {h.by} \cup Items(Askers(t))
  <2>1. Items(Askers(s)) = {a.by : a \in Items(s)} /\ Items(Askers(t)) = {a.by : a \in Items(t)}
    BY <1>0, <1>1, AskersItems
  <2> QED
    BY <1>1, <2>1
<1>6. Orderly(p, t, in, out)
  BY <1>0, <1>1, <1>3, <1>5 DEF Orderly
<1> QED
  BY <1>0, <1>1, <1>4, <1>5, <1>6 DEF t, h

LEMMA OneAnswer ==
    ASSUME NEW s \in Answers
    PROVE  /\ <<s>> \in Seq(Answers) /\ Items(<<s>>) = {s}
           /\ IsInjective(Askers(<<s>>)) /\ Items(Askers(<<s>>)) = {s.by}
<1>1. /\ <<s>> \in Seq(Answers) /\ Items(<<s>>) = {s}
      /\ DOMAIN <<s>> = {1} /\ <<s>>[1] = s
  BY OneItem
<1>2. DOMAIN Askers(<<s>>) = {1} /\ Askers(<<s>>)[1] = s.by
  BY <1>1 DEF Askers
<1> QED
  BY <1>1, <1>2 DEF Items, IsInjective

\* One promise is settled.
LEMMA SettlesOne ==
    ASSUME NEW p \in Seq(Bys), IsInjective(p), NEW i \in DOMAIN p, NEW s \in Answers
    PROVE  /\ RemoveAt(p, i) \in Seq(Bys) /\ IsInjective(RemoveAt(p, i))
           /\ Items(RemoveAt(p, i)) = Items(p) \ {p[i]} /\ p[i] \in Items(p)
           /\ <<s>> \in Seq(Answers) /\ Items(<<s>>) = {s}
           /\ IsInjective(Askers(<<s>>)) /\ Items(Askers(<<s>>)) = {s.by}
<1>1. /\ RemoveAt(p, i) \in Seq(Bys) /\ IsInjective(RemoveAt(p, i))
      /\ Items(RemoveAt(p, i)) = Items(p) \ {p[i]} /\ p[i] \in Items(p)
  BY RemoveAtItems DEF Items
<1>2. /\ <<s>> \in Seq(Answers) /\ Items(<<s>>) = {s}
      /\ IsInjective(Askers(<<s>>)) /\ Items(Askers(<<s>>)) = {s.by}
  BY OneAnswer
<1> QED
  BY <1>1, <1>2

-----------------------------------------------------------------------------
(* What the parts of the invariant allow, as sets change.                  *)

\* Who is heard of: whoever a line that is not late, or an answer, is for.
Named(in, out, ans) ==
  {l.by : l \in {m \in in : ~m.late}} \cup {l.by : l \in {m \in out : ~m.late}}
    \cup {s.by : s \in ans}

LEMMA OrderlyNames ==
    ASSUME NEW p, NEW s, NEW in, NEW out, Orderly(p, s, in, out)
    PROVE  Named(Items(in), Items(out), Items(s)) \subseteq Items(p) \cup Items(Askers(s))
<1>1. Items(Askers(s)) = {a.by : a \in Items(s)}
  BY AskersItems DEF Orderly
<1> QED
  BY <1>1 DEF Named, Orderly, Live

\* A handler nobody answers may change as it likes.
LEMMA AnsweringJobs ==
    ASSUME NEW in, NEW out, NEW ans, NEW J, NEW T, Answering(in, out, ans, J, T), NEW J2,
           \A j \in J2 : j \in J \/ By("job", j.id) \notin Named(in, out, ans)
    PROVE  Answering(in, out, ans, J2, T)
<1>1. ASSUME NEW r \in in, NEW j \in J2, ~r.late, r.by = By("job", j.id)
      PROVE  /\ r.op = "restore" <=> j.kind = "restore"
             /\ r.arg = Head(j.todo)
  <2>1. r.by \in Named(in, out, ans)
    BY <1>1 DEF Named
  <2> QED
    BY <1>1, <2>1 DEF Answering
<1>2. ASSUME NEW p \in out, NEW j \in J2, ~p.late, p.by = By("job", j.id)
      PROVE  /\ p.op = "restore" <=> j.kind = "restore"
             /\ p.ok /\ p.op = "restore" => p.value = Head(j.todo) /\ p.value \notin T
  <2>1. p.by \in Named(in, out, ans)
    BY <1>2 DEF Named
  <2> QED
    BY <1>2, <2>1 DEF Answering
<1>3. ASSUME NEW s \in ans, NEW j \in J2, s.ok, s.by = By("job", j.id)
      PROVE  /\ j.kind = "restore" => s.value = Head(j.todo) /\ s.value \notin T
             /\ j.kind \in Kinds => s.value.by = s.by
  <2>1. s.by \in Named(in, out, ans)
    BY <1>3 DEF Named
  <2> QED
    BY <1>3, <2>1 DEF Answering
<1> QED
  BY <1>1, <1>2, <1>3 DEF Answering

\* The trash loses items, or gets one that nobody has seen.
LEMMA AnsweringTrash ==
    ASSUME NEW in, NEW out, NEW ans, NEW J, NEW T, Answering(in, out, ans, J, T), NEW T2,
           out \subseteq Replies,
           \A i \in T2 \ T : i \notin Replied(out) \cup Heard(ans)
    PROVE  Answering(in, out, ans, J, T2)
<1>1. ASSUME NEW p \in out, p.ok, p.op = "restore" PROVE p.value \in Replied(out)
  BY <1>1 DEF Replied
<1>2. ASSUME NEW s \in ans, NEW j \in J, s.ok, s.by = By("job", j.id) PROVE s.value \in Heard(ans)
  BY <1>2 DEF Heard, By
<1>3. ASSUME NEW p \in out, NEW j \in J, ~p.late, p.by = By("job", j.id), p.ok, p.op = "restore"
      PROVE  p.value = Head(j.todo) /\ p.value \notin T2
  BY <1>1, <1>3 DEF Answering
<1>4. ASSUME NEW s \in ans, NEW j \in J, s.ok, s.by = By("job", j.id), j.kind = "restore"
      PROVE  s.value = Head(j.todo) /\ s.value \notin T2
  BY <1>2, <1>4 DEF Answering
<1> QED
  BY <1>3, <1>4 DEF Answering

\* Lines that come answer others, fail, or say what was done for one that waits.
LEMMA AnsweringQuiet ==
    ASSUME NEW in, NEW out, NEW ans, NEW J, NEW T, Answering(in, out, ans, J, T),
           out \subseteq Replies, NEW T2, \A i \in T2 \ T : i \notin Replied(out) \cup Heard(ans),
           NEW in2, NEW out2, NEW ans2,
           \A r \in in2 : r.late \/ r \in in \/ r.by.who # "job",
           \A p \in out2 :
              \/ p.late \/ p \in out \/ p.by.who # "job"
              \/ \E r \in in : /\ ~r.late /\ r.by = p.by /\ r.op = p.op
                               /\ p.ok /\ p.op = "restore" => p.value = r.arg /\ p.value \notin T2,
           \A s \in ans2 :
              \/ s \in ans \/ ~s.ok
              \/ \E p \in out : ~p.late /\ p.ok /\ p.by = s.by /\ p.value = s.value
    PROVE  Answering(in2, out2, ans2, J, T2)
<1>1. Answering(in, out, ans, J, T2)
  BY AnsweringTrash
<1>2. ASSUME NEW r \in in2, NEW j \in J, ~r.late, r.by = By("job", j.id)
      PROVE  /\ r.op = "restore" <=> j.kind = "restore"
             /\ r.arg = Head(j.todo)
  <2>1. r \in in
    BY <1>2 DEF By
  <2> QED
    BY <1>1, <1>2, <2>1 DEF Answering
<1>3. ASSUME NEW p \in out2, NEW j \in J, ~p.late, p.by = By("job", j.id)
      PROVE  /\ p.op = "restore" <=> j.kind = "restore"
             /\ p.ok /\ p.op = "restore" => p.value = Head(j.todo) /\ p.value \notin T2
  <2>1. CASE p \in out
    BY <1>1, <1>3, <2>1 DEF Answering
  <2>2. CASE p \notin out
    <3>1. PICK r \in in : /\ ~r.late /\ r.by = p.by /\ r.op = p.op
                          /\ p.ok /\ p.op = "restore" => p.value = r.arg /\ p.value \notin T2
      BY <1>3, <2>2 DEF By
    <3>2. (r.op = "restore" <=> j.kind = "restore") /\ r.arg = Head(j.todo)
      BY <1>1, <1>3, <3>1 DEF Answering
    <3> QED
      BY <3>1, <3>2
  <2> QED
    BY <2>1, <2>2
<1>4. ASSUME NEW s \in ans2, NEW j \in J, s.ok, s.by = By("job", j.id)
      PROVE  /\ j.kind = "restore" => s.value = Head(j.todo) /\ s.value \notin T2
             /\ j.kind \in Kinds => s.value.by = s.by
  <2>1. CASE s \in ans
    BY <1>1, <1>4, <2>1 DEF Answering
  <2>2. CASE s \notin ans
    <3>1. PICK p \in out : ~p.late /\ p.ok /\ p.by = s.by /\ p.value = s.value
      BY <1>4, <2>2
    <3>2. /\ p.op = "restore" <=> j.kind = "restore"
          /\ p.ok /\ p.op = "restore" => p.value = Head(j.todo) /\ p.value \notin T2
      BY <1>1, <1>4, <3>1 DEF Answering
    <3>3. p \in Replies /\ p.by.who = "job"
      BY <1>4, <3>1 DEF By
    <3>4. p.op \in {"trash", "restore"} /\ (p.op = "trash" => p.value.by = p.by)
      BY <3>1, <3>3 DEF Replies, Fits, Ops
    <3>5. "restore" \notin Kinds
      BY DEF Kinds
    <3> QED
      BY <3>1, <3>2, <3>4, <3>5
  <2> QED
    BY <2>1, <2>2
<1> QED
  BY <1>2, <1>3, <1>4 DEF Answering

LEMMA AnsweringAsks ==
    ASSUME NEW in, NEW out, NEW ans, NEW J, NEW T, Answering(in, out, ans, J, T),
           NEW j \in J, \A k \in J : k.id = j.id => k = j, NEW r,
           r.by = By("job", j.id), r.arg = Head(j.todo), r.op = "restore" <=> j.kind = "restore"
    PROVE  Answering(in \cup {r}, out, ans, J, T)
BY DEF Answering, By

LEMMA FreshMoves ==
    ASSUME NEW in, NEW seen, NEW J, NEW n \in Nat, Fresh(in, seen, J, n),
           NEW in2, NEW seen2, NEW J2, NEW n2 \in Nat, n <= n2,
           seen \cup Asked(in) \subseteq TrashItems,
           Asked(in2) \cap seen2 = {}, seen2 \cup Asked(in2) \subseteq seen \cup Asked(in),
           \A j \in RemovalsOf(J2) : \A a \in Unsent(j) :
              \E k \in RemovalsOf(J) : k.id = j.id /\ a \in Unsent(k)
    PROVE  Fresh(in2, seen2, J2, n2)
<1>1. ASSUME NEW j \in RemovalsOf(J2), NEW a \in Unsent(j)
      PROVE  WouldBe(a, j) \notin seen2 \cup Asked(in2)
  <2>1. PICK k \in RemovalsOf(J) : k.id = j.id /\ a \in Unsent(k)
    OBVIOUS
  <2>2. WouldBe(a, j) = WouldBe(a, k)
    BY <2>1 DEF WouldBe
  <2>3. WouldBe(a, k) \notin seen \cup Asked(in)
    BY <2>1 DEF Fresh
  <2> QED
    BY <2>2, <2>3
<1>2. ASSUME NEW i \in seen2 \cup Asked(in2) PROVE i.by.job <= n2
  <2>1. i \in seen \cup Asked(in) /\ i \in TrashItems
    OBVIOUS
  <2>2. i.by.job \in Nat
    BY <2>1 DEF TrashItems
  <2>3. i.by.job <= n
    BY <2>1 DEF Fresh
  <2> QED
    BY <2>2, <2>3
<1> QED
  BY <1>1, <1>2 DEF Fresh

LEMMA ItemsTypes ==
    ASSUME NEW in, in \subseteq Requests
    PROVE  /\ Asked(in) \subseteq TrashItems \cup {Item(r.arg, r) : r \in in}
           /\ ToRestore(in) \subseteq TrashItems
           /\ \A i \in Asked(in) : i \in TrashItems
<1>1. ASSUME NEW r \in in, r.op = "trash" PROVE Item(r.arg, r) \in TrashItems
  <2>1. r \in Requests
    OBVIOUS
  <2>2. r.arg \in Assets /\ r.by \in Bys /\ Fits(r.op, r.by)
    BY <1>1, <2>1 DEF Requests
  <2>3. r.by \in [who : {"delete", "job"}, job : Nat]
    BY <1>1, <2>2 DEF Bys, Fits
  <2> QED
    BY <2>2, <2>3 DEF Item, TrashItems
<1>2. ToRestore(in) \subseteq TrashItems
  BY DEF ToRestore, Requests
<1>3. \A i \in Asked(in) : i \in TrashItems
  BY <1>1 DEF Asked
<1> QED
  BY <1>2, <1>3

LEMMA HandledItems ==
    ASSUME NEW J, NEW x
    PROVE  x \in Handled(J) <=> \/ \E j \in J : x \in Items(j.done)
                               \/ \E j \in RestoresOf(J) : x \in Items(j.todo)
<1> DEFINE D == {Items(j.done) : j \in J}
           R == {Items(j.todo) : j \in RestoresOf(J)}
<1>1. x \in UNION D <=> \E j \in J : x \in Items(j.done)
  OBVIOUS
<1>2. x \in UNION R <=> \E j \in RestoresOf(J) : x \in Items(j.todo)
  OBVIOUS
<1>3. Handled(J) = (UNION D) \cup (UNION R)
  BY DEF Handled
<1> HIDE DEF D, R
<1>4. x \in Handled(J) <=> x \in UNION D \/ x \in UNION R
  BY <1>3
<1> QED
  BY <1>1, <1>2, <1>4

LEMMA SeenTypes ==
    ASSUME NEW in, NEW out, NEW ans, NEW J, NEW S,
           in \subseteq Requests, out \subseteq Replies, ans \subseteq Answers,
           J \subseteq Jobs, S \subseteq Sessions
    PROVE  Seen(in, out, ans, J, S) \cup Asked(in) \subseteq TrashItems
<1>1. ToRestore(in) \subseteq TrashItems /\ Asked(in) \subseteq TrashItems
  BY ItemsTypes
<1>2. Replied(out) \subseteq TrashItems
  BY DEF Replied, Replies
<1>3. Heard(ans) \subseteq TrashItems
  BY DEF Heard, Answers
<1>4. Recorded(S) \subseteq TrashItems
  <2>1. \A s \in S : Items(s.items) \subseteq TrashItems
    BY ItemsTyped DEF Sessions
  <2> QED
    BY <2>1 DEF Recorded
<1>5. Handled(J) \subseteq TrashItems
  <2>1. ASSUME NEW j \in J PROVE Items(j.done) \subseteq TrashItems
    BY ItemsTyped DEF Jobs
  <2>2. ASSUME NEW j \in RestoresOf(J) PROVE Items(j.todo) \subseteq TrashItems
    BY ItemsTyped DEF Jobs, RestoresOf
  <2> QED
    BY <2>1, <2>2, HandledItems
<1> QED
  BY <1>1, <1>2, <1>3, <1>4, <1>5 DEF Seen

\* A request to trash in a name nobody had.
LEMMA FreshAsks ==
    ASSUME NEW in, NEW seen, NEW J, NEW n \in Nat, Fresh(in, seen, J, n), NEW n2 \in Nat, n <= n2,
           seen \cup Asked(in) \subseteq TrashItems,
           NEW i, i \notin seen, i.by.job <= n2,
           \A j \in RemovalsOf(J) : \A a \in Unsent(j) : WouldBe(a, j) # i,
           NEW in2, Asked(in2) \subseteq Asked(in) \cup {i}
    PROVE  Fresh(in2, seen, J, n2)
<1>1. \A k \in seen \cup Asked(in) : k.by.job <= n2
  <2>1. ASSUME NEW k \in seen \cup Asked(in) PROVE k.by.job <= n2
    <3>1. k.by.job \in Nat
      BY DEF TrashItems
    <3>2. k.by.job <= n
      BY DEF Fresh
    <3> QED
      BY <3>1, <3>2
  <2> QED
    BY <2>1
<1> QED
  BY <1>1 DEF Fresh

\* A handler under a new id.
LEMMA FreshHandler ==
    ASSUME NEW in, NEW seen, NEW J, NEW n \in Nat, Fresh(in, seen, J, n),
           seen \cup Asked(in) \subseteq TrashItems,
           NEW j, j.id = n + 1
    PROVE  Fresh(in, seen, J \cup {j}, n + 1)
<1>1. \A k \in seen \cup Asked(in) : k.by.job \in Nat /\ k.by.job <= n
  BY DEF Fresh, TrashItems
<1>2. \A a : WouldBe(a, j).by.job = n + 1
  BY DEF WouldBe, By
<1>3. \A k \in seen \cup Asked(in) : k.by.job <= n + 1 /\ k.by.job # n + 1
  BY <1>1
<1>4. RemovalsOf(J \cup {j}) \subseteq RemovalsOf(J) \cup {j}
  BY DEF RemovalsOf
<1> QED
  BY <1>2, <1>3, <1>4 DEF Fresh

\* Ids.
Like(k, j) == k.id = j.id /\ k.plan = j.plan /\ k.kind = j.kind

LEMMA IdsGrow ==
    ASSUME NEW J, NEW S, NEW P, NEW n \in Nat, IdsNameOne(J, S, P, n),
           J \subseteq Jobs, S \subseteq Sessions, P \subseteq Plans,
           NEW n2 \in Nat, n <= n2, NEW P2, \A p \in P2 : p \in P \/ p.id <= n2
    PROVE  IdsNameOne(J, S, P2, n2)
<1>1. \A j \in J : j.id \in Nat /\ j.plan \in Nat
  BY DEF Jobs
<1>2. \A s \in S : s.id \in Nat
  BY DEF Sessions
<1>3. \A p \in P : p.id \in Nat
  BY DEF Plans
<1>4. \A j \in J : j.id <= n2 /\ j.plan <= n2
  BY <1>1 DEF IdsNameOne
<1>5. \A s \in S : s.id <= n2
  BY <1>2 DEF IdsNameOne
<1>6. \A p \in P2 : p.id <= n2
  BY <1>3 DEF IdsNameOne
<1> QED
  BY <1>4, <1>5, <1>6 DEF IdsNameOne

LEMMA IdsReplace ==
    ASSUME NEW J, NEW S, NEW P, NEW n, IdsNameOne(J, S, P, n), NEW j \in J, NEW k, Like(k, j)
    PROVE  IdsNameOne((J \ {j}) \cup {k}, S, P, n)
<1> DEFINE J2 == (J \ {j}) \cup {k}
<1>1. \A i \in J2 : i.id <= n /\ i.plan <= n
  BY DEF IdsNameOne, Like
<1>2. \A i, l \in J2 : i.id = l.id => i = l
  BY DEF IdsNameOne, Like
<1>3. \A i \in RemovalsOf(J2) : \E l \in RemovalsOf(J) : l.id = i.id
  BY DEF RemovalsOf, Like
<1>4. \A i \in RestoresOf(J2) : \E l \in RestoresOf(J) : l.plan = i.plan
  BY DEF RestoresOf, Like
<1> HIDE DEF J2
<1>5. /\ \A i \in RemovalsOf(J2) : \A s \in S : s.id # i.id
      /\ \A i \in RemovalsOf(J2) : \A l \in RestoresOf(J2) : l.plan # i.id
  BY <1>3, <1>4 DEF IdsNameOne
<1>6. IdsNameOne(J2, S, P, n)
  BY <1>1, <1>2, <1>5 DEF IdsNameOne
<1> QED
  BY <1>6 DEF J2

LEMMA IdsFewer ==
    ASSUME NEW J, NEW S, NEW P, NEW n, IdsNameOne(J, S, P, n),
           NEW J2, J2 \subseteq J, NEW S2, S2 \subseteq S, NEW P2, P2 \subseteq P
    PROVE  IdsNameOne(J2, S2, P2, n)
BY DEF IdsNameOne, RemovalsOf, RestoresOf

LEMMA IdsHandler ==
    ASSUME NEW J, NEW S, NEW P, NEW n \in Nat, IdsNameOne(J, S, P, n),
           J \subseteq Jobs, S \subseteq Sessions, P \subseteq Plans,
           NEW j, j.id = n + 1, j.plan <= n, j.plan \in Nat,
           j.kind = "restore" => \A i \in RemovalsOf(J) : i.id # j.plan
    PROVE  IdsNameOne(J \cup {j}, S, P, n + 1)
<1>1. \A i \in J : i.id \in Nat /\ i.plan \in Nat /\ i.id <= n /\ i.plan <= n
  BY DEF Jobs, IdsNameOne
<1>2. \A s \in S : s.id \in Nat /\ s.id <= n
  BY DEF Sessions, IdsNameOne
<1>3. \A p \in P : p.id \in Nat /\ p.id <= n
  BY DEF Plans, IdsNameOne
<1>4. /\ \A i \in J : i.id <= n + 1 /\ i.plan <= n + 1 /\ i.id # n + 1 /\ i.plan # n + 1
      /\ \A s \in S : s.id <= n + 1 /\ s.id # n + 1
      /\ \A p \in P : p.id <= n + 1
      /\ j.id <= n + 1 /\ j.plan <= n + 1 /\ j.plan # j.id
  BY <1>1, <1>2, <1>3
<1>5. \A i, k \in J \cup {j} : i.id = k.id => i = k
  BY <1>4 DEF IdsNameOne
<1>6. \A i \in RemovalsOf(J \cup {j}) : i \in RemovalsOf(J) \/ (i = j /\ j.kind \in Kinds)
  BY DEF RemovalsOf
<1>7. \A i \in RestoresOf(J \cup {j}) : (i \in RestoresOf(J) /\ i \in J) \/ (i = j /\ j.kind = "restore")
  BY DEF RestoresOf
<1>8. "restore" \notin Kinds
  BY DEF Kinds
<1>9. \A i \in RemovalsOf(J \cup {j}) : \A s \in S : s.id # i.id
  BY <1>4, <1>6 DEF IdsNameOne
<1>10. \A i \in RemovalsOf(J \cup {j}) : \A k \in RestoresOf(J \cup {j}) : k.plan # i.id
  BY <1>4, <1>6, <1>7, <1>8 DEF IdsNameOne
<1> QED
  BY <1>4, <1>5, <1>9, <1>10 DEF IdsNameOne

LEMMA IdsSession ==
    ASSUME NEW J, NEW S, NEW P, NEW n, IdsNameOne(J, S, P, n),
           NEW j \in RemovalsOf(J), NEW s, s.id = j.id
    PROVE  IdsNameOne(J \ {j}, S \cup {s}, P, n)
<1>1. j \in J
  BY DEF RemovalsOf
<1>2. RemovalsOf(J \ {j}) \subseteq RemovalsOf(J) /\ RestoresOf(J \ {j}) \subseteq RestoresOf(J)
      /\ \A i \in RemovalsOf(J \ {j}) : i \in J /\ i # j
  BY DEF RemovalsOf, RestoresOf
<1>3. \A i \in RemovalsOf(J \ {j}) : i.id # j.id
  BY <1>1, <1>2 DEF IdsNameOne
<1>4. \A t \in S : t.id # s.id
  BY DEF IdsNameOne
<1> QED
  BY <1>1, <1>2, <1>3, <1>4 DEF IdsNameOne

\* Restores.
LEMMA MissedTrash ==
    ASSUME NEW J, NEW S, NEW T, NoneMissed(J, S, T), NEW T2,
           \A i \in T2 \ T : i \notin Recorded(S)
    PROVE  NoneMissed(J, S, T2)
<1>1. \A s \in S : \A i \in Items(s.items) : i \in Recorded(S)
  BY DEF Recorded
<1> QED
  BY <1>1 DEF NoneMissed

LEMMA MissedFewer ==
    ASSUME NEW J, NEW S, NEW T, NoneMissed(J, S, T), NEW J2, NEW S2,
           RestoresOf(J2) \subseteq RestoresOf(J),
           \A s \in S2 : s \in S \/ \A j \in RestoresOf(J2) : j.plan # s.id
    PROVE  NoneMissed(J2, S2, T)
BY DEF NoneMissed

LEMMA MissedGoesOn ==
    ASSUME NEW J, NEW S, NEW T, NoneMissed(J, S, T), J \subseteq Jobs, S \subseteq Sessions,
           NEW j \in RestoresOf(J), NEW k \in Jobs, k.plan = j.plan,
           \/ Len(k.done) + Len(k.todo) < Len(j.done) + Len(j.todo)
           \/ /\ Len(k.done) + Len(k.todo) = Len(j.done) + Len(j.todo)
              /\ \A i \in Items(j.todo) : i \in Items(k.todo) \/ i \notin T
    PROVE  NoneMissed((J \ {j}) \cup {k}, S, T)
<1> DEFINE J2 == (J \ {j}) \cup {k}
<1>1. ASSUME NEW l \in RestoresOf(J2) PROVE l \in RestoresOf(J) \/ l = k
  BY DEF RestoresOf
<1>2. ASSUME NEW s \in S, k.plan = s.id
      PROVE  /\ Len(k.done) + Len(k.todo) <= Len(s.items)
             /\ Len(k.done) + Len(k.todo) = Len(s.items) =>
                  \A i \in Items(s.items) : i \in Items(k.todo) \/ i \notin T
  <2>1. /\ Len(j.done) + Len(j.todo) <= Len(s.items)
        /\ Len(j.done) + Len(j.todo) = Len(s.items) =>
             \A i \in Items(s.items) : i \in Items(j.todo) \/ i \notin T
    BY <1>2 DEF NoneMissed
  <2>2. /\ Len(s.items) \in Nat /\ Len(j.done) \in Nat /\ Len(j.todo) \in Nat
        /\ Len(k.done) \in Nat /\ Len(k.todo) \in Nat
    BY DEF RestoresOf, Jobs, Sessions
  <2>3. CASE Len(k.done) + Len(k.todo) < Len(j.done) + Len(j.todo)
    <3> DEFINE kd == Len(k.done)
               kt == Len(k.todo)
               jd == Len(j.done)
               jt == Len(j.todo)
               c == Len(s.items)
    <3>1. kd \in Nat /\ kt \in Nat /\ jd \in Nat /\ jt \in Nat /\ c \in Nat
      BY <2>2
    <3>2. kd + kt < jd + jt /\ jd + jt <= c
      BY <2>1, <2>3
    <3> HIDE DEF kd, kt, jd, jt, c
    <3>3. kd + kt <= c /\ kd + kt # c
      BY <3>1, <3>2
    <3> QED
      BY <3>3 DEF kd, kt, c
  <2>4. CASE /\ Len(k.done) + Len(k.todo) = Len(j.done) + Len(j.todo)
             /\ \A i \in Items(j.todo) : i \in Items(k.todo) \/ i \notin T
    BY <2>1, <2>2, <2>4
  <2> QED
    BY <2>3, <2>4
<1> QED
  BY <1>1, <1>2 DEF NoneMissed

LEMMA MissedBegins ==
    ASSUME NEW J, NEW S, NEW T, NoneMissed(J, S, T), S \subseteq Sessions,
           NEW s \in S, \A t \in S : t.id = s.id => t = s,
           NEW j, j.plan = s.id, j.todo = s.items, j.done = <<>>
    PROVE  NoneMissed(J \cup {j}, S, T)
<1>1. ASSUME NEW l \in RestoresOf(J \cup {j}) PROVE l \in RestoresOf(J) \/ l = j
  BY DEF RestoresOf
<1>2. Len(j.done) + Len(j.todo) = Len(s.items)
  <2>1. Len(s.items) \in Nat /\ Len(<<>>) = 0
    BY DEF Sessions
  <2> QED
    BY <2>1
<1>3. Len(j.done) + Len(j.todo) <= Len(s.items)
  BY <1>2 DEF Sessions
<1>4. ASSUME NEW t \in S, j.plan = t.id
      PROVE  /\ Len(j.done) + Len(j.todo) <= Len(t.items)
             /\ \A i \in Items(t.items) : i \in Items(j.todo)
  BY <1>3, <1>4
<1> QED
  BY <1>1, <1>4 DEF NoneMissed

LEMMA RecordedItems ==
    ASSUME NEW S, NEW x
    PROVE  x \in Recorded(S) <=> \E s \in S : x \in Items(s.items)
BY DEF Recorded

\* Whoever had an item has it still, or another does.
LEMMA AccountedMoves ==
    ASSUME NEW out, NEW ans, NEW J, NEW S, NEW T, NEW L, Accounted(out, ans, J, S, T, L),
           NEW out2, NEW ans2, NEW J2, NEW S2, NEW T2, NEW L2,
           \A i \in T2 \ L2 : \/ i \in T \ L
                              \/ i \in Trashed(out2),
           \A i \in Trashed(out) \ Trashed(out2) :
              i \in L2 \/ \E s \in ans2 : s.ok /\ s.by = i.by /\ s.value = i,
           \A s \in ans : s \in ans2 \/ \A i \in T2 \ L2 :
              s.ok /\ s.by = i.by /\ s.value = i =>
                i.by.who = "delete" \/ \E j \in RemovalsOf(J2) : i \in Items(j.done),
           \A j \in RemovalsOf(J) : \A i \in Items(j.done) :
              \/ i \in L2
              \/ i \in Recorded(S2)
              \/ \E k \in RemovalsOf(J2) : i \in Items(k.done),
           \A i \in Recorded(S) : i \in Recorded(S2) \/ i \notin T2
    PROVE  Accounted(out2, ans2, J2, S2, T2, L2)
<1> SUFFICES ASSUME NEW i \in T2 \ L2
             PROVE  \/ i.by.who = "delete"
                    \/ i \in Recorded(S2)
                    \/ \E j \in RemovalsOf(J2) : i \in Items(j.done)
                    \/ i \in Trashed(out2)
                    \/ \E s \in ans2 : s.ok /\ s.by = i.by /\ s.value = i
  BY DEF Accounted
<1>1. CASE i \in Trashed(out2)
  BY <1>1
<1>2. CASE i \in T \ L
  <2>1. CASE i.by.who = "delete"
    BY <2>1
  <2>2. CASE i \in Recorded(S)
    BY <2>2
  <2>3. CASE \E j \in RemovalsOf(J) : i \in Items(j.done)
    BY <2>3
  <2>4. CASE i \in Trashed(out)
    BY <2>4
  <2>5. CASE \E s \in ans : s.ok /\ s.by = i.by /\ s.value = i
    <3>1. PICK s \in ans : s.ok /\ s.by = i.by /\ s.value = i
      BY <2>5
    <3>2. CASE s \in ans2
      BY <3>1, <3>2
    <3>3. CASE s \notin ans2
      <4>1. i.by.who = "delete" \/ \E j \in RemovalsOf(J2) : i \in Items(j.done)
        BY <3>1, <3>3
      <4> QED
        BY <4>1
    <3> QED
      BY <3>2, <3>3
  <2> QED
    BY <1>2, <2>1, <2>2, <2>3, <2>4, <2>5 DEF Accounted
<1> QED
  BY <1>1, <1>2

-----------------------------------------------------------------------------
(* Steps that leave the handlers and the sessions alone.                   *)
In == Items(inbox)
Out == Items(outbox)
Ans == Items(settled)
SeenNow == Seen(In, Out, Ans, jobs, sessions)

LEMMA InvFacts ==
    ASSUME HostInv
    PROVE  /\ In \subseteq Requests /\ Out \subseteq Replies /\ Ans \subseteq Answers
           /\ pending \in Seq(Bys) /\ settled \in Seq(Answers)
           /\ inbox \in Seq(Requests) /\ outbox \in Seq(Replies)
           /\ jobs \subseteq Jobs /\ sessions \subseteq Sessions /\ plans \subseteq Plans
           /\ issued \in Nat
           /\ SeenNow \cup Asked(In) \subseteq TrashItems
           /\ Named(In, Out, Ans) \subseteq Awaiting /\ Awaiting \subseteq Bys
<1>1. /\ pending \in Seq(Bys) /\ settled \in Seq(Answers)
      /\ inbox \in Seq(Requests) /\ outbox \in Seq(Replies)
  BY DEF HostInv, Orderly
<1>2. In \subseteq Requests /\ Out \subseteq Replies /\ Ans \subseteq Answers
  BY <1>1, ItemsTyped DEF In, Out, Ans
<1>3. /\ jobs \subseteq Jobs /\ sessions \subseteq Sessions /\ plans \subseteq Plans
      /\ issued \in Nat
  BY DEF HostInv, HostTyped
<1>4. SeenNow \cup Asked(In) \subseteq TrashItems
  BY <1>2, <1>3, SeenTypes DEF SeenNow
<1>5. Named(In, Out, Ans) \subseteq Awaiting
  BY OrderlyNames DEF HostInv, In, Out, Ans, Awaiting
<1>6. Awaiting \subseteq Bys
  BY <1>1, ItemsTyped, AskersItems DEF Awaiting
<1> QED
  BY <1>1, <1>2, <1>3, <1>4, <1>5, <1>6

LEMMA CoreStep ==
    ASSUME HostInv, HostTyped',
           Orderly(pending, settled, inbox, outbox)',
           Listening(Awaiting, jobs, issued, isScanning)',
           Fresh(In, SeenNow, jobs, issued)',
           UNCHANGED <<jobs, sessions>>, issued <= issued',
           \A p \in plans' : p \in plans \/ p.id <= issued',
           \A i \in trash' \ trash : i \notin SeenNow /\ i \in Trashed(Out'),
           lost \subseteq lost',
           \A r \in In' : r.late \/ r \in In \/ r.by.who # "job",
           \A p \in Out' :
              \/ p.late \/ p \in Out \/ p.by.who # "job"
              \/ \E r \in In : /\ ~r.late /\ r.by = p.by /\ r.op = p.op
                               /\ p.ok /\ p.op = "restore" => p.value = r.arg /\ p.value \notin trash',
           \A s \in Ans' :
              \/ s \in Ans \/ ~s.ok
              \/ \E p \in Out : ~p.late /\ p.ok /\ p.by = s.by /\ p.value = s.value,
           \A i \in Trashed(Out) \ Trashed(Out') :
              i \in lost' \/ \E s \in Ans' : s.ok /\ s.by = i.by /\ s.value = i,
           \A s \in Ans \ Ans' : s.by.who # "job"
    PROVE  HostInv'
<1>0. /\ Out \subseteq Replies /\ jobs \subseteq Jobs /\ sessions \subseteq Sessions
      /\ plans \subseteq Plans /\ issued \in Nat
  BY InvFacts
<1>1. issued' \in Nat /\ trash' \subseteq TrashItems
  BY DEF HostTyped
<1>2. Replied(Out) \cup Heard(Ans) \cup Recorded(sessions) \subseteq SeenNow
  BY DEF SeenNow, Seen
<1>3. IdsNameOne(jobs, sessions, plans, issued)'
  <2>1. IdsNameOne(jobs, sessions, plans', issued')
    BY <1>0, <1>1, IdsGrow DEF HostInv
  <2> QED
    BY <2>1
<1>4. Answering(In, Out, Ans, jobs, trash)'
  <2>1. Answering(In, Out, Ans, jobs, trash)
    BY DEF HostInv, In, Out, Ans
  <2>2. Answering(In', Out', Ans', jobs, trash')
    BY <1>0, <1>2, <2>1, AnsweringQuiet
  <2> QED
    BY <2>2
<1>5. NoneMissed(jobs, sessions, trash)'
  <2>1. NoneMissed(jobs, sessions, trash')
    BY <1>2, MissedTrash DEF HostInv
  <2> QED
    BY <2>1
<1>6. Accounted(Out, Ans, jobs, sessions, trash, lost)'
  <2>1. Accounted(Out, Ans, jobs, sessions, trash, lost)
    BY DEF HostInv, Out, Ans
  <2>2. \A i \in trash' \ lost' : \/ i \in trash \ lost
                                  \/ i \in Trashed(Out')
    OBVIOUS
  <2>3. \A s \in Ans : s \in Ans' \/ \A i \in trash' \ lost' :
          s.ok /\ s.by = i.by /\ s.value = i =>
            i.by.who = "delete" \/ \E j \in RemovalsOf(jobs) : i \in Items(j.done)
    <3>1. \A i \in trash' : i.by.who \in {"delete", "job"}
      BY <1>1 DEF TrashItems
    <3> QED
      BY <3>1
  <2>4. Accounted(Out', Ans', jobs, sessions, trash', lost')
    BY <2>1, <2>2, <2>3, AccountedMoves
  <2> QED
    BY <2>4
<1> QED
  BY <1>3, <1>4, <1>5, <1>6 DEF HostInv, In, Out, Ans, SeenNow

LEMMA QuietStep ==
    ASSUME HostInv, HostTyped',
           Orderly(pending, settled, inbox, outbox)',
           Listening(Awaiting, jobs, issued, isScanning)',
           UNCHANGED <<jobs, sessions>>, issued <= issued',
           \A p \in plans' : p \in plans \/ p.id <= issued',
           trash' \subseteq trash, lost \subseteq lost',
           \A i \in Asked(In') :
              i \in Asked(In) \/ (i.by.who # "job" /\ i.by.job = issued' /\ issued < issued'),
           ToRestore(In') \cup Replied(Out') \cup Heard(Ans') \subseteq SeenNow,
           \A r \in In' : r.late \/ r \in In \/ r.by.who # "job",
           \A p \in Out' :
              \/ p.late \/ p \in Out \/ p.by.who # "job"
              \/ \E r \in In : /\ ~r.late /\ r.by = p.by /\ r.op = p.op
                               /\ p.ok /\ p.op = "restore" => p.value = r.arg /\ p.value \notin trash',
           \A s \in Ans' :
              \/ s \in Ans \/ ~s.ok
              \/ \E p \in Out : ~p.late /\ p.ok /\ p.by = s.by /\ p.value = s.value,
           \A i \in Trashed(Out) \ Trashed(Out') :
              i \in lost' \/ \E s \in Ans' : s.ok /\ s.by = i.by /\ s.value = i,
           \A s \in Ans \ Ans' : s.by.who # "job"
    PROVE  HostInv'
<1>1. Fresh(In, SeenNow, jobs, issued)'
  <2>1. /\ jobs \subseteq Jobs /\ issued \in Nat /\ issued' \in Nat
        /\ SeenNow \cup Asked(In) \subseteq TrashItems
    BY InvFacts DEF HostTyped
  <2>2. Fresh(In, SeenNow, jobs, issued)
    BY DEF HostInv, In, SeenNow, Out, Ans
  <2>3. SeenNow' \subseteq SeenNow
    <3>1. SeenNow' = Recorded(sessions) \cup Handled(jobs) \cup ToRestore(In')
                       \cup Replied(Out') \cup Heard(Ans')
      BY DEF SeenNow, Seen
    <3>2. Recorded(sessions) \cup Handled(jobs) \subseteq SeenNow
      BY DEF SeenNow, Seen
    <3> QED
      BY <3>1, <3>2
  <2> DEFINE seen2 == SeenNow'
             in2 == In'
  <2> HIDE DEF seen2, in2
  <2>4. \A i \in SeenNow \cup Asked(In) : i.by.job \in Nat /\ i.by.job <= issued
    BY <2>1, <2>2 DEF Fresh, TrashItems
  <2>5. \A i \in Asked(in2) \cup seen2 : i.by.job <= issued'
    BY <2>1, <2>3, <2>4 DEF in2, seen2
  <2>6. Asked(in2) \cap seen2 = {}
    <3>1. ASSUME NEW i \in Asked(in2), i \in seen2 PROVE FALSE
      <4>1. i \in SeenNow
        BY <2>3, <3>1 DEF seen2
      <4>2. i.by.job \in Nat /\ i.by.job <= issued
        BY <2>4, <4>1
      <4>3. i \in Asked(In)
        BY <2>1, <3>1, <4>2 DEF in2
      <4> QED
        BY <2>2, <4>1, <4>3 DEF Fresh
    <3> QED
      BY <3>1
  <2>7. \A j \in RemovalsOf(jobs) : \A a \in Unsent(j) : WouldBe(a, j) \notin seen2 \cup Asked(in2)
    <3>1. ASSUME NEW j \in RemovalsOf(jobs), NEW a \in Unsent(j)
          PROVE  WouldBe(a, j) \notin seen2 \cup Asked(in2)
      <4>1. WouldBe(a, j) \notin SeenNow \cup Asked(In) /\ WouldBe(a, j).by.who = "job"
        BY <2>2 DEF Fresh, WouldBe, By
      <4> QED
        BY <2>3, <4>1 DEF seen2, in2
    <3> QED
      BY <3>1
  <2>8. Fresh(in2, seen2, jobs, issued')
    BY <2>5, <2>6, <2>7 DEF Fresh
  <2> QED
    BY <2>8 DEF in2, seen2
<1>2. \A i \in trash' \ trash : i \notin SeenNow /\ i \in Trashed(Out')
  OBVIOUS
<1> QED
  BY <1>1, <1>2, CoreStep

-----------------------------------------------------------------------------
(* The client: answers, timeouts, the end of the process.                  *)

LEMMA AwaitingNone == Items(Askers(<<>>)) = {} /\ Items(<<>>) = {}
<1>1. DOMAIN Askers(<<>>) = {}
  BY DEF Askers
<1> QED
  BY <1>1 DEF Items

LEMMA DeliverLate ==
    ASSUME HostInv, Deliver, Head(outbox).late
    PROVE  HostInv'
<1>1. /\ settled = <<>> /\ outbox # <<>> /\ outbox' = Tail(outbox)
      /\ lost' = lost \cup TrashedIn(<<Head(outbox)>>)
      /\ UNCHANGED <<there, trash, process, scanned, inbox, pending, settled, isScanning,
                     scanPending, timer, analysis, scanFailed, plans, jobs, sessions, issued>>
  BY DEF Deliver, AtRest, disk, client, scans, result, bridge
<1>2. /\ Head(outbox) \in Replies /\ Tail(outbox) \in Seq(Replies)
      /\ Out = {Head(outbox)} \cup Out'
  BY <1>1, InvFacts, TailItems DEF Out
<1>3. TrashedIn(<<Head(outbox)>>) = Trashed({Head(outbox)})
  BY <1>2, OneItem, TrashedInItems
<1>4. Trashed({Head(outbox)}) \subseteq TrashItems
  BY <1>2 DEF Trashed, Replies
<1>5. HostTyped'
  BY <1>1, <1>3, <1>4 DEF HostInv, HostTyped
<1>6. Live(Tail(outbox)) \subseteq Live(outbox) /\ Once(Tail(outbox))
  BY <1>1, InvFacts, LiveTail DEF HostInv, Orderly
<1>7. Orderly(pending, settled, inbox, outbox)'
  <2>1. Orderly(pending, settled, inbox, Tail(outbox))
    BY <1>2, <1>6 DEF HostInv, Orderly
  <2> QED
    BY <1>1, <2>1
<1>8. Listening(Awaiting, jobs, issued, isScanning)'
  BY <1>1 DEF HostInv, Awaiting
<1>9. In' = In /\ Ans' = Ans /\ issued <= issued'
  BY <1>1, InvFacts DEF In, Ans
<1>10. ToRestore(In') \cup Replied(Out') \cup Heard(Ans') \subseteq SeenNow
  <2>1. Replied(Out') \subseteq Replied(Out)
    BY <1>2 DEF Replied
  <2> QED
    BY <1>9, <2>1 DEF SeenNow, Seen
<1>11. \A i \in Trashed(Out) \ Trashed(Out') : i \in lost'
  BY <1>1, <1>2, <1>3 DEF Trashed
<1> QED
  BY <1>1, <1>2, <1>5, <1>7, <1>8, <1>9, <1>10, <1>11, QuietStep

LEMMA DeliverInTime ==
    ASSUME HostInv, Deliver, ~Head(outbox).late
    PROVE  HostInv'
<1> DEFINE reply == Head(outbox)
           answer == Answer(reply.by, reply.ok, reply.value)
<1>1. /\ settled = <<>> /\ outbox # <<>> /\ outbox' = Tail(outbox)
      /\ \E i \in DOMAIN pending : pending[i] = reply.by /\ Settle(i, answer)
      /\ UNCHANGED <<there, trash, process, scanned, inbox, lost, isScanning,
                     scanPending, timer, analysis, scanFailed, plans, jobs, sessions, issued>>
  BY DEF Deliver, AtRest, disk, client, scans, result, bridge
<1>2. PICK i \in DOMAIN pending : /\ pending[i] = reply.by
                                  /\ pending' = RemoveAt(pending, i) /\ settled' = <<answer>>
  BY <1>1 DEF Settle
<1>3. /\ reply \in Replies /\ Tail(outbox) \in Seq(Replies)
      /\ Out = {reply} \cup Out'
  BY <1>1, InvFacts, TailItems DEF Out
<1>4. answer.by = reply.by /\ answer.ok = reply.ok /\ answer.value = reply.value
  BY AnswerFields
<1>5. answer \in Answers
  BY <1>3 DEF Answer, Answers, Replies, Fits, Ops, Bys
<1> HIDE DEF answer
<1>6. HostTyped'
  BY <1>1 DEF HostInv, HostTyped
<1>7. /\ Live(Tail(outbox)) \subseteq Live(outbox) /\ Once(Tail(outbox))
      /\ reply.by \in Live(outbox) /\ reply.by \notin Live(Tail(outbox))
  BY <1>1, InvFacts, LiveTail DEF HostInv, Orderly
<1> HIDE DEF reply
<1>8. Live(inbox) \subseteq Live(inbox) \ {pending[i]}
  BY <1>2, <1>7 DEF HostInv, Orderly
<1>9. /\ Orderly(pending', settled', inbox, Tail(outbox))
      /\ Items(pending') = Items(pending) \ {pending[i]} /\ pending[i] \in Items(pending)
      /\ Items(settled') = {answer} /\ Items(Askers(settled')) = {pending[i]}
  <2>1. /\ pending' \in Seq(Bys) /\ IsInjective(pending')
        /\ Items(pending') = Items(pending) \ {pending[i]} /\ pending[i] \in Items(pending)
        /\ settled' \in Seq(Answers) /\ Items(settled') = {answer}
        /\ IsInjective(Askers(settled')) /\ Items(Askers(settled')) = {pending[i]}
    BY <1>2, <1>4, <1>5, SettlesOne DEF HostInv, Orderly
  <2>2. Live(Tail(outbox)) \subseteq Live(outbox) \ {pending[i]}
    BY <1>2, <1>7
  <2>3. Once(Tail(outbox)) /\ Tail(outbox) \in Seq(Replies)
    BY <1>3, <1>7
  <2> QED
    BY <1>8, <2>1, <2>2, <2>3 DEF HostInv, Orderly
<1>10. Orderly(pending, settled, inbox, outbox)'
  BY <1>1, <1>9
<1>11. Awaiting' = Awaiting
  BY <1>1, <1>2, <1>9, AwaitingNone DEF Awaiting
<1>12. Listening(Awaiting, jobs, issued, isScanning)'
  BY <1>1, <1>11 DEF HostInv
<1>13. In' = In /\ Ans' = {answer} /\ Ans = {} /\ issued <= issued'
  BY <1>1, <1>2, <1>9, AwaitingNone, InvFacts DEF In, Ans
<1>14. ToRestore(In') \cup Replied(Out') \cup Heard(Ans') \subseteq SeenNow
  <2>1. Replied(Out') \subseteq Replied(Out)
    BY <1>3 DEF Replied
  <2>2. Heard({answer}) \subseteq Replied(Out)
    <3>1. answer.ok /\ answer.by.who = "job" => reply.op \in {"trash", "restore"}
      BY <1>3, <1>4 DEF Replies, Fits, Ops
    <3> QED
      BY <1>3, <1>4, <3>1 DEF Heard, Replied
  <2> QED
    BY <1>13, <2>1, <2>2 DEF SeenNow, Seen
<1>15. \A x \in Trashed(Out) \ Trashed(Out') : \E s \in Ans' : s.ok /\ s.by = x.by /\ s.value = x
  <2>1. ASSUME NEW x \in Trashed(Out), x \notin Trashed(Out')
        PROVE  answer.ok /\ answer.by = x.by /\ answer.value = x
    <3>1. reply.op = "trash" /\ reply.ok /\ x = reply.value
      BY <1>3, <2>1 DEF Trashed
    <3>2. reply.value.by = reply.by
      BY <1>3, <3>1 DEF Replies
    <3> QED
      BY <1>4, <3>1, <3>2
  <2> QED
    BY <1>13, <2>1
<1>16. \A s \in Ans' : \E p \in Out : ~p.late /\ p.by = s.by /\ (s.ok => p.ok) /\ p.value = s.value
  BY <1>3, <1>4, <1>13 DEF reply
<1> QED
  BY <1>1, <1>3, <1>6, <1>10, <1>12, <1>13, <1>14, <1>15, <1>16, QuietStep

LEMMA TimeoutKeeps ==
    ASSUME HostInv, Timeout
    PROVE  HostInv'
<1>1. /\ settled = <<>>
      /\ UNCHANGED <<there, trash, process, scanned, lost, isScanning,
                     scanPending, timer, analysis, scanFailed, plans, jobs, sessions, issued>>
  BY DEF Timeout, AtRest, disk, scans, result, bridge
<1>2. PICK i \in DOMAIN pending :
         /\ pending' = RemoveAt(pending, i) /\ settled' = <<Failure(pending[i])>>
         /\ inbox' = Abandoned(inbox, pending[i]) /\ outbox' = Abandoned(outbox, pending[i])
  BY DEF Timeout, Settle
<1> DEFINE by == pending[i]
           answer == Failure(by)
<1>3. by \in Bys /\ inbox \in Seq(Requests) /\ outbox \in Seq(Replies)
  BY <1>2, InvFacts
<1> HIDE DEF by
<1>4. answer.by = by /\ ~answer.ok /\ answer \in Answers
  <2>1. {} \in Values
    BY DEF Values
  <2> QED
    BY <1>3, <2>1, AnswerFields DEF Failure, Answer, Answers
<1> HIDE DEF answer
<1>5. /\ inbox' \in Seq(Requests) /\ DOMAIN inbox' = DOMAIN inbox
      /\ outbox' \in Seq(Replies)
      /\ Live(inbox') = Live(inbox) \ {by} /\ Live(outbox') = Live(outbox) \ {by}
      /\ Once(inbox') /\ Once(outbox') /\ AskedOnce(inbox')
      /\ {m \in In' : ~m.late} \subseteq In /\ {m \in Out' : ~m.late} \subseteq Out
      /\ Asked(In') = Asked(In) /\ ToRestore(In') = ToRestore(In)
      /\ Replied(Out') = Replied(Out) /\ Trashed(Out') = Trashed(Out)
  <2>1. Once(inbox) /\ Once(outbox) /\ AskedOnce(inbox)
    BY DEF HostInv, Orderly
  <2>2. inbox' = Abandoned(inbox, by) /\ outbox' = Abandoned(outbox, by)
    BY <1>2 DEF by
  <2>3. /\ inbox' \in Seq(Requests) /\ DOMAIN inbox' = DOMAIN inbox
        /\ Live(inbox') = Live(inbox) \ {by} /\ Once(inbox') /\ AskedOnce(inbox')
        /\ {m \in Items(inbox') : ~m.late} \subseteq In
        /\ Asked(Items(inbox')) = Asked(In) /\ ToRestore(Items(inbox')) = ToRestore(In)
    BY <1>3, <2>1, <2>2, AbandonedRequests, AbandonedInbox DEF In
  <2>4. /\ outbox' \in Seq(Replies)
        /\ Live(outbox') = Live(outbox) \ {by} /\ Once(outbox')
        /\ {m \in Items(outbox') : ~m.late} \subseteq Out
        /\ Replied(Items(outbox')) = Replied(Out) /\ Trashed(Items(outbox')) = Trashed(Out)
    BY <1>3, <2>1, <2>2, AbandonedReplies, AbandonedOutbox DEF Out
  <2> QED
    BY <2>3, <2>4 DEF In, Out
<1>6. /\ pending' \in Seq(Bys) /\ IsInjective(pending')
      /\ Items(pending') = Items(pending) \ {by} /\ by \in Items(pending)
      /\ settled' \in Seq(Answers) /\ Items(settled') = {answer}
      /\ IsInjective(Askers(settled')) /\ Items(Askers(settled')) = {by}
  BY <1>2, <1>4, SettlesOne DEF HostInv, Orderly, by, answer
<1>7. Orderly(pending, settled, inbox, outbox)'
  <2>1. Orderly(pending', settled', inbox', outbox')
    BY <1>5, <1>6 DEF HostInv, Orderly
  <2> QED
    BY <2>1
<1>8. Awaiting' = Awaiting
  BY <1>1, <1>6, AwaitingNone DEF Awaiting
<1>9. Listening(Awaiting, jobs, issued, isScanning)'
  BY <1>1, <1>8 DEF HostInv
<1>10. HostTyped'
  <2>1. inbox = <<>> => inbox' = <<>>
    BY <1>5
  <2> QED
    BY <1>1, <2>1 DEF HostInv, HostTyped
<1>11. Ans' = {answer} /\ Ans = {} /\ issued <= issued' /\ Heard(Ans') = {}
  BY <1>1, <1>4, <1>6, AwaitingNone, InvFacts DEF Ans, Heard
<1>12. ToRestore(In') \cup Replied(Out') \cup Heard(Ans') \subseteq SeenNow
  BY <1>5, <1>11 DEF SeenNow, Seen
<1>13. (\A r \in In' : r.late \/ r \in In) /\ (\A p \in Out' : p.late \/ p \in Out)
  BY <1>5
<1>14. \A s \in Ans' : ~s.ok
  BY <1>4, <1>11
<1> QED
  BY <1>1, <1>5, <1>7, <1>9, <1>10, <1>11, <1>12, <1>13, <1>14, QuietStep

LEMMA ExitKeeps ==
    ASSUME HostInv, ExitEvent
    PROVE  HostInv'
<1>1. /\ settled = <<>> /\ process = "gone"
      /\ settled' = [i \in DOMAIN pending |-> Failure(pending[i])]
      /\ pending' = <<>> /\ process' = "none" /\ outbox' = <<>>
      /\ lost' = lost \cup TrashedIn(outbox)
      /\ UNCHANGED <<there, trash, scanned, inbox, isScanning,
                     scanPending, timer, analysis, scanFailed, plans, jobs, sessions, issued>>
  BY DEF ExitEvent, AtRest, disk, scans, result, bridge
<1>2. inbox = <<>> /\ ~scanned
  BY <1>1 DEF HostInv, HostTyped
<1>3. pending \in Seq(Bys) /\ IsInjective(pending) /\ outbox \in Seq(Replies)
  BY DEF HostInv, Orderly
<1>4. TrashedIn(outbox) = Trashed(Out) /\ Trashed(Out) \subseteq TrashItems
  <2>1. Out \subseteq Replies
    BY InvFacts
  <2> QED
    BY <1>3, <2>1, TrashedInItems DEF Out, Trashed, Replies
<1>5. \A b \in Bys : Failure(b) \in Answers /\ Failure(b).by = b /\ ~Failure(b).ok
  <2>1. {} \in Values
    BY DEF Values
  <2> QED
    BY <2>1 DEF Failure, Answer, Answers
<1>6. /\ settled' \in Seq(Answers) /\ DOMAIN settled' = DOMAIN pending
      /\ \A i \in DOMAIN pending : settled'[i].by = pending[i] /\ ~settled'[i].ok
  BY <1>1, <1>3, <1>5
<1>7. Askers(settled') = pending
  <2>1. Askers(settled') = [i \in DOMAIN settled' |-> settled'[i].by]
    BY DEF Askers
  <2>2. pending = [i \in DOMAIN pending |-> pending[i]]
    BY <1>3
  <2> QED
    BY <1>6, <2>1, <2>2
<1>8. Orderly(pending, settled, inbox, outbox)'
  <2>1. Live(<<>>) = {} /\ Once(<<>>) /\ AskedOnce(<<>>)
    BY NoItems DEF Live, Once, AskedOnce
  <2>2. Orderly(<<>>, settled', <<>>, <<>>)
    BY <1>3, <1>6, <1>7, <2>1, NoItems DEF Orderly
  <2> QED
    BY <1>1, <1>2, <2>2
<1>9. Awaiting' = Awaiting
  BY <1>1, <1>7, AwaitingNone DEF Awaiting
<1>10. Listening(Awaiting, jobs, issued, isScanning)'
  BY <1>1, <1>9 DEF HostInv
<1>11. HostTyped'
  BY <1>1, <1>2, <1>4 DEF HostInv, HostTyped
<1>12. /\ In' = {} /\ Out' = {} /\ Ans = {} /\ issued <= issued'
       /\ \A s \in Ans' : ~s.ok
  BY <1>1, <1>2, <1>6, AwaitingNone, InvFacts DEF In, Out, Ans, Items
<1>13. /\ ToRestore(In') \cup Replied(Out') \cup Heard(Ans') \subseteq SeenNow
       /\ Asked(In') = {}
  BY <1>12 DEF ToRestore, Replied, Heard, Asked
<1> QED
  BY <1>1, <1>4, <1>8, <1>10, <1>11, <1>12, <1>13, QuietStep

LEMMA KillKeeps ==
    ASSUME HostInv, Kill
    PROVE  HostInv'
<1>1. /\ process' = "gone" /\ inbox' = <<>> /\ scanned' = FALSE
      /\ UNCHANGED <<there, trash, outbox, pending, settled, lost, isScanning,
                     scanPending, timer, analysis, scanFailed, plans, jobs, sessions, issued>>
  BY DEF Kill, disk, client, scans, result, bridge
<1>2. HostTyped'
  BY <1>1 DEF HostInv, HostTyped
<1>3. Orderly(pending, settled, inbox, outbox)'
  <2>1. Live(<<>>) = {} /\ Once(<<>>) /\ AskedOnce(<<>>)
    BY NoItems DEF Live, Once, AskedOnce
  <2>2. Orderly(pending, settled, <<>>, outbox)
    BY <2>1, NoItems DEF HostInv, Orderly
  <2> QED
    BY <1>1, <2>2
<1>4. Listening(Awaiting, jobs, issued, isScanning)'
  BY <1>1 DEF HostInv, Awaiting
<1>5. In' = {} /\ Out' = Out /\ Ans' = Ans /\ issued <= issued'
  BY <1>1, NoItems, InvFacts DEF In, Out, Ans
<1>6. ToRestore(In') \cup Replied(Out') \cup Heard(Ans') \subseteq SeenNow /\ Asked(In') = {}
  BY <1>5 DEF ToRestore, SeenNow, Seen, Asked
<1> QED
  BY <1>1, <1>2, <1>3, <1>4, <1>5, <1>6, QuietStep

-----------------------------------------------------------------------------
(* The daemon.                                                             *)

LEMMA OrderlyServes ==
    ASSUME NEW p, NEW s, NEW in, NEW out, Orderly(p, s, in, out), in # <<>>,
           NEW a \in Replies, a.by = Head(in).by, a.late = Head(in).late
    PROVE  Orderly(p, s, Tail(in), Append(out, a))
<1>0. /\ p \in Seq(Bys) /\ s \in Seq(Answers) /\ in \in Seq(Requests) /\ out \in Seq(Replies)
      /\ IsInjective(p) /\ IsInjective(Askers(s)) /\ Items(p) \cap Items(Askers(s)) = {}
      /\ Once(in) /\ Once(out) /\ AskedOnce(in)
      /\ Live(in) \cap Live(out) = {} /\ Live(in) \cup Live(out) \subseteq Items(p)
  BY DEF Orderly
<1>1. Tail(in) \in Seq(Requests) /\ Append(out, a) \in Seq(Replies)
  BY <1>0, TailItems, AppendItems
<1>2. /\ Live(Tail(in)) \subseteq Live(in) /\ Once(Tail(in)) /\ AskedOnce(Tail(in))
      /\ ~a.late => a.by \in Live(in) /\ a.by \notin Live(Tail(in))
  BY <1>0, LiveTail, AskedOnceTail
<1>3. /\ ~a.late => Live(Append(out, a)) = Live(out) \cup {a.by}
      /\ a.late => Live(Append(out, a)) = Live(out)
      /\ Once(Append(out, a))
  BY <1>0, <1>2, LiveAppend
<1> DEFINE in2 == Tail(in)
           out2 == Append(out, a)
<1> HIDE DEF in2, out2
<1>4. Live(in2) \cap Live(out2) = {} /\ Live(in2) \cup Live(out2) \subseteq Items(p)
  <2>1. CASE a.late
    BY <1>0, <1>2, <1>3, <2>1 DEF in2, out2
  <2>2. CASE ~a.late
    BY <1>0, <1>2, <1>3, <2>2 DEF in2, out2
  <2> QED
    BY <2>1, <2>2
<1>5. Orderly(p, s, in2, out2)
  BY <1>0, <1>1, <1>2, <1>3, <1>4 DEF Orderly, in2, out2
<1> QED
  BY <1>5 DEF in2, out2

\* What the daemon does with the request at the head of its stdin.
LEMMA ServeShapes ==
    ASSUME HostInv, Serve
    PROVE  LET r == Head(inbox)
           IN  \E a \in Replies :
                 /\ a.op = r.op /\ a.by = r.by /\ a.late = r.late
                 /\ outbox' = Append(outbox, a)
                 /\ there' \subseteq Assets /\ scanned' \in BOOLEAN /\ timer' \in BOOLEAN
                 /\ \/ trash' = trash /\ (a.ok => a.op \notin {"trash", "restore"})
                    \/ /\ r.op = "trash" /\ a.ok /\ a.value = Item(r.arg, r)
                       /\ trash' = trash \cup {a.value}
                    \/ /\ r.op = "restore" /\ a.ok /\ a.value = r.arg
                       /\ trash' = trash \ {a.value}
<1> DEFINE r == Head(inbox)
<1>1. inbox # <<>> /\ Serves(r)
  BY DEF Serve
<1>2. r \in Requests /\ r \in In
  BY <1>1, InvFacts, TailItems DEF In
<1> HIDE DEF r
<1>3. there \subseteq Assets /\ scanned \in BOOLEAN /\ timer \in BOOLEAN
  BY DEF HostInv, HostTyped
<1>4. r.op \in Ops /\ r.by \in Bys /\ r.late \in BOOLEAN /\ Fits(r.op, r.by)
  BY <1>2 DEF Requests
<1>5. ASSUME NEW ok \in BOOLEAN, NEW value \in Values,
             ok => /\ r.op = "scan" => value \in SUBSET Assets
                   /\ r.op = "plan" => value \in Groups
                   /\ r.op = "trash" => value \in TrashItems /\ value.by = r.by
                   /\ r.op = "restore" => value \in TrashItems
      PROVE  LET a == Reply(r, ok, value)
             IN  /\ a \in Replies /\ a.op = r.op /\ a.by = r.by /\ a.late = r.late
                 /\ a.ok = ok /\ a.value = value
  BY <1>4, <1>5 DEF Reply, Replies
<1>6. CASE r.op = "scan"
  <2>1. /\ scanned' = TRUE /\ outbox' = Append(outbox, Reply(r, TRUE, there))
        /\ UNCHANGED <<there, trash, timer>>
    BY <1>1, <1>6 DEF Serves, disk
  <2>2. there \in Values
    BY <1>3 DEF Values
  <2>3. /\ Reply(r, TRUE, there) \in Replies /\ Reply(r, TRUE, there).op = r.op
        /\ Reply(r, TRUE, there).by = r.by /\ Reply(r, TRUE, there).late = r.late
    BY <1>3, <1>5, <1>6, <2>2
  <2> QED
    BY <1>3, <1>6, <2>1, <2>3 DEF r
<1>7. CASE r.op = "plan"
  <2>1. /\ outbox' = Append(outbox, Reply(r, TRUE, r.arg))
        /\ UNCHANGED <<there, trash, timer, scanned>>
    BY <1>1, <1>7 DEF Serves, disk
  <2>2. r.arg \in Values /\ r.arg \in Groups
    BY <1>2, <1>7 DEF Values, Requests
  <2>3. /\ Reply(r, TRUE, r.arg) \in Replies /\ Reply(r, TRUE, r.arg).op = r.op
        /\ Reply(r, TRUE, r.arg).by = r.by /\ Reply(r, TRUE, r.arg).late = r.late
    BY <1>5, <1>7, <2>2
  <2> QED
    BY <1>3, <1>7, <2>1, <2>3 DEF r
<1>8. CASE r.op = "trash" /\ scanned /\ r.arg \in there
  <2> DEFINE it == Item(r.arg, r)
             a == Reply(r, TRUE, it)
  <2>1. /\ there' = there \ {r.arg} /\ trash' = trash \cup {it} /\ timer' \in BOOLEAN
        /\ outbox' = Append(outbox, a) /\ scanned' = scanned
    BY <1>1, <1>3, <1>8 DEF Serves, Move, Report
  <2>2. it \in TrashItems /\ it.by = r.by /\ it \in Values
    BY <1>3, <1>4, <1>8 DEF Item, TrashItems, Values, Fits, Bys
  <2> HIDE DEF it
  <2>3. /\ a \in Replies /\ a.op = r.op /\ a.by = r.by /\ a.late = r.late /\ a.ok /\ a.value = it
    BY <1>5, <1>8, <2>2
  <2> HIDE DEF a
  <2> QED
    BY <1>3, <1>8, <2>1, <2>3 DEF r, it
<1>9. CASE r.op = "restore" /\ r.arg \in trash /\ r.arg.asset \notin there
  <2> DEFINE a == Reply(r, TRUE, r.arg)
  <2>1. /\ there' = there \cup {r.arg.asset} /\ trash' = trash \ {r.arg} /\ timer' \in BOOLEAN
        /\ outbox' = Append(outbox, a) /\ scanned' = scanned
    BY <1>1, <1>3, <1>9 DEF Serves, Move, Report
  <2>2. r.arg \in TrashItems /\ r.arg \in Values /\ r.arg.asset \in Assets
    BY <1>2, <1>9 DEF TrashItems, Values, Requests
  <2>3. /\ a \in Replies /\ a.op = r.op /\ a.by = r.by /\ a.late = r.late /\ a.ok /\ a.value = r.arg
    BY <1>5, <1>9, <2>2
  <2> HIDE DEF a
  <2> QED
    BY <1>3, <1>9, <2>1, <2>2, <2>3 DEF r
<1>10. CASE /\ r.op \notin {"scan", "plan"}
            /\ ~(r.op = "trash" /\ scanned /\ r.arg \in there)
            /\ ~(r.op = "restore" /\ r.arg \in trash /\ r.arg.asset \notin there)
  <2> DEFINE a == Reply(r, FALSE, {})
  <2>1. outbox' = Append(outbox, a) /\ UNCHANGED <<there, trash, timer, scanned>>
    BY <1>1, <1>10 DEF Serves, disk
  <2>2. {} \in Values
    BY DEF Values
  <2>3. a \in Replies /\ a.op = r.op /\ a.by = r.by /\ a.late = r.late /\ ~a.ok
    BY <1>5, <2>2
  <2> HIDE DEF a
  <2> QED
    BY <1>3, <2>1, <2>3 DEF r
<1> QED
  BY <1>6, <1>7, <1>8, <1>9, <1>10

LEMMA ServeKeeps ==
    ASSUME HostInv, Serve
    PROVE  HostInv'
<1> DEFINE r == Head(inbox)
<1>1. /\ inbox # <<>> /\ inbox' = Tail(inbox) /\ process = "up"
      /\ UNCHANGED <<process, pending, settled, lost, isScanning,
                     scanPending, analysis, scanFailed, plans, jobs, sessions, issued>>
  BY DEF Serve, client, scans, result, bridge
<1>2. PICK a \in Replies :
        /\ a.op = r.op /\ a.by = r.by /\ a.late = r.late
        /\ outbox' = Append(outbox, a)
        /\ there' \subseteq Assets /\ scanned' \in BOOLEAN /\ timer' \in BOOLEAN
        /\ \/ trash' = trash /\ (a.ok => a.op \notin {"trash", "restore"})
           \/ /\ r.op = "trash" /\ a.ok /\ a.value = Item(r.arg, r)
              /\ trash' = trash \cup {a.value}
           \/ /\ r.op = "restore" /\ a.ok /\ a.value = r.arg
              /\ trash' = trash \ {a.value}
  BY ServeShapes
<1>3. /\ r \in Requests /\ In = {r} \cup In' /\ Out' = Out \cup {a}
  <2>1. r \in Requests /\ In = {r} \cup In'
    BY <1>1, InvFacts, TailItems DEF In
  <2>2. Out' = Out \cup {a}
    BY <1>2, InvFacts, AppendItems DEF Out
  <2> QED
    BY <2>1, <2>2
<1>4. Orderly(pending, settled, inbox, outbox)'
  <2>1. Orderly(pending, settled, Tail(inbox), Append(outbox, a))
    BY <1>1, <1>2, OrderlyServes DEF HostInv
  <2> QED
    BY <1>1, <1>2, <2>1
<1>5. Listening(Awaiting, jobs, issued, isScanning)'
  BY <1>1 DEF HostInv, Awaiting
<1>6. r.op = "trash" => Item(r.arg, r) \in Asked(In) /\ Item(r.arg, r) \notin Asked(In')
  <2>1. r.op = "trash" => Item(r.arg, r) \notin Asked(Items(Tail(inbox)))
    BY <1>1, InvFacts, AskedOnceTail DEF HostInv, Orderly
  <2>2. r.op = "trash" => Item(r.arg, r) \in Asked(In)
    BY <1>3 DEF Asked
  <2> QED
    BY <1>1, <2>1, <2>2 DEF In
<1> HIDE DEF r
<1>7. SeenNow \cup Asked(In) \subseteq TrashItems /\ issued \in Nat
  BY InvFacts
<1>8. HostTyped'
  <2>1. trash' \subseteq TrashItems
    BY <1>2, <1>6, <1>7 DEF HostInv, HostTyped
  <2> QED
    BY <1>1, <1>2, <2>1 DEF HostInv, HostTyped
<1>9. Fresh(In, SeenNow, jobs, issued) /\ Asked(In) \cap SeenNow = {}
  BY DEF HostInv, Fresh, In, SeenNow, Out, Ans
<1>10. /\ \A x \in Replied(Out') : x \in Replied(Out) \/ (x = a.value /\ a.ok /\ a.op \in {"trash", "restore"})
       /\ ToRestore(In') \subseteq ToRestore(In) /\ Asked(In') \subseteq Asked(In)
       /\ Ans' = Ans /\ Trashed(Out) \subseteq Trashed(Out')
       /\ a.ok /\ a.op = "trash" => a.value \in Trashed(Out')
       /\ r.op = "restore" => r.arg \in ToRestore(In)
  BY <1>1, <1>3 DEF Replied, ToRestore, Asked, Trashed, Ans
<1>11. /\ \A x \in SeenNow' : x \in SeenNow \/ (a.ok /\ a.op = "trash" /\ x = a.value)
       /\ Replied(Out) \cup Heard(Ans) \cup ToRestore(In) \subseteq SeenNow
  <2>1. SeenNow' = Recorded(sessions) \cup Handled(jobs) \cup ToRestore(In')
                     \cup Replied(Out') \cup Heard(Ans)
    BY <1>1, <1>10 DEF SeenNow, Seen
  <2>2. SeenNow = Recorded(sessions) \cup Handled(jobs) \cup ToRestore(In)
                     \cup Replied(Out) \cup Heard(Ans)
    BY DEF SeenNow, Seen
  <2>3. a.ok /\ a.op = "restore" => a.value \in ToRestore(In)
    BY <1>2, <1>10
  <2> QED
    BY <1>10, <2>1, <2>2, <2>3
<1>12. Fresh(In, SeenNow, jobs, issued)'
  <2> DEFINE seen2 == SeenNow'
             in2 == In'
  <2>1. a.ok /\ a.op = "trash" => a.value = Item(r.arg, r) /\ r.op = "trash"
    BY <1>2
  <2>2. Asked(in2) \cap seen2 = {} /\ seen2 \cup Asked(in2) \subseteq SeenNow \cup Asked(In)
    BY <1>6, <1>9, <1>10, <1>11, <2>1
  <2> HIDE DEF seen2, in2
  <2>3. Fresh(in2, seen2, jobs, issued)
    BY <1>7, <1>9, <2>2, FreshMoves
  <2> QED
    BY <1>1, <2>3 DEF in2, seen2
<1>13. \A i \in trash' \ trash : i \notin SeenNow /\ i \in Trashed(Out')
  BY <1>2, <1>6, <1>9, <1>10
<1>14. \A p \in Out' :
         \/ p.late \/ p \in Out
         \/ \E q \in In : /\ ~q.late /\ q.by = p.by /\ q.op = p.op
                          /\ p.ok /\ p.op = "restore" => p.value = q.arg /\ p.value \notin trash'
  BY <1>2, <1>3
<1>15. issued <= issued'
  BY <1>1, <1>7
<1>16. (\A q \in In' : q \in In) /\ (\A s \in Ans' : s \in Ans) /\ Ans \ Ans' = {}
  BY <1>3, <1>10
<1> QED
  BY <1>1, <1>4, <1>5, <1>8, <1>10, <1>12, <1>13, <1>14, <1>15, <1>16, CoreStep

-----------------------------------------------------------------------------
(* Requests.                                                               *)
DaemonTyped ==
  /\ process \in {"none", "up", "gone"} /\ scanned \in BOOLEAN
  /\ scanned => process = "up"
  /\ process # "up" => inbox = <<>>

\* Whoever sends a request awaits its answer; the request is in the inbox or lost.
LEMMA SendShapes ==
    ASSUME HostInv, NEW op, NEW arg, NEW by \in Bys, Send(op, arg, by),
           Request(op, arg, by) \in Requests,
           Orderly(pending, settled', inbox, outbox),
           by \notin Items(pending) \cup Items(Askers(settled')),
           op = "trash" => Item(arg, Request(op, arg, by)) \notin Asked(In)
    PROVE  /\ Orderly(pending, settled, inbox, outbox)' /\ DaemonTyped'
           /\ Awaiting' = Items(pending) \cup Items(Askers(settled')) \cup {by}
           /\ In \subseteq In' /\ In' \subseteq In \cup {Request(op, arg, by)} /\ Out' = Out
<1> DEFINE r == Request(op, arg, by)
<1>1. /\ pending' = Append(pending, by) /\ outbox' = outbox
      /\ process' = IF process = "none" THEN "up" ELSE process
      /\ scanned' = (process # "none" /\ scanned)
      /\ inbox' = IF process = "gone" THEN inbox ELSE Append(inbox, r)
  BY DEF Send
<1>2. r.op = op /\ r.arg = arg /\ r.by = by /\ ~r.late
  BY RequestFields
<1> HIDE DEF r
<1>3. Item(r.arg, r) = Item(arg, Request(op, arg, by))
  BY <1>2 DEF r
<1>4. /\ Orderly(Append(pending, by), settled', inbox, outbox)
      /\ Orderly(Append(pending, by), settled', Append(inbox, r), outbox)
      /\ Items(Append(pending, by)) = Items(pending) \cup {by}
      /\ Items(Append(inbox, r)) = Items(inbox) \cup {r}
  <2>1. r \in Requests /\ r.by \in Bys /\ ~r.late
    BY <1>2 DEF r
  <2>2. r.by \notin Items(pending) \cup Items(Askers(settled'))
    BY <1>2
  <2>3. r.op = "trash" => Item(r.arg, r) \notin Asked(Items(inbox))
    BY <1>2, <1>3 DEF In
  <2> QED
    BY <1>2, <2>1, <2>2, <2>3, OrderlySends
<1>5. Orderly(pending, settled, inbox, outbox)'
  <2>1. Orderly(pending', settled', inbox', outbox')
    BY <1>1, <1>4
  <2> QED
    BY <2>1
<1>6. DaemonTyped'
  BY <1>1 DEF HostInv, HostTyped, DaemonTyped
<1>7. Awaiting' = Items(pending) \cup Items(Askers(settled')) \cup {by}
  BY <1>1, <1>4 DEF Awaiting
<1>8. In \subseteq In' /\ In' \subseteq In \cup {r} /\ Out' = Out
  BY <1>1, <1>4 DEF In, Out
<1> QED
  BY <1>5, <1>6, <1>7, <1>8 DEF r

LEMMA SendNothingShapes ==
    ASSUME HostInv, SendNothing, Orderly(pending, settled', inbox, outbox)
    PROVE  /\ Orderly(pending, settled, inbox, outbox)' /\ DaemonTyped'
           /\ Awaiting' = Items(pending) \cup Items(Askers(settled'))
           /\ In' = In /\ Out' = Out
<1>1. UNCHANGED <<process, scanned, inbox, outbox, pending>>
  BY DEF SendNothing, daemon
<1>2. Orderly(pending, settled, inbox, outbox)'
  BY <1>1
<1>3. DaemonTyped'
  BY <1>1 DEF HostInv, HostTyped, DaemonTyped
<1>4. Awaiting' = Items(pending) \cup Items(Askers(settled'))
  BY <1>1 DEF Awaiting
<1> QED
  BY <1>1, <1>2, <1>3, <1>4 DEF In, Out

\* A request that trashes nothing and restores nothing.
LEMMA HarmlessTraffic ==
    ASSUME HostInv, NEW r, r.op \notin {"trash", "restore"}, In' \subseteq In \cup {r}, Out' = Out,
           Ans' \subseteq Ans
    PROVE  /\ Asked(In') \subseteq Asked(In)
           /\ ToRestore(In') \cup Replied(Out') \cup Heard(Ans') \subseteq SeenNow
<1>1. Asked(In') \subseteq Asked(In) /\ ToRestore(In') \subseteq ToRestore(In)
  BY DEF Asked, ToRestore
<1>2. Heard(Ans') \subseteq Heard(Ans)
  BY DEF Heard
<1> QED
  BY <1>1, <1>2 DEF SeenNow, Seen

ScanRequest == Request("scan", None, By("scan", 0))

LEMMA ScanRequestType ==
    /\ By("scan", 0) \in Bys /\ By("scan", 0).who = "scan" /\ By("scan", 0).job = 0
    /\ ScanRequest \in Requests /\ ScanRequest.op = "scan" /\ ScanRequest.by = By("scan", 0)
BY DEF ScanRequest, Request, Requests, By, Bys, Fits, Ops

LEMMA ScanSendShapes ==
    ASSUME HostInv, Send("scan", None, By("scan", 0)),
           Orderly(pending, settled', inbox, outbox),
           By("scan", 0) \notin Items(pending) \cup Items(Askers(settled'))
    PROVE  /\ Orderly(pending, settled, inbox, outbox)' /\ DaemonTyped'
           /\ Awaiting' = Items(pending) \cup Items(Askers(settled')) \cup {By("scan", 0)}
           /\ In' \subseteq In \cup {ScanRequest} /\ Out' = Out
BY ScanRequestType, SendShapes DEF ScanRequest

LEMMA ScanWorkspaceShapes ==
    ASSUME HostInv, ScanWorkspace, Orderly(pending, settled', inbox, outbox),
           By("scan", 0) \in Items(pending) \cup Items(Askers(settled')) <=> isScanning
    PROVE  /\ Orderly(pending, settled, inbox, outbox)' /\ DaemonTyped'
           /\ isScanning' \in BOOLEAN /\ scanPending' \in BOOLEAN
           /\ By("scan", 0) \in Awaiting' <=> isScanning'
           /\ \A b : b \in Awaiting' <=>
                       \/ b \in Items(pending) \cup Items(Askers(settled'))
                       \/ b = By("scan", 0) /\ isScanning'
           /\ In' \subseteq In \cup {ScanRequest} /\ Out' = Out
<1>1. CASE isScanning
  <2>1. isScanning' = isScanning /\ scanPending' = TRUE /\ SendNothing
    BY <1>1 DEF ScanWorkspace
  <2> QED
    BY <1>1, <2>1, SendNothingShapes
<1>2. CASE ~isScanning
  <2>1. isScanning' = TRUE /\ scanPending' = FALSE /\ Send("scan", None, By("scan", 0))
    BY <1>2 DEF ScanWorkspace
  <2>2. By("scan", 0) \notin Items(pending) \cup Items(Askers(settled'))
    BY <1>2
  <2> QED
    BY <2>1, <2>2, ScanSendShapes
<1> QED
  BY <1>1, <1>2

LEMMA ListeningSame ==
    ASSUME NEW W, NEW J, NEW n \in Nat, NEW scanning, Listening(W, J, n, scanning), W \subseteq Bys,
           NEW W2, NEW n2 \in Nat, n <= n2, NEW scanning2,
           By("scan", 0) \in W2 <=> scanning2,
           \A b \in W2 : \/ b \in W
                         \/ b.who # "job" /\ b.job <= n2 /\ (b.who = "scan" => b.job = 0),
           \A b \in W : b.who = "job" => b \in W2
    PROVE  Listening(W2, J, n2, scanning2)
<1>1. ASSUME NEW b \in W
      PROVE  b.job <= n2 /\ (b.who = "scan" => b.job = 0)
             /\ (b.who = "job" => \E j \in J : j.id = b.job)
  <2>1. b.job \in Nat
    BY DEF Bys
  <2>2. b.job <= n /\ (b.who = "scan" => b.job = 0)
        /\ (b.who = "job" => \E j \in J : j.id = b.job)
    BY DEF Listening
  <2> QED
    BY <2>1, <2>2
<1>2. \A j \in J : By("job", j.id) \in W2 <=> By("job", j.id) \in W
  BY DEF By
<1> QED
  BY <1>1, <1>2 DEF Listening

LEMMA RequestStep ==
    ASSUME HostInv, HostTyped',
           Orderly(pending, settled, inbox, outbox)',
           Listening(Awaiting, jobs, issued, isScanning)',
           UNCHANGED <<jobs, sessions, trash, lost>>, issued <= issued',
           \A p \in plans' : p \in plans \/ p.id <= issued',
           NEW r, r.op \notin {"trash", "restore"}, r.by.who # "job",
           In' \subseteq In \cup {r}, Out' = Out, Ans' \subseteq Ans,
           \A s \in Ans \ Ans' : s.by.who # "job"
    PROVE  HostInv'
<1>1. /\ Asked(In') \subseteq Asked(In)
      /\ ToRestore(In') \cup Replied(Out') \cup Heard(Ans') \subseteq SeenNow
  BY HarmlessTraffic
<1>2. /\ \A q \in In' : q.late \/ q \in In \/ q.by.who # "job"
      /\ \A p \in Out' : p.late \/ p \in Out
      /\ \A s \in Ans' : s \in Ans
      /\ Trashed(Out) \ Trashed(Out') = {}
  OBVIOUS
<1>3. (\A i \in Asked(In') : i \in Asked(In)) /\ trash' \subseteq trash /\ lost \subseteq lost'
  BY <1>1
<1>4. (\A i \in Trashed(Out) \ Trashed(Out') : i \in lost')
      /\ (\A s \in Ans' : s \in Ans \/ ~s.ok)
  BY <1>2
<1> QED
  BY <1>1, <1>2, <1>3, <1>4, QuietStep

LEMMA EditKeeps ==
    ASSUME HostInv, EditFiles \/ Dismiss
    PROVE  HostInv'
<1>1. /\ UNCHANGED <<trash, process, scanned, inbox, outbox, pending, settled, isScanning,
                     scanPending, analysis, scanFailed, plans, jobs, sessions, lost, issued>>
      /\ there' \subseteq Assets /\ timer' \in BOOLEAN
  BY DEF EditFiles, Report, Dismiss, disk, daemon, client, scans, result, bridge, HostInv, HostTyped
<1>2. HostTyped'
  BY <1>1 DEF HostInv, HostTyped
<1>3. Awaiting' = Awaiting
  BY <1>1 DEF Awaiting
<1> QED
  BY <1>1, <1>2, <1>3 DEF HostInv

LEMMA ScansKeep ==
    ASSUME HostInv, TimerFires \/ Refresh
    PROVE  HostInv'
<1>1. /\ ScanWorkspace /\ timer' \in BOOLEAN
      /\ UNCHANGED <<there, trash, settled, analysis, scanFailed, plans, jobs, sessions, lost,
                     issued>>
  BY DEF TimerFires, Refresh, disk, result, bridge, HostInv, HostTyped
<1>2. /\ Orderly(pending, settled', inbox, outbox)
      /\ By("scan", 0) \in Items(pending) \cup Items(Askers(settled')) <=> isScanning
      /\ Awaiting = Items(pending) \cup Items(Askers(settled'))
  BY <1>1 DEF HostInv, Listening, Awaiting
<1>3. /\ Orderly(pending, settled, inbox, outbox)' /\ DaemonTyped'
      /\ isScanning' \in BOOLEAN /\ scanPending' \in BOOLEAN
      /\ By("scan", 0) \in Awaiting' <=> isScanning'
      /\ \A b : b \in Awaiting' <=>
                  \/ b \in Items(pending) \cup Items(Askers(settled'))
                  \/ b = By("scan", 0) /\ isScanning'
      /\ In' \subseteq In \cup {ScanRequest} /\ Out' = Out
  BY <1>1, <1>2, ScanWorkspaceShapes
<1>4. HostTyped'
  BY <1>1, <1>3 DEF HostInv, HostTyped, DaemonTyped
<1>5. issued \in Nat /\ issued <= issued' /\ 0 <= issued /\ Awaiting \subseteq Bys
  BY <1>1, InvFacts
<1>6. Listening(Awaiting, jobs, issued, isScanning)'
  <2>1. Listening(Awaiting', jobs, issued, isScanning')
    BY <1>2, <1>3, <1>5, ScanRequestType, ListeningSame DEF HostInv
  <2> QED
    BY <1>1, <2>1
<1>7. Ans' = Ans /\ ScanRequest.op \notin {"trash", "restore"} /\ ScanRequest.by.who # "job"
  BY <1>1, ScanRequestType DEF Ans
<1> QED
  BY <1>1, <1>3, <1>4, <1>5, <1>6, <1>7, RequestStep

LEMMA PreviewKeeps ==
    ASSUME HostInv, PreviewCleanup
    PROVE  HostInv'
<1>1. /\ UNCHANGED <<there, trash, process, scanned, inbox, outbox, pending, settled, isScanning,
                     scanPending, timer, analysis, scanFailed, jobs, sessions, lost>>
      /\ issued' = issued + 1
  BY DEF PreviewCleanup, disk, daemon, client, scans, result
<1>2. PICK wanted \in SUBSET Assets :
        plans' = plans \cup {[id |-> issued + 1, kind |-> "cleanup", keep |-> None,
            targets |-> SetToSeq(wanted \cap analysis), refusals |-> wanted \ analysis]}
  BY DEF PreviewCleanup
<1>3. issued \in Nat /\ Awaiting \subseteq Bys
  BY InvFacts
<1>4. /\ SetToSeq(wanted \cap analysis) \in Seq(Assets) /\ IsInjective(SetToSeq(wanted \cap analysis))
      /\ None \notin Items(SetToSeq(wanted \cap analysis))
  <2>1. IsFiniteSet(wanted \cap analysis) /\ None \notin wanted \cap analysis
    BY FS_Subset, HostAssumption
  <2> DEFINE S == wanted \cap analysis
  <2> HIDE DEF S
  <2>2. SetToSeq(S) \in Seq(S) /\ IsInjective(SetToSeq(S)) /\ Items(SetToSeq(S)) \subseteq S
    BY <2>1, SetAsSequence DEF S
  <2>3. S \subseteq Assets /\ None \notin S
    BY <2>1 DEF S
  <2> DEFINE q == SetToSeq(S)
  <2>4. q \in Seq(S) /\ IsInjective(q) /\ Items(q) \subseteq S
    BY <2>2
  <2> HIDE DEF q
  <2>5. q \in Seq(Assets) /\ None \notin Items(q)
    BY <2>3, <2>4
  <2> QED
    BY <2>4, <2>5 DEF S, q
<1>5. plans' \subseteq Plans
  BY <1>2, <1>3, <1>4 DEF HostInv, HostTyped, Plans, Kinds
<1>6. HostTyped'
  BY <1>1, <1>3, <1>5 DEF HostInv, HostTyped
<1>7. Orderly(pending, settled, inbox, outbox)'
  BY <1>1 DEF HostInv
<1>8. Listening(Awaiting, jobs, issued, isScanning)'
  <2>1. Awaiting' = Awaiting
    BY <1>1 DEF Awaiting
  <2>2. By("scan", 0) \in Awaiting <=> isScanning
    BY DEF HostInv, Listening
  <2>3. issued + 1 \in Nat /\ issued <= issued + 1
    BY <1>3
  <2>4. Listening(Awaiting, jobs, issued + 1, isScanning)
    BY <1>3, <2>2, <2>3, ListeningSame DEF HostInv
  <2> QED
    BY <1>1, <2>1, <2>4
<1>9. In' = In /\ Out' = Out /\ Ans' = Ans /\ issued <= issued'
  BY <1>1, <1>3 DEF In, Out, Ans
<1>10. \A p \in plans' : p \in plans \/ p.id <= issued'
  BY <1>1, <1>2, <1>3
<1> QED
  BY <1>1, <1>6, <1>7, <1>8, <1>9, <1>10, ScanRequestType, RequestStep

\* A request in a new name.
LEMMA NewName ==
    ASSUME HostInv, NEW who, who # "scan"
    PROVE  By(who, issued + 1) \notin Items(pending) \cup Items(Askers(settled))
<1>1. issued \in Nat /\ Awaiting \subseteq Bys
  BY InvFacts
<1>2. \A b \in Awaiting : b.job <= issued
  BY DEF HostInv, Listening
<1>3. By(who, issued + 1).job = issued + 1
  BY DEF By
<1> QED
  BY <1>1, <1>2, <1>3 DEF Awaiting

LEMMA SelectKeeps ==
    ASSUME HostInv, SelectCopy
    PROVE  HostInv'
<1>1. /\ UNCHANGED <<there, trash, settled, isScanning, scanPending, timer, analysis, scanFailed,
                     plans, jobs, sessions, lost>>
      /\ issued' = issued + 1
  BY DEF SelectCopy, disk, scans, result
<1> DEFINE by == By("plan", issued + 1)
<1>2. PICK keep \in analysis :
        Send("plan", [keep |-> keep, targets |-> SetToSeq(analysis \ {keep})], by)
  BY DEF SelectCopy
<1> DEFINE g == [keep |-> keep, targets |-> SetToSeq(analysis \ {keep})]
           r == Request("plan", g, by)
<1>3. issued \in Nat /\ Awaiting \subseteq Bys /\ analysis \subseteq Assets
  BY InvFacts DEF HostInv, HostTyped
<1>4. by \in Bys /\ by.who = "plan" /\ by.job = issued + 1
  BY <1>3 DEF By, Bys
<1>5. g \in Groups
  <2> DEFINE S == analysis \ {keep}
             q == SetToSeq(S)
  <2>1. IsFiniteSet(S) /\ S \subseteq Assets /\ keep \notin S /\ keep \in Assets
    BY <1>3, FS_Subset, HostAssumption
  <2> HIDE DEF S
  <2>2. q \in Seq(S) /\ IsInjective(q) /\ Items(q) \subseteq S
    BY <2>1, SetAsSequence
  <2>3. g = [keep |-> keep, targets |-> q]
    BY DEF S
  <2> HIDE DEF q, g
  <2>4. q \in Seq(Assets) /\ keep \notin Items(q)
    BY <2>1, <2>2
  <2> QED
    BY <2>1, <2>2, <2>3, <2>4 DEF Groups
<1>6. Send("plan", g, by)
  BY <1>2
<1> HIDE DEF by, g
<1>7. r.op = "plan" /\ r.arg = g /\ r.by = by /\ ~r.late
  BY RequestFields
<1>8. r \in Requests
  BY <1>4, <1>5 DEF Request, Requests, Fits, Ops, Values
<1>9. /\ Orderly(pending, settled', inbox, outbox)
      /\ by \notin Items(pending) \cup Items(Askers(settled'))
      /\ Awaiting = Items(pending) \cup Items(Askers(settled'))
  BY <1>1, NewName DEF HostInv, Awaiting, by
<1>10. /\ Orderly(pending, settled, inbox, outbox)' /\ DaemonTyped'
       /\ Awaiting' = Awaiting \cup {by}
       /\ In' \subseteq In \cup {r} /\ Out' = Out
  BY <1>4, <1>6, <1>8, <1>9, SendShapes
<1>11. HostTyped'
  BY <1>1, <1>3, <1>10 DEF HostInv, HostTyped, DaemonTyped
<1>12. Listening(Awaiting, jobs, issued, isScanning)'
  <2>1. By("scan", 0) \in Awaiting' <=> isScanning'
    BY <1>1, <1>4, <1>10, ScanRequestType DEF HostInv, Listening
  <2>2. issued + 1 \in Nat /\ issued <= issued + 1
    BY <1>3
  <2>3. Listening(Awaiting', jobs, issued + 1, isScanning')
    BY <1>3, <1>4, <1>10, <2>1, <2>2, ListeningSame DEF HostInv
  <2> QED
    BY <1>1, <2>3
<1>13. issued <= issued' /\ r.op \notin {"trash", "restore"} /\ r.by.who # "job" /\ Ans' = Ans
  BY <1>1, <1>3, <1>4, <1>7 DEF Ans
<1> QED
  BY <1>1, <1>10, <1>11, <1>12, <1>13, RequestStep

LEMMA DeleteKeeps ==
    ASSUME HostInv, DeleteAsset
    PROVE  HostInv'
<1>1. /\ UNCHANGED <<there, trash, settled, isScanning, scanPending, timer, analysis, scanFailed,
                     plans, jobs, sessions, lost>>
      /\ issued' = issued + 1
  BY DEF DeleteAsset, disk, scans, result, bridge
<1> DEFINE by == By("delete", issued + 1)
<1>2. PICK a \in analysis : Send("trash", a, by)
  BY DEF DeleteAsset
<1> DEFINE r == Request("trash", a, by)
           i == Item(a, r)
<1>3. issued \in Nat /\ Awaiting \subseteq Bys /\ a \in Assets /\ SeenNow \cup Asked(In) \subseteq TrashItems
  BY InvFacts DEF HostInv, HostTyped
<1>4. by \in Bys /\ by.who = "delete" /\ by.job = issued + 1
  BY <1>3 DEF By, Bys
<1> HIDE DEF by
<1>5. r.op = "trash" /\ r.arg = a /\ r.by = by /\ ~r.late
  BY RequestFields
<1>6. r \in Requests
  BY <1>3, <1>4 DEF Request, Requests, Fits, Ops
<1>7. i.by = by
  BY <1>5 DEF Item
<1>8. i \notin SeenNow \cup Asked(In)
  <2>1. \A k \in SeenNow \cup Asked(In) : k.by.job <= issued
    BY DEF HostInv, Fresh, SeenNow, In, Out, Ans
  <2> QED
    BY <1>3, <1>4, <1>7, <2>1
<1>9. /\ Orderly(pending, settled', inbox, outbox)
      /\ by \notin Items(pending) \cup Items(Askers(settled'))
      /\ Awaiting = Items(pending) \cup Items(Askers(settled'))
  BY <1>1, NewName DEF HostInv, Awaiting, by
<1>10. /\ Orderly(pending, settled, inbox, outbox)' /\ DaemonTyped'
       /\ Awaiting' = Awaiting \cup {by}
       /\ In' \subseteq In \cup {r} /\ Out' = Out
  BY <1>2, <1>4, <1>6, <1>8, <1>9, SendShapes
<1>11. HostTyped'
  BY <1>1, <1>3, <1>10 DEF HostInv, HostTyped, DaemonTyped
<1>12. Listening(Awaiting, jobs, issued, isScanning)'
  <2>1. By("scan", 0) \in Awaiting' <=> isScanning'
    BY <1>1, <1>4, <1>10, ScanRequestType DEF HostInv, Listening
  <2>2. issued + 1 \in Nat /\ issued <= issued + 1
    BY <1>3
  <2>3. Listening(Awaiting', jobs, issued + 1, isScanning')
    BY <1>3, <1>4, <1>10, <2>1, <2>2, ListeningSame DEF HostInv
  <2> QED
    BY <1>1, <2>3
<1>13. issued <= issued' /\ issued < issued' /\ Ans' = Ans
  BY <1>1, <1>3 DEF Ans
<1>14. \A k \in Asked(In') : k \in Asked(In) \/ k = i
  BY <1>5, <1>10 DEF Asked
<1>15. ToRestore(In') \cup Replied(Out') \cup Heard(Ans') \subseteq SeenNow
  <2>1. ToRestore(In') \subseteq ToRestore(In)
    BY <1>5, <1>10 DEF ToRestore
  <2> QED
    BY <1>10, <1>13, <2>1 DEF SeenNow, Seen
<1>16. \A k \in Asked(In') :
         k \in Asked(In) \/ (k.by.who # "job" /\ k.by.job = issued' /\ issued < issued')
  BY <1>1, <1>4, <1>7, <1>13, <1>14
<1>17. \A q \in In' : q \in In \/ q.by.who # "job"
  BY <1>4, <1>5, <1>10
<1>18. (\A p \in Out' : p \in Out) /\ (\A s \in Ans' : s \in Ans) /\ Ans \ Ans' = {}
       /\ Trashed(Out) \ Trashed(Out') = {}
  BY <1>10, <1>13
<1> QED
  BY <1>1, <1>11, <1>12, <1>10, <1>13, <1>15, <1>16, <1>17, <1>18, QuietStep

-----------------------------------------------------------------------------
(* Answers: to the scan loop, the panel and a command.                     *)
LEMMA Hears ==
    ASSUME HostInv, Resume
    PROVE  LET s == Head(settled)
           IN  /\ settled # <<>> /\ s \in Answers /\ s \in Ans
               /\ s.by \in Awaiting
               /\ Orderly(pending, settled', inbox, outbox)
               /\ Ans = {s} \cup Ans'
               /\ Awaiting = {s.by} \cup Items(pending) \cup Items(Askers(settled'))
               /\ s.by \notin Items(pending) \cup Items(Askers(settled'))
               /\ UNCHANGED <<there, trash, timer, lost, issued>>
<1>1. settled # <<>> /\ settled' = Tail(settled) /\ UNCHANGED <<there, trash, timer, lost, issued>>
  BY DEF Resume, disk
<1>2. /\ Orderly(pending, settled', inbox, outbox)
      /\ Head(settled) \in Answers
      /\ Items(settled) = {Head(settled)} \cup Items(settled')
      /\ Head(settled).by \notin Items(Askers(settled')) \cup Items(pending)
      /\ Items(Askers(settled)) = {Head(settled).by} \cup Items(Askers(settled'))
  BY <1>1, OrderlyHears DEF HostInv
<1> QED
  BY <1>1, <1>2 DEF Ans, Awaiting

LEMMA ScanHeard ==
    ASSUME HostInv, Resume, Head(settled).by.who = "scan"
    PROVE  HostInv'
<1> DEFINE s == Head(settled)
           W == Items(pending) \cup Items(Askers(settled'))
<1>1. /\ settled # <<>> /\ s \in Answers /\ s \in Ans /\ s.by \in Awaiting
      /\ Orderly(pending, settled', inbox, outbox)
      /\ Ans = {s} \cup Ans' /\ Awaiting = {s.by} \cup W /\ s.by \notin W
      /\ UNCHANGED <<there, trash, timer, lost, issued>>
  BY Hears
<1>2. ScanReturns(s)
  BY DEF Resume
<1>3. /\ analysis' = (IF s.ok THEN s.value ELSE analysis) /\ scanFailed' \in BOOLEAN
      /\ scanPending' \in BOOLEAN
      /\ IF scanPending
         THEN Send("scan", None, By("scan", 0)) /\ isScanning' = isScanning
         ELSE SendNothing /\ isScanning' = FALSE
      /\ UNCHANGED <<plans, jobs, sessions>>
  BY <1>2 DEF ScanReturns, bridge
<1>4. s.by.who = "scan" /\ (s.ok => s.value \in SUBSET Assets)
  BY <1>1 DEF Answers
<1> HIDE DEF s, W
<1>5. issued \in Nat /\ Awaiting \subseteq Bys
  BY InvFacts
<1>6. s.by = By("scan", 0) /\ isScanning
  <2>1. s.by.job = 0 /\ s.by \in Bys
    BY <1>1, <1>4, <1>5 DEF HostInv, Listening
  <2>2. s.by = By("scan", 0)
    BY <1>4, <2>1 DEF By, Bys
  <2> QED
    BY <1>1, <2>2 DEF HostInv, Listening
<1>7. /\ Orderly(pending, settled, inbox, outbox)' /\ DaemonTyped'
      /\ isScanning' \in BOOLEAN
      /\ By("scan", 0) \in Awaiting' <=> isScanning'
      /\ \A b \in Awaiting' : b \in Awaiting
      /\ \A b \in Awaiting : b # s.by => b \in Awaiting'
      /\ In' \subseteq In \cup {ScanRequest} /\ Out' = Out
  <2>1. CASE scanPending
    <3>1. Send("scan", None, By("scan", 0)) /\ isScanning' = TRUE
      BY <1>3, <1>6, <2>1
    <3>2. By("scan", 0) \notin Items(pending) \cup Items(Askers(settled'))
      BY <1>1, <1>6 DEF W
    <3>3. /\ Orderly(pending, settled, inbox, outbox)' /\ DaemonTyped'
          /\ Awaiting' = Items(pending) \cup Items(Askers(settled')) \cup {By("scan", 0)}
          /\ In' \subseteq In \cup {ScanRequest} /\ Out' = Out
      BY <1>1, <3>1, <3>2, ScanSendShapes
    <3> QED
      BY <1>1, <1>6, <3>1, <3>3 DEF W
  <2>2. CASE ~scanPending
    <3>1. SendNothing /\ isScanning' = FALSE
      BY <1>3, <2>2
    <3>2. /\ Orderly(pending, settled, inbox, outbox)' /\ DaemonTyped'
          /\ Awaiting' = W /\ In' = In /\ Out' = Out
      BY <1>1, <3>1, SendNothingShapes DEF W
    <3> QED
      BY <1>1, <1>6, <3>1, <3>2
  <2> QED
    BY <2>1, <2>2
<1>8. HostTyped'
  BY <1>1, <1>3, <1>4, <1>7 DEF HostInv, HostTyped, DaemonTyped
<1>9. Listening(Awaiting, jobs, issued, isScanning)'
  <2>1. \A b \in Awaiting : b.who = "job" => b \in Awaiting'
    BY <1>4, <1>7
  <2>2. issued <= issued /\ (By("scan", 0) \in Awaiting' <=> isScanning')
    BY <1>5, <1>7
  <2>3. \A b \in Awaiting' : \/ b \in Awaiting
                             \/ b.who # "job" /\ b.job <= issued /\ (b.who = "scan" => b.job = 0)
    BY <1>7
  <2>4. Listening(Awaiting, jobs, issued, isScanning)
    BY DEF HostInv
  <2>5. Listening(Awaiting', jobs, issued, isScanning')
    BY <1>5, <2>1, <2>2, <2>3, <2>4, ListeningSame
  <2> QED
    BY <1>1, <1>3, <2>5
<1>10. issued <= issued' /\ ScanRequest.op \notin {"trash", "restore"} /\ ScanRequest.by.who # "job"
  BY <1>1, <1>5, ScanRequestType
<1>11. Ans' \subseteq Ans /\ \A a \in Ans \ Ans' : a.by.who # "job"
  BY <1>1, <1>4
<1> QED
  BY <1>1, <1>3, <1>7, <1>8, <1>9, <1>10, <1>11, RequestStep

LEMMA PlanHeard ==
    ASSUME HostInv, Resume, Head(settled).by.who = "plan"
    PROVE  HostInv'
<1> DEFINE s == Head(settled)
           W == Items(pending) \cup Items(Askers(settled'))
<1>1. /\ settled # <<>> /\ s \in Answers /\ s \in Ans /\ s.by \in Awaiting
      /\ Orderly(pending, settled', inbox, outbox)
      /\ Ans = {s} \cup Ans' /\ Awaiting = {s.by} \cup W /\ s.by \notin W
      /\ UNCHANGED <<there, trash, timer, lost, issued>>
  BY Hears
<1>2. PlanArrives(s)
  BY DEF Resume
<1> DEFINE p == [id |-> s.by.job, kind |-> "resolution", keep |-> s.value.keep,
                 targets |-> s.value.targets, refusals |-> {}]
<1>3. /\ s.ok => plans' = plans \cup {p}
      /\ ~s.ok => plans' = plans
      /\ SendNothing
      /\ UNCHANGED <<isScanning, scanPending, analysis, scanFailed, jobs, sessions>>
  BY <1>2 DEF PlanArrives, scans, result
<1>4. s.by.who = "plan" /\ (s.ok => s.value \in Groups) /\ s.by \in Bys
  BY <1>1 DEF Answers
<1> HIDE DEF s, W
<1>5. issued \in Nat /\ Awaiting \subseteq Bys /\ s.by.job <= issued
  BY <1>1, InvFacts DEF HostInv, Listening
<1>6. s.ok => p \in Plans
  BY <1>4 DEF Groups, Plans, Kinds, Bys
<1>7. p.id = s.by.job
  OBVIOUS
<1> HIDE DEF p
<1>8. /\ Orderly(pending, settled, inbox, outbox)' /\ DaemonTyped'
      /\ Awaiting' = W /\ In' = In /\ Out' = Out
  BY <1>1, <1>3, SendNothingShapes DEF W
<1>9. HostTyped'
  BY <1>1, <1>3, <1>6, <1>8 DEF HostInv, HostTyped, DaemonTyped
<1>10. Listening(Awaiting, jobs, issued, isScanning)'
  <2>1. \A b \in Awaiting : b.who = "job" => b \in Awaiting'
    BY <1>1, <1>4, <1>8
  <2>2. By("scan", 0) \in Awaiting' <=> isScanning
    BY <1>1, <1>4, <1>8, ScanRequestType DEF HostInv, Listening
  <2>3. \A b \in Awaiting' : b \in Awaiting
    BY <1>1, <1>8
  <2>4. Listening(Awaiting', jobs, issued, isScanning)
    BY <1>5, <2>1, <2>2, <2>3, ListeningSame DEF HostInv
  <2> QED
    BY <1>1, <1>3, <2>4
<1>11. issued <= issued' /\ \A q \in plans' : q \in plans \/ q.id <= issued'
  BY <1>1, <1>3, <1>5, <1>7
<1>12. Ans' \subseteq Ans /\ \A a \in Ans \ Ans' : a.by.who # "job"
  BY <1>1, <1>4
<1>13. ScanRequest.op \notin {"trash", "restore"} /\ ScanRequest.by.who # "job"
       /\ In' \subseteq In \cup {ScanRequest}
  BY <1>8, ScanRequestType
<1> QED
  BY <1>1, <1>3, <1>8, <1>9, <1>10, <1>11, <1>12, <1>13, RequestStep

LEMMA DeleteHeard ==
    ASSUME HostInv, Resume, Head(settled).by.who = "delete"
    PROVE  HostInv'
<1> DEFINE s == Head(settled)
           W == Items(pending) \cup Items(Askers(settled'))
<1>1. /\ settled # <<>> /\ s \in Answers /\ s \in Ans /\ s.by \in Awaiting
      /\ Orderly(pending, settled', inbox, outbox)
      /\ Ans = {s} \cup Ans' /\ Awaiting = {s.by} \cup W /\ s.by \notin W
      /\ UNCHANGED <<there, trash, timer, lost, issued>>
  BY Hears
<1>2. DeleteReturns(s)
  BY DEF Resume
<1>3. /\ ScanWorkspace \/ (SendNothing /\ isScanning' = isScanning /\ scanPending' = scanPending)
      /\ UNCHANGED <<analysis, scanFailed, plans, jobs, sessions>>
  BY <1>2 DEF DeleteReturns, scans, result, bridge
<1>4. s.by.who = "delete" /\ s.by \in Bys
  BY <1>1 DEF Answers
<1> HIDE DEF s, W
<1>5. issued \in Nat /\ Awaiting \subseteq Bys
  BY InvFacts
<1>6. By("scan", 0) \in W <=> isScanning
  BY <1>1, <1>4, ScanRequestType DEF HostInv, Listening
<1>7. /\ Orderly(pending, settled, inbox, outbox)' /\ DaemonTyped'
      /\ isScanning' \in BOOLEAN /\ scanPending' \in BOOLEAN
      /\ By("scan", 0) \in Awaiting' <=> isScanning'
      /\ \A b : b \in Awaiting' <=> b \in W \/ (b = By("scan", 0) /\ isScanning')
      /\ In' \subseteq In \cup {ScanRequest} /\ Out' = Out
  <2>1. CASE ScanWorkspace
    BY <1>1, <1>6, <2>1, ScanWorkspaceShapes DEF W
  <2>2. CASE SendNothing /\ isScanning' = isScanning /\ scanPending' = scanPending
    <3>1. /\ Orderly(pending, settled, inbox, outbox)' /\ DaemonTyped'
          /\ Awaiting' = W /\ In' = In /\ Out' = Out
      BY <1>1, <2>2, SendNothingShapes DEF W
    <3> QED
      BY <1>6, <2>2, <3>1 DEF HostInv, HostTyped
  <2> QED
    BY <1>3, <2>1, <2>2
<1>8. HostTyped'
  BY <1>1, <1>3, <1>7 DEF HostInv, HostTyped, DaemonTyped
<1>9. Listening(Awaiting, jobs, issued, isScanning)'
  <2>1. \A b \in Awaiting : b.who = "job" => b \in Awaiting'
    BY <1>1, <1>4, <1>7
  <2>2. \A b \in Awaiting' : b \in Awaiting \/ b = By("scan", 0)
    BY <1>1, <1>7
  <2>3. \A b \in Awaiting' : \/ b \in Awaiting
                             \/ b.who # "job" /\ b.job <= issued /\ (b.who = "scan" => b.job = 0)
    BY <1>5, <2>2, ScanRequestType
  <2>4. Listening(Awaiting', jobs, issued, isScanning')
    BY <1>5, <1>7, <2>1, <2>3, ListeningSame DEF HostInv
  <2> QED
    BY <1>1, <1>3, <2>4
<1>10. issued <= issued' /\ ScanRequest.op \notin {"trash", "restore"} /\ ScanRequest.by.who # "job"
  BY <1>1, <1>5, ScanRequestType
<1>11. Ans' \subseteq Ans /\ \A a \in Ans \ Ans' : a.by.who # "job"
  BY <1>1, <1>4
<1> QED
  BY <1>1, <1>3, <1>7, <1>8, <1>9, <1>10, <1>11, RequestStep

-----------------------------------------------------------------------------
(* A handler goes on: k in the place of j.                                 *)
LEMMA Replaces ==
    ASSUME NEW J, NEW j \in J, NEW k, Like(k, j), \A i, l \in J : i.id = l.id => i = l
    PROVE  LET J2 == (J \ {j}) \cup {k}
           IN  /\ \A l \in J2 : l = k \/ (l \in J /\ l # j /\ l.id # k.id)
               /\ \A l \in RemovalsOf(J2) : l \in RemovalsOf(J) \/ (l = k /\ j \in RemovalsOf(J))
               /\ \A l \in RestoresOf(J2) : l \in RestoresOf(J) \/ (l = k /\ j \in RestoresOf(J))
               /\ \A l \in RemovalsOf(J) : l \in RemovalsOf(J2) \/ (l = j /\ k \in RemovalsOf(J2))
BY DEF RemovalsOf, RestoresOf, Like

LEMMA HandledReplaces ==
    ASSUME NEW J, NEW j \in J, NEW k, Like(k, j), \A i, l \in J : i.id = l.id => i = l, NEW X,
           Items(k.done) \subseteq Items(j.done) \cup X,
           k.kind = "restore" => Items(k.todo) \subseteq Items(j.todo)
    PROVE  Handled((J \ {j}) \cup {k}) \subseteq Handled(J) \cup X
<1> DEFINE J2 == (J \ {j}) \cup {k}
<1>1. /\ \A l \in J2 : l = k \/ l \in J
      /\ \A l \in RestoresOf(J2) : l \in RestoresOf(J) \/ (l = k /\ j \in RestoresOf(J))
  BY Replaces
<1>2. ASSUME NEW x \in Handled(J2), x \notin X PROVE x \in Handled(J)
  <2>1. CASE \E l \in J2 : x \in Items(l.done)
    <3>1. \E l \in J : x \in Items(l.done)
      BY <1>1, <1>2, <2>1
    <3> QED
      BY <3>1, HandledItems
  <2>2. CASE \E l \in RestoresOf(J2) : x \in Items(l.todo)
    <3>1. k.kind = j.kind
      BY DEF Like
    <3>2. \E l \in RestoresOf(J) : x \in Items(l.todo)
      BY <1>1, <2>2, <3>1 DEF RestoresOf
    <3> QED
      BY <3>2, HandledItems
  <2> QED
    BY <1>2, <2>1, <2>2, HandledItems
<1> QED
  BY <1>2

LEMMA ListeningReplaces ==
    ASSUME NEW J, NEW W, NEW n, NEW scanning, Listening(W, J, n, scanning),
           NEW j \in J, NEW k, Like(k, j), \A i, l \in J : i.id = l.id => i = l, j.id <= n,
           NEW W2, By("job", k.id) \in W2 <=> k.waiting,
           \A b \in W2 : b \in W \/ b = By("job", k.id),
           \A b \in W : b.who = "job" => b \in W2 \/ b = By("job", k.id),
           NEW scanning2, By("scan", 0) \in W2 <=> scanning2
    PROVE  Listening(W2, (J \ {j}) \cup {k}, n, scanning2)
<1> DEFINE J2 == (J \ {j}) \cup {k}
<1>1. \A l \in J2 : l = k \/ (l \in J /\ l # j /\ l.id # k.id)
  BY Replaces
<1>2. k.id = j.id /\ By("job", k.id).job = j.id /\ By("job", k.id).who = "job"
  BY DEF Like, By
<1>3. ASSUME NEW b \in W2
      PROVE  /\ b.who = "scan" => b.job = 0
             /\ b.job <= n
             /\ b.who = "job" => \E l \in J2 : l.id = b.job
  <2>1. CASE b = By("job", k.id)
    BY <1>2, <2>1
  <2>2. CASE b \in W
    BY <1>2, <2>2 DEF Listening
  <2> QED
    BY <2>1, <2>2
<1>4. ASSUME NEW l \in J2 PROVE By("job", l.id) \in W2 <=> l.waiting
  <2>1. CASE l = k
    BY <2>1
  <2>2. CASE l \in J /\ l.id # k.id
    <3>1. By("job", l.id).who = "job" /\ By("job", l.id).job = l.id
      BY DEF By
    <3>2. By("job", l.id) # By("job", k.id)
      BY <1>2, <2>2, <3>1
    <3>3. By("job", l.id) \in W2 <=> By("job", l.id) \in W
      BY <3>1, <3>2
    <3> QED
      BY <2>2, <3>3 DEF Listening
  <2> QED
    BY <1>1, <2>1, <2>2
<1> HIDE DEF J2
<1>5. Listening(W2, J2, n, scanning2)
  BY <1>3, <1>4 DEF Listening
<1> QED
  BY <1>5 DEF J2

LEMMA FreshReplaces ==
    ASSUME NEW in, NEW seen, NEW J, NEW n \in Nat, Fresh(in, seen, J, n),
           NEW in2, NEW seen2, NEW n2 \in Nat, n <= n2,
           seen \cup Asked(in) \subseteq TrashItems,
           Asked(in2) \cap seen2 = {}, seen2 \cup Asked(in2) \subseteq seen \cup Asked(in),
           NEW j \in J, NEW k, Like(k, j), \A i, l \in J : i.id = l.id => i = l,
           k.kind \in Kinds => Unsent(k) \subseteq Unsent(j)
    PROVE  Fresh(in2, seen2, (J \ {j}) \cup {k}, n2)
<1> DEFINE J2 == (J \ {j}) \cup {k}
<1>1. \A l \in RemovalsOf(J2) : l \in RemovalsOf(J) \/ (l = k /\ j \in RemovalsOf(J))
  BY Replaces
<1>2. ASSUME NEW l \in RemovalsOf(J2), NEW a \in Unsent(l)
      PROVE  \E i \in RemovalsOf(J) : i.id = l.id /\ a \in Unsent(i)
  <2>1. k.id = j.id
    BY DEF Like
  <2>2. CASE l = k /\ j \in RemovalsOf(J)
    <3>1. k.kind \in Kinds
      BY <2>2 DEF RemovalsOf
    <3> QED
      BY <1>2, <2>1, <2>2, <3>1
  <2> QED
    BY <1>1, <1>2, <2>2
<1> HIDE DEF J2
<1>3. \A l \in RemovalsOf(J2) : \A a \in Unsent(l) :
        \E i \in RemovalsOf(J) : i.id = l.id /\ a \in Unsent(i)
  BY <1>2
<1>4. Fresh(in2, seen2, J2, n2)
  BY <1>3, FreshMoves
<1> QED
  BY <1>4 DEF J2

\* The next file of a handler's list is done, or the list is given up.
LEMMA TodoShrinks ==
    ASSUME NEW X, NEW q \in Seq(X), q # <<>>, NEW p, p = Tail(q) \/ p = <<>>
    PROVE  /\ p \in Seq(X) /\ Items(p) \subseteq Items(Tail(q)) /\ Items(p) \subseteq Items(q)
           /\ IsInjective(q) => IsInjective(p)
           /\ Len(p) < Len(q) /\ Len(p) \in Nat /\ Len(q) \in Nat
           /\ p = Tail(q) => Len(p) = Len(q) - 1
<1>1. /\ Tail(q) \in Seq(X) /\ 1 \in DOMAIN q /\ Head(q) = q[1]
      /\ \A i \in DOMAIN Tail(q) : i \in Nat /\ i + 1 \in DOMAIN q /\ i # 0 /\ Tail(q)[i] = q[i + 1]
      /\ Len(Tail(q)) = Len(q) - 1 /\ Len(q) \in Nat
      /\ Items(q) = {Head(q)} \cup Items(Tail(q))
  BY TailItems
<1>2. CASE p = <<>>
  <2>1. Items(p) = {} /\ IsInjective(p) /\ p \in Seq(X) /\ Len(p) = 0 /\ Len(q) # 0
    BY <1>2, NoItems
  <2>2. p = Tail(q) => Len(p) = Len(q) - 1
    BY <1>1
  <2> QED
    BY <1>1, <2>1, <2>2
<1>3. CASE p = Tail(q)
  <2> DEFINE t == Tail(q)
  <2>1. t \in Seq(X) /\ \A i \in DOMAIN t : i \in Nat /\ i + 1 \in DOMAIN q /\ t[i] = q[i + 1]
    BY <1>1
  <2> HIDE DEF t
  <2>2. IsInjective(q) => IsInjective(t)
    BY <2>1 DEF IsInjective
  <2> QED
    BY <1>1, <1>3, <2>2 DEF t
<1> QED
  BY <1>2, <1>3

LEMMA AdvancedShape ==
    ASSUME NEW j \in Jobs, j.todo # <<>>, NEW s \in Answers, s.ok => s.value \in TrashItems
    PROVE  LET k == Advanced(j, s)
           IN  /\ k \in Jobs /\ Like(k, j) /\ ~k.waiting
               /\ s.ok => Items(k.done) = Items(j.done) \cup {s.value}
                          /\ Len(k.done) = Len(j.done) + 1
               /\ ~s.ok => k.done = j.done
               /\ k.todo = Tail(j.todo) \/ k.todo = <<>>
               /\ s.ok \/ j.kind = "restore" => k.todo = Tail(j.todo)
               /\ Items(k.todo) \subseteq Items(Tail(j.todo))
               /\ Items(k.todo) \subseteq Items(j.todo)
               /\ Len(k.todo) < Len(j.todo)
               /\ k.todo = Tail(j.todo) => Len(k.todo) = Len(j.todo) - 1
<1> DEFINE k == Advanced(j, s)
<1>1. /\ k.id = j.id /\ k.kind = j.kind /\ k.plan = j.plan /\ k.keep = j.keep
      /\ k.partial = j.partial /\ k.known = j.known /\ k.waiting = FALSE
      /\ k.done = (IF s.ok THEN Append(j.done, s.value) ELSE j.done)
      /\ k.todo = (IF s.ok \/ j.kind = "restore" \/ j.partial THEN Tail(j.todo) ELSE <<>>)
      /\ k = [id |-> j.id, kind |-> j.kind, plan |-> j.plan, keep |-> j.keep, todo |-> k.todo,
              done |-> k.done, partial |-> j.partial, known |-> j.known, waiting |-> FALSE]
  <2> DEFINE d == IF s.ok THEN Append(j.done, s.value) ELSE j.done
             t == IF s.ok \/ j.kind = "restore" \/ j.partial THEN Tail(j.todo) ELSE <<>>
  <2>1. j = [id |-> j.id, kind |-> j.kind, plan |-> j.plan, keep |-> j.keep, todo |-> j.todo,
             done |-> j.done, partial |-> j.partial, known |-> j.known, waiting |-> j.waiting]
    BY DEF Jobs
  <2>2. k = [[[j EXCEPT !.waiting = FALSE] EXCEPT !.done = d] EXCEPT !.todo = t]
    BY <2>1 DEF Advanced
  <2> HIDE DEF d, t, k
  <2>3. k = [id |-> j.id, kind |-> j.kind, plan |-> j.plan, keep |-> j.keep, todo |-> t,
             done |-> d, partial |-> j.partial, known |-> j.known, waiting |-> FALSE]
    BY <2>1, <2>2
  <2>4. k.done = d /\ k.todo = t
    BY <2>3
  <2> QED
    BY <2>3, <2>4 DEF d, t
<1>2. /\ j.id \in Nat /\ j.kind \in Kinds \cup {"restore"} /\ j.plan \in Nat
      /\ j.keep \in Assets \cup {None} /\ j.todo \in Seq(Assets \cup TrashItems)
      /\ j.done \in Seq(TrashItems) /\ j.partial \in BOOLEAN /\ j.known \in SUBSET Assets
      /\ j.kind \in Kinds => j.todo \in Seq(Assets) /\ IsInjective(j.todo)
      /\ j.kind = "restore" => j.todo \in Seq(TrashItems)
  BY DEF Jobs
<1> HIDE DEF k
<1>3. k.todo = Tail(j.todo) \/ k.todo = <<>>
  BY <1>1
<1> DEFINE p == k.todo
           q == j.todo
<1>4. /\ p \in Seq(Assets \cup TrashItems)
      /\ Items(p) \subseteq Items(Tail(q)) /\ Items(p) \subseteq Items(q)
      /\ Len(p) < Len(q) /\ (p = Tail(q) => Len(p) = Len(q) - 1)
      /\ IsInjective(q) => IsInjective(p)
  <2> HIDE DEF p, q
  <2>1. q \in Seq(Assets \cup TrashItems) /\ q # <<>> /\ (p = Tail(q) \/ p = <<>>)
    BY <1>2, <1>3 DEF p, q
  <2> QED
    BY <2>1, TodoShrinks
<1>5. q \in Seq(Assets) => p \in Seq(Assets)
  BY <1>3, TodoShrinks
<1>6. q \in Seq(TrashItems) => p \in Seq(TrashItems)
  BY <1>3, TodoShrinks
<1> DEFINE d == k.done
<1>7. d \in Seq(TrashItems)
      /\ (s.ok => Items(d) = Items(j.done) \cup {s.value} /\ Len(d) = Len(j.done) + 1)
  <2>1. CASE s.ok
    BY <1>1, <1>2, <2>1, AppendItems
  <2>2. CASE ~s.ok
    BY <1>1, <1>2, <2>2
  <2> QED
    BY <2>1, <2>2
<1>8. k \in Jobs
  <2> HIDE DEF p, q, d
  <2>1. k = [id |-> j.id, kind |-> j.kind, plan |-> j.plan, keep |-> j.keep, todo |-> p,
             done |-> d, partial |-> j.partial, known |-> j.known, waiting |-> FALSE]
    BY <1>1 DEF p, d
  <2>2. /\ j.kind \in Kinds => p \in Seq(Assets) /\ IsInjective(p)
        /\ j.kind = "restore" => p \in Seq(TrashItems)
    BY <1>2, <1>4, <1>5, <1>6 DEF q
  <2> QED
    BY <1>2, <1>4, <1>7, <2>1, <2>2 DEF Jobs
<1>9. Like(k, j)
  BY <1>1 DEF Like
<1> QED
  BY <1>1, <1>3, <1>4, <1>7, <1>8, <1>9 DEF k

\* A file is put back, or one more is not; a removal has one more, or stops.
LEMMA JobHeard ==
    ASSUME HostInv, Resume, Head(settled).by.who = "job"
    PROVE  HostInv'
<1> DEFINE s == Head(settled)
           W == Items(pending) \cup Items(Askers(settled'))
<1>1. /\ settled # <<>> /\ s \in Answers /\ s \in Ans /\ s.by \in Awaiting
      /\ Orderly(pending, settled', inbox, outbox)
      /\ Ans = {s} \cup Ans' /\ Awaiting = {s.by} \cup W /\ s.by \notin W
      /\ UNCHANGED <<there, trash, timer, lost, issued>>
  BY Hears
<1>2. JobAdvances(s)
  BY DEF Resume
<1>3. /\ jobs' = {IF j.id = s.by.job THEN Advanced(j, s) ELSE j : j \in jobs}
      /\ SendNothing
      /\ UNCHANGED <<isScanning, scanPending, analysis, scanFailed, plans, sessions>>
  BY <1>2 DEF JobAdvances, scans, result
<1>4. s.by.who = "job" /\ (s.ok => s.value \in TrashItems) /\ s.by \in Bys
  BY <1>1 DEF Answers
<1> HIDE DEF s, W
<1>5. issued \in Nat /\ Awaiting \subseteq Bys /\ jobs \subseteq Jobs /\ sessions \subseteq Sessions
      /\ SeenNow \cup Asked(In) \subseteq TrashItems
  BY InvFacts
<1>6. PICK j \in jobs : j.id = s.by.job
  BY <1>1, <1>4 DEF HostInv, Listening
<1>7. s.by = By("job", j.id) /\ j.waiting /\ j \in Jobs /\ j.todo # <<>>
  <2>1. s.by = By("job", j.id)
    BY <1>4, <1>6 DEF By, Bys
  <2>2. j.waiting
    BY <1>1, <2>1 DEF HostInv, Listening
  <2> QED
    BY <1>5, <2>1, <2>2 DEF Jobs
<1>8. /\ \A i, l \in jobs : i.id = l.id => i = l
      /\ j.id <= issued
  BY DEF HostInv, IdsNameOne
<1> DEFINE k == Advanced(j, s)
           J2 == (jobs \ {j}) \cup {k}
<1>9. jobs' = J2
  BY <1>3, <1>6, <1>8
<1>10. /\ k \in Jobs /\ Like(k, j) /\ ~k.waiting
       /\ s.ok => Items(k.done) = Items(j.done) \cup {s.value} /\ Len(k.done) = Len(j.done) + 1
       /\ ~s.ok => k.done = j.done
       /\ s.ok \/ j.kind = "restore" => k.todo = Tail(j.todo)
       /\ Items(k.todo) \subseteq Items(Tail(j.todo))
       /\ Items(k.todo) \subseteq Items(j.todo)
       /\ k.todo = Tail(j.todo) => Len(k.todo) = Len(j.todo) - 1
  BY <1>1, <1>4, <1>7, AdvancedShape
<1> HIDE DEF k
<1>11. /\ Orderly(pending, settled, inbox, outbox)' /\ DaemonTyped'
       /\ Awaiting' = W /\ In' = In /\ Out' = Out
  BY <1>1, <1>3, SendNothingShapes DEF W
<1>12. HostTyped'
  BY <1>1, <1>3, <1>5, <1>9, <1>10, <1>11 DEF HostInv, HostTyped, DaemonTyped
<1>13. k.id = j.id /\ k.plan = j.plan /\ k.kind = j.kind
  BY <1>10 DEF Like
<1>14. By("job", k.id) \notin Awaiting'
  BY <1>1, <1>7, <1>11, <1>13
<1>15. Listening(Awaiting, jobs, issued, isScanning)'
  <2>1. Listening(Awaiting, jobs, issued, isScanning)
    BY DEF HostInv
  <2>2. By("scan", 0) \in Awaiting' <=> isScanning
    <3>1. By("scan", 0) # s.by
      BY <1>4, ScanRequestType
    <3> QED
      BY <1>1, <1>11, <2>1, <3>1 DEF Listening
  <2>3. /\ \A b \in Awaiting' : b \in Awaiting \/ b = By("job", k.id)
        /\ \A b \in Awaiting : b.who = "job" => b \in Awaiting' \/ b = By("job", k.id)
        /\ By("job", k.id) \in Awaiting' <=> k.waiting
    BY <1>1, <1>7, <1>10, <1>11, <1>13, <1>14
  <2>4. Listening(Awaiting', J2, issued, isScanning)
    BY <1>8, <1>10, <2>1, <2>2, <2>3, ListeningReplaces
  <2> QED
    BY <1>1, <1>3, <1>9, <2>4
<1>16. IdsNameOne(jobs, sessions, plans, issued)'
  <2>1. IdsNameOne(J2, sessions, plans, issued)
    BY <1>10, IdsReplace DEF HostInv
  <2> QED
    BY <1>1, <1>3, <1>9, <2>1
<1>17. Answering(In, Out, Ans, jobs, trash)'
  <2>1. Answering(In, Out, Ans', jobs, trash)
    BY <1>1 DEF HostInv, In, Out, Ans, Answering
  <2>2. Named(In', Out', Ans') \subseteq Awaiting'
    <3>1. Named(Items(inbox'), Items(outbox'), Items(settled')) \subseteq
            Items(pending') \cup Items(Askers(settled'))
      BY <1>11, OrderlyNames
    <3> QED
      BY <3>1 DEF In, Out, Ans, Awaiting
  <2>3. \A l \in J2 : l \in jobs \/ By("job", l.id) \notin Named(In, Out, Ans')
    BY <1>11, <1>14, <2>2
  <2>4. Answering(In, Out, Ans', J2, trash)
    BY <2>1, <2>3, AnsweringJobs
  <2> QED
    BY <1>1, <1>9, <1>11, <2>4
<1>18. SeenNow' \subseteq SeenNow
  <2>1. Handled(J2) \subseteq Handled(jobs) \cup Heard(Ans)
    <3>1. s.ok => s.value \in Heard(Ans)
      BY <1>1, <1>4 DEF Heard
    <3>2. Items(k.done) \subseteq Items(j.done) \cup Heard(Ans)
      BY <1>10, <3>1
    <3> QED
      BY <1>8, <1>10, <3>2, HandledReplaces
  <2>2. Heard(Ans') \subseteq Heard(Ans)
    BY <1>1 DEF Heard
  <2>3. SeenNow' = Recorded(sessions) \cup Handled(J2) \cup ToRestore(In)
                     \cup Replied(Out) \cup Heard(Ans')
    BY <1>3, <1>9, <1>11 DEF SeenNow, Seen
  <2>4. SeenNow = Recorded(sessions) \cup Handled(jobs) \cup ToRestore(In)
                     \cup Replied(Out) \cup Heard(Ans)
    BY DEF SeenNow, Seen
  <2> HIDE DEF J2
  <2> QED
    BY <2>1, <2>2, <2>3, <2>4
<1>19. Fresh(In, SeenNow, jobs, issued)'
  <2> DEFINE seen2 == SeenNow'
  <2>1. Fresh(In, SeenNow, jobs, issued)
    BY DEF HostInv, In, SeenNow, Out, Ans
  <2>2. Asked(In) \cap seen2 = {} /\ seen2 \cup Asked(In) \subseteq SeenNow \cup Asked(In)
    BY <1>18, <2>1 DEF Fresh
  <2>3. Unsent(k) \subseteq Unsent(j)
    BY <1>7, <1>10 DEF Unsent
  <2> HIDE DEF seen2
  <2>4. issued <= issued
    BY <1>5
  <2>5. Fresh(In, seen2, J2, issued)
    BY <1>5, <1>8, <1>10, <2>1, <2>2, <2>3, <2>4, FreshReplaces
  <2> QED
    BY <1>1, <1>9, <1>11, <2>5 DEF seen2
<1>20. NoneMissed(jobs, sessions, trash)'
  <2>1. NoneMissed(jobs, sessions, trash)
    BY DEF HostInv
  <2>2. CASE j \in RestoresOf(jobs)
    <3>1. j.kind = "restore" /\ k.todo = Tail(j.todo)
      BY <1>10, <2>2 DEF RestoresOf
    <3> DEFINE jd == Len(j.done)
               jt == Len(j.todo)
               kd == Len(k.done)
               kt == Len(k.todo)
    <3>2. jd \in Nat /\ jt \in Nat /\ kd \in Nat /\ kt \in Nat
      BY <1>7, <1>10 DEF Jobs
    <3>3. kt = jt - 1 /\ (s.ok => kd = jd + 1) /\ (~s.ok => kd = jd)
      BY <1>10, <3>1
    <3> HIDE DEF jd, jt, kd, kt
    <3>4. (s.ok => kd + kt = jd + jt) /\ (~s.ok => kd + kt < jd + jt)
      BY <3>2, <3>3
    <3>5. Items(j.todo) = {Head(j.todo)} \cup Items(k.todo)
      <4>1. j.todo \in Seq(Assets \cup TrashItems)
        BY <1>7 DEF Jobs
      <4> QED
        BY <1>7, <3>1, <4>1, TailItems
    <3>6. s.ok => Head(j.todo) \notin trash
      BY <1>1, <1>7, <3>1 DEF HostInv, Answering, Ans
    <3>7. s.ok => \A i \in Items(j.todo) : i \in Items(k.todo) \/ i \notin trash
      BY <3>5, <3>6
    <3>8. \/ Len(k.done) + Len(k.todo) < Len(j.done) + Len(j.todo)
          \/ /\ Len(k.done) + Len(k.todo) = Len(j.done) + Len(j.todo)
             /\ \A i \in Items(j.todo) : i \in Items(k.todo) \/ i \notin trash
      BY <3>4, <3>7 DEF jd, jt, kd, kt
    <3>9. NoneMissed(J2, sessions, trash)
      BY <1>5, <1>10, <1>13, <2>1, <2>2, <3>8, MissedGoesOn
    <3> QED
      BY <1>1, <1>3, <1>9, <3>9
  <2>3. CASE j \notin RestoresOf(jobs)
    <3>1. RestoresOf(J2) \subseteq RestoresOf(jobs)
      BY <1>13, <2>3 DEF RestoresOf
    <3>2. NoneMissed(J2, sessions, trash)
      BY <2>1, <3>1, MissedFewer
    <3> QED
      BY <1>1, <1>3, <1>9, <3>2
  <2> QED
    BY <2>2, <2>3
<1>21. Accounted(Out, Ans, jobs, sessions, trash, lost)'
  <2>1. Accounted(Out, Ans, jobs, sessions, trash, lost)
    BY DEF HostInv, Out, Ans
  <2>2. /\ \A l \in RemovalsOf(jobs) : l \in RemovalsOf(J2) \/ (l = j /\ k \in RemovalsOf(J2))
        /\ j.kind \in Kinds => k \in RemovalsOf(J2)
    BY <1>13 DEF RemovalsOf
  <2>3. \A a \in Ans : a \in Ans' \/ \A i \in trash \ lost :
          a.ok /\ a.by = i.by /\ a.value = i =>
            i.by.who = "delete" \/ \E l \in RemovalsOf(J2) : i \in Items(l.done)
    <3>1. ASSUME NEW i \in trash, s.ok, s.by = i.by, s.value = i
          PROVE  \E l \in RemovalsOf(J2) : i \in Items(l.done)
      <4>1. j.kind # "restore"
        BY <1>1, <1>7, <3>1 DEF HostInv, Answering, Ans
      <4>2. j.kind \in Kinds
        BY <1>7, <4>1 DEF Jobs
      <4> QED
        BY <1>10, <2>2, <3>1, <4>2
    <3> QED
      BY <1>1, <3>1
  <2>4. \A l \in RemovalsOf(jobs) : \A i \in Items(l.done) :
          \E m \in RemovalsOf(J2) : i \in Items(m.done)
    <3>1. Items(j.done) \subseteq Items(k.done)
      BY <1>10
    <3> QED
      BY <2>2, <3>1
  <2> HIDE DEF J2
  <2>5. Accounted(Out, Ans', J2, sessions, trash, lost)
    <3>1. \A i \in Trashed(Out) \ Trashed(Out) :
            i \in lost \/ \E a \in Ans' : a.ok /\ a.by = i.by /\ a.value = i
      OBVIOUS
    <3> QED
      BY <2>1, <2>3, <2>4, <3>1, AccountedMoves
  <2> QED
    BY <1>1, <1>3, <1>9, <1>11, <2>5
<1> QED
  BY <1>11, <1>12, <1>15, <1>16, <1>17, <1>19, <1>20, <1>21 DEF HostInv, In, Out, Ans, SeenNow

LEMMA ResumeKeeps ==
    ASSUME HostInv, Resume
    PROVE  HostInv'
<1>1. Head(settled).by.who \in {"scan", "plan", "delete", "job"}
  BY Hears DEF Answers, Bys
<1> QED
  BY <1>1, ScanHeard, PlanHeard, DeleteHeard, JobHeard

-----------------------------------------------------------------------------
(* Handlers going on.                                                      *)

LEMMA HandlerGoesOn ==
    ASSUME HostInv, NEW j \in jobs, NEW k \in Jobs, Like(k, j), k.done = j.done,
           j.kind = "restore" => k.todo = j.todo,
           jobs' = (jobs \ {j}) \cup {k},
           UNCHANGED <<sessions, plans, trash, lost, issued, isScanning>>,
           HostTyped', Orderly(pending, settled, inbox, outbox)',
           By("job", k.id) \in Awaiting' <=> k.waiting,
           \A b \in Awaiting' : b \in Awaiting \/ b = By("job", k.id),
           \A b \in Awaiting : b \in Awaiting',
           Out' = Out, Ans' = Ans,
           Answering(In, Out, Ans, jobs, trash)', Fresh(In, SeenNow, jobs, issued)'
    PROVE  HostInv'
<1> DEFINE J2 == (jobs \ {j}) \cup {k}
<1>1. /\ \A i, l \in jobs : i.id = l.id => i = l
      /\ j.id <= issued
  BY DEF HostInv, IdsNameOne
<1>2. k.id = j.id /\ k.plan = j.plan /\ k.kind = j.kind
  BY DEF Like
<1>3. Listening(Awaiting, jobs, issued, isScanning)'
  <2>1. Listening(Awaiting, jobs, issued, isScanning)
    BY DEF HostInv
  <2>2. By("scan", 0) \in Awaiting' <=> isScanning
    BY <2>1 DEF Listening, By
  <2>3. \A b \in Awaiting : b.who = "job" => b \in Awaiting' \/ b = By("job", k.id)
    OBVIOUS
  <2>4. Listening(Awaiting', J2, issued, isScanning)
    BY <1>1, <2>1, <2>2, <2>3, ListeningReplaces
  <2> QED
    BY <2>4
<1>4. IdsNameOne(jobs, sessions, plans, issued)'
  <2>1. IdsNameOne(J2, sessions, plans, issued)
    BY IdsReplace DEF HostInv
  <2> QED
    BY <2>1
<1>5. NoneMissed(jobs, sessions, trash)'
  <2>1. NoneMissed(jobs, sessions, trash)
    BY DEF HostInv
  <2>2. CASE j \in RestoresOf(jobs)
    <3>1. k.todo = j.todo
      BY <2>2 DEF RestoresOf
    <3>2. Len(k.done) + Len(k.todo) = Len(j.done) + Len(j.todo)
      BY <3>1
    <3>3. \A i \in Items(j.todo) : i \in Items(k.todo) \/ i \notin trash
      BY <3>1
    <3>4. jobs \subseteq Jobs /\ sessions \subseteq Sessions
      BY InvFacts
    <3>5. NoneMissed(J2, sessions, trash)
      BY <1>2, <2>1, <2>2, <3>2, <3>3, <3>4, MissedGoesOn
    <3> QED
      BY <3>5
  <2>3. CASE j \notin RestoresOf(jobs)
    <3>1. RestoresOf(J2) \subseteq RestoresOf(jobs)
      BY <1>2, <2>3 DEF RestoresOf
    <3>2. NoneMissed(J2, sessions, trash)
      BY <2>1, <3>1, MissedFewer
    <3> QED
      BY <3>2
  <2> QED
    BY <2>2, <2>3
<1>6. Accounted(Out, Ans, jobs, sessions, trash, lost)'
  <2>1. Accounted(Out, Ans, jobs, sessions, trash, lost)
    BY DEF HostInv, Out, Ans
  <2>2. \A l \in RemovalsOf(jobs) : l \in RemovalsOf(J2) \/ (l = j /\ k \in RemovalsOf(J2))
    BY <1>2 DEF RemovalsOf
  <2>3. \A l \in RemovalsOf(jobs) : \A i \in Items(l.done) :
          \E m \in RemovalsOf(J2) : i \in Items(m.done)
    BY <2>2
  <2>4. Accounted(Out, Ans, J2, sessions, trash, lost)
    BY <2>1, <2>3 DEF Accounted
  <2> QED
    BY <2>4
<1> QED
  BY <1>3, <1>4, <1>5, <1>6 DEF HostInv, In, Out, Ans, SeenNow

LEMMA Continues ==
    ASSUME HostInv, Continue
    PROVE  /\ settled = <<>> /\ settled' = <<>> /\ Ans' = Ans
           /\ UNCHANGED <<there, trash, isScanning, scanPending, timer, analysis, scanFailed,
                          lost, issued>>
           /\ Orderly(pending, settled', inbox, outbox)
           /\ \A j \in jobs : ~j.waiting => By("job", j.id) \notin Awaiting
BY DEF Continue, disk, scans, result, HostInv, Listening, Ans

\* A candidate the last scan does not know is not asked for.
LEMMA UnknownKeeps ==
    ASSUME HostInv, Continue, NEW j \in jobs, ~j.waiting, NextFile(j), Unknown(j)
    PROVE  HostInv'
<1>1. /\ settled = <<>> /\ settled' = <<>> /\ Ans' = Ans
      /\ UNCHANGED <<there, trash, isScanning, scanPending, timer, analysis, scanFailed,
                     lost, issued>>
      /\ Orderly(pending, settled', inbox, outbox)
      /\ By("job", j.id) \notin Awaiting
  BY Continues
<1> DEFINE k == [j EXCEPT !.todo = IF j.partial THEN Tail(@) ELSE <<>>]
           t == IF j.partial THEN Tail(j.todo) ELSE <<>>
           J2 == (jobs \ {j}) \cup {k}
<1>2. /\ j.todo # <<>> /\ jobs' = J2 /\ SendNothing
      /\ UNCHANGED <<plans, sessions>>
  BY DEF NextFile
<1>3. /\ jobs \subseteq Jobs /\ issued \in Nat /\ SeenNow \cup Asked(In) \subseteq TrashItems
      /\ Named(In, Out, Ans) \subseteq Awaiting
  BY InvFacts
<1>4. /\ j.id \in Nat /\ j.kind = "resolution" /\ j.plan \in Nat
      /\ j.keep \in Assets \cup {None} /\ j.todo \in Seq(Assets) /\ IsInjective(j.todo)
      /\ j.done \in Seq(TrashItems) /\ j.partial \in BOOLEAN /\ j.known \in SUBSET Assets
      /\ j.waiting = FALSE
      /\ j = [id |-> j.id, kind |-> j.kind, plan |-> j.plan, keep |-> j.keep, todo |-> j.todo,
              done |-> j.done, partial |-> j.partial, known |-> j.known, waiting |-> j.waiting]
  BY <1>3 DEF Unknown, Jobs, Kinds
<1>5. /\ t \in Seq(Assets) /\ Items(t) \subseteq Items(j.todo) /\ IsInjective(t)
  <2>1. t = Tail(j.todo) \/ t = <<>>
    OBVIOUS
  <2> HIDE DEF t
  <2> QED
    BY <1>2, <1>4, <2>1, TodoShrinks
<1>6. k = [j EXCEPT !.todo = t]
  OBVIOUS
<1> HIDE DEF t, k
<1>7. k = [id |-> j.id, kind |-> j.kind, plan |-> j.plan, keep |-> j.keep, todo |-> t,
           done |-> j.done, partial |-> j.partial, known |-> j.known, waiting |-> FALSE]
  BY <1>4, <1>6
<1>8. /\ k.id = j.id /\ k.plan = j.plan /\ k.kind = "resolution" /\ k.done = j.done
      /\ k.todo = t /\ ~k.waiting
  BY <1>4, <1>7
<1>9. k \in Jobs /\ Like(k, j)
  <2>1. t \in Seq(Assets \cup TrashItems)
    BY <1>5
  <2>2. k \in Jobs
    BY <1>4, <1>5, <1>7, <2>1 DEF Jobs, Kinds
  <2> QED
    BY <1>4, <1>8, <2>2 DEF Like
<1>10. /\ Orderly(pending, settled, inbox, outbox)' /\ DaemonTyped'
       /\ Awaiting' = Awaiting /\ In' = In /\ Out' = Out
  BY <1>1, <1>2, SendNothingShapes DEF Awaiting
<1>11. HostTyped'
  BY <1>1, <1>2, <1>3, <1>9, <1>10 DEF HostInv, HostTyped, DaemonTyped
<1>12. Answering(In, Out, Ans, jobs, trash)'
  <2>1. \A l \in J2 : l \in jobs \/ By("job", l.id) \notin Named(In, Out, Ans)
    BY <1>1, <1>3, <1>8
  <2>2. Answering(In, Out, Ans, J2, trash)
    BY <2>1, AnsweringJobs DEF HostInv, In, Out, Ans
  <2> QED
    BY <1>1, <1>2, <1>10, <2>2
<1>13. /\ \A i, l \in jobs : i.id = l.id => i = l
  BY DEF HostInv, IdsNameOne
<1>14. SeenNow' \subseteq SeenNow
  <2>1. Handled(J2) \subseteq Handled(jobs) \cup {}
    BY <1>5, <1>8, <1>9, <1>13, HandledReplaces
  <2>2. SeenNow' = Recorded(sessions) \cup Handled(J2) \cup ToRestore(In)
                     \cup Replied(Out) \cup Heard(Ans)
    BY <1>1, <1>2, <1>10 DEF SeenNow, Seen
  <2> HIDE DEF J2
  <2> QED
    BY <2>1, <2>2 DEF SeenNow, Seen
<1>15. Fresh(In, SeenNow, jobs, issued)'
  <2> DEFINE seen2 == SeenNow'
  <2>1. Fresh(In, SeenNow, jobs, issued)
    BY DEF HostInv, In, SeenNow, Out, Ans
  <2>2. Asked(In) \cap seen2 = {} /\ seen2 \cup Asked(In) \subseteq SeenNow \cup Asked(In)
    BY <1>14, <2>1 DEF Fresh
  <2>3. Unsent(k) \subseteq Unsent(j)
    BY <1>5, <1>8 DEF Unsent
  <2> HIDE DEF seen2
  <2>4. issued <= issued
    BY <1>3
  <2>5. Fresh(In, seen2, J2, issued)
    BY <1>3, <1>9, <1>13, <2>1, <2>2, <2>3, <2>4, FreshReplaces
  <2> QED
    BY <1>1, <1>2, <1>10, <2>5 DEF seen2
<1>16. j.kind # "restore" /\ (By("job", k.id) \in Awaiting' <=> k.waiting)
  BY <1>1, <1>4, <1>8, <1>10
<1> QED
  BY <1>1, <1>2, <1>8, <1>9, <1>10, <1>11, <1>12, <1>15, <1>16, HandlerGoesOn

LEMMA HeadOnce ==
    ASSUME NEW X, NEW q \in Seq(X), q # <<>>, IsInjective(q)
    PROVE  Head(q) \notin Items(Tail(q))
<1> DEFINE t == Tail(q)
<1>1. /\ 1 \in DOMAIN q /\ Head(q) = q[1]
      /\ \A i \in DOMAIN t : i \in Nat /\ i + 1 \in DOMAIN q /\ i # 0 /\ t[i] = q[i + 1]
  BY TailItems
<1> HIDE DEF t
<1>2. \A i \in DOMAIN t : i + 1 # 1
  BY <1>1
<1>3. Head(q) \notin Items(t)
  BY <1>1, <1>2 DEF Items, IsInjective
<1> QED
  BY <1>3 DEF t

\* The next file is asked for.
LEMMA AsksKeeps ==
    ASSUME HostInv, Continue, NEW j \in jobs, ~j.waiting, NextFile(j), ~Unknown(j)
    PROVE  HostInv'
<1>1. /\ settled = <<>> /\ settled' = <<>> /\ Ans' = Ans
      /\ UNCHANGED <<there, trash, isScanning, scanPending, timer, analysis, scanFailed,
                     lost, issued>>
      /\ Orderly(pending, settled', inbox, outbox)
      /\ By("job", j.id) \notin Awaiting
  BY Continues
<1> DEFINE k == [j EXCEPT !.waiting = TRUE]
           J2 == (jobs \ {j}) \cup {k}
           op == IF j.kind = "restore" THEN "restore" ELSE "trash"
           by == By("job", j.id)
           f == Head(j.todo)
           r == Request(op, f, by)
           i == Item(f, r)
<1>2. /\ j.todo # <<>> /\ jobs' = J2 /\ Send(op, f, by)
      /\ UNCHANGED <<plans, sessions>>
  BY DEF NextFile
<1>3. /\ jobs \subseteq Jobs /\ issued \in Nat /\ SeenNow \cup Asked(In) \subseteq TrashItems
      /\ Named(In, Out, Ans) \subseteq Awaiting
  BY InvFacts
<1>4. /\ j.id \in Nat /\ j.kind \in Kinds \cup {"restore"} /\ j.plan \in Nat
      /\ j.keep \in Assets \cup {None} /\ j.todo \in Seq(Assets \cup TrashItems)
      /\ j.done \in Seq(TrashItems) /\ j.partial \in BOOLEAN /\ j.known \in SUBSET Assets
      /\ j.kind \in Kinds => j.todo \in Seq(Assets) /\ IsInjective(j.todo)
      /\ j.kind = "restore" => j.todo \in Seq(TrashItems)
      /\ j = [id |-> j.id, kind |-> j.kind, plan |-> j.plan, keep |-> j.keep, todo |-> j.todo,
              done |-> j.done, partial |-> j.partial, known |-> j.known, waiting |-> j.waiting]
  BY <1>3 DEF Jobs
<1>5. k = [id |-> j.id, kind |-> j.kind, plan |-> j.plan, keep |-> j.keep, todo |-> j.todo,
           done |-> j.done, partial |-> j.partial, known |-> j.known, waiting |-> TRUE]
  <2>1. j = [id |-> j.id, kind |-> j.kind, plan |-> j.plan, keep |-> j.keep, todo |-> j.todo,
             done |-> j.done, partial |-> j.partial, known |-> j.known, waiting |-> j.waiting]
    BY <1>4
  <2>2. k = [j EXCEPT !.waiting = TRUE]
    OBVIOUS
  <2> HIDE DEF k
  <2> QED
    BY <2>1, <2>2
<1> HIDE DEF k
<1>6. /\ k.id = j.id /\ k.plan = j.plan /\ k.kind = j.kind /\ k.done = j.done
      /\ k.todo = j.todo /\ k.waiting
  BY <1>5
<1>7. k \in Jobs /\ Like(k, j)
  <2>1. k \in Jobs
    BY <1>2, <1>4, <1>5 DEF Jobs
  <2> QED
    BY <1>6, <2>1 DEF Like
<1>8. /\ by \in Bys /\ by.who = "job" /\ by.job = j.id
      /\ op \in {"trash", "restore"} /\ (op = "restore" <=> j.kind = "restore")
  BY <1>4 DEF By, Bys
<1>9. f \in Items(j.todo) /\ Items(j.todo) = {f} \cup Items(Tail(j.todo))
      /\ (op = "trash" => f \in Assets /\ f \notin Items(Tail(j.todo)))
      /\ (op = "restore" => f \in TrashItems)
  <2>1. Items(j.todo) = {f} \cup Items(Tail(j.todo))
    BY <1>2, <1>4, TailItems
  <2>2. op = "trash" => j.kind \in Kinds
    BY <1>4
  <2>3. op = "trash" => f \in Assets /\ f \notin Items(Tail(j.todo))
    BY <1>2, <1>4, <2>2, HeadOnce, TailItems
  <2>4. op = "restore" => f \in TrashItems
    BY <1>2, <1>4, <1>8, TailItems
  <2> QED
    BY <2>1, <2>3, <2>4
<1>10. r.op = op /\ r.arg = f /\ r.by = by /\ ~r.late
  BY RequestFields
<1>11. i = WouldBe(f, j) /\ i.by = by
  BY <1>10 DEF Item, WouldBe
<1> HIDE DEF op, by, f, i
<1>12. r \in Requests
  BY <1>8, <1>9 DEF Request, Requests, Fits, Ops, Values
<1>13. \A l, m \in jobs : l.id = m.id => l = m
  BY DEF HostInv, IdsNameOne
<1>14. Fresh(In, SeenNow, jobs, issued) /\ j.id <= issued
  BY DEF HostInv, In, SeenNow, Out, Ans, IdsNameOne
<1>15. op = "trash" => i \notin SeenNow \cup Asked(In)
  <2>1. op = "trash" => j \in RemovalsOf(jobs)
    BY <1>4, <1>8 DEF RemovalsOf
  <2>2. f \in Unsent(j)
    BY <1>9 DEF Unsent
  <2> QED
    BY <1>11, <1>14, <2>1, <2>2 DEF Fresh
<1>16. /\ Orderly(pending, settled, inbox, outbox)' /\ DaemonTyped'
       /\ Awaiting' = Awaiting \cup {by}
       /\ In' \subseteq In \cup {r} /\ Out' = Out
  <2>1. Awaiting = Items(pending) \cup Items(Askers(settled'))
    BY <1>1 DEF Awaiting
  <2>2. by \notin Items(pending) \cup Items(Askers(settled'))
    BY <1>1, <2>1 DEF by
  <2>3. op = "trash" => Item(f, Request(op, f, by)) \notin Asked(In)
    BY <1>15 DEF i
  <2> QED
    BY <1>1, <1>2, <1>8, <1>12, <2>1, <2>2, <2>3, SendShapes
<1> HIDE DEF r
<1>17. HostTyped'
  BY <1>1, <1>2, <1>3, <1>7, <1>16 DEF HostInv, HostTyped, DaemonTyped
<1>18. Answering(In, Out, Ans, jobs, trash)'
  <2>1. \A l \in J2 : l \in jobs \/ By("job", l.id) \notin Named(In, Out, Ans)
    BY <1>1, <1>3, <1>6
  <2>2. Answering(In, Out, Ans, J2, trash)
    BY <2>1, AnsweringJobs DEF HostInv, In, Out, Ans
  <2>3. \A l \in J2 : l.id = k.id => l = k
    BY <1>7, <1>13, Replaces
  <2>4. k \in J2
    OBVIOUS
  <2> HIDE DEF J2
  <2>5. /\ r.by = By("job", k.id) /\ r.arg = Head(k.todo)
        /\ r.op = "restore" <=> k.kind = "restore"
    BY <1>6, <1>8, <1>10 DEF by, f
  <2>6. Answering(In \cup {r}, Out, Ans, J2, trash)
    BY <2>2, <2>3, <2>4, <2>5, AnsweringAsks
  <2>7. Answering(In', Out, Ans, J2, trash)
    BY <1>16, <2>6 DEF Answering
  <2> QED
    BY <1>1, <1>2, <1>16, <2>7
<1>19. SeenNow' \subseteq SeenNow
  <2>1. Handled(J2) \subseteq Handled(jobs) \cup {}
    BY <1>6, <1>7, <1>13, HandledReplaces
  <2>2. ToRestore(In') \subseteq ToRestore(In) \cup Handled(jobs)
    <3>1. op = "restore" => f \in Handled(jobs)
      BY <1>8, <1>9, HandledItems DEF RestoresOf
    <3> QED
      BY <1>10, <1>16, <3>1 DEF ToRestore
  <2>3. SeenNow' = Recorded(sessions) \cup Handled(J2) \cup ToRestore(In')
                     \cup Replied(Out) \cup Heard(Ans)
    BY <1>1, <1>2, <1>16 DEF SeenNow, Seen
  <2>4. SeenNow = Recorded(sessions) \cup Handled(jobs) \cup ToRestore(In)
                     \cup Replied(Out) \cup Heard(Ans)
    BY DEF SeenNow, Seen
  <2> HIDE DEF J2
  <2> QED
    BY <2>1, <2>2, <2>3, <2>4
<1>20. Fresh(In, SeenNow, jobs, issued)'
  <2> DEFINE seen2 == SeenNow'
             in2 == In'
  <2>1. Asked(In) \cap seen2 = {} /\ seen2 \cup Asked(In) \subseteq SeenNow \cup Asked(In)
    BY <1>14, <1>19 DEF Fresh
  <2>2. k.kind \in Kinds => Unsent(k) \subseteq Unsent(j)
    BY <1>6, <1>9 DEF Unsent
  <2>3. issued <= issued /\ i.by.job <= issued
    BY <1>3, <1>8, <1>11, <1>14
  <2>4. /\ \A x \in Asked(in2) : x \in Asked(In) \/ (op = "trash" /\ x = i)
    BY <1>10, <1>16 DEF Asked, i, r, Item
  <2>5. seen2 \cup Asked(In) \subseteq TrashItems
    BY <1>3, <2>1
  <2> HIDE DEF seen2, in2
  <2>6. Fresh(In, seen2, J2, issued)
    BY <1>3, <1>7, <1>13, <1>14, <2>1, <2>2, <2>3, FreshReplaces
  <2>7. CASE op = "trash"
    <3>1. i \notin seen2
      BY <1>15, <1>19, <2>7 DEF seen2
    <3>2. ASSUME NEW l \in RemovalsOf(J2), NEW a \in Unsent(l) PROVE WouldBe(a, l) # i
      <4>0. l \in J2
        BY DEF RemovalsOf
      <4>1. l = k \/ (l \in jobs /\ l # j /\ l.id # k.id)
        BY <1>7, <1>13, <4>0, Replaces
      <4>2. CASE l = k
        <5>1. a # f
          BY <1>6, <1>9, <2>7, <3>2, <4>2 DEF Unsent
        <5> QED
          BY <1>11, <5>1 DEF WouldBe
      <4>3. CASE l.id # k.id
        BY <1>6, <1>11, <4>3 DEF WouldBe, By
      <4> QED
        BY <4>1, <4>2, <4>3
    <3>3. Asked(in2) \subseteq Asked(In) \cup {i}
      BY <2>4
    <3>4. \A l \in RemovalsOf(J2) : \A a \in Unsent(l) : WouldBe(a, l) # i
      BY <3>2
    <3> HIDE DEF J2
    <3>5. Fresh(in2, seen2, J2, issued)
      BY <1>3, <2>3, <2>5, <2>6, <3>1, <3>3, <3>4, FreshAsks
    <3> QED
      BY <1>1, <1>2, <3>5 DEF in2, seen2, J2
  <2>8. CASE op # "trash"
    <3>1. Asked(in2) \subseteq Asked(In)
      BY <2>4, <2>8
    <3>2. Fresh(in2, seen2, J2, issued)
      BY <2>6, <3>1 DEF Fresh
    <3> QED
      BY <1>1, <1>2, <3>2 DEF in2, seen2
  <2> QED
    BY <2>7, <2>8
<1>21. /\ By("job", k.id) \in Awaiting' <=> k.waiting
       /\ \A b \in Awaiting' : b \in Awaiting \/ b = By("job", k.id)
       /\ \A b \in Awaiting : b \in Awaiting'
  BY <1>6, <1>16 DEF by
<1> QED
  BY <1>1, <1>2, <1>6, <1>7, <1>16, <1>17, <1>18, <1>20, <1>21, HandlerGoesOn

-----------------------------------------------------------------------------
(* Handlers that end.                                                      *)
LEMMA HandlerLeaves ==
    ASSUME HostInv, Continue, NEW j \in jobs, ~j.waiting, jobs' = jobs \ {j}, SendNothing,
           plans' \subseteq plans, sessions' \subseteq Sessions,
           Recorded(sessions') \subseteq Recorded(sessions) \cup Items(j.done),
           IdsNameOne(jobs \ {j}, sessions', plans, issued),
           NoneMissed(jobs \ {j}, sessions', trash),
           Accounted(Out, Ans, jobs \ {j}, sessions', trash, lost)
    PROVE  HostInv'
<1> DEFINE J2 == jobs \ {j}
<1>1. /\ settled = <<>> /\ settled' = <<>> /\ Ans' = Ans
      /\ UNCHANGED <<there, trash, isScanning, scanPending, timer, analysis, scanFailed,
                     lost, issued>>
      /\ Orderly(pending, settled', inbox, outbox)
      /\ By("job", j.id) \notin Awaiting
  BY Continues
<1>2. /\ jobs \subseteq Jobs /\ issued \in Nat /\ SeenNow \cup Asked(In) \subseteq TrashItems
      /\ Awaiting \subseteq Bys
  BY InvFacts
<1>3. /\ Orderly(pending, settled, inbox, outbox)' /\ DaemonTyped'
      /\ Awaiting' = Awaiting /\ In' = In /\ Out' = Out
  BY <1>1, SendNothingShapes DEF Awaiting
<1>4. HostTyped'
  BY <1>1, <1>2, <1>3 DEF HostInv, HostTyped, DaemonTyped
<1>5. Listening(Awaiting, jobs, issued, isScanning)'
  <2>1. Listening(Awaiting, jobs, issued, isScanning)
    BY DEF HostInv
  <2>2. ASSUME NEW b \in Awaiting, b.who = "job" PROVE \E l \in J2 : l.id = b.job
    <3>1. PICK l \in jobs : l.id = b.job
      BY <2>1, <2>2 DEF Listening
    <3>2. b = By("job", l.id)
      BY <1>2, <2>2, <3>1 DEF By, Bys
    <3> QED
      BY <1>1, <3>1, <3>2
  <2>3. Listening(Awaiting, J2, issued, isScanning)
    BY <2>1, <2>2 DEF Listening
  <2> QED
    BY <1>1, <1>3, <2>3
<1>6. IdsNameOne(jobs, sessions, plans, issued)'
  <2>1. IdsNameOne(J2, sessions', plans', issued)
    BY IdsFewer
  <2> QED
    BY <1>1, <2>1
<1>7. Answering(In, Out, Ans, jobs, trash)'
  <2>1. \A l \in J2 : l \in jobs \/ By("job", l.id) \notin Named(In, Out, Ans)
    OBVIOUS
  <2>2. Answering(In, Out, Ans, J2, trash)
    BY <2>1, AnsweringJobs DEF HostInv, In, Out, Ans
  <2> QED
    BY <1>1, <1>3, <2>2
<1>8. SeenNow' \subseteq SeenNow
  <2>1. Handled(J2) \subseteq Handled(jobs) /\ Items(j.done) \subseteq Handled(jobs)
    <3>1. \A l \in RestoresOf(J2) : l \in RestoresOf(jobs)
      BY DEF RestoresOf
    <3>2. \A x \in Handled(J2) : x \in Handled(jobs)
      BY <3>1, HandledItems
    <3>3. \A x \in Items(j.done) : x \in Handled(jobs)
      BY HandledItems
    <3> QED
      BY <3>2, <3>3
  <2>2. SeenNow' = Recorded(sessions') \cup Handled(J2) \cup ToRestore(In)
                     \cup Replied(Out) \cup Heard(Ans)
    BY <1>1, <1>3 DEF SeenNow, Seen
  <2>3. SeenNow = Recorded(sessions) \cup Handled(jobs) \cup ToRestore(In)
                     \cup Replied(Out) \cup Heard(Ans)
    BY DEF SeenNow, Seen
  <2> HIDE DEF J2
  <2> QED
    BY <2>1, <2>2, <2>3
<1>9. Fresh(In, SeenNow, jobs, issued)'
  <2> DEFINE seen2 == SeenNow'
  <2>1. Fresh(In, SeenNow, jobs, issued)
    BY DEF HostInv, In, SeenNow, Out, Ans
  <2>2. Asked(In) \cap seen2 = {} /\ seen2 \cup Asked(In) \subseteq SeenNow \cup Asked(In)
    BY <1>8, <2>1 DEF Fresh
  <2>3. \A l \in RemovalsOf(J2) : l \in RemovalsOf(jobs)
    BY DEF RemovalsOf
  <2>4. \A i \in seen2 \cup Asked(In) : i.by.job <= issued
    BY <2>1, <2>2 DEF Fresh
  <2>5. \A l \in RemovalsOf(J2) : \A a \in Unsent(l) : WouldBe(a, l) \notin seen2 \cup Asked(In)
    BY <2>1, <2>2, <2>3 DEF Fresh
  <2> HIDE DEF seen2
  <2>6. Fresh(In, seen2, J2, issued)
    BY <2>2, <2>4, <2>5 DEF Fresh
  <2> QED
    BY <1>1, <1>3, <2>6 DEF seen2
<1>10. NoneMissed(jobs, sessions, trash)' /\ Accounted(Out, Ans, jobs, sessions, trash, lost)'
  BY <1>1, <1>3
<1> QED
  BY <1>3, <1>4, <1>5, <1>6, <1>7, <1>9, <1>10 DEF HostInv, In, Out, Ans, SeenNow

\* A removal that moved anything leaves a session behind.
LEMMA RemovalEndKeeps ==
    ASSUME HostInv, Continue, NEW j \in jobs, ~j.waiting, RemovalEnds(j)
    PROVE  HostInv'
<1> DEFINE t == [id |-> j.id, keep |-> j.keep, items |-> j.done]
           J2 == jobs \ {j}
<1>1. /\ jobs' = J2 /\ SendNothing /\ j \in RemovalsOf(jobs)
      /\ plans' \subseteq plans
      /\ sessions' = (IF j.done = <<>> THEN sessions ELSE sessions \cup {t})
  BY DEF RemovalEnds, RemovalsOf
<1>2. jobs \subseteq Jobs /\ sessions \subseteq Sessions
  BY InvFacts
<1>3. t \in Sessions /\ t.id = j.id /\ t.items = j.done
  BY <1>2 DEF Sessions, Jobs
<1> HIDE DEF t
<1>4. /\ \A s \in sessions' : s \in sessions \/ s = t
      /\ sessions \subseteq sessions' /\ sessions' \subseteq Sessions
  BY <1>1, <1>2, <1>3
<1>5. \A x \in Items(j.done) : x \in Recorded(sessions')
  <2>1. CASE j.done = <<>>
    BY <2>1, NoItems
  <2>2. CASE j.done # <<>>
    BY <1>1, <1>3, <2>2 DEF Recorded
  <2> QED
    BY <2>1, <2>2
<1>6. Recorded(sessions') \subseteq Recorded(sessions) \cup Items(j.done)
      /\ \A x \in Recorded(sessions) : x \in Recorded(sessions')
  <2>1. \A x \in Recorded(sessions') : x \in Recorded(sessions) \cup Items(j.done)
    BY <1>3, <1>4, RecordedItems
  <2> QED
    BY <1>4, <2>1 DEF Recorded
<1>7. IdsNameOne(J2, sessions', plans, issued)
  <2>1. IdsNameOne(J2, sessions \cup {t}, plans, issued)
    BY <1>1, <1>3, IdsSession DEF HostInv
  <2> QED
    BY <1>1, <2>1, IdsFewer
<1>8. NoneMissed(J2, sessions', trash)
  <2>1. RestoresOf(J2) \subseteq RestoresOf(jobs)
    BY DEF RestoresOf
  <2>2. \A k \in RestoresOf(J2) : k.plan # t.id
    BY <1>1, <1>3, <2>1 DEF HostInv, IdsNameOne
  <2>3. \A s \in sessions' : s \in sessions \/ \A k \in RestoresOf(J2) : k.plan # s.id
    BY <1>4, <2>2
  <2>4. NoneMissed(jobs, sessions, trash)
    BY DEF HostInv
  <2> HIDE DEF J2
  <2> QED
    BY <2>1, <2>3, <2>4, MissedFewer
<1>9. Accounted(Out, Ans, J2, sessions', trash, lost)
  <2>1. Accounted(Out, Ans, jobs, sessions, trash, lost)
    BY DEF HostInv, Out, Ans
  <2>2. \A l \in RemovalsOf(jobs) : \A x \in Items(l.done) :
          x \in Recorded(sessions') \/ \E k \in RemovalsOf(J2) : x \in Items(k.done)
    BY <1>5 DEF RemovalsOf
  <2> HIDE DEF J2
  <2> QED
    BY <1>6, <2>1, <2>2 DEF Accounted
<1> QED
  BY <1>1, <1>4, <1>6, <1>7, <1>8, <1>9, HandlerLeaves

\* A session goes when the restore that ends missed nothing of it.
LEMMA NothingLeft ==
    ASSUME HostInv, NEW j \in jobs, RestoreEnds(j), NEW s \in sessions \ sessions'
    PROVE  Items(s.items) \cap trash = {}
<1>1. /\ j.todo = <<>> /\ j \in RestoresOf(jobs) /\ s.id = j.plan /\ Len(j.done) = Len(s.items)
  BY DEF RestoreEnds, RestoresOf
<1>2. Len(j.done) + Len(j.todo) = Len(s.items)
  <2>1. Len(j.todo) = 0 /\ Len(j.done) \in Nat
    BY <1>1, InvFacts DEF Jobs
  <2> QED
    BY <1>1, <2>1
<1>3. \A i \in Items(s.items) : i \in Items(j.todo) \/ i \notin trash
  BY <1>1, <1>2 DEF HostInv, NoneMissed
<1> QED
  BY <1>1, <1>3, NoItems

LEMMA RestoreEndKeeps ==
    ASSUME HostInv, Continue, NEW j \in jobs, ~j.waiting, RestoreEnds(j)
    PROVE  HostInv'
<1> DEFINE J2 == jobs \ {j}
<1>1. /\ jobs' = J2 /\ SendNothing /\ j \in RestoresOf(jobs) /\ j.kind = "restore"
      /\ plans' = plans
      /\ sessions' \subseteq sessions
  BY DEF RestoreEnds, RestoresOf
<1>2. jobs \subseteq Jobs /\ sessions \subseteq Sessions
  BY InvFacts
<1>3. \A x \in Recorded(sessions) : x \in Recorded(sessions') \/ x \notin trash
  <2>1. ASSUME NEW x \in Recorded(sessions), x \notin Recorded(sessions') PROVE x \notin trash
    <3>1. PICK s \in sessions : x \in Items(s.items)
      BY RecordedItems
    <3>2. s \notin sessions'
      BY <2>1, <3>1, RecordedItems
    <3> QED
      BY <3>1, <3>2, NothingLeft
  <2> QED
    BY <2>1
<1>4. Recorded(sessions') \subseteq Recorded(sessions) \cup Items(j.done)
  BY <1>1 DEF Recorded
<1>5. IdsNameOne(J2, sessions', plans, issued)
  BY <1>1, IdsFewer DEF HostInv
<1>6. NoneMissed(J2, sessions', trash)
  <2>1. RestoresOf(J2) \subseteq RestoresOf(jobs)
    BY DEF RestoresOf
  <2> QED
    BY <1>1, <2>1, MissedFewer DEF HostInv
<1>7. Accounted(Out, Ans, J2, sessions', trash, lost)
  <2>1. Accounted(Out, Ans, jobs, sessions, trash, lost)
    BY DEF HostInv, Out, Ans
  <2>2. \A l \in RemovalsOf(jobs) : l \in RemovalsOf(J2)
    BY <1>1 DEF RemovalsOf, Kinds
  <2> HIDE DEF J2
  <2> QED
    BY <1>3, <2>1, <2>2 DEF Accounted
<1> QED
  BY <1>1, <1>2, <1>4, <1>5, <1>6, <1>7, HandlerLeaves

LEMMA ContinueKeeps ==
    ASSUME HostInv, Continue
    PROVE  HostInv'
<1>1. PICK j \in jobs : ~j.waiting /\ (NextFile(j) \/ RemovalEnds(j) \/ RestoreEnds(j))
  BY DEF Continue
<1> QED
  BY <1>1, UnknownKeeps, AsksKeeps, RemovalEndKeeps, RestoreEndKeeps

-----------------------------------------------------------------------------
(* Handlers that begin.                                                    *)
LEMMA HandlerBegins ==
    ASSUME HostInv, NEW j \in Jobs, j.id = issued + 1, ~j.waiting, j.done = <<>>,
           j.plan <= issued, j.kind = "restore" => Items(j.todo) \subseteq Recorded(sessions),
           j.kind = "restore" => \A i \in RemovalsOf(jobs) : i.id # j.plan,
           NoneMissed(jobs \cup {j}, sessions, trash),
           jobs' = jobs \cup {j}, issued' = issued + 1,
           UNCHANGED <<there, trash, process, scanned, inbox, outbox, pending, settled,
                       isScanning, scanPending, timer, analysis, scanFailed, plans, sessions,
                       lost>>
    PROVE  HostInv'
<1> DEFINE J2 == jobs \cup {j}
<1>1. /\ jobs \subseteq Jobs /\ issued \in Nat /\ SeenNow \cup Asked(In) \subseteq TrashItems
      /\ Awaiting \subseteq Bys /\ Named(In, Out, Ans) \subseteq Awaiting
      /\ sessions \subseteq Sessions /\ plans \subseteq Plans
  BY InvFacts
<1>2. Awaiting' = Awaiting /\ In' = In /\ Out' = Out /\ Ans' = Ans
  BY DEF Awaiting, In, Out, Ans
<1>3. HostTyped'
  BY <1>1 DEF HostInv, HostTyped
<1>4. Orderly(pending, settled, inbox, outbox)'
  BY DEF HostInv
<1>5. By("job", j.id) \notin Awaiting
  <2>1. \A b \in Awaiting : b.job <= issued
    BY DEF HostInv, Listening
  <2>2. By("job", j.id).job = issued + 1
    BY DEF By
  <2> QED
    BY <1>1, <2>1, <2>2
<1>6. Listening(Awaiting, jobs, issued, isScanning)'
  <2>1. Listening(Awaiting, jobs, issued, isScanning)
    BY DEF HostInv
  <2>2. \A b \in Awaiting : b.job <= issued + 1
    <3>1. \A b \in Awaiting : b.job \in Nat /\ b.job <= issued
      BY <1>1, <2>1 DEF Bys, Listening
    <3> QED
      BY <1>1, <3>1
  <2>3. \A b \in Awaiting : b.who = "job" => \E l \in J2 : l.id = b.job
    BY <2>1 DEF Listening
  <2>4. \A l \in J2 : By("job", l.id) \in Awaiting <=> l.waiting
    BY <1>5, <2>1 DEF Listening
  <2>5. Listening(Awaiting, J2, issued + 1, isScanning)
    BY <2>1, <2>2, <2>3, <2>4 DEF Listening
  <2> QED
    BY <1>2, <2>5
<1>7. IdsNameOne(jobs, sessions, plans, issued)'
  <2>1. j.plan \in Nat
    BY DEF Jobs
  <2>2. IdsNameOne(J2, sessions, plans, issued + 1)
    BY <1>1, <2>1, IdsHandler DEF HostInv
  <2> QED
    BY <2>2
<1>8. Answering(In, Out, Ans, jobs, trash)'
  <2>1. \A l \in J2 : l \in jobs \/ By("job", l.id) \notin Named(In, Out, Ans)
    BY <1>1, <1>5
  <2>2. Answering(In, Out, Ans, J2, trash)
    BY <2>1, AnsweringJobs DEF HostInv, In, Out, Ans
  <2> QED
    BY <1>2, <2>2
<1>9. SeenNow' = SeenNow
  <2>1. Handled(J2) \subseteq Handled(jobs) \cup Recorded(sessions)
    <3>1. ASSUME NEW x \in Handled(J2), x \notin Handled(jobs) PROVE x \in Recorded(sessions)
      <4>1. CASE \E l \in J2 : x \in Items(l.done)
        <5>1. PICK l \in J2 : x \in Items(l.done)
          BY <4>1
        <5>2. l \in jobs
          BY <5>1, NoItems
        <5> QED
          BY <3>1, <5>1, <5>2, HandledItems
      <4>2. CASE \E l \in RestoresOf(J2) : x \in Items(l.todo)
        <5>1. PICK l \in RestoresOf(J2) : x \in Items(l.todo)
          BY <4>2
        <5>2. l \in RestoresOf(jobs) \/ (l = j /\ j.kind = "restore")
          BY DEF RestoresOf
        <5> QED
          BY <3>1, <5>1, <5>2, HandledItems
      <4> QED
        BY <3>1, <4>1, <4>2, HandledItems
    <3> QED
      BY <3>1
  <2>2. Handled(jobs) \subseteq Handled(J2)
    <3>1. \A l \in RestoresOf(jobs) : l \in RestoresOf(J2)
      BY DEF RestoresOf
    <3>2. \A x \in Handled(jobs) : x \in Handled(J2)
      BY <3>1, HandledItems
    <3> QED
      BY <3>2
  <2>3. SeenNow' = Recorded(sessions) \cup Handled(J2) \cup ToRestore(In)
                     \cup Replied(Out) \cup Heard(Ans)
    BY <1>2 DEF SeenNow, Seen
  <2>4. SeenNow = Recorded(sessions) \cup Handled(jobs) \cup ToRestore(In)
                     \cup Replied(Out) \cup Heard(Ans)
    BY DEF SeenNow, Seen
  <2> HIDE DEF J2
  <2> QED
    BY <2>1, <2>2, <2>3, <2>4
<1>10. Fresh(In, SeenNow, jobs, issued)'
  <2>1. Fresh(In, SeenNow, jobs, issued)
    BY DEF HostInv, In, SeenNow, Out, Ans
  <2>2. Fresh(In, SeenNow, J2, issued + 1)
    BY <1>1, <2>1, FreshHandler
  <2> QED
    BY <1>2, <1>9, <2>2
<1>11. Accounted(Out, Ans, jobs, sessions, trash, lost)'
  <2>1. Accounted(Out, Ans, jobs, sessions, trash, lost)
    BY DEF HostInv, Out, Ans
  <2>2. RemovalsOf(jobs) \subseteq RemovalsOf(J2)
    BY DEF RemovalsOf
  <2> HIDE DEF J2
  <2>3. Accounted(Out, Ans, J2, sessions, trash, lost)
    BY <2>1, <2>2 DEF Accounted
  <2> QED
    BY <1>2, <2>3 DEF J2
<1> QED
  BY <1>3, <1>4, <1>6, <1>7, <1>8, <1>10, <1>11 DEF HostInv, In, Out, Ans, SeenNow

LEMMA ApplyKeeps ==
    ASSUME HostInv, Apply
    PROVE  HostInv'
<1>1. /\ UNCHANGED <<there, trash, process, scanned, inbox, outbox, pending, settled,
                     isScanning, scanPending, timer, analysis, scanFailed, plans, sessions,
                     lost>>
      /\ issued' = issued + 1
  BY DEF Apply, disk, daemon, client, scans, result
<1>2. PICK p \in plans, partial \in BOOLEAN :
        jobs' = jobs \cup {Job(p, IF p.refusals = {} \/ partial THEN p.targets ELSE <<>>, partial)}
  BY DEF Apply
<1> DEFINE t == IF p.refusals = {} \/ partial THEN p.targets ELSE <<>>
           j == Job(p, t, partial)
<1>3. /\ issued \in Nat /\ plans \subseteq Plans /\ jobs \subseteq Jobs /\ analysis \subseteq Assets
  BY InvFacts DEF HostInv, HostTyped
<1>4. /\ p.id \in Nat /\ p.kind \in Kinds /\ p.keep \in Assets \cup {None}
      /\ p.targets \in Seq(Assets) /\ IsInjective(p.targets) /\ p.id <= issued
  <2>1. p \in Plans
    BY <1>3
  <2> QED
    BY <2>1 DEF Plans, HostInv, IdsNameOne
<1>5. t \in Seq(Assets) /\ IsInjective(t)
  BY <1>4, NoItems
<1> HIDE DEF t
<1>6. /\ j.id = issued + 1 /\ j.kind = p.kind /\ j.plan = p.id /\ j.todo = t
      /\ j.done = <<>> /\ j.waiting = FALSE
      /\ j = [id |-> issued + 1, kind |-> p.kind, plan |-> p.id, keep |-> p.keep, todo |-> t,
              done |-> <<>>, partial |-> partial, known |-> analysis, waiting |-> FALSE]
  BY DEF Job
<1>7. j.kind # "restore" /\ p.kind \in Kinds \cup {"restore"} /\ p.kind # "restore"
  BY <1>4, <1>6 DEF Kinds
<1>8. jobs' = jobs \cup {j}
  BY <1>2 DEF t
<1> HIDE DEF j
<1>9. j \in Jobs
  <2>1. t \in Seq(Assets \cup TrashItems) /\ <<>> \in Seq(TrashItems) /\ issued + 1 \in Nat
    BY <1>3, <1>5
  <2> QED
    BY <1>3, <1>4, <1>5, <1>6, <1>7, <2>1 DEF Jobs
<1>10. NoneMissed(jobs \cup {j}, sessions, trash)
  <2>1. RestoresOf(jobs \cup {j}) \subseteq RestoresOf(jobs)
    BY <1>7 DEF RestoresOf
  <2> QED
    BY <2>1, MissedFewer DEF HostInv
<1>11. j.plan <= issued /\ ~j.waiting
  BY <1>4, <1>6
<1> QED
  BY <1>1, <1>6, <1>7, <1>8, <1>9, <1>10, <1>11, HandlerBegins

LEMMA RestoreKeeps ==
    ASSUME HostInv, RestoreSession
    PROVE  HostInv'
<1>1. /\ UNCHANGED <<there, trash, process, scanned, inbox, outbox, pending, settled,
                     isScanning, scanPending, timer, analysis, scanFailed, plans, sessions,
                     lost>>
      /\ issued' = issued + 1
  BY DEF RestoreSession, disk, daemon, client, scans, result
<1>2. PICK s \in sessions :
        jobs' = jobs \cup {[Job([kind |-> "restore", id |-> s.id, keep |-> None], s.items, TRUE)
                             EXCEPT !.known = {}]}
  BY DEF RestoreSession
<1> DEFINE t == s.items
           j == [Job([kind |-> "restore", id |-> s.id, keep |-> None], s.items, TRUE)
                    EXCEPT !.known = {}]
<1>3. /\ issued \in Nat /\ sessions \subseteq Sessions /\ jobs \subseteq Jobs
  BY InvFacts
<1>4. /\ s.id \in Nat /\ t \in Seq(TrashItems) /\ s.id <= issued
      /\ \A r \in sessions : r.id = s.id => r = s
      /\ \A i \in RemovalsOf(jobs) : i.id # s.id
  BY <1>3 DEF Sessions, HostInv, IdsNameOne
<1>5. j = [id |-> issued + 1, kind |-> "restore", plan |-> s.id, keep |-> None, todo |-> t,
           done |-> <<>>, partial |-> TRUE, known |-> {}, waiting |-> FALSE]
  <2> DEFINE p == [kind |-> "restore", id |-> s.id, keep |-> None]
             b == Job(p, t, TRUE)
  <2>1. b = [id |-> issued + 1, kind |-> "restore", plan |-> s.id, keep |-> None, todo |-> t,
             done |-> <<>>, partial |-> TRUE, known |-> analysis, waiting |-> FALSE]
    BY DEF Job
  <2>2. j = [b EXCEPT !.known = {}]
    OBVIOUS
  <2> HIDE DEF b, j, t
  <2> QED
    BY <2>1, <2>2
<1>6. jobs' = jobs \cup {j}
  BY <1>2
<1> HIDE DEF j, t
<1>7. /\ j.id = issued + 1 /\ j.kind = "restore" /\ j.plan = s.id /\ j.todo = t
      /\ j.done = <<>> /\ j.waiting = FALSE
  BY <1>5
<1>8. j \in Jobs
  <2>1. t \in Seq(Assets \cup TrashItems) /\ <<>> \in Seq(TrashItems) /\ issued + 1 \in Nat
    BY <1>3, <1>4
  <2>2. "restore" \notin Kinds
    BY DEF Kinds
  <2> QED
    BY <1>4, <1>5, <2>1, <2>2 DEF Jobs
<1>9. NoneMissed(jobs \cup {j}, sessions, trash)
  <2>1. NoneMissed(jobs, sessions, trash)
    BY DEF HostInv
  <2>2. j.todo = s.items
    BY <1>7 DEF t
  <2> QED
    BY <1>3, <1>4, <1>7, <2>1, <2>2, MissedBegins
<1>10. Items(j.todo) \subseteq Recorded(sessions)
  BY <1>7, RecordedItems DEF t
<1>11. j.plan <= issued /\ ~j.waiting /\ \A i \in RemovalsOf(jobs) : i.id # j.plan
  BY <1>4, <1>7
<1> QED
  BY <1>1, <1>6, <1>7, <1>8, <1>9, <1>10, <1>11, HandlerBegins

-----------------------------------------------------------------------------
(* A window that opens: the first, and one after a reload.                 *)
LEMMA Opens ==
    /\ Orderly(<<By("scan", 0)>>, <<>>, <<ScanRequest>>, <<>>)
    /\ Items(<<By("scan", 0)>>) = {By("scan", 0)} /\ Items(<<ScanRequest>>) = {ScanRequest}
    /\ Items(<<>>) = {} /\ Items(Askers(<<>>)) = {}
    /\ \A n \in Nat : Listening({By("scan", 0)}, {}, n, TRUE)
    /\ \A T : Answering({ScanRequest}, {}, {}, {}, T)
    /\ \A S : Seen({ScanRequest}, {}, {}, {}, S) = Recorded(S)
    /\ Asked({ScanRequest}) = {}
    /\ RemovalsOf({}) = {} /\ RestoresOf({}) = {}
<1> DEFINE b == By("scan", 0)
           r == ScanRequest
<1>1. b \in Bys /\ b.who = "scan" /\ b.job = 0 /\ r \in Requests /\ r.op = "scan" /\ r.by = b
      /\ ~r.late
  BY ScanRequestType DEF ScanRequest, Request
<1> HIDE DEF b, r
<1>2. /\ <<b>> \in Seq(Bys) /\ Items(<<b>>) = {b} /\ IsInjective(<<b>>)
      /\ <<r>> \in Seq(Requests) /\ Items(<<r>>) = {r}
      /\ DOMAIN <<r>> = {1} /\ <<r>>[1] = r
  BY <1>1, OneItem
<1>3. Items(<<>>) = {} /\ Items(Askers(<<>>)) = {} /\ DOMAIN Askers(<<>>) = {}
  BY AwaitingNone DEF Askers
<1>4. Orderly(<<b>>, <<>>, <<r>>, <<>>)
  <2>1. IsInjective(Askers(<<>>))
    BY <1>3 DEF IsInjective
  <2>2. Once(<<r>>) /\ AskedOnce(<<r>>) /\ Once(<<>>)
    BY <1>2 DEF Once, AskedOnce
  <2>3. Live(<<r>>) = {b} /\ Live(<<>>) = {}
    BY <1>1, <1>2, <1>3 DEF Live
  <2>4. <<>> \in Seq(Answers) /\ <<>> \in Seq(Replies)
    BY NoItems
  <2> QED
    BY <1>2, <1>3, <2>1, <2>2, <2>3, <2>4 DEF Orderly
<1>5. \A n \in Nat : Listening({b}, {}, n, TRUE)
  BY <1>1 DEF Listening, b
<1>6. \A T : Answering({r}, {}, {}, {}, T)
  BY DEF Answering
<1>7. Asked({r}) = {} /\ ToRestore({r}) = {} /\ Replied({}) = {} /\ Heard({}) = {}
  BY <1>1 DEF Asked, ToRestore, Replied, Heard
<1>8. RemovalsOf({}) = {} /\ RestoresOf({}) = {}
  BY DEF RemovalsOf, RestoresOf
<1>9. Handled({}) = {}
  <2>1. \A x : x \notin Handled({})
    BY <1>8, HandledItems
  <2> QED
    BY <2>1
<1>10. \A S : Seen({r}, {}, {}, {}, S) = Recorded(S)
  BY <1>7, <1>9 DEF Seen
<1> QED
  BY <1>2, <1>3, <1>4, <1>5, <1>6, <1>7, <1>8, <1>10 DEF b, r

LEMMA ReloadKeeps ==
    ASSUME HostInv, Reload
    PROVE  HostInv'
<1>1. /\ settled = <<>> /\ settled' = <<>>
      /\ lost' = lost \cup TrashedIn(outbox) \cup UNION {Items(j.done) : j \in Removals}
      /\ plans' = {} /\ jobs' = {} /\ analysis' = {} /\ scanFailed' = FALSE
      /\ timer' = FALSE /\ isScanning' = TRUE /\ scanPending' = FALSE
      /\ pending' = <<By("scan", 0)>> /\ inbox' = <<ScanRequest>>
      /\ process' = "up" /\ scanned' = FALSE /\ outbox' = <<>>
      /\ UNCHANGED <<there, trash, sessions, issued>>
  BY DEF Reload, AtRest, disk, ScanRequest
<1>2. In' = {ScanRequest} /\ Out' = {} /\ Ans' = {} /\ Ans = {} /\ Awaiting' = {By("scan", 0)}
  BY <1>1, Opens DEF In, Out, Ans, Awaiting
<1>3. /\ jobs \subseteq Jobs /\ sessions \subseteq Sessions /\ issued \in Nat
      /\ outbox \in Seq(Replies) /\ Out \subseteq Replies
  BY InvFacts
<1> DEFINE gone == UNION {Items(j.done) : j \in Removals}
<1>4. /\ TrashedIn(outbox) = Trashed(Out)
      /\ lost' = lost \cup Trashed(Out) \cup gone
      /\ \A x : x \in gone <=> \E j \in RemovalsOf(jobs) : x \in Items(j.done)
  BY <1>1, <1>3, TrashedInItems DEF Out, Removals, RemovalsOf
<1> HIDE DEF gone
<1>5. lost' \subseteq TrashItems
  <2>1. Trashed(Out) \subseteq TrashItems
    BY <1>3 DEF Trashed, Replies
  <2>2. \A j \in RemovalsOf(jobs) : Items(j.done) \subseteq TrashItems
    BY <1>3, ItemsTyped DEF RemovalsOf, Jobs
  <2>3. gone \subseteq TrashItems
    BY <1>4, <2>2
  <2> QED
    BY <1>4, <2>1, <2>3 DEF HostInv, HostTyped
<1>6. HostTyped'
  BY <1>1, <1>3, <1>5 DEF HostInv, HostTyped
<1>7. Orderly(pending, settled, inbox, outbox)'
  BY <1>1, Opens
<1>8. Listening(Awaiting, jobs, issued, isScanning)'
  BY <1>1, <1>2, <1>3, Opens
<1>9. IdsNameOne(jobs, sessions, plans, issued)'
  <2>1. IdsNameOne({}, sessions, {}, issued)
    BY IdsFewer DEF HostInv
  <2> QED
    BY <1>1, <2>1
<1>10. Answering(In, Out, Ans, jobs, trash)'
  BY <1>1, <1>2, Opens
<1>11. Fresh(In, SeenNow, jobs, issued)'
  <2>1. \A i \in Recorded(sessions) : i.by.job <= issued
    BY DEF HostInv, Fresh, Seen
  <2>2. SeenNow' = Recorded(sessions)
    BY <1>1, <1>2, Opens DEF SeenNow
  <2>3. Fresh({ScanRequest}, Recorded(sessions), {}, issued)
    BY <2>1, Opens DEF Fresh
  <2> QED
    BY <1>1, <1>2, <2>2, <2>3
<1>12. NoneMissed(jobs, sessions, trash)'
  BY <1>1, Opens DEF NoneMissed
<1>13. Accounted(Out, Ans, jobs, sessions, trash, lost)'
  <2>1. Accounted(Out, Ans, jobs, sessions, trash, lost)
    BY DEF HostInv, Out, Ans
  <2>2. \A i \in trash \ lost' : i.by.who = "delete" \/ i \in Recorded(sessions)
    BY <1>2, <1>4, <2>1 DEF Accounted
  <2> QED
    BY <1>1, <2>2 DEF Accounted
<1> QED
  BY <1>6, <1>7, <1>8, <1>9, <1>10, <1>11, <1>12, <1>13 DEF HostInv, In, Out, Ans, SeenNow

LEMMA HostInit == Init => HostInv
<1> SUFFICES ASSUME Init PROVE HostInv
  OBVIOUS
<1>1. /\ there = Assets /\ trash = {} /\ process = "up" /\ scanned = FALSE /\ outbox = <<>>
      /\ pending = <<By("scan", 0)>> /\ inbox = <<ScanRequest>> /\ settled = <<>> /\ issued = 0
      /\ isScanning = TRUE /\ scanPending = FALSE /\ timer = FALSE
      /\ analysis = {} /\ scanFailed = FALSE
      /\ plans = {} /\ jobs = {} /\ sessions = {} /\ lost = {}
  BY DEF Init, ScanRequest
<1>2. In = {ScanRequest} /\ Out = {} /\ Ans = {} /\ Awaiting = {By("scan", 0)}
  BY <1>1, Opens DEF In, Out, Ans, Awaiting
<1>3. HostTyped
  BY <1>1 DEF HostTyped
<1>4. Orderly(pending, settled, inbox, outbox) /\ Listening(Awaiting, jobs, issued, isScanning)
      /\ Answering(In, Out, Ans, jobs, trash)
  BY <1>1, <1>2, Opens
<1>5. IdsNameOne(jobs, sessions, plans, issued)
  BY <1>1, Opens DEF IdsNameOne
<1>6. Fresh(In, SeenNow, jobs, issued)
  <2>1. Recorded({}) = {}
    BY DEF Recorded
  <2>2. SeenNow = {}
    BY <1>1, <1>2, <2>1, Opens DEF SeenNow
  <2> QED
    BY <1>1, <1>2, <2>2, Opens DEF Fresh
<1>7. NoneMissed(jobs, sessions, trash) /\ Accounted(Out, Ans, jobs, sessions, trash, lost)
  BY <1>1 DEF NoneMissed, Accounted
<1> QED
  BY <1>3, <1>4, <1>5, <1>6, <1>7 DEF HostInv, In, Out, Ans, SeenNow

LEMMA StutterKeeps ==
    ASSUME HostInv, UNCHANGED vars
    PROVE  HostInv'
<1>1. UNCHANGED <<there, trash, process, scanned, inbox, outbox, pending, settled, isScanning,
                  scanPending, timer, analysis, scanFailed, plans, jobs, sessions, lost, issued>>
  BY DEF vars, disk, daemon, client, scans, result, bridge, count
<1>2. HostTyped'
  BY <1>1 DEF HostInv, HostTyped
<1>3. Awaiting' = Awaiting
  BY <1>1 DEF Awaiting
<1> QED
  BY <1>1, <1>2, <1>3 DEF HostInv

LEMMA HostStep ==
    ASSUME HostInv, [Next]_vars
    PROVE  HostInv'
<1>1. CASE User
  BY <1>1, EditKeeps, ScansKeep, DeleteKeeps, SelectKeeps, PreviewKeeps, ApplyKeeps, RestoreKeeps
     DEF User
<1>2. CASE Host
  <2>1. CASE Deliver
    BY <2>1, DeliverLate, DeliverInTime
  <2> QED
    BY <1>2, <2>1, TimeoutKeeps, ExitKeeps, ScansKeep, ResumeKeeps, ContinueKeeps DEF Host
<1>3. CASE Serve \/ Kill \/ Reload
  BY <1>3, ServeKeeps, KillKeeps, ReloadKeeps
<1>4. CASE UNCHANGED vars
  BY <1>4, StutterKeeps
<1> QED
  BY <1>1, <1>2, <1>3, <1>4 DEF Next

LEMMA HostInvariant == Spec => []HostInv
BY HostInit, HostStep, PTL DEF Spec

-----------------------------------------------------------------------------
(* The watcher.                                                            *)

\* There is none only while the first scan runs, and then it has nothing to tell.
WatcherTyped ==
  /\ watching \in BOOLEAN /\ missed \subseteq Assets
  /\ ~watching => isScanning /\ ~timer

LEMMA Reports ==
    ASSUME WatcherTyped, NEW a \in Assets, Report(a), watching' = watching,
           isScanning' = isScanning
    PROVE  WatcherTyped'
BY DEF WatcherTyped, Report

LEMMA ServeWatched ==
    ASSUME HostInv, WatcherTyped, Serve
    PROVE  WatcherTyped'
<1> DEFINE r == Head(inbox)
<1>1. Serves(r) /\ watching' = watching /\ isScanning' = isScanning
  BY DEF Serve, scans
<1>2. r \in Requests
  BY InvFacts, TailItems DEF Serve
<1> HIDE DEF r
<1>3. \/ UNCHANGED timer /\ missed' = {}
      \/ UNCHANGED <<timer, missed>>
      \/ r.arg \in there /\ Report(r.arg)
      \/ r.op = "restore" /\ Report(r.arg.asset)
  BY <1>1 DEF Serves, Move
<1>4. r.op = "restore" => r.arg.asset \in Assets
  BY <1>2 DEF Requests, TrashItems
<1>5. there \subseteq Assets
  BY DEF HostInv, HostTyped
<1> QED
  BY <1>1, <1>3, <1>4, <1>5, Reports DEF WatcherTyped

LEMMA ResumeWatched ==
    ASSUME HostInv, WatcherTyped, Resume
    PROVE  WatcherTyped'
<1> DEFINE s == Head(settled)
<1>1. s.by.who \in {"scan", "plan", "delete", "job"}
  BY Hears DEF Answers, Bys
<1>2. UNCHANGED <<timer, missed>>
  BY DEF Resume
<1>3. \/ isScanning' = isScanning /\ watching' = watching
      \/ watching' = TRUE
      \/ isScanning' = TRUE /\ watching' = watching
  BY <1>1 DEF Resume, ScanReturns, PlanArrives, DeleteReturns, JobAdvances, ScanWorkspace, scans
<1> QED
  BY <1>2, <1>3 DEF WatcherTyped

LEMMA WatcherStep ==
    ASSUME HostInv, WatcherTyped, [Next]_vars
    PROVE  WatcherTyped'
<1>1. CASE Serve \/ Resume
  BY <1>1, ServeWatched, ResumeWatched
<1>2. CASE EditFiles
  <2>1. PICK a \in Assets : Report(a)
    BY <1>2 DEF EditFiles
  <2> QED
    BY <1>2, <2>1, Reports DEF EditFiles, scans
<1>3. CASE TimerFires \/ Refresh
  BY <1>3 DEF TimerFires, Refresh, ScanWorkspace, watcher, WatcherTyped
<1>4. CASE Reload
  BY <1>4 DEF Reload, WatcherTyped
<1>5. CASE DeleteAsset \/ SelectCopy \/ PreviewCleanup \/ Apply \/ Dismiss \/ RestoreSession
  <2>1. UNCHANGED <<scans, timer, watcher>>
    <3>1. CASE DeleteAsset
      BY <3>1 DEF DeleteAsset
    <3>2. CASE SelectCopy
      BY <3>2 DEF SelectCopy
    <3>3. CASE PreviewCleanup
      BY <3>3 DEF PreviewCleanup
    <3>4. CASE Apply
      BY <3>4 DEF Apply
    <3>5. CASE Dismiss
      BY <3>5 DEF Dismiss
    <3>6. CASE RestoreSession
      BY <3>6 DEF RestoreSession
    <3> QED
      BY <1>5, <3>1, <3>2, <3>3, <3>4, <3>5, <3>6
  <2> QED
    BY <2>1 DEF scans, watcher, WatcherTyped
<1>6. CASE Deliver \/ Timeout \/ ExitEvent \/ Continue \/ Kill \/ UNCHANGED vars
  BY <1>6 DEF Deliver, Timeout, ExitEvent, Continue, Kill, vars, scans, watcher, WatcherTyped
<1> QED
  BY <1>1, <1>2, <1>3, <1>4, <1>5, <1>6 DEF Next, User, Host

LEMMA WatcherInvariant == Spec => []WatcherTyped
<1>1. Init => WatcherTyped
  BY DEF Init, WatcherTyped
<1> QED
  BY <1>1, WatcherStep, HostInvariant, PTL DEF Spec

-----------------------------------------------------------------------------
(* What follows.                                                           *)

(* The type invariant of the host (HostTypeOK): whoever awaits an answer    *)
(* awaits one, a handler of vscode-host-bridge.ts waits exactly while its   *)
(* request is out, the lock of scanWorkspace is held exactly while a scan   *)
(* is, and only the first scan runs without a watcher; whatever is late,    *)
(* lost, killed or reloaded.                                                *)
THEOREM HostTypeCorrect == Spec => []HostTypeOK
<1>1. ASSUME HostInv, WatcherTyped PROVE HostTypeOK
  <2>1. HostTyped
    BY <1>1 DEF HostInv
  <2>2. \A p \in plans : p.kind \in Kinds /\ Items(p.targets) \subseteq Assets \ {p.keep}
    <3>1. \A p \in Plans : p.kind \in Kinds /\ p.targets \in Seq(Assets) /\ p.keep \notin Items(p.targets)
      BY DEF Plans
    <3>2. \A p \in Plans : Items(p.targets) \subseteq Assets
      BY <3>1, ItemsTyped
    <3> QED
      BY <2>1, <3>1, <3>2 DEF HostTyped
  <2>3. \A j \in jobs : j.kind \in Kinds \cup {"restore"}
    BY <2>1 DEF HostTyped, Jobs
  <2>4. /\ IsInjective(pending) /\ IsInjective(Askers(settled))
        /\ Items(pending) \cap Items(Askers(settled)) = {}
    BY <1>1 DEF HostInv, Orderly
  <2>5. /\ \A j \in jobs : By("job", j.id) \in Awaiting <=> j.waiting
        /\ By("scan", 0) \in Awaiting <=> isScanning
    BY <1>1 DEF HostInv, Listening
  <2> QED
    BY <1>1, <2>1, <2>2, <2>3, <2>4, <2>5 DEF HostTypeOK, HostTyped, WatcherTyped
<1> QED
  BY <1>1, HostInvariant, WatcherInvariant, PTL

(* What a cleanup or a resolution put in .animoria/trash is in a session,   *)
(* with the handler that will record it, or on its way there, unless it was *)
(* lost on the way (RemovalsAccounted): _recordTrashSession after a removal *)
(* that went through or stopped half-way, for any number of files, plans,   *)
(* timeouts and kills.                                                      *)
THEOREM RemovalsAreAccounted == Spec => []RemovalsAccounted
<1>1. ASSUME HostInv PROVE RemovalsAccounted
  <2> SUFFICES ASSUME NEW i \in trash \ lost
               PROVE  \/ i.by.who = "delete"
                      \/ \E s \in sessions : i \in Items(s.items)
                      \/ \E j \in Removals : i \in Items(j.done)
                      \/ i \in TrashedIn(outbox)
                      \/ \E k \in DOMAIN settled :
                            settled[k].ok /\ settled[k].by = i.by /\ settled[k].value = i
    BY DEF RemovalsAccounted
  <2>1. \/ i.by.who = "delete"
        \/ i \in Recorded(sessions)
        \/ \E j \in RemovalsOf(jobs) : i \in Items(j.done)
        \/ i \in Trashed(Items(outbox))
        \/ \E s \in Items(settled) : s.ok /\ s.by = i.by /\ s.value = i
    BY <1>1 DEF HostInv, Accounted
  <2>2. TrashedIn(outbox) = Trashed(Items(outbox))
    BY <1>1, InvFacts, TrashedInItems
  <2>3. RemovalsOf(jobs) = Removals
    BY DEF RemovalsOf, Removals
  <2>4. (\E s \in Items(settled) : s.ok /\ s.by = i.by /\ s.value = i) =>
          \E k \in DOMAIN settled : settled[k].ok /\ settled[k].by = i.by /\ settled[k].value = i
    BY DEF Items
  <2> QED
    BY <2>1, <2>2, <2>3, <2>4, RecordedItems
<1> QED
  BY <1>1, HostInvariant, PTL

(* A session is forgotten only when nothing of it is left in the trash      *)
(* (SessionsKeepTrash): restore-session and _removeTrashSession, with any    *)
(* number of restores of the same session under way.                        *)
THEOREM SessionsKeepTheirTrash == Spec => SessionsKeepTrash
<1>1. ASSUME HostInv, [Next]_vars
      PROVE  \A s \in sessions \ sessions' : Items(s.items) \cap trash' = {}
  <2> SUFFICES ASSUME NEW s \in sessions \ sessions'
               PROVE  Items(s.items) \cap trash' = {}
    OBVIOUS
  <2>1. Continue
    <3>1. sessions' # sessions
      OBVIOUS
    <3>2. ~User
      BY <3>1 DEF User, EditFiles, Refresh, DeleteAsset, SelectCopy, PreviewCleanup, Apply,
                  Dismiss, RestoreSession, bridge
    <3>3. ~Resume
      <4>1. CASE Resume
        <5>1. Head(settled).by.who \in {"scan", "plan", "delete", "job"}
          BY <1>1, <4>1, Hears DEF Answers, Bys
        <5> QED
          BY <3>1, <4>1, <5>1 DEF Resume, ScanReturns, PlanArrives, DeleteReturns, JobAdvances,
                                  bridge
      <4> QED
        BY <4>1
    <3>4. ~(Deliver \/ Timeout \/ ExitEvent \/ TimerFires)
      BY <3>1 DEF Deliver, Timeout, ExitEvent, TimerFires, bridge
    <3>5. ~(Serve \/ Kill \/ Reload \/ UNCHANGED vars)
      BY <3>1 DEF Serve, Kill, Reload, vars, bridge
    <3> QED
      BY <1>1, <3>2, <3>3, <3>4, <3>5 DEF Next, Host
  <2>2. trash' = trash
    BY <2>1 DEF Continue, disk
  <2>3. PICK j \in jobs : ~j.waiting /\ (NextFile(j) \/ RemovalEnds(j) \/ RestoreEnds(j))
    BY <2>1 DEF Continue
  <2>4. RestoreEnds(j)
    BY <2>3 DEF NextFile, RemovalEnds
  <2> QED
    BY <1>1, <2>2, <2>3, <2>4, NothingLeft
<1> QED
  BY <1>1, HostInvariant, PTL DEF Spec, SessionsKeepTrash


=============================================================================
