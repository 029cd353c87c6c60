--------------------------- MODULE AnalysisSafety ---------------------------
(***************************************************************************)
(* More theorems about Analysis: the audit log, the score two roots share, *)
(* and that what a line of code names is not reported unused.              *)
(***************************************************************************)
EXTENDS AnalysisProofs

-----------------------------------------------------------------------------
(* The audit log.  What a sequence of lines holds, one line after another: *)
(* the function in the definition of FlattenSeq is defined on all of them. *)
IsFlat(f, s) == f = [i \in 1 .. Len(s) |-> IF i = 1 THEN s[i] ELSE f[i - 1] \o s[i]]

LEMMA FlatExists ==
  ASSUME NEW X, NEW s \in Seq(Seq(X))
  PROVE  \E f : IsFlat(f, s)
<1> DEFINE Body(g, n) == [i \in 1 .. n |-> IF i = 1 THEN s[i] ELSE g[i - 1] \o s[i]]
           Good(n) == \E g : g = Body(g, n)
           Bad == {n \in 0 .. Len(s) : ~Good(n)}
<1>1. Bad = {}
  <2> SUFFICES ASSUME Bad # {} PROVE FALSE
    OBVIOUS
  <2>1. PICK n \in Bad : \A k \in Bad : n <= k
    <3>1. Bad \subseteq Nat
      <4> HIDE DEF Good
      <4> QED OBVIOUS
    <3> HIDE DEF Bad
    <3> QED BY <3>1, LeastNatural
  <2>2. Good(0)
    <3> DEFINE g == [i \in 1 .. 0 |-> s[i]]
    <3> g = Body(g, 0)
      OBVIOUS
    <3> QED OBVIOUS
  <2>3. n # 0 /\ n \in 1 .. Len(s)
    <3>1. n \in 0 .. Len(s) /\ ~ Good(n)
      OBVIOUS
    <3> HIDE DEF Good, Bad
    <3> QED BY <2>2, <3>1
  <2>4. Good(n - 1)
    <3>1. n - 1 \in 0 .. Len(s) /\ ~ (n <= n - 1)
      BY <2>3
    <3>2. \A k \in 0 .. Len(s) : k \notin Bad => Good(k)
      OBVIOUS
    <3> HIDE DEF Good, Bad
    <3> QED BY <2>1, <3>1, <3>2
  <2>5. PICK g : g = Body(g, n - 1)
    BY <2>4
  <2> DEFINE last == IF n = 1 THEN s[n] ELSE g[n - 1] \o s[n]
             h == [i \in 1 .. n |-> IF i = n THEN last ELSE g[i]]
  <2>6. ASSUME NEW i \in 1 .. n PROVE h[i] = IF i = 1 THEN s[i] ELSE h[i - 1] \o s[i]
    <3>1. CASE i = n
      <4>1. h[i] = last
        BY <3>1
      <4>2. i = 1 \/ h[i - 1] = g[i - 1]
        BY <3>1, <2>3
      <4> HIDE DEF h
      <4> QED BY <3>1, <4>1, <4>2
    <3>2. CASE i # n
      <4>1. i \in 1 .. n - 1
        BY <3>2, <2>3
      <4>2. g[i] = IF i = 1 THEN s[i] ELSE g[i - 1] \o s[i]
        BY <4>1, <2>5
      <4>3. i = 1 \/ h[i - 1] = g[i - 1]
        BY <4>1, <2>3
      <4>4. h[i] = g[i]
        BY <3>2
      <4> HIDE DEF h
      <4> QED BY <4>2, <4>3, <4>4
    <3> QED BY <3>1, <3>2
  <2>7. h = Body(h, n)
    <3> h = [i \in 1 .. n |-> h[i]]
      OBVIOUS
    <3> HIDE DEF h
    <3> QED BY <2>6
  <2>8. Good(n)
    BY <2>7
  <2> QED BY <2>8
<1>2. Good(Len(s))
  <2>1. \A k \in 0 .. Len(s) : k \notin Bad => Good(k)
    OBVIOUS
  <2> HIDE DEF Good, Bad
  <2> QED BY <1>1, <2>1
<1> QED BY <1>2 DEF IsFlat

LEMMA FlatOne ==
  ASSUME NEW X, NEW s \in Seq(Seq(X)), s # <<>>
  PROVE  \E f : IsFlat(f, s) /\ FlattenSeq(s) = f[Len(s)]
<1> DEFINE w == CHOOSE f1 : IsFlat(f1, s)
<1>1. IsFlat(w, s)
  BY FlatExists
<1>2. Len(s) # 0
  OBVIOUS
<1>3. FlattenSeq(s) = w[Len(s)]
  BY <1>2 DEF FlattenSeq, IsFlat
<1> HIDE DEF w
<1> QED BY <1>1, <1>3

LEMMA FlatTyped ==
  ASSUME NEW X, NEW s \in Seq(Seq(X)), NEW f, IsFlat(f, s), NEW m \in 1 .. Len(s)
  PROVE  f[m] \in Seq(X)
<1> DEFINE Wrong == {i \in 1 .. Len(s) : f[i] \notin Seq(X)}
<1>1. Wrong = {}
  <2> SUFFICES ASSUME Wrong # {} PROVE FALSE
    OBVIOUS
  <2>1. PICK n \in Wrong : \A k \in Wrong : n <= k
    <3>1. Wrong \subseteq Nat
      OBVIOUS
    <3> HIDE DEF Wrong
    <3> QED BY <3>1, LeastNatural
  <2>2. f[n] = IF n = 1 THEN s[n] ELSE f[n - 1] \o s[n]
    BY DEF IsFlat
  <2>3. s[n] \in Seq(X)
    OBVIOUS
  <2>4. n # 1
    BY <2>2, <2>3
  <2>5. n - 1 \in 1 .. Len(s) /\ ~ (n <= n - 1)
    BY <2>4
  <2>6. f[n - 1] \in Seq(X)
    BY <2>1, <2>5
  <2>7. f[n] \in Seq(X)
    <3>1. f[n - 1] \o s[n] \in Seq(X)
      BY <2>3, <2>6
    <3> QED BY <2>2, <2>4, <3>1
  <2> QED BY <2>7
<1> QED BY <1>1

LEMMA FlatIsSeq ==
  ASSUME NEW X, NEW s \in Seq(Seq(X))
  PROVE  FlattenSeq(s) \in Seq(X) /\ (s = <<>> => FlattenSeq(s) = <<>>)
<1>1. CASE s = <<>>
  <2>1. FlattenSeq(s) = s
    BY <1>1 DEF FlattenSeq
  <2>2. <<>> \in Seq(X)
    OBVIOUS
  <2> QED BY <1>1, <2>1, <2>2, Zenon
<1>2. CASE s # <<>>
  <2>1. PICK f : IsFlat(f, s) /\ FlattenSeq(s) = f[Len(s)]
    BY <1>2, FlatOne
  <2>2. Len(s) \in 1 .. Len(s)
    BY <1>2
  <2> QED BY <1>2, <2>1, <2>2, FlatTyped
<1> QED BY <1>1, <1>2

(* A line more is what it holds more.                                      *)
LEMMA FlatAppend ==
  ASSUME NEW X, NEW s \in Seq(Seq(X)), NEW x \in Seq(X)
  PROVE  FlattenSeq(Append(s, x)) = FlattenSeq(s) \o x
<1> DEFINE t == Append(s, x)
<1>1. /\ t \in Seq(Seq(X)) /\ t # <<>> /\ Len(t) = Len(s) + 1 /\ t[Len(t)] = x
      /\ \A i \in 1 .. Len(s) : t[i] = s[i]
  <2>1. t \in Seq(Seq(X)) /\ t # <<>> /\ Len(t) = Len(s) + 1
    BY AppendProperties
  <2>2. \A i \in 1 .. Len(s) : t[i] = s[i]
    OBVIOUS
  <2>3. t[Len(s) + 1] = x
    OBVIOUS
  <2> QED BY <2>1, <2>2, <2>3
<1> HIDE DEF t
<1>2. PICK g : IsFlat(g, t) /\ FlattenSeq(t) = g[Len(t)]
  BY <1>1, FlatOne
<1>3. CASE s = <<>>
  <2>1. Len(t) = 1
    BY <1>1, <1>3
  <2>2. g[1] = t[1]
    BY <1>2, <2>1 DEF IsFlat
  <2>3. FlattenSeq(s) = <<>>
    BY <1>3, FlatIsSeq
  <2> QED BY <1>1, <1>2, <2>1, <2>2, <2>3 DEF t
<1>4. CASE s # <<>>
  <2>1. PICK f : IsFlat(f, s) /\ FlattenSeq(s) = f[Len(s)]
    BY <1>4, FlatOne
  <2>2. Len(s) \in Nat /\ Len(s) >= 1
    BY <1>4
  <2> DEFINE Wrong == {i \in 1 .. Len(s) : f[i] # g[i]}
  <2>3. Wrong = {}
    <3> SUFFICES ASSUME Wrong # {} PROVE FALSE
      OBVIOUS
    <3>1. PICK n \in Wrong : \A k \in Wrong : n <= k
      <4>1. Wrong \subseteq Nat
        OBVIOUS
      <4> HIDE DEF Wrong
      <4> QED BY <4>1, LeastNatural
    <3>2. f[n] = IF n = 1 THEN s[n] ELSE f[n - 1] \o s[n]
      BY <2>1 DEF IsFlat
    <3>3. g[n] = IF n = 1 THEN s[n] ELSE g[n - 1] \o s[n]
      <4>1. n \in 1 .. Len(t) /\ t[n] = s[n]
        BY <1>1, <2>2
      <4>2. g[n] = IF n = 1 THEN t[n] ELSE g[n - 1] \o t[n]
        BY <1>2, <4>1 DEF IsFlat
      <4> QED BY <4>1, <4>2
    <3>4. n # 1
      BY <3>2, <3>3
    <3>5. n - 1 \in 1 .. Len(s) /\ ~ (n <= n - 1)
      BY <3>4
    <3>6. f[n - 1] = g[n - 1]
      BY <3>1, <3>5
    <3>7. f[n] = g[n]
      BY <3>2, <3>3, <3>6
    <3> QED BY <3>7
  <2>4. f[Len(s)] = g[Len(s)]
    <3>1. Len(s) \in 1 .. Len(s)
      BY <2>2
    <3> QED BY <2>3, <3>1
  <2>5. g[Len(t)] = g[Len(t) - 1] \o t[Len(t)]
    <3>1. Len(t) \in 1 .. Len(t) /\ Len(t) # 1
      BY <1>1, <2>2
    <3> QED BY <1>2, <3>1 DEF IsFlat
  <2>6. Len(t) - 1 = Len(s)
    BY <1>1, <2>2
  <2> QED BY <1>1, <1>2, <2>1, <2>4, <2>5, <2>6 DEF t
<1> QED BY <1>3, <1>4

IsTail(s, t) ==
  Len(s) <= Len(t) /\ \A i \in 1 .. Len(s) : s[i] = t[Len(t) - Len(s) + i]

LEMMA TailIsSuffix ==
  ASSUME NEW X, NEW s \in Seq(X), NEW t \in Seq(X), IsTail(s, t)
  PROVE  IsSuffix(s, t)
<1> DEFINE a == Reverse(s)
           b == Reverse(t)
<1>1. /\ Len(a) = Len(s) /\ a \in Seq(X)
      /\ \A i \in 1 .. Len(s) : a[i] = s[Len(s) - i + 1]
  BY DEF Reverse
<1>2. /\ Len(b) = Len(t) /\ b \in Seq(X)
      /\ \A i \in 1 .. Len(t) : b[i] = t[Len(t) - i + 1]
  BY DEF Reverse
<1> HIDE DEF a, b
<1>3. Len(s) \in Nat /\ Len(t) \in Nat /\ Len(s) <= Len(t)
  BY DEF IsTail
<1>4. \A i \in 1 .. Len(s) : a[i] = b[i]
  <2> TAKE i \in 1 .. Len(s)
  <2>1. /\ i \in 1 .. Len(t) /\ Len(s) - i + 1 \in 1 .. Len(s)
        /\ Len(t) - Len(s) + (Len(s) - i + 1) = Len(t) - i + 1
    BY <1>3
  <2>2. s[Len(s) - i + 1] = t[Len(t) - i + 1]
    BY <2>1 DEF IsTail
  <2> QED BY <1>1, <1>2, <2>1, <2>2
<1>5. SubSeq(a, 1, Len(a)) = SubSeq(b, 1, Len(a))
  <2> DEFINE p == SubSeq(a, 1, Len(a))
             q == SubSeq(b, 1, Len(a))
  <2>1. p \in Seq(X) /\ Len(p) = Len(s) /\ \A i \in 1 .. Len(s) : p[i] = a[i]
    BY <1>1, <1>3
  <2>2. q \in Seq(X) /\ Len(q) = Len(s) /\ \A i \in 1 .. Len(s) : q[i] = b[i]
    BY <1>1, <1>2, <1>3
  <2> HIDE DEF p, q
  <2>3. p = q
    BY <1>4, <2>1, <2>2, SeqEqual
  <2> QED BY <2>3 DEF p, q
<1> QED BY <1>1, <1>2, <1>3, <1>5 DEF IsSuffix, IsPrefix, a, b

(* Lines hold the newest events; where one holds more than one, a daemon   *)
(* was killed before it ended it, for each.                                *)
Lines  == Seq(Seq(Nat) \ {<<>>})
Single(lines) == {i \in DOMAIN lines : Len(lines[i]) = 1}
Lost(lines) == Len(FlattenSeq(lines)) - Len(lines)

Tells(lines, events) ==
  /\ lines \in Lines /\ IsTail(FlattenSeq(lines), events)
  /\ Lost(lines) >= Len(lines) - Cardinality(Single(lines))
  /\ Cardinality(Single(lines)) <= Len(lines)

LEMMA LinesFacts ==
  ASSUME NEW lines \in Lines
  PROVE  /\ lines \in Seq(Seq(Nat)) /\ FlattenSeq(lines) \in Seq(Nat)
         /\ Len(lines) \in Nat /\ Len(FlattenSeq(lines)) \in Nat /\ Lost(lines) \in Int
         /\ IsFiniteSet(Single(lines)) /\ Cardinality(Single(lines)) \in Nat
         /\ \A i \in 1 .. Len(lines) : lines[i] \in Seq(Nat) /\ lines[i] # <<>>
<1>1. lines \in Seq(Seq(Nat)) /\ Len(lines) \in Nat /\ DOMAIN lines = 1 .. Len(lines)
  BY DEF Lines
<1>2. FlattenSeq(lines) \in Seq(Nat)
  BY <1>1, FlatIsSeq
<1>3. Len(FlattenSeq(lines)) \in Nat
  BY <1>2
<1>4. IsFiniteSet(Single(lines)) /\ Cardinality(Single(lines)) \in Nat
  <2>1. IsFiniteSet(1 .. Len(lines))
    BY <1>1, FS_Interval
  <2>2. Single(lines) \in SUBSET (1 .. Len(lines))
    BY <1>1 DEF Single
  <2> QED BY <2>1, <2>2, FS_Subset, FS_CardinalityType
<1>5. \A i \in 1 .. Len(lines) : lines[i] \in Seq(Nat) /\ lines[i] # <<>>
  BY DEF Lines
<1> QED BY <1>1, <1>2, <1>3, <1>4, <1>5 DEF Lost

LEMMA TailGrows ==
  ASSUME NEW s \in Seq(Nat), NEW t \in Seq(Nat), IsTail(s, t), NEW e \in Nat
  PROVE  IsTail(Append(s, e), Append(t, e))
<1> DEFINE a == Append(s, e)
           b == Append(t, e)
<1>1. /\ Len(a) = Len(s) + 1 /\ a[Len(s) + 1] = e
      /\ \A i \in 1 .. Len(s) : a[i] = s[i]
  OBVIOUS
<1>2. /\ Len(b) = Len(t) + 1 /\ b[Len(t) + 1] = e
      /\ \A i \in 1 .. Len(t) : b[i] = t[i]
  OBVIOUS
<1> HIDE DEF a, b
<1>3. Len(s) \in Nat /\ Len(t) \in Nat /\ Len(s) <= Len(t)
  BY DEF IsTail
<1>4. \A i \in 1 .. Len(s) + 1 : a[i] = b[Len(t) - Len(s) + i]
  <2> TAKE i \in 1 .. Len(s) + 1
  <2>1. CASE i = Len(s) + 1
    <3>1. Len(t) - Len(s) + i = Len(t) + 1
      BY <1>3, <2>1
    <3> QED BY <1>1, <1>2, <2>1, <3>1
  <2>2. CASE i # Len(s) + 1
    <3>1. i \in 1 .. Len(s) /\ Len(t) - Len(s) + i \in 1 .. Len(t)
      BY <1>3, <2>2
    <3>2. s[i] = t[Len(t) - Len(s) + i]
      BY <3>1 DEF IsTail
    <3> QED BY <1>1, <1>2, <3>1, <3>2
  <2> QED BY <2>1, <2>2
<1>5. Len(b) - Len(a) = Len(t) - Len(s) /\ Len(a) <= Len(b)
  BY <1>1, <1>2, <1>3
<1> QED BY <1>1, <1>4, <1>5 DEF IsTail, a, b

(* An event on a line of its own.                                          *)
LEMMA TellsNewLine ==
  ASSUME NEW lines, NEW events \in Seq(Nat), Tells(lines, events), NEW e \in Nat
  PROVE  LET more == Append(lines, <<e>>) IN
         /\ Tells(more, Append(events, e)) /\ Lost(more) = Lost(lines)
         /\ Len(FlattenSeq(more)) = Len(FlattenSeq(lines)) + 1
         /\ Len(more) = Len(lines) + 1
<1> DEFINE more == Append(lines, <<e>>)
           n    == Len(lines)
<1>1. /\ lines \in Lines /\ IsTail(FlattenSeq(lines), events)
      /\ Lost(lines) >= n - Cardinality(Single(lines))
      /\ Cardinality(Single(lines)) <= n
  BY DEF Tells
<1>2. /\ lines \in Seq(Seq(Nat)) /\ FlattenSeq(lines) \in Seq(Nat)
      /\ n \in Nat /\ Len(FlattenSeq(lines)) \in Nat /\ Lost(lines) \in Int
      /\ IsFiniteSet(Single(lines)) /\ Cardinality(Single(lines)) \in Nat
  BY <1>1, LinesFacts
<1>3. PICK one : one = <<e>>
  OBVIOUS
<1>4. one \in Seq(Nat) /\ one # <<>> /\ Len(one) = 1
  BY <1>3
<1>5. /\ Len(more) = n + 1 /\ DOMAIN more = 1 .. n + 1 /\ more[n + 1] = one
      /\ \A i \in 1 .. n : more[i] = lines[i]
  BY <1>1, <1>3, <1>4 DEF Lines
<1>6. more \in Lines
  BY <1>1, <1>3, <1>4 DEF Lines
<1>7. FlattenSeq(more) = Append(FlattenSeq(lines), e)
  <2>1. FlattenSeq(more) = FlattenSeq(lines) \o one
    BY <1>2, <1>3, <1>4, FlatAppend
  <2>2. \A s \in Seq(Nat) : s \o one = Append(s, e)
    BY <1>3
  <2> HIDE DEF more
  <2> QED BY <1>2, <2>1, <2>2
<1> HIDE DEF more, n
<1>8. Len(FlattenSeq(more)) = Len(FlattenSeq(lines)) + 1
  BY <1>2, <1>7
<1>9. Lost(more) = Lost(lines)
  BY <1>2, <1>5, <1>8 DEF Lost, n
<1>10. Single(more) = Single(lines) \cup {n + 1}
  <2>1. DOMAIN lines = 1 .. n
    BY <1>2 DEF n
  <2> QED BY <1>2, <1>4, <1>5, <2>1 DEF Single
<1>11. Cardinality(Single(more)) = Cardinality(Single(lines)) + 1
  <2>1. n + 1 \notin Single(lines)
    BY <1>2 DEF Single, n
  <2> QED BY <1>2, <1>10, <2>1, FS_AddElement
<1>12. IsTail(FlattenSeq(more), Append(events, e))
  BY <1>1, <1>2, <1>7, TailGrows
<1>13. /\ Lost(more) >= Len(more) - Cardinality(Single(more))
       /\ Cardinality(Single(more)) <= Len(more)
  BY <1>1, <1>2, <1>5, <1>9, <1>11
<1>14. Tells(more, Append(events, e))
  BY <1>6, <1>12, <1>13 DEF Tells
<1> QED BY <1>5, <1>8, <1>9, <1>14 DEF more, n

(* An event on a line that was not ended.                                  *)
LEMMA FrontProperties ==
  ASSUME NEW S, NEW s, NEW h \in Nat, \A i \in 1 .. h : s[i] \in S
  PROVE  /\ SubSeq(s, 1, h) \in Seq(S) /\ Len(SubSeq(s, 1, h)) = h
         /\ \A i \in 1 .. h : SubSeq(s, 1, h)[i] = s[i]
<1>1. /\ SubSeq(s, 1, h) \in Seq(S)
      /\ Len(SubSeq(s, 1, h)) = IF 1 <= h THEN h - 1 + 1 ELSE 0
      /\ \A i \in 1 .. h - 1 + 1 : SubSeq(s, 1, h)[i] = s[1 + i - 1]
  <2>1. 1 \in Int /\ h \in Int
    OBVIOUS
  <2> QED BY <2>1, SubSeqProperties
<1>2. h - 1 + 1 = h /\ (1 <= h \/ h = 0) /\ \A i \in 1 .. h : 1 + i - 1 = i
  OBVIOUS
<1> QED BY <1>1, <1>2

LEMMA TellsOnLastLine ==
  ASSUME NEW lines, lines # <<>>, NEW events \in Seq(Nat), Tells(lines, events),
         NEW e \in Nat
  PROVE  LET more == [lines EXCEPT ![Len(lines)] = Append(@, e)] IN
         /\ Tells(more, Append(events, e)) /\ Lost(more) = Lost(lines) + 1
         /\ Len(FlattenSeq(more)) = Len(FlattenSeq(lines)) + 1
         /\ Len(more) = Len(lines)
<1> DEFINE n     == Len(lines)
           front == SubSeq(lines, 1, n - 1)
           last  == lines[n]
           text  == Append(last, e)
           more  == [lines EXCEPT ![n] = text]
<1>1. /\ lines \in Lines /\ IsTail(FlattenSeq(lines), events)
      /\ Lost(lines) >= n - Cardinality(Single(lines))
      /\ Cardinality(Single(lines)) <= n
  BY DEF Tells
<1>2. /\ lines \in Seq(Seq(Nat)) /\ FlattenSeq(lines) \in Seq(Nat)
      /\ n \in Nat /\ Len(FlattenSeq(lines)) \in Nat /\ Lost(lines) \in Int
      /\ IsFiniteSet(Single(lines)) /\ Cardinality(Single(lines)) \in Nat
      /\ \A i \in 1 .. n : lines[i] \in Seq(Nat) /\ lines[i] # <<>>
  BY <1>1, LinesFacts
<1>3. n >= 1 /\ n \in 1 .. n
  BY <1>2
<1>4. last \in Seq(Nat) /\ Len(last) \in Nat /\ Len(last) >= 1
  BY <1>2, <1>3
<1>5. text \in Seq(Nat) /\ text # <<>> /\ Len(text) = Len(last) + 1
  <2> HIDE DEF last
  <2> QED BY <1>4, SMTT(30)
<1>6. front \in Seq(Seq(Nat)) /\ Len(front) = n - 1 /\ \A i \in 1 .. n - 1 : front[i] = lines[i]
  <2>1. \A i \in 1 .. n - 1 : lines[i] \in Seq(Nat)
    BY <1>2
  <2>2. n - 1 \in Nat
    BY <1>2, <1>3
  <2> HIDE DEF n
  <2> QED BY <2>1, <2>2, FrontProperties
<1>7. /\ more \in Lines /\ Len(more) = n /\ more[n] = text
      /\ \A i \in 1 .. n - 1 : more[i] = lines[i]
  <2> HIDE DEF text
  <2> QED BY <1>1, <1>2, <1>3, <1>5 DEF Lines
<1> HIDE DEF n, front, last, text, more
<1>8. lines = Append(front, last)
  <2>1. Append(front, last) \in Seq(Seq(Nat)) /\ Len(Append(front, last)) = n
    BY <1>2, <1>4, <1>6
  <2>2. /\ \A i \in 1 .. n - 1 : Append(front, last)[i] = front[i]
        /\ Append(front, last)[n] = last
    BY <1>2, <1>4, <1>6
  <2>3. \A i \in 1 .. n : i \in 1 .. n - 1 \/ i = n
    BY <1>2
  <2>4. \A i \in 1 .. n : Append(front, last)[i] = lines[i]
    BY <1>6, <2>2, <2>3 DEF last
  <2> QED BY <1>2, <2>1, <2>4, SeqEqual DEF n
<1>9. more = Append(front, text)
  <2>1. Append(front, text) \in Seq(Seq(Nat)) /\ Len(Append(front, text)) = n
    BY <1>2, <1>5, <1>6
  <2>2. \A i \in 1 .. n : Append(front, text)[i] = more[i]
    <3>1. /\ \A i \in 1 .. n - 1 : Append(front, text)[i] = front[i]
          /\ Append(front, text)[n] = text
      BY <1>2, <1>5, <1>6
    <3>2. \A i \in 1 .. n : i \in 1 .. n - 1 \/ i = n
      BY <1>2
    <3> QED BY <1>6, <1>7, <3>1, <3>2
  <2>3. more \in Seq(Seq(Nat))
    BY <1>7, LinesFacts
  <2> QED BY <1>7, <2>1, <2>2, <2>3, SeqEqual
<1>10. FlattenSeq(more) = Append(FlattenSeq(lines), e)
  <2>1. FlattenSeq(lines) = FlattenSeq(front) \o last
    BY <1>4, <1>6, <1>8, FlatAppend
  <2>2. FlattenSeq(more) = FlattenSeq(front) \o text
    BY <1>5, <1>6, <1>9, FlatAppend
  <2>3. FlattenSeq(front) \in Seq(Nat)
    BY <1>6, FlatIsSeq
  <2>4. text = Append(last, e)
    BY DEF text
  <2>5. \A s \in Seq(Nat) : s \o Append(last, e) = Append(s \o last, e)
    BY <1>4
  <2> QED BY <2>1, <2>2, <2>3, <2>4, <2>5
<1>11. Len(FlattenSeq(more)) = Len(FlattenSeq(lines)) + 1
  BY <1>2, <1>10
<1>12. Lost(more) = Lost(lines) + 1
  BY <1>2, <1>7, <1>11 DEF Lost, n
<1>13. Single(more) = Single(lines) \ {n}
  <2>1. DOMAIN lines = 1 .. n /\ DOMAIN more = 1 .. n
    <3>1. more \in Seq(Seq(Nat))
      BY <1>7, LinesFacts
    <3> QED BY <1>2, <1>7, <3>1 DEF n
  <2>2. Len(more[n]) # 1
    <3>1. Len(more[n]) = Len(text)
      BY <1>7, Zenon
    <3>2. Len(text) # 1
      BY <1>4, <1>5
    <3> QED BY <3>1, <3>2, Zenon
  <2>3. \A i \in 1 .. n : i # n => i \in 1 .. n - 1
    BY <1>2
  <2> QED BY <1>7, <2>1, <2>2, <2>3 DEF Single
<1>14. /\ Cardinality(Single(more)) \in Nat
       /\ Cardinality(Single(more)) >= Cardinality(Single(lines)) - 1
       /\ Cardinality(Single(more)) <= Cardinality(Single(lines))
  <2>1. /\ IsFiniteSet(Single(lines) \ {n})
        /\ Cardinality(Single(lines) \ {n}) =
             IF n \in Single(lines) THEN Cardinality(Single(lines)) - 1
             ELSE Cardinality(Single(lines))
    BY <1>2, FS_RemoveElement
  <2>2. Cardinality(Single(lines) \ {n}) \in Nat
    BY <2>1, FS_CardinalityType
  <2> QED BY <1>2, <1>13, <2>1, <2>2
<1>15. IsTail(FlattenSeq(more), Append(events, e))
  BY <1>1, <1>2, <1>10, TailGrows
<1>16. /\ Lost(more) >= Len(more) - Cardinality(Single(more))
       /\ Cardinality(Single(more)) <= Len(more)
  BY <1>1, <1>2, <1>7, <1>12, <1>14
<1>17. Tells(more, Append(events, e))
  BY <1>7, <1>15, <1>16 DEF Tells
<1>18. more = [lines EXCEPT ![Len(lines)] = Append(@, e)]
  BY DEF more, text, last, n
<1> QED BY <1>7, <1>11, <1>12, <1>17, <1>18 DEF n
(* The log and its rotated half, together and the log alone: every line    *)
(* has an event, one more for each daemon killed or write failed, and one  *)
(* more is to come while a line is open and nobody is about to end it.     *)
Cuts == kills + faults

Open == IF history.torn /\ scan.phase # "audited" THEN 1 ELSE 0

LogTells ==
  /\ history.torn \in BOOLEAN
  /\ history.torn => history.log # <<>>
  /\ history.old \in Lines
  /\ Tells(history.log, recorded) /\ Lost(history.log) + Open <= Cuts
  /\ Tells(LogLines, recorded) /\ Lost(LogLines) + Open <= Cuts
  /\ Len(FlattenSeq(LogLines)) = Len(recorded) \/ Len(history.old) > MaxLog

LEMMA AppendOfConcat ==
  ASSUME NEW X, NEW s \in Seq(X), NEW t \in Seq(X), NEW x \in X
  PROVE  s \o Append(t, x) = Append(s \o t, x)
<1> DEFINE a == s \o Append(t, x)
           b == Append(s \o t, x)
<1>1. /\ a \in Seq(X) /\ Len(a) = Len(s) + Len(t) + 1
      /\ b \in Seq(X) /\ Len(b) = Len(s) + Len(t) + 1
  OBVIOUS
<1>2. \A i \in 1 .. Len(s) + Len(t) : a[i] = b[i]
  OBVIOUS
<1>4. a[Len(s) + Len(t) + 1] = x /\ b[Len(s) + Len(t) + 1] = x
  OBVIOUS
<1>5. \A i \in 1 .. Len(s) + Len(t) + 1 :
         i \in 1 .. Len(s) + Len(t) \/ i = Len(s) + Len(t) + 1
  OBVIOUS
<1> HIDE DEF a, b
<1>3. a = b
  BY <1>1, <1>2, <1>4, <1>5, SeqEqual
<1> QED BY <1>3 DEF a, b

LEMMA LastOfConcat ==
  ASSUME NEW X, NEW s \in Seq(X), NEW t \in Seq(X), t # <<>>, NEW x \in X
  PROVE  LET both == s \o t IN
         /\ both[Len(both)] = t[Len(t)]
         /\ s \o [t EXCEPT ![Len(t)] = x] = [both EXCEPT ![Len(both)] = x]
<1> DEFINE both == s \o t
           u    == [t EXCEPT ![Len(t)] = x]
           a    == s \o u
           b    == [both EXCEPT ![Len(both)] = x]
<1>1. Len(s) \in Nat /\ Len(t) \in Nat /\ Len(t) >= 1
  OBVIOUS
<1>2. /\ both \in Seq(X) /\ Len(both) = Len(s) + Len(t)
      /\ \A i \in 1 .. Len(s) : both[i] = s[i]
      /\ \A i \in Len(s) + 1 .. Len(s) + Len(t) : both[i] = t[i - Len(s)]
  OBVIOUS
<1>3. /\ u \in Seq(X) /\ Len(u) = Len(t) /\ u[Len(t)] = x
      /\ \A i \in 1 .. Len(t) - 1 : u[i] = t[i]
  BY <1>1
<1> HIDE DEF u
<1>4. /\ a \in Seq(X) /\ Len(a) = Len(s) + Len(t)
      /\ \A i \in 1 .. Len(s) : a[i] = s[i]
      /\ \A i \in Len(s) + 1 .. Len(s) + Len(t) : a[i] = u[i - Len(s)]
  <2>1. PICK n : n = Len(t)
    OBVIOUS
  <2>2. n \in Nat /\ u \in Seq(X) /\ Len(u) = n
    BY <1>1, <1>3, <2>1
  <2>3. /\ a \in Seq(X) /\ Len(a) = Len(s) + n
        /\ \A i \in 1 .. Len(s) : a[i] = s[i]
        /\ \A i \in Len(s) + 1 .. Len(s) + n : a[i] = u[i - Len(s)]
    BY <2>2
  <2> QED BY <2>1, <2>3, Zenon
<1> HIDE DEF a, both
<1>5. /\ b \in Seq(X) /\ Len(b) = Len(s) + Len(t) /\ b[Len(s) + Len(t)] = x
      /\ \A i \in 1 .. Len(s) + Len(t) - 1 : b[i] = both[i]
  BY <1>1, <1>2
<1> HIDE DEF b
<1>6. ASSUME NEW i \in 1 .. Len(s) + Len(t) PROVE a[i] = b[i]
  <2>1. CASE i \in 1 .. Len(s)
    <3>1. i \in 1 .. Len(s) + Len(t) - 1
      BY <1>1, <2>1
    <3> QED BY <1>2, <1>4, <1>5, <2>1, <3>1
  <2>2. CASE i = Len(s) + Len(t)
    <3>1. i \in Len(s) + 1 .. Len(s) + Len(t) /\ i - Len(s) = Len(t)
      BY <1>1, <2>2
    <3> QED BY <1>3, <1>4, <1>5, <2>2, <3>1
  <2>3. CASE i \notin 1 .. Len(s) /\ i # Len(s) + Len(t)
    <3>1. /\ i \in Len(s) + 1 .. Len(s) + Len(t) /\ i - Len(s) \in 1 .. Len(t) - 1
          /\ i \in 1 .. Len(s) + Len(t) - 1
      BY <1>1, <2>3
    <3> QED BY <1>2, <1>3, <1>4, <1>5, <3>1
  <2> QED BY <2>1, <2>2, <2>3
<1>7. a = b
  BY <1>4, <1>5, <1>6, SeqEqual
<1>8. both[Len(both)] = t[Len(t)]
  <2>1. Len(s) + Len(t) \in Len(s) + 1 .. Len(s) + Len(t) /\ Len(s) + Len(t) - Len(s) = Len(t)
    BY <1>1
  <2> QED BY <1>2, <2>1
<1> QED BY <1>7, <1>8 DEF a, b, u, both

(* A log tells as much when it is rotated.                                 *)
LEMMA NothingTells ==
  ASSUME NEW events \in Seq(Nat)
  PROVE  Tells(<<>>, events) /\ Lost(<<>>) = 0 /\ FlattenSeq(<<>>) = <<>>
<1>1. <<>> \in Seq(Seq(Nat)) /\ <<>> \in Lines
  BY DEF Lines
<1>2. FlattenSeq(<<>>) = <<>>
  BY <1>1, FlatIsSeq
<1>3. Single(<<>>) = {} /\ Cardinality({}) = 0
  BY FS_EmptySet DEF Single
<1>4. Lost(<<>>) = 0
  BY <1>2 DEF Lost
<1>5. IsTail(<<>>, events) /\ Len(<<>>) = 0
  BY DEF IsTail
<1>6. /\ Lost(<<>>) >= Len(<<>>) - Cardinality(Single(<<>>))
      /\ Cardinality(Single(<<>>)) <= Len(<<>>)
  <2>1. Cardinality(Single(<<>>)) = 0
    BY <1>3, Zenon
  <2>2. 0 >= 0 - 0 /\ 0 <= 0
    OBVIOUS
  <2> QED BY <1>4, <1>5, <2>1, <2>2, Zenon
<1>7. Tells(<<>>, events)
  BY <1>1, <1>2, <1>5, <1>6, Zenon DEF Tells
<1> QED BY <1>2, <1>4, <1>7, Zenon

LEMMA RotatedTells ==
  ASSUME LogTells, recorded \in Seq(Nat), Cuts \in Nat,
         NEW h \in {history, Rotated(history)},
         history = [snaps |-> Snaps, log |-> history.log, old |-> history.old,
                    torn |-> history.torn]
  PROVE  LET lines == h.old \o h.log IN
         /\ h = [snaps |-> Snaps, log |-> h.log, old |-> h.old, torn |-> h.torn]
         /\ h.torn \in BOOLEAN /\ (h.torn => h.log # <<>>)
         /\ h.old \in Lines
         /\ Tells(h.log, recorded) /\ Tells(lines, recorded)
         /\ Lost(h.log) <= Cuts /\ Lost(lines) <= Cuts
         /\ h.torn /\ scan.phase # "audited" =>
              Lost(h.log) + 1 <= Cuts /\ Lost(lines) + 1 <= Cuts
         /\ Len(FlattenSeq(lines)) = Len(recorded) \/ Len(h.old) > MaxLog
<1>1. CASE h = history
  <2>1. /\ Lost(history.log) \in Int /\ Lost(LogLines) \in Int
    BY LinesFacts DEF LogTells, Tells
  <2> QED BY <1>1, <2>1 DEF LogTells, LogLines, Open
<1>2. CASE h # history
  <2>1. Len(history.log) > MaxLog
    BY <1>2 DEF Rotated
  <2>2. PICK one : one = [history EXCEPT !.old = history.log]
    OBVIOUS
  <2>3. PICK two : two = [one EXCEPT !.log = <<>>]
    OBVIOUS
  <2>4. h = [two EXCEPT !.torn = FALSE]
    BY <1>2, <2>1, <2>2, <2>3 DEF Rotated
  <2>5. /\ one = [snaps |-> Snaps, log |-> one.log, old |-> one.old, torn |-> one.torn]
        /\ one.old = history.log
    BY <2>2
  <2>6. /\ two = [snaps |-> Snaps, log |-> two.log, old |-> two.old, torn |-> two.torn]
        /\ two.old = history.log /\ two.log = <<>>
    BY <2>3, <2>5
  <2>7. PICK t : t = FALSE
    OBVIOUS
  <2>8. h = [two EXCEPT !.torn = t]
    BY <2>4, <2>7
  <2>9. /\ h = [snaps |-> Snaps, log |-> h.log, old |-> h.old, torn |-> h.torn]
        /\ h.old = history.log /\ h.log = <<>> /\ h.torn = t
    BY <2>6, <2>8
  <2>10. Tells(history.log, recorded) /\ Lost(history.log) + Open <= Cuts
    BY DEF LogTells
  <2>11. history.log \in Lines /\ Lost(history.log) \in Int
    BY <2>10, LinesFacts DEF Tells
  <2>12. Lost(history.log) <= Cuts
    BY <2>10, <2>11 DEF Open
  <2>13. history.log \o <<>> = history.log
    BY <2>11 DEF Lines
  <2>14. Tells(<<>>, recorded) /\ Lost(<<>>) = 0
    BY NothingTells
  <2>15. h.old \o h.log = history.log
    BY <2>9, <2>13
  <2>16. Tells(h.log, recorded) /\ Lost(h.log) = 0
    BY <2>9, <2>14
  <2>17. h.torn = FALSE
    BY <2>7, <2>9
  <2>18. Lost(h.log) <= Cuts /\ Lost(h.old \o h.log) <= Cuts
    BY <2>12, <2>15, <2>16
  <2>19. Len(h.old) > MaxLog
    BY <2>1, <2>9
  <2>20. Tells(h.old \o h.log, recorded) /\ h.old \in Lines
    BY <2>9, <2>10, <2>11, <2>15, Zenon
  <2>21. h.torn \in BOOLEAN /\ ~h.torn
    BY <2>17
  <2> QED BY <2>9, <2>16, <2>18, <2>19, <2>20, <2>21, Zenon
<1> QED BY <1>1, <1>2

(* A write that leaves its line open, as far as the daemon knows, failed.  *)
LEMMA EventAccounts ==
  ASSUME ScanTyped, kills \in Nat, faults \in Nat, WriteAuditEvent
  PROVE  Cuts' \in Nat /\ Open' + Cuts <= Cuts'
<1>1. /\ kills' = kills /\ IsScan
      /\ faults' = faults + 1 \/ (faults' = faults /\ EventWritten(Rotated(history)))
  BY DEF WriteAuditEvent, EventFails, Fails, ScanTyped
<1>2. EventWritten(Rotated(history)) => scan'.phase = "audited"
  BY <1>1 DEF EventWritten, Shape, IsScan
<1>3. Open' \in {0, 1} /\ (scan'.phase = "audited" => Open' = 0)
  BY DEF Open
<1> QED BY <1>1, <1>2, <1>3 DEF Cuts

(* An event is written or lost.                                            *)
LEMMA EventTells ==
  ASSUME ScanTyped, LogTells, recorded \in Seq(Nat), kills \in Nat, faults \in Nat,
         scans \in Nat,
         history = [snaps |-> Snaps, log |-> history.log, old |-> history.old,
                    torn |-> history.torn],
         WriteAuditEvent
  PROVE  LogTells'
<1>1. /\ scan.phase = "snapshotted" /\ Cuts \in Nat
      /\ Cuts' \in Nat /\ Open' \in {0, 1} /\ Open' + Cuts <= Cuts'
  BY EventOutcomes, EventAccounts DEF Cuts, Open
<1>2. PICK h \in {history, Rotated(history)} :
        \/ history' = WithText(h, scans) /\ recorded' = Append(recorded, scans)
        \/ history' = h /\ recorded' = recorded
  BY EventOutcomes
<1> DEFINE lines == h.old \o h.log
<1>3. /\ h = [snaps |-> Snaps, log |-> h.log, old |-> h.old, torn |-> h.torn]
      /\ h.torn \in BOOLEAN /\ (h.torn => h.log # <<>>)
      /\ h.old \in Lines
      /\ Tells(h.log, recorded) /\ Tells(lines, recorded)
      /\ Lost(h.log) <= Cuts /\ Lost(lines) <= Cuts
      /\ h.torn => Lost(h.log) + 1 <= Cuts /\ Lost(lines) + 1 <= Cuts
      /\ Len(FlattenSeq(lines)) = Len(recorded) \/ Len(h.old) > MaxLog
  BY <1>1, <1>2, RotatedTells
<1>6. h.log \in Seq(Seq(Nat)) /\ h.old \in Seq(Seq(Nat))
  BY <1>3, LinesFacts DEF Tells
<1>7. h.log \in Lines /\ lines \in Lines
  BY <1>3 DEF Tells
<1>8. /\ Len(recorded) \in Nat
      /\ recorded' = Append(recorded, scans) => Len(recorded') = Len(recorded) + 1
  OBVIOUS
<1>11. PICK S, old, earlier : S = Seq(Nat) /\ old = h.old /\ earlier = h.log
  OBVIOUS
<1>12. old \in Seq(S) /\ earlier \in Seq(S)
  BY <1>6, <1>11
<1>4. CASE history' = h /\ recorded' = recorded
  <2>1. LogLines' = lines
    BY <1>4 DEF LogLines
  <2>2. Lost(h.log) \in Int /\ Lost(lines) \in Int
    BY <1>7, LinesFacts
  <2>3. Lost(h.log) + Open' <= Cuts' /\ Lost(lines) + Open' <= Cuts'
    BY <1>1, <1>3, <2>2
  <2> HIDE DEF lines
  <2> QED BY <1>3, <1>4, <2>1, <2>3 DEF LogTells
<1>5. ASSUME history' = WithText(h, scans), recorded' = Append(recorded, scans), h.torn
      PROVE  LogTells'
  <2> DEFINE log == [h.log EXCEPT ![Len(h.log)] = Append(@, scans)]
  <2>1. history' = [h EXCEPT !.log = log]
    BY <1>5 DEF WithText
  <2>2. /\ Tells(log, recorded') /\ Lost(log) = Lost(h.log) + 1 /\ Len(log) = Len(h.log)
    BY <1>3, <1>5, TellsOnLastLine
  <2>3. lines # <<>>
    BY <1>3, <1>6, <1>5
  <2>4. PICK more : more = [lines EXCEPT ![Len(lines)] = Append(@, scans)]
    OBVIOUS
  <2>5. /\ Tells(more, recorded') /\ Lost(more) = Lost(lines) + 1
        /\ Len(FlattenSeq(more)) = Len(FlattenSeq(lines)) + 1 /\ Len(more) = Len(lines)
    BY <1>3, <1>5, <2>3, <2>4, TellsOnLastLine
  <2>6. h.old \o log = more
    <3>1. PICK last : last = Append(h.log[Len(h.log)], scans)
      OBVIOUS
    <3>2. last \in Seq(Nat) /\ lines[Len(lines)] = h.log[Len(h.log)]
      <4>1. h.log # <<>> /\ Len(h.log) \in 1 .. Len(h.log)
        BY <1>3, <1>6, <1>5
      <4>2. h.log[Len(h.log)] \in Seq(Nat)
        BY <1>6, <4>1
      <4>3. lines[Len(lines)] = h.log[Len(h.log)]
        <5>1. /\ h.log[Len(h.log)] \in S /\ earlier # <<>>
          BY <1>11, <4>1, <4>2
        <5>2. (old \o earlier)[Len(old \o earlier)] = earlier[Len(earlier)]
          BY <1>12, <5>1, LastOfConcat
        <5> QED BY <1>11, <5>2
      <4> QED BY <3>1, <4>2, <4>3
    <3>3. h.old \o [h.log EXCEPT ![Len(h.log)] = last] = [lines EXCEPT ![Len(lines)] = last]
      <4>1. last \in S /\ earlier # <<>>
        BY <1>3, <1>5, <1>11, <3>2
      <4>2. old \o [earlier EXCEPT ![Len(earlier)] = last]
              = [old \o earlier EXCEPT ![Len(old \o earlier)] = last]
        BY <1>12, <4>1, LastOfConcat
      <4> QED BY <1>11, <4>2
    <3>4. log = [h.log EXCEPT ![Len(h.log)] = last]
      BY <3>1
    <3>5. more = [lines EXCEPT ![Len(lines)] = last]
      BY <2>4, <3>1, <3>2
    <3> HIDE DEF log, lines
    <3> QED BY <3>3, <3>4, <3>5
  <2>7. /\ history'.log = log /\ history'.old = h.old /\ history'.torn = h.torn
    <3> HIDE DEF log
    <3> QED BY <1>3, <2>1
  <2>8. LogLines' = more
    BY <2>6, <2>7 DEF LogLines
  <2>9. log # <<>>
    <3>1. h.log # <<>> /\ Len(h.log) # 0
      BY <1>3, <1>6, <1>5
    <3> QED BY <2>2, <3>1
  <2>10. Lost(h.log) \in Int /\ Lost(lines) \in Int
    BY <1>7, LinesFacts
  <2>11. Lost(log) + Open' <= Cuts' /\ Lost(more) + Open' <= Cuts'
    <3>1. Lost(h.log) + 1 <= Cuts /\ Lost(lines) + 1 <= Cuts
      BY <1>3, <1>5
    <3>2. Lost(log) + Open' <= Lost(h.log) + 1 + Open'
      BY <1>1, <2>2, <2>10
    <3>3. Lost(more) + Open' <= Lost(lines) + 1 + Open'
      BY <1>1, <2>5, <2>10
    <3> HIDE DEF log, lines
    <3> QED BY <1>1, <2>2, <2>5, <2>10, <3>1, <3>2, <3>3
  <2>12. Len(FlattenSeq(more)) = Len(recorded') \/ Len(h.old) > MaxLog
    BY <1>3, <1>5, <1>8, <2>5
  <2> HIDE DEF log, lines
  <2> QED BY <1>3, <1>5, <2>2, <2>5, <2>7, <2>8, <2>9, <2>11, <2>12 DEF LogTells
<1>10. ASSUME history' = WithText(h, scans), recorded' = Append(recorded, scans), ~h.torn
       PROVE  LogTells'
  <2> DEFINE log == Append(h.log, <<scans>>)
  <2>1. PICK one : one = [h EXCEPT !.log = log]
    OBVIOUS
  <2>2. history' = [one EXCEPT !.torn = TRUE]
    BY <1>10, <2>1 DEF WithText
  <2>3. /\ Tells(log, recorded') /\ Lost(log) = Lost(h.log)
    BY <1>3, <1>10, TellsNewLine
  <2>4. PICK more : more = Append(lines, <<scans>>)
    OBVIOUS
  <2>5. /\ Tells(more, recorded') /\ Lost(more) = Lost(lines)
        /\ Len(FlattenSeq(more)) = Len(FlattenSeq(lines)) + 1
    BY <1>3, <1>10, <2>4, TellsNewLine
  <2>6. h.old \o log = more
    <3>1. PICK line : line = <<scans>>
      OBVIOUS
    <3>2. line \in S
      BY <1>11, <3>1
    <3>3. old \o Append(earlier, line) = Append(old \o earlier, line)
      BY <1>12, <3>2, AppendOfConcat
    <3> QED BY <1>11, <2>4, <3>1, <3>3
  <2>7. PICK t : t = TRUE
    OBVIOUS
  <2>8. history' = [one EXCEPT !.torn = t]
    BY <2>2, <2>7
  <2>9. history'.log = log /\ history'.old = h.old /\ history'.torn = t
    <3> HIDE DEF log
    <3>1. one = [snaps |-> Snaps, log |-> log, old |-> h.old, torn |-> h.torn]
      BY <1>3, <2>1
    <3> QED BY <2>8, <3>1
  <2>10. LogLines' = more
    BY <2>6, <2>9 DEF LogLines
  <2>11. log # <<>>
    <3>1. PICK line : line = <<scans>>
      OBVIOUS
    <3>2. line \in S
      BY <1>11, <3>1
    <3>3. Append(earlier, line) # <<>>
      BY <1>12, <3>2, AppendProperties
    <3> QED BY <1>11, <3>1, <3>3
  <2>12. Lost(h.log) \in Int /\ Lost(lines) \in Int
    BY <1>7, LinesFacts
  <2>13. Lost(log) + Open' <= Cuts' /\ Lost(more) + Open' <= Cuts'
    BY <1>1, <1>3, <2>3, <2>5, <2>12
  <2>14. Len(FlattenSeq(more)) = Len(recorded') \/ Len(h.old) > MaxLog
    BY <1>3, <1>8, <1>10, <2>5
  <2> HIDE DEF log, lines
  <2> QED BY <1>3, <2>3, <2>5, <2>7, <2>9, <2>10, <2>11, <2>13, <2>14 DEF LogTells
<1> QED BY <1>2, <1>4, <1>5, <1>10

(* Elsewhere the log stays as it is; a line is ended, or that fails, or its*)
(* daemon is killed.                                                       *)
LEMMA LogStays ==
  ASSUME AnalysisInv, LogTells, [Next]_vars
  PROVE  LogTells'
<1>1. /\ scans \in Nat /\ kills \in Nat /\ faults \in Nat
      /\ ScanTyped /\ recorded \in Seq(Nat)
      /\ history = [snaps |-> Snaps, log |-> history.log, old |-> history.old,
                    torn |-> history.torn]
  <2>1. recorded \in Seq(1 .. scans) /\ scans \in Nat
    BY DEF AnalysisInv, StoryTold, Recorded, Given
  <2> QED BY <2>1 DEF AnalysisInv, StoryTold, Recorded, Given
<1>2. Lost(history.log) \in Int /\ Lost(LogLines) \in Int
  BY LinesFacts DEF LogTells, Tells
<1>3. CASE WriteAuditEvent
  BY <1>1, <1>3, EventTells
<1>4. ASSUME recorded' = recorded, history'.log = history.log, history'.old = history.old,
             history'.torn \in {history.torn, FALSE}, Cuts' \in Int,
             Open' + Cuts <= Open + Cuts'
      PROVE  LogTells'
  <2>1. LogLines' = LogLines
    BY <1>4 DEF LogLines
  <2>2. Open \in {0, 1} /\ Open' \in {0, 1}
    BY DEF Open
  <2>3. Lost(history.log) + Open' <= Cuts' /\ Lost(LogLines) + Open' <= Cuts'
    <3>1. /\ Lost(history.log) + Open <= Cuts /\ Lost(LogLines) + Open <= Cuts
      BY DEF LogTells
    <3>2. Cuts \in Int
      BY <1>1 DEF Cuts
    <3> QED BY <1>2, <1>4, <2>2, <3>1, <3>2
  <2> QED BY <1>4, <2>1, <2>3 DEF LogTells
<1>5. CASE RecordSnapshot
  <2>1. \/ \E kept : history' = [history EXCEPT !.snaps = kept]
        \/ history' = history
    BY <1>5 DEF RecordSnapshot, SnapshotFails
  <2>2. /\ history'.log = history.log /\ history'.old = history.old
        /\ history'.torn = history.torn
    BY <1>1, <2>1
  <2>3. scan.phase = "done" /\ scan'.phase = "snapshotted"
    BY <1>1, <1>5, RecordStep DEF ScanTyped
  <2>4. Open' = Open /\ Open \in {0, 1}
    BY <2>2, <2>3 DEF Open
  <2>5. recorded' = recorded /\ kills' = kills /\ faults' \in {faults, faults + 1}
    BY <1>5 DEF RecordSnapshot, SnapshotFails, Fails, failures
  <2>6. Cuts' \in Int /\ Open' + Cuts <= Open + Cuts'
    BY <1>1, <2>4, <2>5 DEF Cuts
  <2> QED BY <1>4, <2>2, <2>5, <2>6
<1>6. CASE KeepIndex
  <2>1. recorded' = recorded /\ kills' = kills /\ scan' = NoScan
    BY <1>6 DEF KeepIndex
  <2>2. Open' \in {0, 1} /\ Open \in {0, 1}
    BY DEF Open
  <2>3. CASE history' = [history EXCEPT !.torn = FALSE] /\ faults' = faults
    <3>1. PICK t : t = FALSE
      OBVIOUS
    <3>2. history' = [history EXCEPT !.torn = t]
      BY <2>3, <3>1
    <3>3. history'.log = history.log /\ history'.old = history.old /\ history'.torn = t
      BY <1>1, <3>2
    <3>4. Open' = 0
      BY <3>1, <3>3 DEF Open
    <3>5. Cuts' \in Int /\ Open' + Cuts <= Open + Cuts'
      BY <1>1, <2>1, <2>2, <2>3, <3>4 DEF Cuts
    <3>6. history'.torn \in {history.torn, FALSE}
      BY <3>1, <3>3
    <3> QED BY <1>4, <2>1, <3>3, <3>5, <3>6, Zenon
  <2>4. CASE history' = history /\ faults' = faults + 1
    <3>1. Cuts' \in Int /\ Open' + Cuts <= Open + Cuts'
      BY <1>1, <2>1, <2>2, <2>4 DEF Cuts
    <3> QED BY <1>4, <2>1, <2>4, <3>1
  <2>5. CASE scan.phase \in {"done", "failed"} /\ history' = history /\ faults' = faults
    <3>1. Open' <= Open
      BY <2>5 DEF Open
    <3>2. Cuts' \in Int /\ Open' + Cuts <= Open + Cuts'
      BY <1>1, <2>1, <2>2, <2>5, <3>1 DEF Cuts
    <3> QED BY <1>4, <2>1, <2>5, <3>2
  <2> QED BY <1>6, <2>3, <2>4, <2>5 DEF KeepIndex, EndsLine, Fails, failures
<1>7. CASE Kill
  <2>1. recorded' = recorded /\ history' = history /\ kills' = kills + 1 /\ faults' = faults
    BY <1>7 DEF Kill, failures
  <2>2. Open' \in {0, 1} /\ Open \in {0, 1}
    BY DEF Open
  <2>3. Cuts' \in Int /\ Open' + Cuts <= Open + Cuts'
    BY <1>1, <2>1, <2>2 DEF Cuts
  <2> QED BY <1>4, <2>1, <2>3
<1>8. CASE ~WriteAuditEvent /\ ~RecordSnapshot /\ ~KeepIndex /\ ~Kill
  <2>1. history' = history /\ recorded' = recorded /\ kills' = kills /\ faults' = faults
    BY <1>8, StepEffects
  <2>2. scan.phase = "audited" => scan'.phase = "audited"
    <3>1. CASE scan' = scan
      BY <3>1
    <3>2. CASE StartScan \/ RunCheck \/ AnswerCheck
      BY <3>2 DEF StartScan, RunCheck, AnswerCheck, Start
    <3>3. CASE StartCheck
      BY <3>3 DEF StartCheck
    <3>4. CASE Ingest \/ HashAndGroup \/ TraceFile \/ Govern
      BY <3>4 DEF Ingest, HashAndGroup, TraceFile, Govern
    <3> QED BY <1>8, <3>1, <3>2, <3>3, <3>4, ScanCases DEF Advance
  <2>3. Open' <= Open
    BY <2>1, <2>2 DEF Open
  <2>4. Cuts' \in Int /\ Open' + Cuts <= Open + Cuts'
    BY <1>1, <2>1, <2>3 DEF Open, Cuts
  <2> QED BY <1>4, <2>1, <2>4
<1> QED BY <1>3, <1>5, <1>6, <1>7, <1>8

(* The audit log holds the newest of the events that reached it, at least  *)
(* MaxLog + 1 of them, and at most two per killed daemon or failed write   *)
(* have no line of their own, however many daemons were killed or writes   *)
(* failed in the middle of a line and whenever the log was rotated or could*)
(* not be (append_line, read_audit_events).                                *)
THEOREM AuditLogForgetsOldest == Spec => []AuditLogIsSuffix
<1>1. Init => AnalysisInv /\ LogTells
  <2> SUFFICES ASSUME Init PROVE LogTells
    BY InitHolds
  <2>1. /\ history = [snaps |-> <<>>, log |-> <<>>, old |-> <<>>, torn |-> FALSE]
        /\ recorded = <<>> /\ kills = 0 /\ faults = 0
    BY DEF Init
  <2>2. /\ history.log = <<>> /\ history.old = <<>> /\ history.torn = FALSE
    BY <2>1
  <2>3. LogLines = <<>>
    BY <2>2 DEF LogLines
  <2>4. Tells(<<>>, recorded) /\ Lost(<<>>) = 0 /\ FlattenSeq(<<>>) = <<>>
    <3>1. recorded \in Seq(Nat)
      BY <2>1
    <3> QED BY <3>1, NothingTells, Zenon
  <2>5. Open = 0 /\ <<>> \in Lines
    BY <2>2 DEF Open, Lines
  <2> QED BY <2>1, <2>2, <2>3, <2>4, <2>5 DEF LogTells, Cuts
<1>2. AnalysisInv /\ LogTells /\ [Next]_vars => AnalysisInv' /\ LogTells'
  BY AnalysisInductive, LogStays
<1>3. AnalysisInv /\ LogTells => AuditLogIsSuffix
  <2> SUFFICES ASSUME AnalysisInv, LogTells PROVE AuditLogIsSuffix
    OBVIOUS
  <2> DEFINE written == FlattenSeq(LogLines)
  <2>1. recorded \in Seq(Nat) /\ Cuts \in Nat /\ Len(recorded) \in Nat
    <3>1. recorded \in Seq(1 .. scans) /\ scans \in Nat
      BY DEF AnalysisInv, StoryTold, Recorded, Given
    <3> QED BY <3>1 DEF AnalysisInv, Given, Cuts
  <2>2. /\ Tells(LogLines, recorded) /\ Lost(LogLines) + Open <= Cuts
        /\ Len(written) = Len(recorded) \/ Len(history.old) > MaxLog
    BY DEF LogTells
  <2>3. /\ LogLines \in Lines /\ written \in Seq(Nat) /\ Len(written) \in Nat
        /\ Len(LogLines) \in Nat /\ Lost(LogLines) \in Int
        /\ Cardinality(Single(LogLines)) \in Nat
    BY <2>2, LinesFacts DEF Tells
  <2>4. IsSuffix(written, recorded)
    BY <2>1, <2>2, <2>3, TailIsSuffix DEF Tells
  <2>5. Lost(LogLines) = Len(written) - Len(LogLines)
    BY DEF Lost
  <2>6. Lost(LogLines) <= Cuts
    BY <2>1, <2>2, <2>3 DEF Open
  <2>7. OwnLine = Single(LogLines)
    BY DEF OwnLine, Single
  <2>8. Len(written) - Cardinality(OwnLine) <= 2 * Cuts
    <3>1. /\ Lost(LogLines) >= Len(LogLines) - Cardinality(Single(LogLines))
      BY <2>2 DEF Tells
    <3> HIDE DEF written
    <3> QED BY <2>1, <2>3, <2>5, <2>6, <2>7, <3>1
  <2>9. Len(LogLines) >= Len(history.old) /\ Len(history.old) \in Nat
    <3>1. history.old \in Seq(Seq(Nat)) /\ history.log \in Seq(Seq(Nat))
      BY LinesFacts DEF LogTells, Tells
    <3>2. \A s, t \in Seq(Seq(Nat)) : Len(s \o t) >= Len(s) /\ Len(s) \in Nat
      OBVIOUS
    <3> QED BY <3>1, <3>2 DEF LogLines
  <2>10. Lost(LogLines) >= 0
    BY <2>2, <2>3 DEF Tells
  <2>11. Len(written) = Len(recorded) \/ Len(written) >= MaxLog + 1
    <3> HIDE DEF written
    <3> QED BY <2>2, <2>3, <2>5, <2>9, <2>10, BoundsAssumption
  <2>12. Len(written) >= Min({Len(recorded), MaxLog + 1})
    <3> DEFINE T == {Len(recorded), MaxLog + 1}
    <3>1. T \subseteq Nat /\ T # {}
      BY <2>1, BoundsAssumption
    <3>2. Min(T) \in T /\ \A y \in T : Min(T) <= y
      BY <3>1, MinOf
    <3>3. Min(T) \in Nat /\ Min(T) <= Len(recorded) /\ Min(T) <= MaxLog + 1
      BY <3>1, <3>2
    <3> HIDE DEF T, written
    <3>4. Len(written) >= Min(T)
      BY <2>1, <2>3, <2>11, <3>3, BoundsAssumption
    <3> QED BY <3>4 DEF T
  <2> QED BY <2>4, <2>8, <2>12 DEF AuditLogIsSuffix, Cuts
<1> QED BY <1>1, <1>2, <1>3, PTL DEF Spec

-----------------------------------------------------------------------------
(* The shared score.  Products keep their order, and a rounded quotient    *)
(* stays between the whole numbers around it.                              *)
LEMMA ProductIsNat ==
  ASSUME NEW p \in Nat, NEW q \in Nat
  PROVE  p * q \in Nat
<1> QED OBVIOUS

LEMMA ProductsKeepOrder ==
  ASSUME NEW d \in Nat, NEW p \in Nat, NEW q \in Nat, p <= q
  PROVE  d * p <= d * q
<1>1. PICK k \in Nat : q = p + k
  <2>1. q - p \in Nat /\ q = p + (q - p)
    OBVIOUS
  <2> QED BY <2>1
<1>2. d * q = d * p + d * k
  BY <1>1
<1>3. d * k >= 0 /\ d * k \in Int /\ d * p \in Int
  OBVIOUS
<1> QED BY <1>2, <1>3

LEMMA RoundedIs ==
  ASSUME NEW n \in Nat, NEW d \in Nat \ {0}
  PROVE  /\ Rounded(n, d) \in Nat
         /\ 2 * (d * Rounded(n, d)) <= 2 * n + d
         /\ 2 * n + d < 2 * (d * Rounded(n, d)) + 2 * d
<1> DEFINE N == 2 * n + d
           D == 2 * d
<1>1. N \in Nat /\ D \in Nat \ {0}
  OBVIOUS
<1>2. /\ N \div D \in Nat
      /\ D * (N \div D) <= N /\ N < D * (N \div D) + D
  <2> HIDE DEF N, D
  <2>1. N \div D \in Int /\ N = D * (N \div D) + (N % D) /\ N % D \in 0 .. D - 1
    BY <1>1
  <2>2. PICK q : q = N \div D
    OBVIOUS
  <2>3. PICK r : r = N % D
    OBVIOUS
  <2>4. q \in Int /\ r \in Nat /\ r < D /\ N = D * q + r
    BY <1>1, <2>1, <2>2, <2>3
  <2>5. q >= 0
    <3>1. ASSUME q <= -1 PROVE FALSE
      <4>1. PICK k \in Nat : q = -1 - k
        <5>1. -1 - q \in Nat /\ q = -1 - (-1 - q)
          BY <2>4, <3>1
        <5> QED BY <5>1
      <4>2. D * q = -D - D * k /\ D * k >= 0 /\ D * k \in Int
        BY <1>1, <4>1
      <4> QED BY <1>1, <2>4, <4>2
    <3> QED BY <2>4, <3>1
  <2> QED BY <1>1, <2>2, <2>4, <2>5
<1>3. D * (N \div D) = 2 * (d * (N \div D))
  <2>1. PICK q : q = N \div D
    OBVIOUS
  <2>2. q \in Nat
    BY <1>2, <2>1
  <2>3. (2 * d) * q = 2 * (d * q)
    BY <2>2
  <2> QED BY <2>1, <2>3
<1>4. Rounded(n, d) = N \div D
  BY DEF Rounded
<1>5. PICK q : q = Rounded(n, d)
  OBVIOUS
<1>6. q \in Nat /\ 2 * (d * q) <= N /\ N < 2 * (d * q) + D
  BY <1>2, <1>3, <1>4, <1>5
<1> QED BY <1>5, <1>6

LEMMA RoundedBetween ==
  ASSUME NEW n \in Nat, NEW d \in Nat \ {0}, NEW a \in Nat, NEW b \in Nat,
         d * a <= n, n <= d * b
  PROVE  a <= Rounded(n, d) /\ Rounded(n, d) <= b
<1>1. PICK q : q = Rounded(n, d)
  OBVIOUS
<1>2. q \in Nat /\ 2 * (d * q) <= 2 * n + d /\ 2 * n + d < 2 * (d * q) + 2 * d
  BY <1>1, RoundedIs
<1>3. d * q \in Nat /\ d * a \in Nat /\ d * b \in Nat
  BY <1>2
<1>4. a <= q
  <2> SUFFICES ASSUME q + 1 <= a PROVE FALSE
    BY <1>2
  <2>1. d * (q + 1) <= d * a
    BY <1>2, ProductsKeepOrder
  <2>2. d * (q + 1) = d * q + d
    BY <1>2
  <2> QED BY <1>2, <1>3, <2>1, <2>2
<1>5. q <= b
  <2> SUFFICES ASSUME b + 1 <= q PROVE FALSE
    BY <1>2
  <2>1. d * (b + 1) <= d * q
    BY <1>2, ProductsKeepOrder
  <2>2. d * (b + 1) = d * b + d
    OBVIOUS
  <2> QED BY <1>2, <1>3, <2>1, <2>2
<1> QED BY <1>1, <1>4, <1>5

LEMMA LesserGreater ==
  ASSUME NEW a \in Nat, NEW b \in Nat, a <= b
  PROVE  Min({a, b}) = a /\ Max({a, b}) = b
<1>1. {a, b} \subseteq Nat /\ {a, b} # {} /\ {a, b} \subseteq 0 .. b
  OBVIOUS
<1>2. Min({a, b}) \in {a, b} /\ Min({a, b}) <= a
  BY <1>1, MinOf
<1>3. Max({a, b}) \in {a, b} /\ Max({a, b}) >= b
  BY <1>1, MaxOf
<1> QED BY <1>2, <1>3

(* Two scores, each for so many assets.                                    *)
LEMMA MeanBetween ==
  ASSUME NEW a \in Nat, NEW b \in Nat, NEW m \in Nat \ {0}, NEW n \in Nat \ {0}
  PROVE  LET mean == Rounded(a * m + b * n, m + n) IN
         Min({a, b}) <= mean /\ mean <= Max({a, b})
<1>1. PICK x, d : x = a * m + b * n /\ d = m + n
  OBVIOUS
<1>2. x \in Nat /\ d \in Nat \ {0} /\ d * a = a * m + a * n /\ d * b = b * m + b * n
  BY <1>1
<1>3. /\ a * m \in Nat /\ a * n \in Nat /\ b * m \in Nat /\ b * n \in Nat
      /\ a * m = m * a /\ a * n = n * a /\ b * m = m * b /\ b * n = n * b
  OBVIOUS
<1>4. CASE a <= b
  <2>1. m * a <= m * b /\ n * a <= n * b
    BY <1>4, ProductsKeepOrder
  <2>2. d * a <= x /\ x <= d * b
    BY <1>1, <1>2, <1>3, <2>1
  <2>3. a <= Rounded(x, d) /\ Rounded(x, d) <= b
    BY <1>2, <2>2, RoundedBetween
  <2>4. Min({a, b}) = a /\ Max({a, b}) = b
    BY <1>4, LesserGreater
  <2> QED BY <1>1, <2>3, <2>4
<1>5. CASE ~(a <= b)
  <2>1. m * b <= m * a /\ n * b <= n * a
    BY <1>5, ProductsKeepOrder
  <2>2. d * b <= x /\ x <= d * a
    BY <1>1, <1>2, <1>3, <2>1
  <2>3. b <= Rounded(x, d) /\ Rounded(x, d) <= a
    BY <1>2, <2>2, RoundedBetween
  <2>4. Min({a, b}) = b /\ Max({a, b}) = a
    <3>1. {a, b} = {b, a}
      OBVIOUS
    <3> QED BY <1>5, <3>1, LesserGreater
  <2> QED BY <1>1, <2>3, <2>4
<1> QED BY <1>4, <1>5

(* Totals of two numbers.                                                  *)
LEMMA TotalOfTwo ==
  ASSUME NEW a \in Int, NEW b \in Int, NEW s, DOMAIN s = 1 .. 2, Len(s) = 2,
         s[1] = a, s[2] = b
  PROVE  Total(s) = a + b
<1> DEFINE Body(f) == [i \in 0 .. Len(s) |-> IF i = 0 THEN 0 ELSE f[i - 1] + s[i]]
           g == [i \in 0 .. 2 |-> IF i = 0 THEN 0 ELSE IF i = 1 THEN a ELSE a + b]
           w == CHOOSE f : f = Body(f)
<1>1. g = Body(g)
  OBVIOUS
<1>2. w = Body(w)
  BY <1>1
<1>3. Total(s) = w[2]
  BY DEF Total
<1> HIDE DEF w
<1>4. w[0] = 0 /\ w[1] = w[0] + s[1] /\ w[2] = w[1] + s[2]
  BY <1>2
<1> QED BY <1>3, <1>4
(* A report of some assets has a score and three graded categories.        *)
IsGraded(report) ==
  /\ report.score \in Nat /\ report.cats # <<>>
  /\ \A c \in 1 .. 3 : report.cats[c].score \in Nat /\ report.cats[c].violations \in Nat

LEMMA SomeAssetsAreGraded ==
  ASSUME NEW assets, IsFiniteSet(assets), assets # {}, NEW diags, IsFiniteSet(diags)
  PROVE  IsGraded(HealthScore(assets, diags)) /\ Cardinality(assets) \in Nat \ {0}
<1> DEFINE total   == Cardinality(assets)
           report  == HealthScore(assets, diags)
           invalid == Cardinality({a \in assets : ~a.valid})
           Of(ids) == Cardinality({d \in diags : d.rule \in ids})
<1>1. total \in Nat \ {0}
  BY FS_CardinalityType, FS_EmptySet
<1>2. report.score \in Nat
  <2>1. report.score \in 0 .. 100
    BY ScoreIsPercent
  <2> QED BY <2>1
<1>3. report.cats = <<Category(Of({"unref"}), total), Category(Of({"dup"}), total),
                      Category(Of(PolicyRules) + invalid, total)>>
  BY <1>1 DEF HealthScore
<1>4. \A ids : Of(ids) \in Nat
  <2> TAKE ids
  <2>1. {d \in diags : d.rule \in ids} \in SUBSET diags
    OBVIOUS
  <2> QED BY <2>1, FS_Subset, FS_CardinalityType
<1>5. invalid \in Nat
  <2>1. {a \in assets : ~a.valid} \in SUBSET assets
    OBVIOUS
  <2> QED BY <2>1, FS_Subset, FS_CardinalityType
<1>6. ASSUME NEW v \in Nat
      PROVE  Category(v, total).score \in Nat /\ Category(v, total).violations \in Nat
  <2>1. PICK n : n = 100 * AtLeast0(total - v)
    OBVIOUS
  <2>2. n \in Nat
    <3>1. AtLeast0(total - v) \in Nat
      BY <1>1 DEF AtLeast0
    <3> QED BY <2>1, <3>1
  <2>3. Rounded(n, total) \in Nat
    BY <1>1, <2>2, RoundedIs
  <2> QED BY <2>1, <2>3 DEF Category
<1>7. PICK x, y, z : /\ x = Of({"unref"}) /\ y = Of({"dup"}) /\ z = Of(PolicyRules) + invalid
                     /\ x \in Nat /\ y \in Nat /\ z \in Nat
  <2>1. Of(PolicyRules) + invalid \in Nat
    <3> HIDE DEF Of, invalid
    <3> QED BY <1>4, <1>5
  <2> QED BY <1>4, <2>1
<1> HIDE DEF total, Of, invalid, report
<1>8. \A c \in 1 .. 3 : report.cats[c] \in {Category(x, total), Category(y, total),
                                            Category(z, total)}
  BY <1>3, <1>7
<1>9. \A c \in 1 .. 3 : report.cats[c].score \in Nat /\ report.cats[c].violations \in Nat
  BY <1>6, <1>7, <1>8
<1>10. report.cats # <<>>
  BY <1>3
<1> QED BY <1>1, <1>2, <1>9, <1>10 DEF IsGraded, total, report

(* What two roots share.                                                   *)
LEMMA SharedByTwo ==
  ASSUME NEW one, IsGraded(one), NEW two, IsGraded(two),
         NEW m \in Nat \ {0}, NEW n \in Nat \ {0}
  PROVE  LET shared == Aggregate(<<[report |-> one, count |-> m],
                                   [report |-> two, count |-> n]>>) IN
         /\ shared.score = Rounded(one.score * m + two.score * n, m + n)
         /\ \A c \in 1 .. 3 :
              /\ shared.cats[c].score
                   = Rounded(one.cats[c].score * m + two.cats[c].score * n, m + n)
              /\ shared.cats[c].violations = one.cats[c].violations + two.cats[c].violations
<1>1. PICK p, q : p = [report |-> one, count |-> m] /\ q = [report |-> two, count |-> n]
  OBVIOUS
<1>2. p.report = one /\ p.count = m /\ q.report = two /\ q.count = n
  BY <1>1
<1>3. PICK pairs : pairs = <<p, q>>
  OBVIOUS
<1>4. DOMAIN pairs = 1 .. 2 /\ pairs[1] = p /\ pairs[2] = q
  BY <1>3
<1>5. ASSUME NEW a \in Int, NEW b \in Int, NEW s, s = [i \in DOMAIN pairs |-> s[i]],
             s[1] = a, s[2] = b
      PROVE  Total(s) = a + b
  <2>1. DOMAIN s = 1 .. 2
    BY <1>4, <1>5
  <2>2. Len(s) = 2
    <3>1. s = [i \in 1 .. 2 |-> s[i]]
      BY <1>4, <1>5
    <3>2. s = <<a, b>>
      BY <1>5, <3>1
    <3> QED BY <3>2
  <2> QED BY <1>5, <2>1, <2>2, TotalOfTwo
<1> DEFINE Points(grade, pair) == grade.score * pair.count
           Cat(i, c) == pairs[i].report.cats[c]
           graded == {i \in DOMAIN pairs : pairs[i].report.cats # <<>>}
           counts == [i \in DOMAIN pairs |-> Weight(pairs[i])]
           scores == [i \in DOMAIN pairs |-> Points(pairs[i].report, pairs[i])]
           weights == [i \in DOMAIN pairs |-> IF i \in graded THEN Weight(pairs[i]) ELSE 0]
           points(c) == [i \in DOMAIN pairs |->
                           IF i \in graded THEN Points(Cat(i, c), pairs[i]) ELSE 0]
           found(c) == [i \in DOMAIN pairs |->
                           IF i \in graded THEN Cat(i, c).violations ELSE 0]
           Merged(c) == [violations |-> Total(found(c)),
                         score |-> IF Total(weights) = 0 THEN 0
                                   ELSE Rounded(Total(points(c)), Total(weights))]
<1>6. 1 \in graded /\ 2 \in graded
  BY <1>2, <1>4 DEF IsGraded
<1>7. Total(counts) = m + n
  <2>1. counts[1] = m /\ counts[2] = n /\ counts = [i \in DOMAIN pairs |-> counts[i]]
    BY <1>2, <1>4 DEF Weight
  <2> HIDE DEF counts
  <2> QED BY <1>5, <2>1
<1>8. Total(scores) = one.score * m + two.score * n
  <2>1. /\ scores[1] = one.score * m /\ scores[2] = two.score * n
        /\ scores = [i \in DOMAIN pairs |-> scores[i]]
    BY <1>2, <1>4
  <2>2. one.score * m \in Int /\ two.score * n \in Int
    <3>1. one.score \in Nat /\ two.score \in Nat
      BY DEF IsGraded
    <3> QED BY <3>1, ProductIsNat
  <2> HIDE DEF scores
  <2> QED BY <1>5, <2>1, <2>2
<1>9. Total(weights) = m + n
  <2>1. weights[1] = m /\ weights[2] = n /\ weights = [i \in DOMAIN pairs |-> weights[i]]
    <3> HIDE DEF graded
    <3> QED BY <1>2, <1>4, <1>6 DEF Weight
  <2> HIDE DEF weights
  <2> QED BY <1>5, <2>1
<1>10. ASSUME NEW c \in 1 .. 3
       PROVE  /\ Total(points(c)) = one.cats[c].score * m + two.cats[c].score * n
              /\ Total(found(c)) = one.cats[c].violations + two.cats[c].violations
  <2>1. /\ points(c)[1] = one.cats[c].score * m /\ points(c)[2] = two.cats[c].score * n
        /\ points(c) = [i \in DOMAIN pairs |-> points(c)[i]]
    <3> HIDE DEF graded
    <3> QED BY <1>2, <1>4, <1>6
  <2>2. /\ found(c)[1] = one.cats[c].violations /\ found(c)[2] = two.cats[c].violations
        /\ found(c) = [i \in DOMAIN pairs |-> found(c)[i]]
    <3> HIDE DEF graded
    <3> QED BY <1>2, <1>4, <1>6
  <2>3. one.cats[c].score * m \in Int /\ two.cats[c].score * n \in Int
    <3>1. one.cats[c].score \in Nat /\ two.cats[c].score \in Nat
      BY DEF IsGraded
    <3> QED BY <3>1, ProductIsNat
  <2>4. one.cats[c].violations \in Int /\ two.cats[c].violations \in Int
    BY DEF IsGraded
  <2> HIDE DEF points, found
  <2> QED BY <1>5, <2>1, <2>2, <2>3, <2>4
<1>11. Aggregate(pairs) =
         IF Total(counts) = 0 THEN NoAssets
         ELSE LET score == Rounded(Total(scores), Total(counts)) IN
              [score |-> score, grade |-> Grade(score),
               cats |-> IF graded = {} THEN <<>> ELSE [c \in 1 .. 3 |-> Merged(c)]]
  BY DEF Aggregate
<1> HIDE DEF graded, counts, scores, weights, points, found
<1>12. /\ Aggregate(pairs).score = Rounded(Total(scores), Total(counts))
       /\ Aggregate(pairs).cats = [c \in 1 .. 3 |-> Merged(c)]
  BY <1>6, <1>7, <1>11
<1>13. ASSUME NEW c \in 1 .. 3
       PROVE  /\ Aggregate(pairs).cats[c].score
                   = Rounded(one.cats[c].score * m + two.cats[c].score * n, m + n)
              /\ Aggregate(pairs).cats[c].violations
                   = one.cats[c].violations + two.cats[c].violations
  <2>1. Aggregate(pairs).cats[c] = Merged(c)
    BY <1>12
  <2>2. /\ Merged(c).violations = Total(found(c))
        /\ Merged(c).score = Rounded(Total(points(c)), Total(weights))
    BY <1>9
  <2> QED BY <1>9, <1>10, <2>1, <2>2
<1> QED BY <1>1, <1>3, <1>7, <1>8, <1>12, <1>13

(* Reports are of the assets and diagnostics beside them.                  *)
ReportsFit ==
  /\ Judged => scan.report = HealthScore(scan.assets, scan.diags)
  /\ index # None =>
       /\ index.report = HealthScore(index.assets, index.diags)
       /\ IsFiniteSet(index.assets) /\ IsFiniteSet(index.diags)

LEMMA ReportsStayFit ==
  ASSUME ScanTyped, ReportsFit, [Next]_vars
  PROVE  ReportsFit'
<1>1. IsScan
  BY DEF ScanTyped
<1>2. Judged' => scan'.report = HealthScore(scan'.assets, scan'.diags)
  <2>1. ASSUME scan'.report = scan.report, scan'.assets = scan.assets,
               scan'.diags = scan.diags, Judged' => Judged, Judged'
        PROVE  scan'.report = HealthScore(scan'.assets, scan'.diags)
    BY <2>1 DEF ReportsFit
  <2>2. CASE scan' = scan
    BY <2>1, <2>2 DEF Judged
  <2>3. CASE scan' = NoScan
    BY <2>3, NoScanFields DEF Judged
  <2>4. ASSUME NEW by, Start(by) PROVE ~Judged'
    BY <2>3, <2>4, StartStep, NoScanFields DEF StartedAs, Judged
  <2>5. CASE scan' = [NoScan EXCEPT !.phase = "gated", !.ci = Load(config).ci]
    BY <2>5, GatedStep DEF Judged
  <2>6. CASE Ingest
    BY <1>1, <2>6, IngestStep DEF Judged
  <2>7. CASE HashAndGroup
    BY <1>1, <2>7, HashStep DEF Judged
  <2>8. CASE TraceFile
    BY <1>1, <2>8, TraceStep DEF Judged
  <2>9. CASE Govern
    BY <1>1, <2>9, GovernStep DEF SameAssets
  <2>10. CASE RecordSnapshot \/ WriteAuditEvent
    <3>1. SameAssets /\ SameVerdict /\ Judged
      BY <1>1, <2>10, RecordStep DEF Judged
    <3> QED BY <2>1, <3>1 DEF SameAssets, SameVerdict
  <2> QED BY <2>2, <2>3, <2>4, <2>5, <2>6, <2>7, <2>8, <2>9, <2>10, ScanCases
          DEF Advance, AnswerCheck
<1>3. ASSUME index' # None
      PROVE  /\ index'.report = HealthScore(index'.assets, index'.diags)
             /\ IsFiniteSet(index'.assets) /\ IsFiniteSet(index'.diags)
  <2>1. CASE index' = index
    BY <1>3, <2>1 DEF ReportsFit
  <2>2. CASE Kill
    BY <1>3, <2>2 DEF Kill
  <2>3. CASE KeepIndex
    <3>1. index' = [assets |-> scan.assets, refs |-> scan.refs, groups |-> scan.groups,
                    diags |-> scan.diags, report |-> scan.report, state |-> scan.state]
      BY <2>3 DEF KeepIndex
    <3>2. /\ index'.assets = scan.assets /\ index'.diags = scan.diags
          /\ index'.report = scan.report
      BY <3>1
    <3>3. Judged
      BY <2>3 DEF KeepIndex, Judged
    <3> QED BY <3>2, <3>3 DEF ReportsFit, ScanTyped, Contents
  <2> QED BY <2>1, <2>2, <2>3, StepEffects
<1> QED BY <1>2, <1>3 DEF ReportsFit

(* The score two roots share, and that of each category, lies between      *)
(* theirs, whatever their sizes (aggregate_health_scores).                 *)
THEOREM SharedScoreIsBetween == Spec => []AggregateIsBetween
<1>1. Init => AnalysisInv /\ ReportsFit
  <2> SUFFICES ASSUME Init PROVE ReportsFit
    BY InitHolds
  <2> QED BY NoScanFields DEF Init, ReportsFit, Judged
<1>2. AnalysisInv /\ ReportsFit /\ [Next]_vars => AnalysisInv' /\ ReportsFit'
  BY AnalysisInductive, ReportsStayFit DEF AnalysisInv
<1>3. AnalysisInv /\ ReportsFit => AggregateIsBetween
  <2> SUFFICES ASSUME AnalysisInv, ReportsFit, Done, index # None,
                      index.assets # {}, scan.assets # {}
               PROVE  LET one    == index.report
                          two    == scan.report
                          shared == Aggregate(<<[report |-> one, count |-> Cardinality(index.assets)],
                                                [report |-> two, count |-> Cardinality(scan.assets)]>>)
                          Between(x, y, z) == Min({x, z}) <= y /\ y <= Max({x, z})
                      IN  /\ Between(one.score, shared.score, two.score)
                          /\ \A c \in 1 .. 3 :
                               /\ Between(one.cats[c].score, shared.cats[c].score, two.cats[c].score)
                               /\ shared.cats[c].violations
                                    = one.cats[c].violations + two.cats[c].violations
    BY DEF AggregateIsBetween
  <2>1. PICK one, two, m, n : /\ one = index.report /\ two = scan.report
                              /\ m = Cardinality(index.assets) /\ n = Cardinality(scan.assets)
    OBVIOUS
  <2>2. IsGraded(one) /\ m \in Nat \ {0}
    BY <2>1, SomeAssetsAreGraded DEF ReportsFit
  <2>3. IsGraded(two) /\ n \in Nat \ {0}
    <3>1. two = HealthScore(scan.assets, scan.diags)
      BY <2>1 DEF ReportsFit, Done, Judged
    <3>2. IsFiniteSet(scan.assets) /\ IsFiniteSet(scan.diags)
      BY DEF AnalysisInv, ScanTyped, Contents
    <3> QED BY <2>1, <3>1, <3>2, SomeAssetsAreGraded
  <2>4. PICK shared : shared = Aggregate(<<[report |-> one, count |-> m],
                                           [report |-> two, count |-> n]>>)
    OBVIOUS
  <2>5. /\ shared.score = Rounded(one.score * m + two.score * n, m + n)
        /\ \A c \in 1 .. 3 :
             /\ shared.cats[c].score
                  = Rounded(one.cats[c].score * m + two.cats[c].score * n, m + n)
             /\ shared.cats[c].violations = one.cats[c].violations + two.cats[c].violations
    BY <2>2, <2>3, <2>4, SharedByTwo
  <2>6. /\ Min({one.score, two.score}) <= shared.score
        /\ shared.score <= Max({one.score, two.score})
    <3>1. one.score \in Nat /\ two.score \in Nat
      BY <2>2, <2>3 DEF IsGraded
    <3>2. PICK a, b : a = one.score /\ b = two.score
      OBVIOUS
    <3>3. a \in Nat /\ b \in Nat
      BY <3>1, <3>2
    <3>4. PICK mean : mean = Rounded(a * m + b * n, m + n)
      OBVIOUS
    <3>5. Min({a, b}) <= mean /\ mean <= Max({a, b})
      BY <2>2, <2>3, <3>3, <3>4, MeanBetween
    <3> QED BY <2>5, <3>2, <3>4, <3>5
  <2>7. ASSUME NEW c \in 1 .. 3
        PROVE  /\ Min({one.cats[c].score, two.cats[c].score}) <= shared.cats[c].score
               /\ shared.cats[c].score <= Max({one.cats[c].score, two.cats[c].score})
    <3>1. one.cats[c].score \in Nat /\ two.cats[c].score \in Nat
      BY <2>2, <2>3 DEF IsGraded
    <3>2. PICK a, b : a = one.cats[c].score /\ b = two.cats[c].score
      OBVIOUS
    <3>3. a \in Nat /\ b \in Nat
      BY <3>1, <3>2
    <3>4. PICK mean : mean = Rounded(a * m + b * n, m + n)
      OBVIOUS
    <3>5. Min({a, b}) <= mean /\ mean <= Max({a, b})
      BY <2>2, <2>3, <3>3, <3>4, MeanBetween
    <3> QED BY <2>5, <3>2, <3>4, <3>5
  <2> QED BY <2>1, <2>4, <2>5, <2>6, <2>7
<1> QED BY <1>1, <1>2, <1>3, PTL DEF Spec

-----------------------------------------------------------------------------
(* Comments.  The function in the definition of CommentBefore is defined   *)
(* on all the lines of a file.                                             *)
IsComment(f, lines, ext) ==
  f = [i \in 0 .. Len(lines) |->
         IF i = 0 THEN "none" ELSE CommentAfter(f[i - 1], lines[i], ext)]

LEMMA CommentExists ==
  ASSUME NEW lines, Len(lines) \in Nat, NEW ext
  PROVE  \E f : IsComment(f, lines, ext)
<1> DEFINE Next1(g, i) == CommentAfter(g[i - 1], lines[i], ext)
           Body(g, n) == [i \in 0 .. n |-> IF i = 0 THEN "none" ELSE Next1(g, i)]
           Good(n) == \E g : g = Body(g, n)
           Bad == {n \in 0 .. Len(lines) : ~Good(n)}
<1>1. Bad = {}
  <2> SUFFICES ASSUME Bad # {} PROVE FALSE
    OBVIOUS
  <2>1. PICK n \in Bad : \A k \in Bad : n <= k
    <3>1. Bad \subseteq Nat
      OBVIOUS
    <3> HIDE DEF Bad
    <3> QED BY <3>1, LeastNatural
  <2>2. Good(0)
    <3> DEFINE g == [i \in 0 .. 0 |-> "none"]
    <3>1. g = Body(g, 0)
      OBVIOUS
    <3> QED BY <3>1
  <2>3. n # 0 /\ n \in 1 .. Len(lines)
    <3>1. n \in 0 .. Len(lines) /\ ~ Good(n)
      OBVIOUS
    <3> HIDE DEF Good, Bad
    <3> QED BY <2>2, <3>1
  <2>4. Good(n - 1)
    <3>1. n - 1 \in 0 .. Len(lines) /\ ~ (n <= n - 1)
      BY <2>3
    <3>2. \A k \in 0 .. Len(lines) : k \notin Bad => Good(k)
      OBVIOUS
    <3> HIDE DEF Good, Bad
    <3> QED BY <2>1, <3>1, <3>2
  <2>5. PICK g : g = Body(g, n - 1)
    BY <2>4
  <2> DEFINE last == Next1(g, n)
             h == [i \in 0 .. n |-> IF i = n THEN last ELSE g[i]]
  <2>6. ASSUME NEW i \in 0 .. n PROVE h[i] = IF i = 0 THEN "none" ELSE Next1(h, i)
    <3>1. CASE i = n
      <4>1. h[i] = last /\ h[n - 1] = g[n - 1]
        BY <3>1, <2>3
      <4> HIDE DEF h
      <4> QED BY <4>1, <3>1, <2>3
    <3>2. CASE i # n
      <4>1. i \in 0 .. n - 1
        BY <3>2, <2>3
      <4>2. g[i] = IF i = 0 THEN "none" ELSE Next1(g, i)
        BY <4>1, <2>5
      <4>3. i = 0 \/ h[i - 1] = g[i - 1]
        BY <4>1, <2>3
      <4>4. h[i] = g[i]
        BY <3>2
      <4> HIDE DEF h, last
      <4> QED BY <4>2, <4>3, <4>4
    <3> QED BY <3>1, <3>2
  <2>7. h = Body(h, n)
    <3> h = [i \in 0 .. n |-> h[i]]
      OBVIOUS
    <3> HIDE DEF h, Next1
    <3> QED BY <2>6
  <2> HIDE DEF h, Body
  <2> QED BY <2>7
<1>2. Good(Len(lines))
  <2>1. \A k \in 0 .. Len(lines) : k \notin Bad => Good(k)
    OBVIOUS
  <2> HIDE DEF Good, Bad
  <2> QED BY <1>1, <2>1
<1> QED BY <1>2 DEF IsComment

\* CommentBefore gives the comment that is open before a line.
LEMMA CommentIs ==
  ASSUME NEW lines, Len(lines) \in Nat, DOMAIN lines = 1 .. Len(lines), NEW ext
  PROVE  \E f : /\ IsComment(f, lines, ext)
                /\ \A i \in DOMAIN lines : CommentBefore(lines, ext)[i] = f[i - 1]
<1> DEFINE f == CHOOSE g : IsComment(g, lines, ext)
<1>1. IsComment(f, lines, ext)
  BY CommentExists
<1>2. CommentBefore(lines, ext) = [i \in DOMAIN lines |-> f[i - 1]]
  BY DEF CommentBefore, IsComment
<1> HIDE DEF f
<1> QED BY <1>1, <1>2

(* An open comment was opened on some line and not closed since.           *)
Opened(lines, n, in) ==
  \/ in = "none"
  \/ \E j \in 1 .. n :
       /\ lines[j].opens \in DOMAIN BlockCloser /\ in = "block"
       /\ \A m \in j .. n : BlockCloser[lines[j].opens] \notin lines[m].closes
  \/ \E j \in 1 .. n :
       /\ lines[j].opens \in DOMAIN LuaCloser /\ in = LuaCloser[lines[j].opens]
       /\ \A m \in j .. n : LuaCloser[lines[j].opens] \notin lines[m].closes

LEMMA Closers ==
  /\ DOMAIN BlockCloser = {"/*", "<!--"} /\ DOMAIN LuaCloser = {"--[[", "--[=["}
  /\ \A o \in DOMAIN BlockCloser : BlockCloser[o] \in {"*/", "-->"}
  /\ \A o \in DOMAIN LuaCloser : LuaCloser[o] \in {"]]", "]=]"}
<1> QED BY DEF BlockCloser, LuaCloser

LEMMA StillOpened ==
  ASSUME NEW lines, NEW n \in Nat \ {0}, NEW in, Opened(lines, n - 1, in), NEW ext
  PROVE  Opened(lines, n, CommentAfter(in, lines[n], ext))
<1> DEFINE out == CommentAfter(in, lines[n], ext)
           line == lines[n]
<1> SUFFICES Opened(lines, n, out)
  OBVIOUS
<1>1. CASE in = "none"
  <2>1. CASE IsLua(ext) /\ line.opens \in DOMAIN LuaCloser
    <3>1. out = IF LuaCloser[line.opens] \in line.closes THEN "none"
                ELSE LuaCloser[line.opens]
      BY <1>1, <2>1 DEF CommentAfter
    <3> HIDE DEF out
    <3>2. CASE LuaCloser[line.opens] \in line.closes
      BY <3>1, <3>2 DEF Opened
    <3>3. CASE LuaCloser[line.opens] \notin line.closes
      <4>1. n \in 1 .. n /\ \A m \in n .. n : m = n
        OBVIOUS
      <4> QED BY <2>1, <3>1, <3>3, <4>1 DEF Opened
    <3> QED BY <3>2, <3>3
  <2>2. CASE ~(IsLua(ext) /\ line.opens \in DOMAIN LuaCloser)
             /\ line.opens \in DOMAIN BlockCloser
    <3>1. out = IF BlockCloser[line.opens] \in line.closes THEN "none" ELSE "block"
      BY <1>1, <2>2 DEF CommentAfter
    <3> HIDE DEF out
    <3>2. CASE BlockCloser[line.opens] \in line.closes
      BY <3>1, <3>2 DEF Opened
    <3>3. CASE BlockCloser[line.opens] \notin line.closes
      <4>1. n \in 1 .. n /\ \A m \in n .. n : m = n
        OBVIOUS
      <4> QED BY <2>2, <3>1, <3>3, <4>1 DEF Opened
    <3> QED BY <3>2, <3>3
  <2>3. CASE ~(IsLua(ext) /\ line.opens \in DOMAIN LuaCloser)
             /\ line.opens \notin DOMAIN BlockCloser
    <3>1. out = "none"
      BY <1>1, <2>3 DEF CommentAfter
    <3> HIDE DEF out
    <3> QED BY <3>1 DEF Opened
  <2> QED BY <2>1, <2>2, <2>3
<1>2. ASSUME NEW j \in 1 .. n - 1, lines[j].opens \in DOMAIN BlockCloser, in = "block",
             \A m \in j .. n - 1 : BlockCloser[lines[j].opens] \notin lines[m].closes
      PROVE  Opened(lines, n, out)
  <2>1. out = IF line.closes \cap {"*/", "-->"} # {} THEN "none" ELSE "block"
    BY <1>2 DEF CommentAfter
  <2> HIDE DEF out
  <2>2. CASE line.closes \cap {"*/", "-->"} # {}
    BY <2>1, <2>2 DEF Opened
  <2>3. CASE line.closes \cap {"*/", "-->"} = {}
    <3>1. BlockCloser[lines[j].opens] \notin line.closes
      BY <1>2, <2>3, Closers
    <3>2. j \in 1 .. n /\ \A m \in j .. n : m = n \/ m \in j .. n - 1
      OBVIOUS
    <3>3. \A m \in j .. n : BlockCloser[lines[j].opens] \notin lines[m].closes
      BY <1>2, <3>1, <3>2
    <3>4. out = "block"
      BY <2>1, <2>3
    <3> QED BY <1>2, <3>2, <3>3, <3>4 DEF Opened
  <2> QED BY <2>2, <2>3
<1>3. ASSUME NEW j \in 1 .. n - 1, lines[j].opens \in DOMAIN LuaCloser,
             in = LuaCloser[lines[j].opens],
             \A m \in j .. n - 1 : LuaCloser[lines[j].opens] \notin lines[m].closes
      PROVE  Opened(lines, n, out)
  <2>1. in # "none" /\ in # "block"
    BY <1>3, Closers
  <2>2. out = IF in \in line.closes THEN "none" ELSE in
    BY <2>1 DEF CommentAfter
  <2> HIDE DEF out
  <2>3. CASE in \in line.closes
    BY <2>2, <2>3 DEF Opened
  <2>4. CASE in \notin line.closes
    <3>1. j \in 1 .. n /\ \A m \in j .. n : m = n \/ m \in j .. n - 1
      OBVIOUS
    <3>2. \A m \in j .. n : LuaCloser[lines[j].opens] \notin lines[m].closes
      BY <1>3, <2>4, <3>1
    <3> QED BY <1>3, <2>2, <2>4, <3>1, <3>2 DEF Opened
  <2> QED BY <2>3, <2>4
<1> HIDE DEF out
<1> QED BY <1>1, <1>2, <1>3 DEF Opened

LEMMA CommentsAreOpened ==
  ASSUME NEW lines, Len(lines) \in Nat, NEW ext, NEW f, IsComment(f, lines, ext)
  PROVE  \A n \in 0 .. Len(lines) : Opened(lines, n, f[n])
<1> DEFINE Bad == {n \in 0 .. Len(lines) : ~Opened(lines, n, f[n])}
<1>1. Bad = {}
  <2> SUFFICES ASSUME Bad # {} PROVE FALSE
    OBVIOUS
  <2>1. PICK n \in Bad : \A k \in Bad : n <= k
    <3>1. Bad \subseteq Nat
      OBVIOUS
    <3> HIDE DEF Bad
    <3> QED BY <3>1, LeastNatural
  <2>2. n \in 0 .. Len(lines) /\ ~Opened(lines, n, f[n])
    OBVIOUS
  <2>3. f[n] = IF n = 0 THEN "none" ELSE CommentAfter(f[n - 1], lines[n], ext)
    BY <2>2 DEF IsComment
  <2>4. n # 0
    <3>1. n # 0 \/ Opened(lines, n, f[n])
      BY <2>3 DEF Opened
    <3> QED BY <2>2, <3>1
  <2>5. n - 1 \in 0 .. Len(lines) /\ ~ (n <= n - 1)
    BY <2>2, <2>4
  <2>6. Opened(lines, n - 1, f[n - 1])
    BY <2>1, <2>5
  <2> HIDE DEF Bad
  <2>a. n \in Nat \ {0}
    BY <2>2, <2>4
  <2>7. Opened(lines, n, CommentAfter(f[n - 1], lines[n], ext))
    BY <2>a, <2>6, StillOpened
  <2> QED BY <2>2, <2>3, <2>4, <2>7
<1> QED BY <1>1

(* A line of code is a line the patterns are run over.                     *)
LEMMA CodeIsLive ==
  ASSUME NEW lines \in Seq(LineType), NEW ext, NEW i \in DOMAIN lines, IsCode(lines, i)
  PROVE  i \in LiveLines(lines, ext)
<1>1. Len(lines) \in Nat /\ DOMAIN lines = 1 .. Len(lines) /\ i \in 1 .. Len(lines)
  OBVIOUS
<1>2. PICK f : /\ IsComment(f, lines, ext)
               /\ \A k \in DOMAIN lines : CommentBefore(lines, ext)[k] = f[k - 1]
  BY <1>1, CommentIs
<1>3. i - 1 \in 0 .. Len(lines)
  BY <1>1
<1>4. Opened(lines, i - 1, f[i - 1])
  BY <1>1, <1>2, <1>3, CommentsAreOpened
<1>6. /\ lines[i].opens = ""
      /\ \A j \in 1 .. i - 1 :
           lines[j].opens \in DOMAIN BlockCloser \cup DOMAIN LuaCloser =>
             \E k \in j .. i - 1 : Ends(lines[k], lines[j].opens)
  BY DEF IsCode
<1>7. f[i - 1] = "none"
  <2>1. DOMAIN BlockCloser \cap DOMAIN LuaCloser = {}
    BY Closers
  <2> QED BY <1>4, <1>6, <2>1 DEF Opened, Ends
<1>8. ~IsLineComment(lines[i], ext)
  BY <1>6, Closers DEF IsLineComment
<1> QED BY <1>2, <1>7, <1>8 DEF LiveLines
-----------------------------------------------------------------------------
(* What a line names.                                                      *)
LEMMA StemIsSpelled ==
  ASSUME Given, NEW k \in DOMAIN ws.files
  PROVE  Spelled(ws.files[k].stem)
<1>1. PICK w \in Workspaces : ws.files = w.disk
  BY DEF Given
<1> QED BY <1>1, StemsAssumption

\* A name ends in itself.
LEMMA EndsInItself ==
  ASSUME NEW name, Spelled(name)
  PROVE  EndsWith(name, name)
<1>0. Len(name) \in Nat /\ SubSeq(name, 1, Len(name)) = name
  BY DEF Spelled
<1>1. Len(name) - Len(name) = 0 /\ 0 + 1 = 1 /\ 0 + Len(name) = Len(name)
  BY <1>0
<1>2. 0 \in 0 .. Len(name) - Len(name)
  BY <1>1
<1>3. 0 \in Offsets(name, name)
  BY <1>0, <1>1, <1>2 DEF Offsets
<1> QED BY <1>1, <1>3 DEF EndsWith

\* The last folders of a path are a suffix of it.
LEMMA RestIsSuffix ==
  ASSUME NEW X, NEW s \in Seq(X), NEW t \in Seq(X)
  PROVE  IsSuffix(t, s \o t)
<1>1. s \o t \in Seq(X) /\ Len(s \o t) = Len(s) + Len(t)
  OBVIOUS
<1>2. Len(s) \in Nat /\ Len(t) \in Nat
  OBVIOUS
<1>3. ASSUME NEW i \in 1 .. Len(t)
      PROVE  t[i] = (s \o t)[Len(s \o t) - Len(t) + i]
  <2>1. Len(s) + i \in 1 .. Len(s) + Len(t) /\ Len(s) + i > Len(s)
    BY <1>2
  <2>2. (s \o t)[Len(s) + i] = t[Len(s) + i - Len(s)]
    BY <2>1
  <2>3. Len(s) + i - Len(s) = i /\ Len(s \o t) - Len(t) + i = Len(s) + i
    BY <1>1, <1>2
  <2> QED BY <2>2, <2>3
<1>4. IsTail(t, s \o t)
  <2>1. Len(t) <= Len(s \o t)
    BY <1>1, <1>2
  <2> QED BY <1>3, <2>1 DEF IsTail
<1> QED BY <1>1, <1>4, TailIsSuffix

(* A path that leads to an asset matches it.                               *)
LEMMA WrittenMatches ==
  ASSUME NEW a, Spelled(a.stem), a.dir \in Seq(STRING), NEW w \in WordType,
         NEW dir \in Seq(STRING), w.lead \in {"./", "/"}, LeadsTo(w, dir, a)
  PROVE  MatchesToken(a, dir, w)
<1>1. a.stem = w.stem /\ a.ext = w.ext /\ SameName(a, w) /\ NameEnds(a, w)
  BY EndsInItself DEF LeadsTo, SameName, NameEnds
<1>2. w.dirs \in Seq(STRING) /\ w.ups \in Nat
  BY DEF WordType
<1>3. CASE w.lead = "./"
  <2> DEFINE here == RootDir \o dir
             base == SubSeq(here, 1, Len(here) - w.ups)
  <2>1. RootDir \o a.dir = base \o w.dirs /\ base \o w.dirs = Resolved(w, dir)
    BY <1>3 DEF LeadsTo, Resolved
  <2>2. here \in Seq(STRING)
    BY RootDirAssumption
  <2>3. base \in Seq(STRING)
    <3> HIDE DEF here
    <3>1. Len(here) - w.ups \in Int /\ Len(here) - w.ups <= Len(here)
      BY <1>2, <2>2
    <3> QED BY <2>2, <3>1
  <2> HIDE DEF base
  <2>4. InFolder(a, w.dirs)
    BY <1>2, <2>1, <2>3, RestIsSuffix DEF InFolder
  <2>5. MatchesToken(a, dir, w)
          <=> IF w.dirs = <<>>
              THEN RootDir \o a.dir = Resolved(w, dir) /\ NameEnds(a, w)
              ELSE SameName(a, w) /\ InFolder(a, w.dirs)
    BY <1>3 DEF MatchesToken
  <2> QED BY <1>1, <2>1, <2>4, <2>5
<1>4. CASE w.lead = "/"
  <2>1. a.dir = w.dirs
    BY <1>4 DEF LeadsTo
  <2>2. InFolder(a, w.dirs)
    BY <1>2, <2>1, RootDirAssumption, RestIsSuffix DEF InFolder
  <2>3. MatchesToken(a, dir, w)
          <=> IF w.dirs = <<>>
              THEN NameEnds(a, w) \/ (w.ext = None /\ EndsWith(a.stem, w.stem))
              ELSE a.stem = w.stem /\ w.ext \in {a.ext, None} /\ InFolder(a, w.dirs)
    BY <1>4 DEF MatchesToken
  <2> QED BY <1>1, <2>2, <2>3
<1> QED BY <1>3, <1>4

LEMMA WrittenIsFound ==
  ASSUME NEW a, Spelled(a.stem), a.dir \in Seq(STRING), NEW f, f.dir \in Seq(STRING),
         NEW line \in LineType, NEW i \in DOMAIN line.words,
         ~IsSelf(a, f), line.words[i].quoted, line.words[i].lead \in {"./", "/"},
         LeadsTo(line.words[i], f.dir, a)
  PROVE  ByFilename(a, f, line, i)
<1> DEFINE w == line.words[i]
<1>1. w \in WordType /\ w \in Range(line.words)
  BY DEF LineType, Range
<1>2. a.stem = w.stem /\ a.ext = w.ext /\ w.quoted /\ w.lead \in {"./", "/"}
  BY DEF LeadsTo
<1>3. MatchesToken(a, f.dir, w)
  BY <1>1, WrittenMatches
<1> HIDE DEF w
<1>4. EndsWith(w.stem, a.stem) /\ SameName(a, w) /\ HasSlash(w) /\ ~IsRemote(w)
  BY <1>2, EndsInItself DEF SameName, HasSlash, IsRemote
<1>5. MatchesLine(a, f.dir, line)
  BY <1>1, <1>2, <1>3, <1>4 DEF MatchesLine
<1>6. TokenAgrees(a, f, w) /\ ValidFilename(a, line)
  BY <1>1, <1>3, <1>4 DEF TokenAgrees, ValidFilename, AfterSlash
<1> QED BY <1>2, <1>4, <1>5, <1>6 DEF ByFilename, w

(* A template that can produce the name of an asset matches it.            *)
Makes(t, a) ==
  \E i, n \in 0 .. Len(a.stem) :
    /\ t.marker = "${" /\ t.closed /\ t.ext = a.ext /\ t.dirs = a.dir /\ i <= n
    /\ t.pre = SubSeq(a.stem, 1, i) /\ t.suf = SubSeq(a.stem, n + 1, Len(a.stem))

LEMMA MadeMatches ==
  ASSUME NEW a, Spelled(a.stem), a.dir \in Seq(STRING), a.stem \in STRING,
         NEW t, Makes(t, a)
  PROVE  MatchesPattern(a, Pattern(t.dirs, t.pre, t.suf, t.ext))
<1> DEFINE p == Pattern(t.dirs, t.pre, t.suf, t.ext)
           l == Len(a.stem)
           path == RootDir \o a.dir \o <<a.stem>>
<1>1. p.dirs = t.dirs /\ p.pre = t.pre /\ p.suf = t.suf /\ p.ext = t.ext
  BY DEF Pattern
<1>2. PICK i \in 0 .. l, n \in 0 .. l :
        /\ t.ext = a.ext /\ t.dirs = a.dir /\ i <= n
        /\ t.pre = SubSeq(a.stem, 1, i) /\ t.suf = SubSeq(a.stem, n + 1, l)
  BY DEF Makes
<1>3. l \in Nat /\ Len(t.pre) = i /\ Len(t.suf) = l - n
  BY <1>2 DEF Spelled
<1> HIDE DEF p
<1>4. StartsWith(a.stem, p.pre)
  <2>1. 0 \in 0 .. l - i /\ 0 + 1 = 1 /\ 0 + i = i
    BY <1>3
  <2>2. SubSeq(a.stem, 0 + 1, 0 + Len(p.pre)) = p.pre /\ 0 \in 0 .. l - Len(p.pre)
    BY <1>1, <1>2, <1>3, <2>1
  <2>3. 0 \in Offsets(a.stem, p.pre)
    BY <2>2 DEF Offsets
  <2> QED BY <2>3 DEF StartsWith
<1>5. EndsWith(a.stem, p.suf)
  <2>1. n \in 0 .. n /\ l - (l - n) = n /\ n + (l - n) = l
    BY <1>3
  <2>2. SubSeq(a.stem, n + 1, n + Len(p.suf)) = p.suf /\ n \in 0 .. l - Len(p.suf)
    BY <1>1, <1>2, <1>3, <2>1
  <2>3. n \in Offsets(a.stem, p.suf) /\ l - Len(p.suf) = n
    BY <1>1, <1>3, <2>1, <2>2 DEF Offsets
  <2> QED BY <2>3 DEF EndsWith
<1>6. \E j \in 0 .. Len(path) - Len(p.dirs) : SubSeq(path, j + 1, j + Len(p.dirs)) = p.dirs
  <2> DEFINE r == Len(RootDir)
             d == Len(a.dir)
  <2>1. RootDir \in Seq(STRING) /\ r \in Nat /\ d \in Nat
    BY RootDirAssumption
  <2>2. RootDir \o a.dir \in Seq(STRING) /\ Len(RootDir \o a.dir) = r + d
    BY <2>1
  <2>3. path \in Seq(STRING) /\ Len(path) = r + d + 1
    <3>1. <<a.stem>> \in Seq(STRING) /\ Len(<<a.stem>>) = 1
      OBVIOUS
    <3> QED BY <2>1, <2>2, <3>1
  <2>4. \A j \in 1 .. d : path[r + j] = a.dir[j]
    <3> TAKE j \in 1 .. d
    <3>1. r + j \in 1 .. r + d /\ r + j > r /\ r + j - r = j
      BY <2>1
    <3>2. path[r + j] = (RootDir \o a.dir)[r + j]
      BY <2>1, <2>2, <3>1
    <3>3. (RootDir \o a.dir)[r + j] = a.dir[j]
      BY <2>1, <3>1
    <3> QED BY <3>2, <3>3
  <2> HIDE DEF path
  <2>5. SubSeq(path, r + 1, r + d) = a.dir
    <3> DEFINE s == SubSeq(path, r + 1, r + d)
    <3>1. r + 1 \in Nat /\ r + d \in Nat /\ r + d - (r + 1) + 1 = d
      BY <2>1
    <3>2. \A j \in 1 .. d : s[j] = a.dir[j]
      <4> TAKE j \in 1 .. d
      <4>1. s[j] = path[r + 1 + j - 1] /\ r + 1 + j - 1 = r + j
        BY <2>1, <2>3, <3>1
      <4> QED BY <2>4, <4>1
    <3>3. s \in Seq(STRING) /\ Len(s) = d
      BY <2>1, <2>3, <3>1
    <3> HIDE DEF s
    <3>4. Len(s) = Len(a.dir) /\ \A j \in 1 .. Len(s) : s[j] = a.dir[j]
      BY <3>2, <3>3
    <3>5. s = a.dir
      BY <3>3, <3>4, SeqEqual
    <3> QED BY <3>5 DEF s
  <2>6. p.dirs = a.dir
    BY <1>1, <1>2
  <2>7. r \in 0 .. Len(path) - Len(p.dirs)
    BY <2>1, <2>3, <2>6
  <2>8. SubSeq(path, r + 1, r + Len(p.dirs)) = p.dirs
    BY <2>5, <2>6
  <2> HIDE DEF r, d
  <2> QED BY <2>7, <2>8
<1> QED BY <1>1, <1>2, <1>4, <1>5, <1>6 DEF MatchesPattern, p

LEMMA MadeIsFound ==
  ASSUME NEW a, Spelled(a.stem), a.dir \in Seq(STRING), a.stem \in STRING,
         a.ext \in RecognizedExtensions, NEW f, ~IsSelf(a, f), NEW line \in LineType,
         NEW t \in Range(line.templates), Makes(t, a)
  PROVE  Dynamic(a, f, line) # {}
<1>1. PICK i \in DOMAIN line.templates : t = line.templates[i]
  BY DEF Range
<1>2. t.marker = "${" /\ t.closed /\ t.ext \in RecognizedExtensions
  BY DEF Makes
<1>3. HasDynamicCandidate(line)
  BY <1>2 DEF HasDynamicCandidate
<1>4. /\ i \in DOMAIN DynamicPatterns(line)
      /\ DynamicPatterns(line)[i] = Pattern(t.dirs, t.pre, t.suf, t.ext)
  <2> DEFINE read == {j \in DOMAIN line.templates :
                        line.templates[j].closed
                          /\ line.templates[j].ext \in RecognizedExtensions}
             exts == {j \in DOMAIN line.exts : line.exts[j] \in RecognizedExtensions}
             joined == IF line.plus /\ line.folders # <<>> /\ exts # {}
                       THEN {Len(line.templates) + 1} ELSE {}
             Read(j) == Pattern(line.templates[j].dirs, line.templates[j].pre,
                                line.templates[j].suf, line.templates[j].ext)
             other == Pattern(Last(line.folders), "", "", line.exts[Max(exts)])
  <2>1. DynamicPatterns(line)
          = [j \in read \cup joined |-> IF j \in read THEN Read(j) ELSE other]
    BY DEF DynamicPatterns
  <2>2. i \in read /\ Read(i) = Pattern(t.dirs, t.pre, t.suf, t.ext)
    BY <1>1, <1>2
  <2> HIDE DEF read, joined, other, Read
  <2> QED BY <2>1, <2>2
<1>5. MatchesPattern(a, DynamicPatterns(line)[i])
  BY <1>4, MadeMatches
<1> QED BY <1>3, <1>4, <1>5 DEF Dynamic

(* What is found is a reference.                                           *)
LEMMA FoundIsReference ==
  ASSUME NEW assets, NEW a \in assets, NEW cfg, NEW f, f.lines \in Seq(LineType), NEW k,
         NEW i \in DOMAIN f.lines, IsCode(f.lines, i),
         \/ \E j \in DOMAIN f.lines[i].words : ByFilename(a, f, f.lines[i], j)
         \/ Dynamic(a, f, f.lines[i]) # {}
  PROVE  \E r \in FileRefs(assets, cfg, f, k) : r.asset = a.id
<1> DEFINE conf == Confidence(a, cfg, f, f.lines[i])
           line == f.lines[i]
           r == [asset |-> a.id, file |-> k, line |-> i, content |-> f.lines[i],
                 confidence |-> conf]
<1>1. i \in LiveLines(f.lines, f.ext)
  BY CodeIsLive
<1>2. conf \in {"low", "medium", "high"}
  <2> DEFINE stem == {j \in DOMAIN line.words : ByStem(a, cfg, f, line, j)}
             file == {j \in DOMAIN line.words : ByFilename(a, f, line, j)}
             dyn == Dynamic(a, f, line)
             first == DynamicPatterns(line)[Min(dyn)]
  <2>1. conf = IF stem \cup file \cup dyn = {} /\ ~ByGuid(a, line) THEN None
               ELSE IF f.ext \in {"md", "mdx"} THEN "low"
               ELSE IF stem # {} /\ (file = {} \/ Min(stem) <= Min(file)) THEN "medium"
               ELSE IF file # {} \/ ByGuid(a, line) THEN "high"
               ELSE IF first.dirs # <<>> \/ first.pre # "" THEN "medium" ELSE "low"
    BY DEF Confidence
  <2>2. stem \cup file \cup dyn # {}
    OBVIOUS
  <2> HIDE DEF stem, file, dyn, first, conf
  <2> QED BY <2>1, <2>2
<1>3. conf # None
  BY <1>2, NothingAssumption
<1> HIDE DEF conf
<1>4. r.confidence = conf /\ r.asset = a.id
  OBVIOUS
<1>5. r \in FileRefs(assets, cfg, f, k)
  BY <1>1, <1>3, <1>4 DEF FileRefs, conf
<1> QED BY <1>4, <1>5

-----------------------------------------------------------------------------
(* What is traced is what is there.  No line is rewritten while the daemon *)
(* analyses, nor during a first check: the daemon keeps no analysis yet.   *)
Checking == scan.phase = "gated" \/ (Working /\ scan.by = "check")

NotRewritten ==
  /\ index # None \/ rewrite # None => scans >= 1 /\ (Checking => scans >= 2)
  /\ Working /\ scan.by = "daemon" => rewrite = None

LEMMA IdleNow ==
  ASSUME scan = NoScan PROVE ~Checking /\ ~Working
<1> QED BY NoScanFields DEF Checking, Working

LEMMA AdvanceStages ==
  ASSUME IsScan, Advance
  PROVE  Working /\ Working' /\ scan'.by = scan.by
<1>1. CASE Ingest
  <2>1. SameCrawl /\ scan.phase = "ingest" /\ scan'.phase = "ingest"
    BY <1>1, IngestStep
  <2> QED BY <2>1 DEF SameCrawl, Working
<1>2. CASE HashAndGroup
  <2>1. SameCrawl /\ scan.phase = "ingest" /\ scan'.phase = "trace"
    BY <1>2, HashStep
  <2> QED BY <2>1 DEF SameCrawl, Working
<1>3. CASE TraceFile
  <2>1. SameCrawl /\ scan.phase = "trace" /\ scan'.phase = "trace"
    BY <1>3, TraceStep
  <2> QED BY <2>1 DEF SameCrawl, Working
<1>4. CASE Govern
  <2>1. SameCrawl /\ scan.phase = "trace" /\ scan'.phase = "done"
    BY <1>4, GovernStep
  <2> QED BY <2>1 DEF SameCrawl, Working
<1>5. CASE RecordSnapshot \/ WriteAuditEvent
  <2>1. /\ SameCrawl /\ scan.phase \in {"done", "snapshotted"}
        /\ scan'.phase \in {"snapshotted", "audited", "failed"}
    BY <1>5, RecordStep
  <2> QED BY <2>1 DEF SameCrawl, Working
<1> QED BY <1>1, <1>2, <1>3, <1>4, <1>5 DEF Advance

LEMMA NotRewrittenHolds ==
  ASSUME AnalysisInv, NotRewritten, [Next]_vars
  PROVE  NotRewritten'
<1>1. scans \in Nat /\ Stages /\ IsScan
  BY DEF AnalysisInv, Given, ScanTyped
<1>2. CASE StartScan
  <2>1. /\ scans' = scans + 1 /\ index' = index /\ rewrite' = rewrite /\ rewrite = None
    BY <1>2 DEF StartScan
  <2>2. scan' = NoScan \/ (scan'.phase = "ingest" /\ scan'.by = "daemon")
    BY <1>2, StartStep DEF StartScan, StartedAs
  <2>3. ~Checking'
    BY <2>2, NoScanFields DEF Checking, Working
  <2> QED BY <1>1, <2>1, <2>3 DEF NotRewritten
<1>3. CASE StartCheck
  <2>1. /\ scans' = scans + 1 /\ index' = index /\ rewrite' = rewrite
        /\ scan.phase = "idle"
    BY <1>3 DEF StartCheck
  <2>2. \/ scan' = scan
        \/ scan' = [NoScan EXCEPT !.phase = "gated", !.ci = Load(config).ci]
    BY <1>3 DEF StartCheck
  <2>3. scan'.phase \in {"idle", "gated"}
    BY <2>1, <2>2, GatedStep
  <2> QED BY <1>1, <2>1, <2>3 DEF NotRewritten, Working
<1>4. CASE RunCheck
  <2>1. scans' = scans /\ index' = index /\ rewrite' = rewrite /\ Start("check")
    BY <1>4 DEF RunCheck
  <2>2. /\ scan.phase = "gated"
        /\ scan' = NoScan \/ (scan'.phase = "ingest" /\ scan'.by = "check")
    BY <2>1, StartStep DEF StartedAs
  <2>3. Checking /\ ~(Working' /\ scan'.by = "daemon")
    BY <2>2, NoScanFields DEF Checking, Working
  <2> QED BY <2>1, <2>3 DEF NotRewritten
<1>5. CASE Advance
  <2>1. Working /\ Working' /\ scan'.by = scan.by
    BY <1>1, <1>5, AdvanceStages
  <2>2. scans' = scans /\ index' = index /\ rewrite' = rewrite
    BY <1>5 DEF Advance, Ingest, HashAndGroup, TraceFile, Govern, RecordSnapshot,
                WriteAuditEvent
  <2> QED BY <2>1, <2>2 DEF NotRewritten, Checking, Working
<1>6. CASE AnswerCheck \/ KeepIndex
  <2>1. scan' = NoScan /\ scans' = scans /\ rewrite' = rewrite
    BY <1>6 DEF AnswerCheck, KeepIndex
  <2>2. scans >= 1
    BY <1>1, <1>6 DEF AnswerCheck, KeepIndex, Stages
  <2>3. ~Checking' /\ ~Working'
    BY <2>1, NoScanFields DEF Checking, Working
  <2> QED BY <2>1, <2>2, <2>3 DEF NotRewritten
<1>7. CASE ReadForRewrite
  <2>1. /\ scans' = scans /\ index' = index /\ scan' = scan /\ index # None
        /\ scan.phase = "idle" \/ scan.by # "daemon"
    BY <1>7 DEF ReadForRewrite, DaemonFree
  <2> QED BY <2>1 DEF NotRewritten, Checking, Working
<1>8. CASE WriteRewrite
  <2>1. scans' = scans /\ index' = index /\ scan' = scan /\ rewrite' = None
    BY <1>8 DEF WriteRewrite
  <2> QED BY <2>1 DEF NotRewritten, Checking, Working
<1>9. CASE Kill
  <2>1. scans' = scans /\ index' = None /\ rewrite' = None
    BY <1>9 DEF Kill
  <2> QED BY <2>1 DEF NotRewritten
<1>10. CASE ProposeRewrites \/ UserEdit \/ UNCHANGED vars
  <2>1. scans' = scans /\ index' = index /\ scan' = scan /\ rewrite' = rewrite
    BY <1>10 DEF ProposeRewrites, UserEdit, vars
  <2> QED BY <2>1 DEF NotRewritten, Checking, Working
<1> QED
  BY <1>2, <1>3, <1>4, <1>5, <1>6, <1>7, <1>8, <1>9, <1>10 DEF Next, Advance

(* Every source there is is still to be traced, or its references are held.*)
Quiet == edits = 0 /\ (scan.by = "daemon" \/ scans = 1)

Sources == SourceFiles(scan.patterns, scan.policy.tracing) \ Ids

Held(k) == FileRefs(scan.assets, scan.policy.tracing, disk[k], k) \subseteq scan.refs

EverySourceTraced ==
  /\ Judged => scan.sources = {}
  /\ Crawled /\ Quiet /\ scan.assets # {} =>
       \A k \in Sources : k \in scan.sources \/ (disk[k].text => Held(k))

LEMMA QuietSparesDisk ==
  ASSUME AnalysisInv, NotRewritten, [Next]_vars, Crawled, Quiet', scan'.by = scan.by,
         scans' = scans
  PROVE  Quiet /\ disk' = disk
<1>1. scans \in Nat /\ edits \in Nat /\ Stages /\ Working
  BY DEF AnalysisInv, Given, ScanTyped, Crawled
<1>2. ~UserEdit
  BY <1>1 DEF UserEdit, Quiet
<1>3. edits' = edits
  BY <1>2, StepEffects
<1>4. ~WriteRewrite
  BY <1>1 DEF WriteRewrite, Quiet, NotRewritten, Checking, Stages
<1> QED BY <1>2, <1>3, <1>4, StepEffects DEF Quiet

LEMMA EverySourceStays ==
  ASSUME AnalysisInv, NotRewritten, EverySourceTraced, [Next]_vars
  PROVE  EverySourceTraced'
<1>1. IsScan /\ Given /\ Stages
  BY DEF AnalysisInv, ScanTyped
<1>2. CASE scan' = NoScan \/ scan'.phase \in {"gated", "ingest"}
  BY <1>2, NoScanFields DEF EverySourceTraced, Judged, Crawled, Working
<1>3. ASSUME NEW by, Start(by) PROVE EverySourceTraced'
  BY <1>2, <1>3, StartStep DEF StartedAs
<1>4. CASE scan' = [NoScan EXCEPT !.phase = "gated", !.ci = Load(config).ci]
  BY <1>2, <1>4, GatedStep
<1>5. CASE Ingest
  BY <1>1, <1>2, <1>5, IngestStep
<1>6. ASSUME Crawled, Crawled', SameCrawl, scan'.assets = scan.assets, scans' = scans,
             Judged' => scan'.sources = {},
             Crawled' /\ Quiet /\ disk' = disk /\ scan.assets # {} =>
               \A k \in Sources :
                 \/ k \in scan'.sources
                 \/ disk[k].text =>
                      FileRefs(scan.assets, scan.policy.tracing, disk[k], k) \subseteq scan'.refs
      PROVE  EverySourceTraced'
  <2> SUFFICES ASSUME Quiet', scan'.assets # {}, NEW k \in Sources'
               PROVE  k \in scan'.sources \/ (disk'[k].text => Held(k)')
    BY <1>6 DEF EverySourceTraced
  <2>1. scan'.by = scan.by
    BY <1>6 DEF SameCrawl
  <2>2. Quiet /\ disk' = disk
    BY <1>6, <2>1, QuietSparesDisk
  <2>3. scan'.patterns = scan.patterns /\ scan'.policy = scan.policy
    BY <1>6 DEF SameCrawl
  <2>4. Sources' = Sources
    BY <1>6, <2>2, <2>3 DEF Sources, SourceFiles, Present, Ids
  <2>5. Held(k)' = (FileRefs(scan.assets, scan.policy.tracing, disk[k], k)
                      \subseteq scan'.refs)
    BY <1>6, <2>2, <2>3 DEF Held
  <2> QED BY <1>6, <2>2, <2>4, <2>5
<1>7. CASE HashAndGroup
  <2>1. /\ scan'.phase = "trace" /\ SameCrawl
        /\ scan'.assets # {} =>
             scan'.sources = SourceFiles(scan.patterns, scan.policy.tracing)
                               \ {a.id : a \in scan'.assets}
    BY <1>1, <1>7, HashStep
  <2>2. disk' = disk
    BY <1>7 DEF HashAndGroup
  <2>3. scan'.assets # {} => Sources' = scan'.sources
    BY <2>1, <2>2 DEF SameCrawl, Sources, SourceFiles, Present, Ids
  <2> QED BY <2>1, <2>3 DEF EverySourceTraced, Judged
<1>8. CASE TraceFile
  <2>1. PICK k \in scan.sources :
          /\ scan'.sources = scan.sources \ {k}
          /\ \/ /\ disk[k] # None => ~disk[k].text
                /\ scan'.refs = scan.refs
             \/ /\ disk[k] # None
                /\ scan'.refs = scan.refs \cup
                     FileRefs(scan.assets, scan.policy.tracing, disk[k], k)
    BY <1>1, <1>8, TraceStep
  <2>2. /\ SameCrawl /\ scan'.assets = scan.assets
        /\ scan.phase = "trace" /\ scan'.phase = "trace"
    BY <1>1, <1>8, TraceStep DEF SameAssets
  <2>3. scans' = scans
    BY <1>8 DEF TraceFile
  <2>4. Crawled /\ Crawled' /\ ~Judged'
    BY <2>2 DEF Crawled, Working, Judged
  <2>5. ASSUME Quiet, scan.assets # {}, NEW j \in Sources
        PROVE  \/ j \in scan'.sources
               \/ disk[j].text =>
                    FileRefs(scan.assets, scan.policy.tracing, disk[j], j) \subseteq scan'.refs
    <3>1. j \in scan.sources \/ (disk[j].text => Held(j))
      BY <2>4, <2>5 DEF EverySourceTraced
    <3>2. scan.refs \subseteq scan'.refs
      BY <2>1
    <3>3. CASE j = k
      <4>1. disk[j] # None
        BY <2>5 DEF Sources, SourceFiles, Present
      <4> QED BY <2>1, <3>3, <4>1
    <3>4. CASE j # k
      BY <2>1, <3>1, <3>2, <3>4 DEF Held
    <3> QED BY <3>3, <3>4
  <2> QED BY <1>6, <2>2, <2>3, <2>4, <2>5
<1>9. CASE Govern \/ RecordSnapshot \/ WriteAuditEvent
  <2>1. /\ SameCrawl /\ scan'.assets = scan.assets /\ scan'.sources = scan.sources
        /\ scan.refs \subseteq scan'.refs
        /\ scan.phase \in {"trace", "done", "snapshotted"}
        /\ scan'.phase \in {"done", "snapshotted", "audited", "failed"}
    BY <1>1, <1>9, GovernStep, RecordStep DEF SameAssets, SameTraces
  <2>2. scans' = scans /\ scan.sources = {}
    BY <1>9, <2>1 DEF Govern, RecordSnapshot, WriteAuditEvent, EverySourceTraced, Judged
  <2>3. Crawled /\ Crawled'
    BY <2>1 DEF Crawled, Working
  <2>4. ASSUME Quiet, scan.assets # {}, NEW j \in Sources
        PROVE  disk[j].text =>
                 FileRefs(scan.assets, scan.policy.tracing, disk[j], j) \subseteq scan'.refs
    BY <2>1, <2>2, <2>3, <2>4 DEF EverySourceTraced, Held
  <2> QED BY <1>6, <2>1, <2>2, <2>3, <2>4
<1>10. CASE scan' = scan
  <2>1. CASE ~Crawled
    BY <1>10, <2>1 DEF EverySourceTraced, Crawled, Judged, Working
  <2>2. CASE Crawled
    <3>1. ~StartScan /\ ~StartCheck
      BY <2>2, StartStep DEF Crawled, Working, StartScan, StartCheck
    <3>2. scans' = scans
      BY <3>1, StepEffects
    <3>3. Judged' => scan'.sources = {}
      BY <1>10 DEF EverySourceTraced, Judged
    <3>4. Crawled' /\ SameCrawl
      BY <1>10, <2>2 DEF Crawled, Working, SameCrawl
    <3>5. ASSUME Quiet, scan.assets # {}, NEW j \in Sources
          PROVE  \/ j \in scan'.sources
                 \/ disk[j].text =>
                      FileRefs(scan.assets, scan.policy.tracing, disk[j], j) \subseteq scan'.refs
      BY <1>10, <2>2, <3>5 DEF EverySourceTraced, Held
    <3> QED BY <1>6, <1>10, <2>2, <3>2, <3>3, <3>4, <3>5
  <2> QED BY <2>1, <2>2
<1> QED
  BY <1>2, <1>3, <1>4, <1>5, <1>7, <1>8, <1>9, <1>10, ScanCases DEF Advance, AnswerCheck

LEMMA EverySourceHolds == Spec => [](NotRewritten /\ EverySourceTraced)
<1>1. Init => NotRewritten /\ EverySourceTraced
  <2> SUFFICES ASSUME Init PROVE NotRewritten /\ EverySourceTraced
    OBVIOUS
  <2>1. scan = NoScan /\ index = None /\ rewrite = None
    BY DEF Init
  <2>2. ~Working /\ ~Judged
    BY <2>1, NoScanFields DEF Working, Judged
  <2> QED BY <2>1, <2>2 DEF NotRewritten, EverySourceTraced, Crawled
<1>2. AnalysisInv /\ NotRewritten /\ EverySourceTraced /\ [Next]_vars
        => (NotRewritten /\ EverySourceTraced)'
  BY NotRewrittenHolds, EverySourceStays
<1> QED BY <1>1, <1>2, Invariance, PTL DEF Spec
(* A line of code on which an asset is found spares it.                    *)
LEMMA FoundIsNotFlagged ==
  ASSUME AnalysisInv, EverySourceTraced, Untouched, NEW a \in scan.assets,
         NEW k \in Sources, disk[k].text, NEW i \in DOMAIN disk[k].lines,
         disk[k].lines \in Seq(LineType), IsCode(disk[k].lines, i),
         \/ \E j \in DOMAIN disk[k].lines[i].words :
              ByFilename(a, disk[k], disk[k].lines[i], j)
         \/ Dynamic(a, disk[k], disk[k].lines[i]) # {}
  PROVE  ~IsFlagged(a, "unref")
<1>1. Done /\ Quiet /\ Crawled /\ Judged /\ scan.assets # {}
  BY DEF Untouched, Done, Quiet, Crawled, Judged, Working
<1>2. Held(k)
  BY <1>1 DEF EverySourceTraced
<1>3. PICK r \in FileRefs(scan.assets, scan.policy.tracing, disk[k], k) : r.asset = a.id
  <2> DEFINE f == disk[k]
             cfg == scan.policy.tracing
             assets == scan.assets
  <2>1. /\ f.lines \in Seq(LineType) /\ i \in DOMAIN f.lines /\ IsCode(f.lines, i)
        /\ \/ \E j \in DOMAIN f.lines[i].words : ByFilename(a, f, f.lines[i], j)
           \/ Dynamic(a, f, f.lines[i]) # {}
    OBVIOUS
  <2>2. a \in assets
    OBVIOUS
  <2> HIDE DEF f, cfg, assets
  <2>3. \E r \in FileRefs(assets, cfg, f, k) : r.asset = a.id
    BY <2>1, <2>2, FoundIsReference
  <2> QED BY <2>3 DEF f, cfg, assets
<1>4. r \in scan.refs
  BY <1>2 DEF Held
<1>5. PICK seen :
        scan.diags = Diagnostics(scan.policy, seen, scan.assets, scan.groups, scan.refs)
  BY <1>1 DEF AnalysisInv, JudgedAsRead
<1>6. "unref" \in RuleIds
  BY DEF RuleIds
<1>7. IsFlagged(a, "unref")
        <=> Flagged("unref", scan.policy, seen, scan.groups, scan.refs, a)
  BY <1>1, <1>5, <1>6, FlaggedIffSaid
<1>8. Flagged("unref", scan.policy, seen, scan.groups, scan.refs, a)
        <=> Unreferenced(scan.policy, scan.refs, a)
  BY DEF Flagged
<1>9. ~Unreferenced(scan.policy, scan.refs, a)
  BY <1>3, <1>4 DEF Unreferenced
<1> QED BY <1>7, <1>8, <1>9

LEMMA CodeIsOnLines ==
  ASSUME AnalysisInv, NEW kl \in CodeLines
  PROVE  /\ kl[1] \in Sources /\ disk[kl[1]].text
         /\ kl[2] \in DOMAIN disk[kl[1]].lines /\ disk[kl[1]].lines \in Seq(LineType)
         /\ IsCode(disk[kl[1]].lines, kl[2]) /\ disk[kl[1]].dir \in Seq(STRING)
<1>1. /\ kl[1] \in Present /\ disk[kl[1]].text /\ kl[1] \notin Ids
      /\ IsSourceFile(scan.patterns, scan.policy.tracing, disk[kl[1]])
      /\ kl[2] \in DOMAIN disk[kl[1]].lines /\ IsCode(disk[kl[1]].lines, kl[2])
  BY DEF CodeLines, Ids
<1>2. Given /\ OnDisk
  BY DEF AnalysisInv
<1>3. kl[1] \in DOMAIN ws.files /\ Version(kl[1], disk[kl[1]])
  BY <1>1, <1>2, PresentIsOnDisk
<1>4. disk[kl[1]] \in FileType
  BY <1>2, <1>3, VersionIsFile, WorkspaceFacts
<1> QED BY <1>1, <1>4 DEF Sources, SourceFiles, FileType

LEMMA BornIsSpelled ==
  ASSUME AnalysisInv, NEW a \in scan.assets
  PROVE  /\ Spelled(a.stem) /\ a.dir \in Seq(STRING) /\ a.stem \in STRING
         /\ a.ext \in RecognizedExtensions
<1>1. Given /\ Born(a) /\ ws.files[a.id].format # "none"
  BY DEF AnalysisInv, ScanTyped, Contents, FoundAll
<1>2. a.id \in DOMAIN ws.files
  BY <1>1 DEF Born
<1>3. a.stem = ws.files[a.id].stem /\ a.ext = ws.files[a.id].ext
  BY <1>1 DEF Born, AssetOf
<1>4. ws.files[a.id].ext \in RecognizedExtensions
  BY <1>1, <1>2, WorkspaceFacts
<1> QED BY <1>1, <1>2, <1>3, <1>4, BornFields, StemIsSpelled

(* A used asset is not reported unused: if its path, with its extension and*)
(* in quotes, is on a line of code of a source that does not bear its name,*)
(* it is never flagged no-unreferenced-assets (detect_references).         *)
THEOREM UsedIsSpared == Spec => []UsedIsNotFlagged
<1>1. AnalysisInv /\ EverySourceTraced => UsedIsNotFlagged
  <2> SUFFICES ASSUME AnalysisInv, EverySourceTraced, Untouched,
                      NEW a \in scan.assets, NEW kl \in CodeLines,
                      ~IsSelf(a, disk[kl[1]]),
                      NEW w \in Range(disk[kl[1]].lines[kl[2]].words),
                      w.quoted, w.lead \in {"./", "/"}, LeadsTo(w, disk[kl[1]].dir, a)
               PROVE  ~IsFlagged(a, "unref")
    BY DEF UsedIsNotFlagged
  <2> DEFINE f == disk[kl[1]]
             line == f.lines[kl[2]]
  <2>1. /\ kl[1] \in Sources /\ f.text /\ kl[2] \in DOMAIN f.lines
        /\ f.lines \in Seq(LineType) /\ IsCode(f.lines, kl[2]) /\ f.dir \in Seq(STRING)
    BY CodeIsOnLines
  <2>2. line \in LineType
    BY <2>1
  <2>3. PICK i \in DOMAIN line.words : w = line.words[i]
    BY DEF Range
  <2>4. Spelled(a.stem) /\ a.dir \in Seq(STRING)
    BY BornIsSpelled
  <2>5. ~IsSelf(a, f) /\ LeadsTo(line.words[i], f.dir, a) /\ line.words[i].quoted
        /\ line.words[i].lead \in {"./", "/"}
    BY <2>3
  <2>6. ByFilename(a, f, line, i)
    <3> HIDE DEF line, f
    <3> QED BY <2>1, <2>2, <2>4, <2>5, WrittenIsFound
  <2>7. \E j \in DOMAIN disk[kl[1]].lines[kl[2]].words :
          ByFilename(a, disk[kl[1]], disk[kl[1]].lines[kl[2]], j)
    BY <2>6
  <2> QED BY <2>1, <2>7, FoundIsNotFlagged
<1> QED BY <1>1, Invariance, EverySourceHolds, PTL

(* A generated name is a use: an asset that a template on a line of code   *)
(* can produce is not flagged either (extract_dynamic_patterns).           *)
THEOREM GeneratedIsSpared == Spec => []GeneratedIsNotFlagged
<1>1. AnalysisInv /\ EverySourceTraced => GeneratedIsNotFlagged
  <2> SUFFICES ASSUME AnalysisInv, EverySourceTraced, Untouched,
                      NEW a \in scan.assets, NEW kl \in CodeLines,
                      ~IsSelf(a, disk[kl[1]]),
                      NEW t \in Range(disk[kl[1]].lines[kl[2]].templates), Makes(t, a)
               PROVE  ~IsFlagged(a, "unref")
    BY DEF GeneratedIsNotFlagged, Makes
  <2> DEFINE f == disk[kl[1]]
             line == f.lines[kl[2]]
  <2>1. /\ kl[1] \in Sources /\ f.text /\ kl[2] \in DOMAIN f.lines
        /\ f.lines \in Seq(LineType) /\ IsCode(f.lines, kl[2])
    BY CodeIsOnLines
  <2>2. line \in LineType
    BY <2>1
  <2>3. /\ Spelled(a.stem) /\ a.dir \in Seq(STRING) /\ a.stem \in STRING
        /\ a.ext \in RecognizedExtensions
    BY BornIsSpelled
  <2>4. Dynamic(a, f, line) # {}
    <3>1. t \in Range(line.templates) /\ ~IsSelf(a, f)
      OBVIOUS
    <3> HIDE DEF line, f
    <3> QED BY <2>2, <2>3, <3>1, MadeIsFound
  <2>5. Dynamic(a, disk[kl[1]], disk[kl[1]].lines[kl[2]]) # {}
    BY <2>4
  <2> QED BY <2>1, <2>5, FoundIsNotFlagged
<1> QED BY <1>1, Invariance, EverySourceHolds, PTL

-----------------------------------------------------------------------------
(* Rewritten lines.  A path is its first folders and the rest.             *)
LEMMA CutInTwo ==
  ASSUME NEW X, NEW s \in Seq(X), NEW n \in 0 .. Len(s)
  PROVE  /\ SubSeq(s, 1, n) \in Seq(X) /\ SubSeq(s, n + 1, Len(s)) \in Seq(X)
         /\ SubSeq(s, 1, n) \o SubSeq(s, n + 1, Len(s)) = s
<1> DEFINE u == SubSeq(s, 1, n)
           v == SubSeq(s, n + 1, Len(s))
<1>1. Len(s) \in Nat /\ n \in Nat /\ n <= Len(s) /\ n + 1 \in Nat
  OBVIOUS
<1>2. u \in Seq(X) /\ Len(u) = n /\ \A i \in 1 .. n : u[i] = s[i]
  BY <1>1
<1>3. v \in Seq(X) /\ Len(v) = Len(s) - n
  BY <1>1
<1>4. \A i \in 1 .. Len(s) - n : v[i] = s[n + i]
  <2> TAKE i \in 1 .. Len(s) - n
  <2>1. v[i] = s[n + 1 + i - 1] /\ n + 1 + i - 1 = n + i
    BY <1>1
  <2> QED BY <2>1
<1> HIDE DEF u, v
<1>5. u \o v \in Seq(X) /\ Len(u \o v) = Len(s)
  BY <1>1, <1>2, <1>3
<1>6. ASSUME NEW i \in 1 .. Len(u \o v) PROVE (u \o v)[i] = s[i]
  <2>1. i \in 1 .. Len(u) + Len(v) /\ i \in 1 .. Len(s)
    BY <1>1, <1>2, <1>3, <1>5
  <2>2. (u \o v)[i] = IF i <= Len(u) THEN u[i] ELSE v[i - Len(u)]
    BY <1>2, <1>3, <2>1, ConcatProperties
  <2>3. CASE i <= n
    BY <1>2, <2>1, <2>2, <2>3
  <2>4. CASE i > n
    <3>1. i - n \in 1 .. Len(s) - n /\ n + (i - n) = i
      BY <1>1, <2>1, <2>4
    <3>2. v[i - n] = s[i]
      BY <1>4, <3>1
    <3> QED BY <1>1, <1>2, <2>1, <2>2, <2>4, <3>2
  <2> QED BY <1>1, <2>1, <2>3, <2>4
<1>7. u \o v = s
  <2> DEFINE uv == u \o v
  <2>1. uv \in Seq(X) /\ Len(uv) = Len(s) /\ \A i \in 1 .. Len(uv) : uv[i] = s[i]
    BY <1>5, <1>6
  <2> HIDE DEF uv
  <2>2. uv = s
    BY <2>1, SeqEqual
  <2> QED BY <2>2 DEF uv
<1> QED BY <1>2, <1>3, <1>7 DEF u, v

\* The folders two paths have in common.
LEMMA CommonFolders ==
  ASSUME NEW from \in Seq(STRING), NEW to \in Seq(STRING)
  PROVE  LET n == R!CommonDirs(from, to) IN
         n \in 0 .. Len(from) /\ n \in 0 .. Len(to) /\ SubSeq(from, 1, n) = SubSeq(to, 1, n)
<1> DEFINE Shared == {n \in 0 .. Len(from) :
                        n <= Len(to) /\ SubSeq(from, 1, n) = SubSeq(to, 1, n)}
           common == R!CommonDirs(from, to)
<1>1. Shared \subseteq 0 .. Len(from) /\ Len(from) \in Nat /\ Len(to) \in Nat
  OBVIOUS
<1>2. SubSeq(from, 1, 0) = SubSeq(to, 1, 0)
  OBVIOUS
<1>3. 0 \in Shared
  BY <1>1, <1>2
<1>4. common = Max(Shared)
  BY DEF R!CommonDirs, R!Max, Max
<1>5. common \in Shared
  <2> HIDE DEF Shared, common
  <2> QED BY <1>1, <1>3, <1>4, MaxOf
<1> HIDE DEF common
<1>6. common \in 0 .. Len(from) /\ common <= Len(to)
      /\ SubSeq(from, 1, common) = SubSeq(to, 1, common)
  BY <1>5
<1> QED BY <1>1, <1>6 DEF common

(* A path under no scheme has one of these before it.                      *)
NoLead    == ""
Unschemed == {NoLead, "./", "/"}

LEMMA NoLeadIsNone ==
  /\ NoLead \notin {"./", "/", "res:", "https:", "res://", "https://", "@"}
  /\ R!SchemeLeft(NoLead) = NoLead /\ R!SchemeLeft("./") = NoLead
  /\ R!SchemeLeft("/") = NoLead
<1>1. NoLead \notin {"./", "/", "res:", "https:", "res://", "https://", "@"}
  BY Zenon DEF NoLead
<1>2. /\ R!SchemeLeft(NoLead) = NoLead /\ R!SchemeLeft("./") = NoLead
      /\ R!SchemeLeft("/") = NoLead
  BY Zenon DEF NoLead, R!SchemeLeft
<1> QED BY <1>1, <1>2

(* The word that stands for a path leads from the folder it is written in  *)
(* to the kept copy.                                                       *)
LEMMA RelativeLeads ==
  ASSUME NEW old \in WordType, old.quoted, old.lead \in Unschemed,
         NEW dir \in Seq(STRING), NEW keeper, keeper.dir \in Seq(STRING),
         Spelled(keeper.stem)
  PROVE  LET w == R!RelativeWord(old, dir, keeper) IN
         /\ w.stem = keeper.stem /\ w.ext = keeper.ext /\ w.quoted
         /\ w.lead \in {NoLead, "./"} /\ (HasSlash(w) => MatchesToken(keeper, dir, w))
<1> DEFINE from == RootDir \o dir
           to == RootDir \o keeper.dir
           common == R!CommonDirs(from, to)
           ups == Len(from) - common
           dirs == SubSeq(to, common + 1, Len(to))
           lead == IF ups > 0 \/ old.lead = "./" THEN "./" ELSE NoLead
           w == R!RelativeWord(old, dir, keeper)
<1>1. R!SchemeLeft(old.lead) = NoLead
  BY NoLeadIsNone DEF Unschemed
<1>2. w = R!Word(lead, ups, dirs, keeper.stem, keeper.ext, old.quoted)
  <2>1. R!SchemeLeft(old.lead) = ""
    BY <1>1, Zenon DEF NoLead
  <2> QED BY <2>1, Zenon DEF R!RelativeWord, NoLead
<1> HIDE DEF w
<1>3. from \in Seq(STRING) /\ to \in Seq(STRING)
  <2>1. from \in Seq(STRING)
    BY RootDirAssumption
  <2>2. to \in Seq(STRING)
    BY RootDirAssumption
  <2> QED BY <2>1, <2>2
<1>4. common \in 0 .. Len(from) /\ common \in 0 .. Len(to)
  <2> HIDE DEF from, to
  <2> QED BY <1>3, CommonFolders
<1>a. SubSeq(from, 1, common) = SubSeq(to, 1, common)
  <2> HIDE DEF from, to
  <2> QED BY <1>3, CommonFolders
<1>5. ups \in Nat /\ Len(from) - ups = common
  <2> HIDE DEF from, common
  <2>1. Len(from) \in Nat /\ common \in 0 .. Len(from)
    BY <1>3, <1>4
  <2> QED BY <2>1
<1>6. /\ SubSeq(to, 1, common) \in Seq(STRING) /\ dirs \in Seq(STRING)
      /\ SubSeq(to, 1, common) \o dirs = to
  <2> HIDE DEF from, to, common
  <2> QED BY <1>3, <1>4, CutInTwo
<1>7. IsSuffix(dirs, to)
  <2> DEFINE first == SubSeq(to, 1, common)
  <2>1. first \in Seq(STRING) /\ dirs \in Seq(STRING) /\ first \o dirs = to
    BY <1>6
  <2> HIDE DEF first, dirs, to
  <2>2. IsSuffix(dirs, first \o dirs)
    BY <2>1, RestIsSuffix
  <2> QED BY <2>1, <2>2
<1>8. SubSeq(from, 1, Len(from) - ups) \o dirs = to
  <2> HIDE DEF from, to, common, ups, dirs
  <2> QED BY <1>a, <1>5, <1>6
<1> HIDE DEF lead, ups, dirs
<1>9. /\ w.lead = lead /\ w.ups = ups /\ w.dirs = dirs /\ w.stem = keeper.stem
      /\ w.ext = keeper.ext /\ w.quoted = old.quoted
  BY <1>2 DEF R!Word
<1>10. lead \in {NoLead, "./"} /\ (lead = NoLead => ups = 0)
  <2>1. lead = "./" \/ (lead = NoLead /\ ~(ups > 0))
    BY DEF lead
  <2>2. ups \in Nat
    BY <1>5
  <2> QED BY <2>1, <2>2, NoLeadIsNone
<1>11. SameName(keeper, w) /\ NameEnds(keeper, w) /\ InFolder(keeper, w.dirs)
  BY <1>7, <1>9, EndsInItself DEF SameName, NameEnds, InFolder
<1>12. ASSUME HasSlash(w) PROVE MatchesToken(keeper, dir, w)
  <2>1. CASE lead = "./"
    <3>1. RootDir \o keeper.dir = Resolved(w, dir)
      BY <1>8, <1>9 DEF Resolved
    <3>2. MatchesToken(keeper, dir, w)
            <=> IF w.dirs = <<>>
                THEN RootDir \o keeper.dir = Resolved(w, dir) /\ NameEnds(keeper, w)
                ELSE SameName(keeper, w) /\ InFolder(keeper, w.dirs)
      BY <1>9, <2>1 DEF MatchesToken
    <3> QED BY <1>11, <3>1, <3>2
  <2>2. CASE lead = NoLead
    <3>0. w.lead = NoLead /\ ~(w.ups > 0)
      BY <1>9, <1>10, <2>2
    <3>1. w.dirs # <<>>
      BY <1>12, <3>0, NoLeadIsNone DEF HasSlash
    <3>2. MatchesToken(keeper, dir, w)
            <=> IF w.dirs = <<>>
                THEN NameEnds(keeper, w) \/ (w.ext = None /\ EndsWith(keeper.stem, w.stem))
                ELSE keeper.stem = w.stem /\ w.ext \in {keeper.ext, None}
                       /\ InFolder(keeper, w.dirs)
      BY <1>9, <2>2, NoLeadIsNone DEF MatchesToken
    <3> QED BY <1>9, <1>11, <3>1, <3>2
  <2> QED BY <1>10, <2>1, <2>2
<1> QED BY <1>9, <1>10, <1>12 DEF w

LEMMA RewrittenNames ==
  ASSUME NEW line \in LineType, Len(line.words) = 1, line.folders = <<>>,
         \A t \in Range(line.templates) : t.dirs = <<>>,
         line.words[1].quoted, line.words[1].lead \in Unschemed,
         NEW a, R!Holding(line, a) # {}, NEW dir \in Seq(STRING),
         NEW keeper, keeper.dir \in Seq(STRING), Spelled(keeper.stem),
         NEW f, f.dir = dir, ~IsSelf(keeper, f)
  PROVE  ByFilename(keeper, f, R!RewrittenLine(line, a, dir, keeper), 1)
<1> DEFINE i == R!Min(R!Holding(line, a))
           old == line.words[1]
           w == R!RelativeWord(old, dir, keeper)
           words == [line.words EXCEPT ![1] = w]
           new == [line EXCEPT !.words = words]
<1>1. line.words \in Seq(WordType)
  BY DEF LineType
<1>2. DOMAIN line.words = {1}
  <2>1. DOMAIN line.words = 1 .. 1
    BY <1>1
  <2> QED BY <2>1
<1>3. old \in WordType
  BY <1>1, <1>2
<1>4. i = 1
  <2>1. R!Holding(line, a) = {1}
    BY <1>2 DEF R!Holding
  <2>2. i = Min({1})
    BY <2>1 DEF R!Min, Min
  <2>3. {1} \subseteq Nat /\ {1} # {}
    OBVIOUS
  <2>4. Min({1}) \in {1}
    BY <2>3, MinOf
  <2> QED BY <2>2, <2>4
<1>5. R!RewrittenLine(line, a, dir, keeper) = new
  BY <1>4 DEF R!RewrittenLine, LineType
<1>6. /\ w.stem = keeper.stem /\ w.ext = keeper.ext /\ w.quoted
      /\ w.lead \in {NoLead, "./"} /\ (HasSlash(w) => MatchesToken(keeper, dir, w))
  <2>1. old.quoted /\ old.lead \in Unschemed
    OBVIOUS
  <2> HIDE DEF old
  <2> QED BY <1>3, <2>1, RelativeLeads
<1> HIDE DEF w
<1>7. words[1] = w /\ Range(words) = {w}
  <2>1. words = [j \in {1} |-> w]
    BY <1>2
  <2> HIDE DEF words
  <2> QED BY <2>1 DEF Range
<1> HIDE DEF words
<1>b. /\ new.words = words /\ new.folders = line.folders
      /\ new.templates = line.templates
  BY DEF LineType
<1> HIDE DEF new
<1>8. /\ EndsWith(w.stem, keeper.stem) /\ ~IsRemote(w) /\ TokenAgrees(keeper, f, w)
  BY <1>6, NoLeadIsNone, EndsInItself DEF IsRemote, TokenAgrees
<1>9. MatchesLine(keeper, f.dir, new)
  BY <1>6, <1>7, <1>b DEF MatchesLine
<1>10. ValidFilename(keeper, new)
  <2>1. AfterSlash(w) \/ AfterQuote(w)
    <3>1. CASE w.lead = NoLead
      BY <1>6, <3>1, Zenon DEF AfterSlash, AfterQuote, NoLead
    <3>2. CASE w.lead = "./"
      BY <3>2 DEF AfterSlash, HasSlash
    <3> QED BY <1>6, <3>1, <3>2
  <2> QED BY <1>6, <1>7, <1>b, <2>1 DEF ValidFilename, SameName
<1> QED BY <1>5, <1>6, <1>7, <1>b, <1>8, <1>9, <1>10 DEF ByFilename

(* A proposal rewrites, in the folder of its file, the name of a copy into *)
(* the keeper's.                                                           *)
NamesKept ==
  \A p \in plan.proposals : p.file # ConfigFile =>
    /\ p.file \in DOMAIN ws.files /\ Born(plan.keeper)
    /\ \E a \in plan.doomed :
         /\ R!Holding(p.original, a) # {}
         /\ p.proposed = R!RewrittenLine(p.original, a, ws.files[p.file].dir, plan.keeper)

LEMMA ProposalNamesKept ==
  ASSUME Given, OnDisk, SourcesAreNoAssets, index # None,
         NEW doomed, NEW keeper \in index.assets,
         NEW p \in R!Proposals(index.refs, Folders, doomed, keeper), p.file # ConfigFile
  PROVE  /\ p.file \in DOMAIN ws.files /\ Born(keeper)
         /\ \E a \in doomed :
              /\ R!Holding(p.original, a) # {}
              /\ p.proposed = R!RewrittenLine(p.original, a, ws.files[p.file].dir, keeper)
<1> DEFINE Traced == {ra \in index.refs \X doomed :
                        /\ ra[1].asset = ra[2].id /\ ra[2] # keeper
                        /\ R!Holding(ra[1].content, ra[2]) # {}}
           Line(r, a) == R!RewrittenLine(r.content, a, Folders[r.file], keeper)
<1>1. PICK ra \in Traced :
        p = [file |-> ra[1].file, line |-> ra[1].line, original |-> ra[1].content,
             proposed |-> Line(ra[1], ra[2])]
  BY DEF R!Proposals
<1>2. ra[1] \in index.refs /\ ra[2] \in doomed /\ R!Holding(ra[1].content, ra[2]) # {}
  OBVIOUS
<1>3. Reference(ra[1]) /\ Born(keeper)
  BY <1>2 DEF SourcesAreNoAssets
<1>4. /\ p.file = ra[1].file /\ p.original = ra[1].content
      /\ p.proposed = R!RewrittenLine(ra[1].content, ra[2], Folders[ra[1].file], keeper)
  BY <1>1
<1>5. p.file \in DOMAIN ws.files
  BY <1>3, <1>4 DEF Reference, SourceKey
<1>6. Folders[p.file] = ws.files[p.file].dir
  <2>1. p.file \in DOMAIN disk
    BY <1>5, PresentIsOnDisk
  <2> QED BY <2>1 DEF Folders
<1> QED BY <1>2, <1>3, <1>4, <1>5, <1>6

LEMMA NamesStayKept ==
  ASSUME AnalysisInv, NamesKept, [Next]_vars
  PROVE  NamesKept'
<1>1. ws' = ws /\ Given /\ OnDisk /\ SourcesAreNoAssets
  BY StepEffects DEF AnalysisInv
<1>2. CASE plan' = plan
  BY <1>1, <1>2 DEF NamesKept, Born
<1>3. CASE ProposeRewrites
  <2>1. PICK g \in index.groups, keeper \in index.assets :
          plan' = [keeper |-> keeper, doomed |-> g \ {keeper},
                   proposals |-> R!Proposals(index.refs, Folders, g \ {keeper}, keeper)]
    BY <1>3 DEF ProposeRewrites
  <2>2. /\ plan'.proposals = R!Proposals(index.refs, Folders, g \ {keeper}, keeper)
        /\ plan'.keeper = keeper /\ plan'.doomed = g \ {keeper}
    BY <2>1
  <2>3. index # None
    BY <1>3 DEF ProposeRewrites
  <2> SUFFICES ASSUME NEW p \in plan'.proposals, p.file # ConfigFile
               PROVE  /\ p.file \in DOMAIN ws.files /\ Born(keeper)
                      /\ \E a \in g \ {keeper} :
                           /\ R!Holding(p.original, a) # {}
                           /\ p.proposed = R!RewrittenLine(p.original, a,
                                             ws.files[p.file].dir, keeper)
    BY <1>1, <2>2 DEF NamesKept, Born
  <2> QED BY <1>1, <2>2, <2>3, ProposalNamesKept
<1>4. CASE Kill
  BY <1>4 DEF Kill, NoPlan, NamesKept
<1> QED BY <1>2, <1>3, <1>4, StepEffects

LEMMA NamesAreKept == Spec => []NamesKept
<1>1. Init => NamesKept
  BY DEF Init, NoPlan, NamesKept
<1>2. AnalysisInv /\ NamesKept /\ [Next]_vars => NamesKept'
  BY NamesStayKept
<1> QED BY <1>1, <1>2, Invariance, PTL DEF Spec

(* A rewritten line names the kept copy: where the copy's name was the only*)
(* path of the line, in quotes and under no scheme, the tracer finds the   *)
(* keeper on the proposed line (compute_relative_path against              *)
(* asset_matches_path_token).                                              *)
THEOREM RewritesNameKeeper == Spec => []RewrittenNamesKeeper
<1>1. AnalysisInv /\ NamesKept => RewrittenNamesKeeper
  <2> DEFINE Alone(line) ==
               /\ Len(line.words) = 1 /\ line.folders = <<>>
               /\ \A t \in Range(line.templates) : t.dirs = <<>>
               /\ line.words[1].quoted /\ line.words[1].lead \in Unschemed
  <2> SUFFICES ASSUME AnalysisInv, NamesKept, NEW p \in plan.proposals,
                      p.file # ConfigFile, p.file \in Present,
                      ~IsSelf(plan.keeper, disk[p.file]), Alone(p.original)
               PROVE  ByFilename(plan.keeper, disk[p.file], p.proposed, 1)
    BY Zenon DEF RewrittenNamesKeeper, Unschemed, NoLead
  <2> DEFINE f == disk[p.file]
             dir == ws.files[p.file].dir
             keeper == plan.keeper
             line == p.original
  <2>1. /\ p.file \in DOMAIN ws.files /\ Born(keeper)
        /\ \E a \in plan.doomed : /\ R!Holding(line, a) # {}
                                  /\ p.proposed = R!RewrittenLine(line, a, dir, keeper)
    BY DEF NamesKept
  <2>2. line \in LineType /\ Given /\ OnDisk
    BY DEF AnalysisInv, RewritesHeld
  <2>3. Version(p.file, f) /\ ws.files[p.file] \in FileType
    BY <2>1, <2>2, PresentIsOnDisk, WorkspaceFacts
  <2>4. f.dir = dir /\ dir \in Seq(STRING)
    BY <2>1, <2>2, <2>3, VersionIsFile DEF FileType
  <2>5. keeper.dir \in Seq(STRING) /\ Spelled(keeper.stem)
    <3>1. keeper.id \in DOMAIN ws.files /\ keeper.stem = ws.files[keeper.id].stem
      BY <2>1 DEF Born, AssetOf
    <3> HIDE DEF keeper
    <3> QED BY <2>1, <2>2, <3>1, BornFields, StemIsSpelled
  <2>6. Alone(line) /\ ~IsSelf(keeper, f)
    OBVIOUS
  <2> HIDE DEF f, dir, keeper, line
  <2>7. ByFilename(keeper, f, p.proposed, 1)
    BY <2>1, <2>2, <2>4, <2>5, <2>6, RewrittenNames
  <2> QED BY <2>7 DEF f, keeper
<1> QED BY <1>1, Invariance, NamesAreKept, PTL

=============================================================================
