----------------------------- MODULE PushProofs -----------------------------
(***************************************************************************)
(* Proofs about what MessagePath sends on to wxpusher: that the server     *)
(* takes whatever the device posts, that the two escapings and the         *)
(* re-indenting between them cancel out, and that UTF-8 stays UTF-8.       *)
(***************************************************************************)
EXTENDS PathProofs, SequenceTheorems

----------------------------------------------------------------------------
(* Machines that read a string byte by byte *)

\* The three there are: pretty_json, a reader of JSON and a reader of UTF-8.
Step(kind, st, ch) ==
  IF kind = "pretty" THEN PrettyStep(st, ch)
  ELSE IF kind = "json" THEN Std!Read(st, ch)
  ELSE Std!Wanted(st, ch)

\* From state a the machine comes to b over the string w, by the states in tr.
Trace(kind, tr, a, w, b) ==
  /\ tr[0] = a /\ tr[Len(w)] = b
  /\ \A n \in 1 .. Len(w) : tr[n] = Step(kind, tr[n - 1], w[n])
Runs(kind, a, w, b) == \E tr : Trace(kind, tr, a, w, b)

LEMMA RunNone == \A kind, a : Runs(kind, a, <<>>, a)
<1> SUFFICES ASSUME NEW kind, NEW a PROVE Runs(kind, a, <<>>, a)
  OBVIOUS
<1> DEFINE tr == [n \in {0} |-> a]
<1>1. Trace(kind, tr, a, <<>>, a)
  BY DEF Trace
<1> QED
  BY <1>1 DEF Runs

LEMMA RunOne ==
  ASSUME NEW kind, NEW a, NEW ch, NEW b, b = Step(kind, a, ch)
  PROVE  Runs(kind, a, <<ch>>, b)
<1> DEFINE tr == [n \in {0, 1} |-> IF n = 0 THEN a ELSE b]
           w == <<ch>>
<1>1. Len(w) = 1 /\ w[1] = ch
  OBVIOUS
<1>2. tr[0] = a /\ tr[1] = b
  OBVIOUS
<1> HIDE DEF tr, w
<1>3. \A n \in 1 .. Len(w) : n = 1
  BY <1>1
<1>4. Trace(kind, tr, a, w, b)
  BY <1>1, <1>2, <1>3 DEF Trace
<1> QED
  BY <1>4 DEF Runs, w

LEMMA RunJoin ==
  ASSUME NEW kind, NEW a, NEW b, NEW c, NEW v \in Seq(Nat), NEW w \in Seq(Nat),
         Runs(kind, a, v, b), Runs(kind, b, w, c)
  PROVE  Runs(kind, a, v \o w, c)
<1>1. PICK f : Trace(kind, f, a, v, b)
  BY DEF Runs
<1>2. PICK g : Trace(kind, g, b, w, c)
  BY DEF Runs
<1> DEFINE m == Len(v)
           k == Len(w)
           u == v \o w
           tr == [n \in 0 .. m + k |-> IF n <= m THEN f[n] ELSE g[n - m]]
<1>3. /\ m \in Nat /\ k \in Nat /\ Len(u) = m + k
      /\ \A n \in 1 .. m + k : u[n] = IF n <= m THEN v[n] ELSE w[n - m]
  BY ConcatProperties
<1>4. /\ f[0] = a /\ f[m] = b /\ \A n \in 1 .. m : f[n] = Step(kind, f[n - 1], v[n])
      /\ g[0] = b /\ g[k] = c /\ \A n \in 1 .. k : g[n] = Step(kind, g[n - 1], w[n])
  BY <1>1, <1>2 DEF Trace
<1> HIDE DEF m, k, u
<1>5. tr[0] = a /\ tr[m + k] = c
  BY <1>3, <1>4
<1>6. ASSUME NEW n \in 1 .. m + k PROVE tr[n] = Step(kind, tr[n - 1], u[n])
  <2>1. n \in 0 .. m + k /\ n - 1 \in 0 .. m + k
    BY <1>3
  <2>2. CASE n <= m
    <3>1. tr[n] = f[n] /\ tr[n - 1] = f[n - 1] /\ u[n] = v[n] /\ n \in 1 .. m
      BY <1>3, <2>1, <2>2
    <3> QED
      BY <1>4, <3>1
  <2>3. CASE n = m + 1
    <3>1. tr[n] = g[1] /\ tr[n - 1] = f[m] /\ u[n] = w[1] /\ 1 \in 1 .. k /\ 1 - 1 = 0
      BY <1>3, <2>1, <2>3
    <3> QED
      BY <1>4, <3>1
  <2>4. CASE n > m + 1
    <3>1. n - m \in 1 .. k /\ ~(n <= m) /\ ~(n - 1 <= m) /\ (n - 1) - m = (n - m) - 1
      BY <1>3, <2>4
    <3>2. tr[n] = g[n - m] /\ tr[n - 1] = g[(n - m) - 1]
      BY <2>1, <3>1
    <3>3. u[n] = w[n - m]
      BY <1>3, <3>1
    <3>4. g[n - m] = Step(kind, g[(n - m) - 1], w[n - m])
      BY <1>4, <3>1
    <3> QED
      BY <3>2, <3>3, <3>4
  <2> QED
    BY <1>3, <2>2, <2>3, <2>4
<1>7. Trace(kind, tr, a, u, c)
  BY <1>3, <1>5, <1>6 DEF Trace
<1> QED
  BY <1>7 DEF Runs, u

\* A step more.
LEMMA RunStep ==
  ASSUME NEW kind, NEW a, NEW b, NEW c, NEW v \in Seq(Nat), NEW ch \in Nat,
         Runs(kind, a, v, b), c = Step(kind, b, ch)
  PROVE  Runs(kind, a, v \o <<ch>>, c)
<1>1. Runs(kind, b, <<ch>>, c)
  BY RunOne
<1>2. <<ch>> \in Seq(Nat)
  OBVIOUS
<1> QED
  BY <1>1, <1>2, RunJoin

\* Over a string put together from parts the machine runs part by part.
LEMMA RunFlatten ==
  ASSUME NEW kind, NEW ss \in Seq(Seq(Nat)), NEW st,
         \A k \in 1 .. Len(ss) : Runs(kind, st[k - 1], ss[k], st[k])
  PROVE  Runs(kind, st[0], FlattenSeq(ss), st[Len(ss)])
<1>1. PICK f : Joins(f, ss)
  BY FlattenJoins
<1> DEFINE n == Len(ss)
           Fine(i) == f[i] \in Seq(Nat) /\ Runs(kind, st[0], f[i], st[i])
           M == {i \in 1 .. n : ~Fine(i)}
<1>2. n \in Nat /\ DOMAIN ss = 1 .. n /\ \A i \in 1 .. n : ss[i] \in Seq(Nat)
  OBVIOUS
<1>3. \A i \in 1 .. n : f[i] = IF i = 1 THEN ss[i] ELSE f[i - 1] \o ss[i]
  BY <1>1 DEF Joins
<1>4. M = {}
  <2> SUFFICES ASSUME M # {} PROVE FALSE
    OBVIOUS
  <2>1. PICK i \in M : \A k \in M : i <= k
    <3>1. M \in SUBSET Nat
      BY <1>2
    <3> HIDE DEF M
    <3> QED
      BY <3>1, HasLeast
  <2>2. i \in 1 .. n /\ ~Fine(i)
    OBVIOUS
  <2>3. Runs(kind, st[i - 1], ss[i], st[i])
    BY <2>2
  <2>4. CASE i = 1
    <3>1. f[i] = ss[1] /\ ss[1] \in Seq(Nat) /\ i - 1 = 0
      BY <1>2, <1>3, <2>2, <2>4
    <3> QED
      BY <2>2, <2>3, <2>4, <3>1
  <2>5. CASE i # 1
    <3>1. i - 1 \in 1 .. n /\ i - 1 < i
      BY <1>2, <2>2, <2>5
    <3>2. i - 1 \notin M
      <4> HIDE DEF M, n
      <4> QED
        BY <1>2, <2>1, <2>2, <3>1
    <3>3. Fine(i - 1)
      BY <3>1, <3>2
    <3>4. f[i] = f[i - 1] \o ss[i] /\ ss[i] \in Seq(Nat) /\ f[i - 1] \in Seq(Nat)
      BY <1>2, <1>3, <2>2, <2>5, <3>3
    <3>5. Runs(kind, st[0], f[i - 1] \o ss[i], st[i])
      BY <2>3, <3>3, <3>4, RunJoin
    <3>6. f[i - 1] \o ss[i] \in Seq(Nat)
      BY <3>4
    <3> QED
      BY <2>2, <3>4, <3>5, <3>6
  <2> QED
    BY <2>4, <2>5
<1>5. CASE ss = <<>>
  <2>1. FlattenSeq(ss) = <<>> /\ n = 0
    BY <1>1, <1>5 DEF Joins
  <2> QED
    BY <2>1, RunNone
<1>6. CASE ss # <<>>
  <2>1. n \in 1 .. n /\ FlattenSeq(ss) = f[n]
    BY <1>1, <1>2, <1>6 DEF Joins
  <2> QED
    BY <1>4, <2>1
<1> QED
  BY <1>5, <1>6

\* The recursive functions of the model are such runs.
Machine(kind, a, w, f) ==
  f = [n \in 0 .. Len(w) |-> IF n = 0 THEN a ELSE Step(kind, f[n - 1], w[n])]

LEMMA RunEnds ==
  ASSUME NEW kind, NEW a, NEW b, NEW w \in Seq(Nat), Runs(kind, a, w, b)
  PROVE  (CHOOSE f : Machine(kind, a, w, f))[Len(w)] = b
<1> DEFINE n == Len(w)
           F == CHOOSE f : Machine(kind, a, w, f)
<1>1. PICK tr : Trace(kind, tr, a, w, b)
  BY DEF Runs
<1>2. n \in Nat
  OBVIOUS
<1>3. /\ tr[0] = a /\ tr[n] = b
      /\ \A i \in 1 .. n : tr[i] = Step(kind, tr[i - 1], w[i])
  BY <1>1 DEF Trace
<1>4. Machine(kind, a, w, F)
  <2> DEFINE g == [i \in 0 .. n |-> tr[i]]
  <2>1. ASSUME NEW i \in 0 .. n
        PROVE  g[i] = IF i = 0 THEN a ELSE Step(kind, g[i - 1], w[i])
    <3>1. CASE i = 0
      BY <1>3, <3>1
    <3>2. CASE i # 0
      <4>1. i \in 1 .. n /\ i - 1 \in 0 .. n
        BY <1>2, <3>2
      <4> QED
        BY <1>3, <3>2, <4>1
    <3> QED
      BY <3>1, <3>2
  <2>2. Machine(kind, a, w, g)
    BY <2>1 DEF Machine
  <2> HIDE DEF g
  <2> QED
    BY <2>2
<1> HIDE DEF F
<1>5. \A i \in 0 .. n : F[i] = IF i = 0 THEN a ELSE Step(kind, F[i - 1], w[i])
  BY <1>4 DEF Machine
<1> DEFINE M == {i \in 0 .. n : F[i] # tr[i]}
<1>6. M = {}
  <2> SUFFICES ASSUME M # {} PROVE FALSE
    OBVIOUS
  <2>1. PICK i \in M : \A k \in M : i <= k
    <3>1. M \in SUBSET Nat
      BY <1>2
    <3> HIDE DEF M
    <3> QED
      BY <3>1, HasLeast
  <2>2. i \in 0 .. n /\ F[i] # tr[i]
    OBVIOUS
  <2>3. i # 0
    BY <1>3, <1>5, <2>2
  <2>4. i - 1 \in 0 .. n /\ i - 1 < i /\ i \in 1 .. n
    BY <1>2, <2>2, <2>3
  <2>5. i - 1 \notin M
    <3> HIDE DEF M, n
    <3> QED
      BY <1>2, <2>1, <2>2, <2>4
  <2>6. F[i - 1] = tr[i - 1]
    BY <2>4, <2>5
  <2> QED
    BY <1>3, <1>5, <2>2, <2>3, <2>4, <2>6
<1> QED
  BY <1>2, <1>3, <1>6 DEF F

\* The machine comes to an end whatever it reads.
LEMMA RunExists ==
  ASSUME NEW kind, NEW a, NEW w \in Seq(Nat)
  PROVE  \E b : Runs(kind, a, w, b)
<1> DEFINE n == Len(w)
           Good(g, m) == g[0] = a /\ \A i \in 1 .. n : i <= m => g[i] = Step(kind, g[i - 1], w[i])
           M == {m \in 0 .. n : ~\E g : Good(g, m)}
<1>1. n \in Nat
  OBVIOUS
<1>2. M = {}
  <2> SUFFICES ASSUME M # {} PROVE FALSE
    OBVIOUS
  <2>1. PICK m \in M : \A k \in M : m <= k
    <3>1. M \in SUBSET Nat
      OBVIOUS
    <3> HIDE DEF M
    <3> QED
      BY <3>1, HasLeast
  <2>2. m \in 0 .. n /\ ~\E g : Good(g, m)
    OBVIOUS
  <2>3. m # 0
    <3>1. Good([i \in {0} |-> a], 0)
      OBVIOUS
    <3> QED
      BY <2>2, <3>1
  <2>4. m - 1 \in 0 .. n /\ m - 1 < m
    BY <1>1, <2>2, <2>3
  <2>5. m - 1 \notin M
    <3> HIDE DEF M, n
    <3> QED
      BY <1>1, <2>1, <2>2, <2>4
  <2>6. PICK g : Good(g, m - 1)
    BY <2>4, <2>5
  <2> DEFINE h == [i \in 0 .. n |-> IF i = m THEN Step(kind, g[i - 1], w[i]) ELSE g[i]]
  <2>7. ASSUME NEW i \in 1 .. n, i <= m PROVE h[i] = Step(kind, h[i - 1], w[i])
    <3>1. i - 1 \in 0 .. n /\ i - 1 # m /\ h[i - 1] = g[i - 1]
      BY <1>1, <2>2, <2>7
    <3>2. CASE i = m
      BY <3>1, <3>2
    <3>3. CASE i # m
      <4>1. i <= m - 1
        BY <2>2, <2>7, <3>3
      <4> QED
        BY <2>6, <3>1, <3>3, <4>1
    <3> QED
      BY <3>2, <3>3
  <2>8. h[0] = a
    BY <1>1, <2>3, <2>6
  <2>9. Good(h, m)
    BY <2>7, <2>8
  <2> QED
    BY <2>2, <2>9
<1>3. \E g : Good(g, n)
  <2>1. n \in 0 .. n /\ n \notin M
    BY <1>1, <1>2
  <2> HIDE DEF n
  <2> QED
    BY <2>1
<1>4. PICK g : Good(g, n)
  BY <1>3
<1>5. Trace(kind, g, a, w, g[n])
  BY <1>1, <1>4 DEF Trace
<1> QED
  BY <1>5 DEF Runs

\* The reader, having read the strings in q: outside a string, inside one, past a
\* backslash, and with d digits to come.
Out(q)              == Std!Outside(q)
In(q, t)            == Std!Inside(q, t)
EscapeAt(q, t)      == Std!Reader(q, "escape", t, 0, 0)
Figures(q, t, d, c) == Std!Reader(q, "digits", t, d, c)

LEMMA PrettyEnds ==
  ASSUME NEW w \in Seq(Nat), NEW b, Runs("pretty", PrettyStart, w, b)
  PROVE  PrettyRun(w) = b
<1>1. (CHOOSE f : Machine("pretty", PrettyStart, w, f))[Len(w)] = b
  BY RunEnds
<1> QED
  BY <1>1 DEF PrettyRun, Machine, Step

LEMMA StringsRead ==
  ASSUME NEW w \in Seq(Nat), NEW b, Runs("json", Out(<<>>), w, b)
  PROVE  Std!Strings(w) = b.strings
<1>1. (CHOOSE f : Machine("json", Out(<<>>), w, f))[Len(w)] = b
  BY RunEnds
<1> QED
  BY <1>1 DEF Std!Strings, Machine, Step, Out

LEMMA Utf8Runs ==
  ASSUME NEW w \in Seq(Nat)
  PROVE  Std!IsUtf8(w) <=> Runs("utf8", <<>>, w, <<>>)
<1> DEFINE F == CHOOSE f : Machine("utf8", <<>>, w, f)
<1>1. Std!IsUtf8(w) <=> F[Len(w)] = <<>>
  BY DEF Std!IsUtf8, Machine, Step
<1>2. ASSUME NEW b, Runs("utf8", <<>>, w, b) PROVE F[Len(w)] = b
  BY <1>2, RunEnds
<1>3. PICK b : Runs("utf8", <<>>, w, b)
  BY RunExists
<1> HIDE DEF F
<1> QED
  BY <1>1, <1>2, <1>3

----------------------------------------------------------------------------
(* What can stand in a string *)

\* What it makes of a byte.
LEMMA ReadOut ==
  ASSUME NEW q, NEW ch
  PROVE  Step("json", Out(q), ch) = IF ch = Quote THEN In(q, <<>>) ELSE Out(q)
<1> DEFINE r == Out(q)
<1>1. r.at = "outside" /\ r.strings = q
  BY DEF Out, Std!Outside, Std!Reader
<1> HIDE DEF r
<1>2. Step("json", r, ch) = IF ch = 34 THEN Std!Inside(q, <<>>) ELSE r
  BY <1>1 DEF Step, Std!Read
<1> QED
  BY <1>2 DEF r, In, Quote

LEMMA ReadIn ==
  ASSUME NEW q, NEW t, NEW ch
  PROVE  Step("json", In(q, t), ch)
           = IF ch = Quote THEN Out(Append(q, t))
             ELSE IF ch = Backslash THEN EscapeAt(q, t) ELSE In(q, Append(t, ch))
<1> DEFINE r == In(q, t)
<1>1. r.at = "inside" /\ r.strings = q /\ r.bytes = t
  BY DEF In, Std!Inside, Std!Reader
<1> HIDE DEF r
<1>2. Step("json", r, ch)
        = CASE ch = 34 -> Std!Outside(Append(q, t))
            [] ch = 92 -> Std!Reader(q, "escape", t, 0, 0)
            [] OTHER   -> Std!Inside(q, Append(t, ch))
  BY <1>1 DEF Step, Std!Read
<1> QED
  BY <1>2 DEF r, Out, In, EscapeAt, Quote, Backslash

LEMMA ReadEscape ==
  ASSUME NEW q, NEW t, NEW ch
  PROVE  Step("json", EscapeAt(q, t), ch)
           = IF ch = 117 THEN Figures(q, t, 4, 0) ELSE In(q, Append(t, Std!Plain(ch)))
<1> DEFINE r == EscapeAt(q, t)
<1>1. r.at = "escape" /\ r.strings = q /\ r.bytes = t
  BY DEF EscapeAt, Std!Reader
<1> HIDE DEF r
<1>2. Step("json", r, ch) = IF ch = 117 THEN Std!Reader(q, "digits", t, 4, 0)
                            ELSE Std!Inside(q, Append(t, Std!Plain(ch)))
  BY <1>1 DEF Step, Std!Read
<1> QED
  BY <1>2 DEF r, In, Figures

LEMMA ReadFigure ==
  ASSUME NEW q, NEW t, NEW d \in 1 .. 4, NEW c, NEW ch
  PROVE  Step("json", Figures(q, t, d, c), ch)
           = LET code == 16 * c + Std!Unhex(ch)
             IN  IF d > 1 THEN Figures(q, t, d - 1, code) ELSE In(q, Append(t, code))
<1> DEFINE r == Figures(q, t, d, c)
<1>1. r.at = "digits" /\ r.strings = q /\ r.bytes = t /\ r.digits = d /\ r.code = c
  BY DEF Figures, Std!Reader
<1> HIDE DEF r
<1>2. Step("json", r, ch) = LET code == 16 * c + Std!Unhex(ch)
                            IN  IF d > 1 THEN Std!Reader(q, "digits", t, d - 1, code)
                                ELSE Std!Inside(q, Append(t, code))
  BY <1>1 DEF Step, Std!Read
<1> QED
  BY <1>2 DEF r, In, Figures

\* Inside a string the word w reads as the bytes s.
ReadsAs(w, s) ==
  /\ w \in Seq(Nat)
  /\ \A q, t : t \in Seq(Nat) => Runs("json", In(q, t), w, In(q, t \o s))

LEMMA TwoBytes ==
  ASSUME NEW a \in Nat, NEW b \in Nat
  PROVE  <<a>> \in Seq(Nat) /\ <<a>> \o <<b>> = <<a, b>>
<1> DEFINE s == <<a>>
           t == <<b>>
           u == <<a, b>>
           st == s \o t
<1>1. /\ s \in Seq(Nat) /\ t \in Seq(Nat) /\ u \in Seq(Nat)
      /\ Len(s) = 1 /\ Len(t) = 1 /\ Len(u) = 2
      /\ s[1] = a /\ t[1] = b /\ u[1] = a /\ u[2] = b
  OBVIOUS
<1> HIDE DEF s, t, u
<1>2. /\ st \in Seq(Nat) /\ Len(st) = Len(s) + Len(t)
      /\ \A i \in 1 .. Len(s) + Len(t) : st[i] = IF i <= Len(s) THEN s[i] ELSE t[i - Len(s)]
  BY <1>1, ConcatProperties
<1>3. Len(st) = 2 /\ st[1] = a /\ st[2] = b
  <2>1. 1 \in 1 .. 2 /\ 2 \in 1 .. 2 /\ 1 <= 1 /\ ~(2 <= 1) /\ 2 - 1 = 1 /\ 1 + 1 = 2
    OBVIOUS
  <2> HIDE DEF st
  <2> QED
    BY <1>1, <1>2, <2>1
<1> HIDE DEF st
<1>4. \A i \in 1 .. Len(st) : st[i] = u[i]
  BY <1>1, <1>2, <1>3
<1>5. st = u
  <2>1. st \in Seq(Nat) /\ Len(st) = Len(u)
    BY <1>1, <1>2, <1>3
  <2> QED
    BY <1>1, <1>4, <2>1, SeqEqual
<1> QED
  BY <1>1, <1>5 DEF s, t, u, st

\* One byte that stands for itself.
LEMMA PlainReads ==
  ASSUME NEW b \in Nat, b \notin {Quote, Backslash}
  PROVE  ReadsAs(<<b>>, <<b>>)
<1>1. ASSUME NEW q, NEW t \in Seq(Nat) PROVE Runs("json", In(q, t), <<b>>, In(q, t \o <<b>>))
  <2>1. Append(t, b) = t \o <<b>>
    OBVIOUS
  <2>2. In(q, t \o <<b>>) = Step("json", In(q, t), b)
    <3>1. b # Quote /\ b # Backslash
      OBVIOUS
    <3>2. Step("json", In(q, t), b) = In(q, Append(t, b))
      BY <3>1, ReadIn
    <3> QED
      BY <2>1, <3>2
  <2> QED
    BY <2>2, RunOne
<1> QED
  BY <1>1 DEF ReadsAs

\* One byte behind a backslash.
LEMMA LetterReads ==
  ASSUME NEW b \in {Quote, Backslash, 8, 9, NL, 12, CR}
  PROVE  ReadsAs(<<Backslash, Letter(b)>>, <<b>>)
<1> DEFINE c == Letter(b)
<1>1. c \in Nat /\ c # 117 /\ Std!Plain(c) = b
  BY DEF Letter, Std!Plain, Quote, Backslash, NL, CR
<1>2. ASSUME NEW q, NEW t \in Seq(Nat)
      PROVE  Runs("json", In(q, t), <<Backslash, c>>, In(q, t \o <<b>>))
  <2> DEFINE e == EscapeAt(q, t)
  <2>1. e = Step("json", In(q, t), Backslash)
    BY ReadIn DEF Quote, Backslash
  <2>2. b \in Nat
    BY DEF Quote, Backslash, NL, CR
  <2>3. Append(t, b) = t \o <<b>>
    BY <2>2
  <2> HIDE DEF c
  <2>4. In(q, t \o <<b>>) = Step("json", e, c)
    BY <1>1, <2>3, ReadEscape, ZenonT(30)
  <2>5. Runs("json", In(q, t), <<Backslash>>, e)
    BY <2>1, RunOne
  <2>6. <<Backslash>> \in Seq(Nat) /\ <<Backslash>> \o <<c>> = <<Backslash, c>>
    <3>1. Backslash \in Nat
      BY DEF Backslash
    <3> QED
      BY <1>1, <3>1, TwoBytes
  <2> HIDE DEF e
  <2> QED
    BY <1>1, <2>4, <2>5, <2>6, RunStep
<1>3. <<Backslash, c>> \in Seq(Nat)
  BY <1>1 DEF Backslash
<1> QED
  BY <1>2, <1>3 DEF ReadsAs

LEMMA HexDigitIs ==
  \A n \in 0 .. 15 : HexDigit(n) \in Nat \ {Quote, Backslash} /\ Std!Unhex(HexDigit(n)) = n
BY DEF HexDigit, Std!Unhex, Quote, Backslash

LEMMA HalvesAre ==
  ASSUME NEW b \in 0 .. 127, NEW m, NEW r, m = b \div 16, r = b % 16
  PROVE  m \in 0 .. 15 /\ r \in 0 .. 15 /\ 16 * m + r = b
<1>1. b \div 16 \in 0 .. 15 /\ b % 16 \in 0 .. 15
  OBVIOUS
<1>2. 16 * m + r = b
  OBVIOUS
<1> QED
  BY <1>1, <1>2

\* One byte in figures.
LEMMA UnicodeReads ==
  ASSUME NEW b \in 0 .. 127
  PROVE  ReadsAs(Unicode(b), <<b>>)
<1> DEFINE m == b \div 16
           r == b % 16
           h == HexDigit(m)
           l == HexDigit(r)
<1>1. h \in Nat /\ l \in Nat /\ 16 * 0 + Std!Unhex(h) = m /\ 16 * m + Std!Unhex(l) = b
  <2>1. m = b \div 16 /\ r = b % 16
    OBVIOUS
  <2> HIDE DEF m, r
  <2>2. m \in 0 .. 15 /\ r \in 0 .. 15 /\ 16 * m + r = b
    BY <2>1, HalvesAre
  <2>3. h \in Nat /\ l \in Nat /\ Std!Unhex(h) = m /\ Std!Unhex(l) = r
    BY <2>2, HexDigitIs
  <2> QED
    BY <2>2, <2>3
<1>2. 16 * 0 + Std!Unhex(48) = 0
  BY DEF Std!Unhex
<1>3. Unicode(b) = <<Backslash, 117, 48, 48, h, l>>
  BY DEF Unicode
<1> HIDE DEF h, l, m, r
<1> DEFINE w1 == <<Backslash>>
           w2 == <<Backslash, 117>>
           w3 == <<Backslash, 117, 48>>
           w4 == <<Backslash, 117, 48, 48>>
           w5 == <<Backslash, 117, 48, 48, h>>
           w6 == <<Backslash, 117, 48, 48, h, l>>
<1>4. /\ w1 \in Seq(Nat) /\ w2 \in Seq(Nat) /\ w3 \in Seq(Nat)
      /\ w4 \in Seq(Nat) /\ w5 \in Seq(Nat) /\ w6 \in Seq(Nat)
  BY <1>1 DEF Backslash
<1>5. /\ w2 = w1 \o <<117>> /\ w3 = w2 \o <<48>> /\ w4 = w3 \o <<48>>
      /\ w5 = w4 \o <<h>> /\ w6 = w5 \o <<l>>
  <2>1. w2 = w1 \o <<117>> /\ w3 = w2 \o <<48>>
    BY DEF Backslash
  <2>2. w4 = w3 \o <<48>>
    BY DEF Backslash
  <2>3. w5 = w4 \o <<h>>
    BY <1>1 DEF Backslash
  <2>4. w6 = w5 \o <<l>>
    BY <1>1 DEF Backslash
  <2> QED
    BY <2>1, <2>2, <2>3, <2>4
<1> HIDE DEF w1, w2, w3, w4, w5, w6
<1>6. ASSUME NEW q, NEW t \in Seq(Nat)
      PROVE  Runs("json", In(q, t), w6, In(q, t \o <<b>>))
  <2> DEFINE at(d, c) == Figures(q, t, d, c)
             e  == EscapeAt(q, t)
  <2>1. e = Step("json", In(q, t), Backslash)
    BY ReadIn DEF Quote, Backslash
  <2>2. at(4, 0) = Step("json", e, 117)
    BY ReadEscape
  <2>3. \A d \in 2 .. 4 : \A c, ch : Step("json", at(d, c), ch) = at(d - 1, 16 * c + Std!Unhex(ch))
    BY ReadFigure
  <2>4. at(3, 0) = Step("json", at(4, 0), 48)
    BY <1>2, <2>3
  <2>5. at(2, 0) = Step("json", at(3, 0), 48)
    BY <1>2, <2>3
  <2>6. at(1, m) = Step("json", at(2, 0), h)
    BY <1>1, <2>3
  <2>7. In(q, t \o <<b>>) = Step("json", at(1, m), l)
    <3>1. b \in Nat /\ Append(t, b) = t \o <<b>>
      OBVIOUS
    <3>2. Step("json", at(1, m), l) = In(q, Append(t, 16 * m + Std!Unhex(l)))
      BY ReadFigure
    <3> QED
      BY <1>1, <3>1, <3>2, Zenon
  <2> HIDE DEF e, at
  <2>8. Runs("json", In(q, t), w1, e)
    BY <2>1, RunOne DEF w1
  <2>9. Runs("json", In(q, t), w2, at(4, 0))
    <3>1. 117 \in Nat
      OBVIOUS
    <3> QED
      BY <1>4, <1>5, <2>2, <2>8, <3>1, RunStep
  <2>10. 48 \in Nat
    OBVIOUS
  <2>11. Runs("json", In(q, t), w3, at(3, 0))
    BY <1>4, <1>5, <2>4, <2>9, <2>10, RunStep
  <2>12. Runs("json", In(q, t), w4, at(2, 0))
    <3>1. w4 = w3 \o <<48>> /\ w3 \in Seq(Nat)
      BY <1>4, <1>5
    <3>2. Runs("json", In(q, t), w3 \o <<48>>, at(2, 0))
      BY <2>5, <2>10, <2>11, <3>1, RunStep
    <3> QED
      BY <3>1, <3>2
  <2>13. Runs("json", In(q, t), w5, at(1, m))
    BY <1>1, <1>4, <1>5, <2>6, <2>12, RunStep
  <2> QED
    BY <1>1, <1>4, <1>5, <2>7, <2>13, RunStep
<1> QED
  BY <1>3, <1>4, <1>6 DEF ReadsAs, w6

\* What either side leaves as it is, it may.
Unprintables == {0 .. 31, (0 .. 31) \cup {127}}

\* Both escapings are undone by a reader of JSON.
LEMMA EscapedReads ==
  ASSUME NEW b \in Nat, NEW U \in Unprintables
  PROVE  ReadsAs(Escaped(b, U), <<b>>)
<1> DEFINE Named == {Quote, Backslash, 8, 9, NL, 12, CR}
<1>1. CASE b \in Named
  <2>1. Escaped(b, U) = <<Backslash, Letter(b)>>
    <3> DEFINE two == <<Backslash, Letter(b)>>
    <3>1. Escaped(b, U) = CASE b \in Named -> two
                            [] b \in U \ {8, 9, NL, 12, CR} -> Unicode(b)
                            [] OTHER -> <<b>>
      BY DEF Escaped
    <3>2. ~(b \in U \ {8, 9, NL, 12, CR})
      BY <1>1 DEF Unprintables, Quote, Backslash, NL, CR
    <3> HIDE DEF two
    <3>3. Escaped(b, U) = two
      BY <1>1, <3>1, <3>2, Zenon
    <3> QED
      BY <3>3 DEF two
  <2> QED
    BY <1>1, <2>1, LetterReads
<1>2. CASE b \notin Named /\ b \in U
  <2>1. b \in 0 .. 127
    BY <1>2 DEF Unprintables
  <2>2. Escaped(b, U) = Unicode(b)
    BY <1>2 DEF Escaped
  <2> QED
    BY <2>1, <2>2, UnicodeReads
<1>3. CASE b \notin Named /\ b \notin U
  <2>1. Escaped(b, U) = <<b>> /\ b \notin {Quote, Backslash}
    BY <1>3 DEF Escaped
  <2> QED
    BY <2>1, PlainReads
<1> QED
  BY <1>1, <1>2, <1>3

\* A string as either side writes it between quotation marks.
EscapedAll(s, U) == FlattenSeq([i \in DOMAIN s |-> Escaped(s[i], U)])

LEMMA EscapesAre ==
  ASSUME NEW s \in Seq(Nat), NEW U \in Unprintables
  PROVE  LET ss == [i \in DOMAIN s |-> Escaped(s[i], U)]
         IN  /\ ss \in Seq(Seq(Nat)) /\ Len(ss) = Len(s)
             /\ \A k \in 1 .. Len(ss) : ss[k] = Escaped(s[k], U)
             /\ EscapedAll(s, U) = FlattenSeq(ss) /\ EscapedAll(s, U) \in Seq(Nat)
<1> DEFINE ss == [i \in DOMAIN s |-> Escaped(s[i], U)]
           n == Len(s)
<1>1. n \in Nat /\ DOMAIN s = 1 .. n /\ \A i \in 1 .. n : s[i] \in Nat
  OBVIOUS
<1>2. \A i \in 1 .. n : Escaped(s[i], U) \in Seq(Nat)
  BY <1>1, EscapedReads DEF ReadsAs
<1> HIDE DEF n
<1>3. ss \in Seq(Seq(Nat)) /\ Len(ss) = n /\ \A k \in 1 .. n : ss[k] = Escaped(s[k], U)
  BY <1>1, <1>2
<1> HIDE DEF ss
<1>4. FlattenSeq(ss) \in Seq(Nat)
  BY <1>3, FlattenIsString
<1>5. EscapedAll(s, U) = FlattenSeq(ss)
  BY DEF EscapedAll, ss
<1> QED
  BY <1>3, <1>4, <1>5 DEF ss, n

LEMMA Associates == \A s, t, u \in Seq(Nat) : (s \o t) \o u = s \o (t \o u)
<1> SUFFICES ASSUME NEW s \in Seq(Nat), NEW t \in Seq(Nat), NEW u \in Seq(Nat)
             PROVE  (s \o t) \o u = s \o (t \o u)
  OBVIOUS
<1> QED
  BY SMTT(20)

LEMMA Longer ==
  ASSUME NEW s \in Seq(Nat), NEW t \in Seq(Nat), NEW k \in 1 .. Len(s)
  PROVE  (t \o SubSeq(s, 1, k - 1)) \o <<s[k]>> = t \o SubSeq(s, 1, k)
<1> DEFINE a == SubSeq(s, 1, k - 1)
           b == <<s[k]>>
<1>1. a \in Seq(Nat) /\ b \in Seq(Nat)
  OBVIOUS
<1>2. SubSeq(s, 1, k) = a \o b
  <2>1. SubSeq(s, 1, k) = Append(SubSeq(s, 1, k - 1), s[k])
    BY SubSeqRecursiveSecond
  <2>2. s[k] \in Nat
    OBVIOUS
  <2> HIDE DEF a
  <2>3. Append(a, s[k]) = a \o b
    BY <1>1, <2>2
  <2> QED
    BY <2>1, <2>3 DEF a
<1> HIDE DEF a, b
<1>3. (t \o a) \o b = t \o (a \o b)
  BY <1>1, Associates
<1> QED
  BY <1>2, <1>3 DEF a, b

\* It reads as what was written.
LEMMA AllReads ==
  ASSUME NEW s \in Seq(Nat), NEW U \in Unprintables
  PROVE  ReadsAs(EscapedAll(s, U), s)
<1> DEFINE ss == [i \in DOMAIN s |-> Escaped(s[i], U)]
           n == Len(s)
<1>1. /\ ss \in Seq(Seq(Nat)) /\ Len(ss) = n
      /\ \A k \in 1 .. n : ss[k] = Escaped(s[k], U)
      /\ EscapedAll(s, U) = FlattenSeq(ss) /\ EscapedAll(s, U) \in Seq(Nat)
  BY EscapesAre
<1> HIDE DEF ss
<1>2. ASSUME NEW q, NEW t \in Seq(Nat)
      PROVE  Runs("json", In(q, t), EscapedAll(s, U), In(q, t \o s))
  <2> DEFINE st == [k \in 0 .. n |-> In(q, t \o SubSeq(s, 1, k))]
  <2>1. n \in Nat /\ \A k \in 1 .. n : s[k] \in Nat
    OBVIOUS
  <2>2. ASSUME NEW k \in 1 .. n PROVE Runs("json", st[k - 1], ss[k], st[k])
    <3>1. k - 1 \in 0 .. n /\ k \in 0 .. n
      BY <2>1
    <3>2. st[k - 1] = In(q, t \o SubSeq(s, 1, k - 1)) /\ st[k] = In(q, t \o SubSeq(s, 1, k))
      BY <3>1
    <3>3. t \o SubSeq(s, 1, k - 1) \in Seq(Nat)
      OBVIOUS
    <3>4. ReadsAs(ss[k], <<s[k]>>)
      BY <1>1, <2>1, EscapedReads
    <3>5. (t \o SubSeq(s, 1, k - 1)) \o <<s[k]>> = t \o SubSeq(s, 1, k)
      BY Longer
    <3> HIDE DEF st
    <3> QED
      BY <3>2, <3>3, <3>4, <3>5 DEF ReadsAs
  <2>3. st[0] = In(q, t) /\ st[n] = In(q, t \o s)
    <3>1. SubSeq(s, 1, 0) = <<>> /\ SubSeq(s, 1, n) = s
      OBVIOUS
    <3>2. t \o <<>> = t
      OBVIOUS
    <3>3. 0 \in 0 .. n /\ n \in 0 .. n
      BY <2>1
    <3> QED
      BY <3>1, <3>2, <3>3
  <2> HIDE DEF st
  <2>4. Runs("json", st[0], FlattenSeq(ss), st[Len(ss)])
    BY <1>1, <2>2, RunFlatten
  <2> QED
    BY <1>1, <2>3, <2>4
<1> QED
  BY <1>1, <1>2 DEF ReadsAs

LEMMA QuotedReads ==
  ASSUME NEW w, NEW s \in Seq(Nat), ReadsAs(w, s), NEW q
  PROVE  /\ Quoted(w) \in Seq(Nat)
         /\ Runs("json", Out(q), Quoted(w), Out(Append(q, s)))
<1> DEFINE m == <<Quote>>
<1>1. m \in Seq(Nat) /\ w \in Seq(Nat) /\ m \o w \in Seq(Nat) /\ (m \o w) \o m \in Seq(Nat)
  <2>1. m \in Seq(Nat)
    BY DEF Quote
  <2>2. w \in Seq(Nat)
    BY DEF ReadsAs
  <2> HIDE DEF m
  <2> QED
    BY <2>1, <2>2, JoinIs
<1>2. Runs("json", Out(q), m, In(q, <<>>))
  BY RunOne, ReadOut
<1>3. Runs("json", In(q, s), m, Out(Append(q, s)))
  BY RunOne, ReadIn
<1>4. Runs("json", In(q, <<>>), w, In(q, s))
  <2>1. <<>> \o s = s /\ <<>> \in Seq(Nat)
    OBVIOUS
  <2> QED
    BY <2>1, Zenon DEF ReadsAs
<1>5. Quoted(w) = (m \o w) \o m
  BY DEF Quoted
<1> HIDE DEF m
<1>6. Runs("json", Out(q), m \o w, In(q, s))
  BY <1>1, <1>2, <1>4, RunJoin
<1>7. Runs("json", Out(q), (m \o w) \o m, Out(Append(q, s)))
  BY <1>1, <1>3, <1>6, RunJoin
<1> QED
  BY <1>1, <1>5, <1>7

\* What is not between quotation marks is passed over.
LEMMA OutsideReads ==
  ASSUME NEW w \in Seq(Nat), \A i \in 1 .. Len(w) : w[i] # Quote, NEW q
  PROVE  Runs("json", Out(q), w, Out(q))
<1> DEFINE n == Len(w)
           tr == [i \in 0 .. n |-> Out(q)]
<1>1. n \in Nat
  OBVIOUS
<1>2. \A i \in 1 .. n : Step("json", Out(q), w[i]) = Out(q)
  BY ReadOut
<1>3. ASSUME NEW i \in 1 .. n PROVE tr[i] = Step("json", tr[i - 1], w[i])
  <2>1. i \in 0 .. n /\ i - 1 \in 0 .. n
    BY <1>1
  <2> QED
    BY <1>2, <2>1
<1>4. tr[0] = Out(q) /\ tr[n] = Out(q)
  BY <1>1
<1> HIDE DEF tr
<1>5. Trace("json", tr, Out(q), w, Out(q))
  BY <1>3, <1>4 DEF Trace
<1> QED
  BY <1>5 DEF Runs

----------------------------------------------------------------------------
(* UTF-8 *)

\* The octets wanted next, as the reader of UTF-8 has them: never a byte below 128.
Wants == Seq(SUBSET Std!Further)

LEMMA NextWants ==
  ASSUME NEW wanted \in Wants, NEW b \in Nat
  PROVE  /\ Step("utf8", wanted, b) \in Wants
         /\ wanted = <<>> /\ b < 128 => Step("utf8", wanted, b) = <<>>
         /\ wanted # <<>> /\ b < 128 => Step("utf8", wanted, b) = Std!Never
<1>1. Step("utf8", wanted, b) = IF wanted = <<>> THEN Std!Following(b)
                                ELSE IF b \in Head(wanted) THEN Tail(wanted) ELSE Std!Never
  BY DEF Step, Std!Wanted
<1>2. Std!Never \in Wants
  BY DEF Std!Never, Wants
<1>3. Std!Following(b) \in Wants
  <2> DEFINE F == Std!Further
  <2>1. /\ F \in SUBSET F /\ (160 .. 191) \in SUBSET F /\ (128 .. 159) \in SUBSET F
        /\ (144 .. 191) \in SUBSET F /\ (128 .. 143) \in SUBSET F
    BY DEF Std!Further
  <2> DEFINE A == 160 .. 191
             B == 128 .. 159
             C == 144 .. 191
             D == 128 .. 143
  <2>2. Std!Following(b)
          \in {<<>>, <<F>>, <<A, F>>, <<B, F>>, <<F, F>>, <<C, F, F>>, <<F, F, F>>, <<D, F, F>>, Std!Never}
    BY DEF Std!Following
  <2> HIDE DEF F, A, B, C, D
  <2>3. A \in SUBSET F /\ B \in SUBSET F /\ C \in SUBSET F /\ D \in SUBSET F /\ F \in SUBSET F
    BY <2>1 DEF A, B, C, D
  <2> DEFINE T == SUBSET F
  <2>4. A \in T /\ B \in T /\ C \in T /\ D \in T /\ F \in T
    BY <2>3
  <2> HIDE DEF T
  <2>5. /\ <<>> \in Seq(T) /\ <<F>> \in Seq(T) /\ <<A, F>> \in Seq(T) /\ <<B, F>> \in Seq(T)
        /\ <<F, F>> \in Seq(T)
    BY <2>4
  <2>6. /\ <<C, F, F>> \in Seq(T) /\ <<F, F, F>> \in Seq(T) /\ <<D, F, F>> \in Seq(T)
    BY <2>4
  <2>7. Seq(T) = Wants
    BY DEF T, F, Wants
  <2> QED
    BY <1>2, <2>2, <2>5, <2>6, <2>7
<1>4. wanted # <<>> => Tail(wanted) \in Wants /\ Head(wanted) \in SUBSET Std!Further
  BY DEF Wants
<1>5. ASSUME b < 128 PROVE Std!Following(b) = <<>>
  <2>1. /\ b <= 127 /\ b \notin 194 .. 223 /\ b # 224 /\ b # 237
        /\ b \notin (225 .. 239) \ {237} /\ b # 240 /\ b \notin 241 .. 243 /\ b # 244
    BY <1>5
  <2> QED
    BY <2>1, Zenon DEF Std!Following
<1>6. ASSUME wanted # <<>>, b < 128 PROVE b \notin Head(wanted)
  <2>1. b \notin Std!Further
    BY <1>6 DEF Std!Further
  <2> QED
    BY <1>4, <1>6, <2>1
<1> QED
  BY <1>1, <1>2, <1>3, <1>4, <1>5, <1>6

\* Bytes below 128 are characters of their own, and end no other.
Ascii(w) == w \in Seq(Nat) /\ \A i \in 1 .. Len(w) : w[i] < 128

LEMMA AsciiRuns ==
  ASSUME NEW wanted \in Wants, NEW w, Ascii(w), w # <<>>
  PROVE  Runs("utf8", wanted, w, IF wanted = <<>> THEN <<>> ELSE Std!Never)
<1> DEFINE n == Len(w)
           e == IF wanted = <<>> THEN <<>> ELSE Std!Never
           tr == [i \in 0 .. n |-> IF i = 0 THEN wanted ELSE e]
<1>1. n \in Nat /\ n # 0 /\ \A i \in 1 .. n : w[i] \in Nat /\ w[i] < 128
  BY DEF Ascii
<1>2. \A i \in 1 .. n : Step("utf8", wanted, w[i]) = e
  BY <1>1, NextWants
<1>3. \A i \in 1 .. n : Step("utf8", e, w[i]) = e
  <2>1. <<>> \in Wants /\ Std!Never \in Wants /\ Std!Never # <<>>
    BY DEF Wants, Std!Never
  <2> QED
    BY <1>1, <2>1, NextWants
<1> HIDE DEF e
<1>4. ASSUME NEW i \in 1 .. n PROVE tr[i] = Step("utf8", tr[i - 1], w[i])
  <2>1. i \in 0 .. n /\ i - 1 \in 0 .. n /\ i # 0
    BY <1>1
  <2>2. tr[i] = e /\ tr[i - 1] = IF i - 1 = 0 THEN wanted ELSE e
    BY <2>1
  <2> QED
    BY <1>2, <1>3, <2>2
<1>5. tr[0] = wanted /\ tr[n] = e
  BY <1>1
<1> HIDE DEF tr
<1>6. Trace("utf8", tr, wanted, w, e)
  BY <1>4, <1>5 DEF Trace
<1> QED
  BY <1>6 DEF Runs, e

LEMMA AsciiIsUtf8 ==
  ASSUME NEW w, Ascii(w)
  PROVE  Runs("utf8", <<>>, w, <<>>)
<1>1. CASE w = <<>>
  BY <1>1, RunNone
<1>2. CASE w # <<>>
  <2>1. <<>> \in Wants
    BY DEF Wants
  <2> QED
    BY <1>2, <2>1, AsciiRuns
<1> QED
  BY <1>1, <1>2

\* An escaped byte reads in UTF-8 as the byte itself.
LEMMA EscapedRuns ==
  ASSUME NEW b \in Nat, NEW U \in Unprintables, NEW wanted \in Wants
  PROVE  Runs("utf8", wanted, Escaped(b, U), Step("utf8", wanted, b))
<1> DEFINE Named == {Quote, Backslash, 8, 9, NL, 12, CR}
           w == Escaped(b, U)
<1>1. CASE w = <<b>>
  BY <1>1, RunOne
<1>2. CASE w # <<b>>
  <2>1. b < 128 /\ (b \in Named \/ b \in U)
    <3>1. b \in Named \/ b \in U
      BY <1>2 DEF Escaped
    <3> QED
      BY <3>1 DEF Unprintables, Quote, Backslash, NL, CR
  <2>2. w = <<Backslash, Letter(b)>> \/ w = Unicode(b)
    BY <1>2 DEF Escaped
  <2>3. ASSUME w = <<Backslash, Letter(b)>> PROVE Ascii(w) /\ w # <<>>
    <3>1. Letter(b) \in Nat /\ Letter(b) < 128 /\ Backslash \in Nat /\ Backslash < 128
      BY <2>1 DEF Letter, NL, CR, Backslash
    <3> HIDE DEF w
    <3> QED
      BY <2>3, <3>1 DEF Ascii
  <2>4. ASSUME w = Unicode(b) PROVE Ascii(w) /\ w # <<>>
    <3> DEFINE m == b \div 16
               r == b % 16
    <3>1. m \in 0 .. 15 /\ r \in 0 .. 15
      BY <2>1, HalvesAre
    <3> HIDE DEF m, r
    <3>2. /\ HexDigit(m) \in Nat /\ HexDigit(m) < 128
          /\ HexDigit(r) \in Nat /\ HexDigit(r) < 128
      BY <3>1 DEF HexDigit
    <3>3. Unicode(b) = <<Backslash, 117, 48, 48, HexDigit(m), HexDigit(r)>>
      BY DEF Unicode, m, r
    <3> HIDE DEF w
    <3> QED
      BY <2>4, <3>2, <3>3 DEF Ascii, Backslash
  <2>5. Ascii(w) /\ w # <<>>
    BY <2>2, <2>3, <2>4
  <2>6. Step("utf8", wanted, b) = IF wanted = <<>> THEN <<>> ELSE Std!Never
    BY <2>1, NextWants
  <2> HIDE DEF w
  <2>7. Runs("utf8", wanted, w, Step("utf8", wanted, b))
    BY <2>5, <2>6, AsciiRuns
  <2> QED
    BY <2>7 DEF w
<1> QED
  BY <1>1, <1>2

\* UTF-8 stays UTF-8 between quotation marks.
LEMMA AllRuns ==
  ASSUME NEW s \in Seq(Nat), NEW U \in Unprintables, Runs("utf8", <<>>, s, <<>>)
  PROVE  Runs("utf8", <<>>, EscapedAll(s, U), <<>>)
<1> DEFINE ss == [i \in DOMAIN s |-> Escaped(s[i], U)]
           n == Len(s)
<1>1. /\ ss \in Seq(Seq(Nat)) /\ Len(ss) = n
      /\ \A k \in 1 .. n : ss[k] = Escaped(s[k], U)
      /\ EscapedAll(s, U) = FlattenSeq(ss)
  BY EscapesAre
<1> HIDE DEF ss
<1>2. PICK tr : Trace("utf8", tr, <<>>, s, <<>>)
  BY DEF Runs
<1>3. /\ n \in Nat /\ \A k \in 1 .. n : s[k] \in Nat
      /\ tr[0] = <<>> /\ tr[n] = <<>>
      /\ \A k \in 1 .. n : tr[k] = Step("utf8", tr[k - 1], s[k])
  BY <1>2 DEF Trace
<1> HIDE DEF n
<1> DEFINE M == {k \in 0 .. n : tr[k] \notin Wants}
<1>4. M = {}
  <2> SUFFICES ASSUME M # {} PROVE FALSE
    OBVIOUS
  <2>1. PICK k \in M : \A j \in M : k <= j
    <3>1. M \in SUBSET Nat
      OBVIOUS
    <3> HIDE DEF M
    <3> QED
      BY <3>1, HasLeast
  <2>2. k \in 0 .. n /\ tr[k] \notin Wants
    OBVIOUS
  <2>3. k # 0
    <3>1. <<>> \in Wants
      BY DEF Wants
    <3> QED
      BY <1>3, <2>2, <3>1
  <2>4. k - 1 \in 0 .. n /\ k - 1 < k /\ k \in 1 .. n
    BY <1>3, <2>2, <2>3
  <2>5. k - 1 \notin M
    <3> HIDE DEF M
    <3> QED
      BY <1>3, <2>1, <2>2, <2>4
  <2>6. tr[k - 1] \in Wants
    BY <2>4, <2>5
  <2> QED
    BY <1>3, <2>2, <2>4, <2>6, NextWants
<1>5. ASSUME NEW k \in 1 .. n PROVE Runs("utf8", tr[k - 1], ss[k], tr[k])
  <2>1. k - 1 \in 0 .. n
    BY <1>3
  <2>2. tr[k - 1] \in Wants
    BY <1>4, <2>1
  <2> QED
    BY <1>1, <1>3, <2>2, EscapedRuns
<1>6. Runs("utf8", tr[0], FlattenSeq(ss), tr[Len(ss)])
  BY <1>1, <1>5, RunFlatten
<1> QED
  BY <1>1, <1>3, <1>6

LEMMA QuotedRuns ==
  ASSUME NEW w \in Seq(Nat), Runs("utf8", <<>>, w, <<>>)
  PROVE  Quoted(w) \in Seq(Nat) /\ Runs("utf8", <<>>, Quoted(w), <<>>)
<1> DEFINE m == <<Quote>>
<1>1. Ascii(m) /\ m \in Seq(Nat)
  BY DEF Ascii, Quote
<1> HIDE DEF m
<1>2. Runs("utf8", <<>>, m, <<>>)
  BY <1>1, AsciiIsUtf8
<1>3. m \o w \in Seq(Nat) /\ (m \o w) \o m \in Seq(Nat)
  BY <1>1, JoinIs
<1>4. Runs("utf8", <<>>, m \o w, <<>>)
  BY <1>1, <1>2, RunJoin
<1>5. Runs("utf8", <<>>, (m \o w) \o m, <<>>)
  BY <1>1, <1>2, <1>3, <1>4, RunJoin
<1> QED
  BY <1>3, <1>5 DEF Quoted, m

\* q is the first n elements of the list l.
Begins(q, n, l) == q \in Seq(Seq(Nat)) /\ Len(q) = n /\ \A i \in 1 .. n : q[i] = l[i]

LEMMA BeginsMore ==
  ASSUME NEW n \in Nat, NEW q, NEW l, Begins(q, n, l), NEW a \in Seq(Nat), a = l[n + 1]
  PROVE  Begins(Append(q, a), n + 1, l)
<1> DEFINE p == Append(q, a)
           S == Seq(Nat)
<1>1. a \in S /\ q \in Seq(S) /\ Len(q) = n /\ \A i \in 1 .. n : q[i] = l[i]
  BY DEF Begins
<1> HIDE DEF S
<1>2. p \in Seq(S) /\ Len(p) = n + 1 /\ p[n + 1] = a
  BY <1>1
<1>3. \A i \in 1 .. n : p[i] = q[i]
  BY <1>1
<1> HIDE DEF p
<1>4. \A i \in 1 .. n + 1 : p[i] = l[i]
  BY <1>1, <1>2, <1>3
<1> QED
  BY <1>2, <1>4 DEF Begins, p, S

LEMMA BeginsAll ==
  ASSUME NEW l \in Seq(Seq(Nat)), NEW q, Begins(q, Len(l), l)
  PROVE  q = l
BY SeqEqual DEF Begins

----------------------------------------------------------------------------
(* A reader of both *)

\* Outside strings, w takes the strings read from q to p; and, if u, it is UTF-8.
Carries(w, q, p, u) ==
  /\ w \in Seq(Nat)
  /\ Runs("json", Out(q), w, Out(p))
  /\ u => Runs("utf8", <<>>, w, <<>>)

LEMMA CarriesBoth ==
  ASSUME NEW v, NEW w, NEW q, NEW p, NEW r, NEW u, Carries(v, q, p, u), Carries(w, p, r, u)
  PROVE  Carries(v \o w, q, r, u)
<1>1. v \in Seq(Nat) /\ w \in Seq(Nat) /\ v \o w \in Seq(Nat)
  BY JoinIs DEF Carries
<1>2. Runs("json", Out(q), v \o w, Out(r))
  BY <1>1, RunJoin DEF Carries
<1>3. u => Runs("utf8", <<>>, v \o w, <<>>)
  BY <1>1, RunJoin DEF Carries
<1> QED
  BY <1>1, <1>2, <1>3 DEF Carries

LEMMA CarriesMark ==
  ASSUME NEW w, Ascii(w), \A i \in 1 .. Len(w) : w[i] # Quote, NEW q, NEW u
  PROVE  Carries(w, q, q, u)
<1>1. w \in Seq(Nat)
  BY DEF Ascii
<1>2. Runs("json", Out(q), w, Out(q))
  BY <1>1, OutsideReads
<1>3. Runs("utf8", <<>>, w, <<>>)
  BY AsciiIsUtf8
<1> QED
  BY <1>1, <1>2, <1>3 DEF Carries

LEMMA CarriesString ==
  ASSUME NEW s \in Seq(Nat), NEW U \in Unprintables, NEW q, NEW u,
         u => Runs("utf8", <<>>, s, <<>>)
  PROVE  Carries(Quoted(EscapedAll(s, U)), q, Append(q, s), u)
<1> DEFINE w == EscapedAll(s, U)
<1>1. ReadsAs(w, s)
  BY AllReads
<1>2. w \in Seq(Nat)
  BY <1>1 DEF ReadsAs
<1>3. u => Runs("utf8", <<>>, w, <<>>)
  BY AllRuns
<1> HIDE DEF w
<1>4. Quoted(w) \in Seq(Nat) /\ Runs("json", Out(q), Quoted(w), Out(Append(q, s)))
  BY <1>1, QuotedReads
<1>5. u => Runs("utf8", <<>>, Quoted(w), <<>>)
  BY <1>2, <1>3, QuotedRuns
<1> QED
  BY <1>4, <1>5 DEF Carries, w

\* The names of the fields stand for themselves.
Names == {SenderName, CallerName, ContentName, CallTsName, TsName}
Plainly(w) == Ascii(w) /\ \A i \in 1 .. Len(w) : w[i] \notin {Quote, Backslash}

LEMMA NamesArePlain == \A w \in Names : Plainly(w)
<1>1. /\ Plainly(<<115>>) /\ Plainly(<<99, 97>>) /\ Plainly(<<99>>) /\ Plainly(<<99, 116>>)
      /\ Plainly(<<116>>)
  BY DEF Plainly, Ascii, Quote, Backslash
<1> QED
  BY <1>1 DEF Names, SenderName, CallerName, ContentName, CallTsName, TsName

LEMMA PlainlyReads ==
  ASSUME NEW w, Plainly(w)
  PROVE  ReadsAs(w, w)
<1> DEFINE n == Len(w)
<1>1. /\ n \in Nat /\ w \in Seq(Nat)
      /\ \A i \in 1 .. n : w[i] \in Nat /\ w[i] # Quote /\ w[i] # Backslash
  BY DEF Plainly, Ascii
<1>2. ASSUME NEW q, NEW t \in Seq(Nat)
      PROVE  Runs("json", In(q, t), w, In(q, t \o w))
  <2> DEFINE tr == [k \in 0 .. n |-> In(q, t \o SubSeq(w, 1, k))]
  <2>1. ASSUME NEW k \in 1 .. n PROVE tr[k] = Step("json", tr[k - 1], w[k])
    <3> DEFINE s == t \o SubSeq(w, 1, k - 1)
    <3>1. k - 1 \in 0 .. n /\ k \in 0 .. n
      BY <1>1
    <3>2. tr[k - 1] = In(q, s) /\ tr[k] = In(q, t \o SubSeq(w, 1, k))
      BY <3>1
    <3>3. s \in Seq(Nat)
      BY <1>1
    <3>4. s \o <<w[k]>> = t \o SubSeq(w, 1, k)
      BY <1>1, Longer
    <3> HIDE DEF s, tr
    <3>5. Append(s, w[k]) = s \o <<w[k]>>
      BY <1>1, <3>3
    <3>6. Step("json", In(q, s), w[k]) = In(q, Append(s, w[k]))
      BY <1>1, ReadIn
    <3> QED
      BY <3>2, <3>4, <3>5, <3>6
  <2>2. tr[0] = In(q, t) /\ tr[n] = In(q, t \o w)
    <3>1. SubSeq(w, 1, 0) = <<>> /\ SubSeq(w, 1, n) = w
      BY <1>1
    <3>2. t \o <<>> = t
      OBVIOUS
    <3>3. 0 \in 0 .. n /\ n \in 0 .. n
      BY <1>1
    <3> QED
      BY <3>1, <3>2, <3>3
  <2> HIDE DEF tr
  <2>3. Trace("json", tr, In(q, t), w, In(q, t \o w))
    BY <2>1, <2>2 DEF Trace
  <2> QED
    BY <2>3 DEF Runs
<1> QED
  BY <1>1, <1>2 DEF ReadsAs

LEMMA CarriesName ==
  ASSUME NEW w \in Names, NEW q, NEW u
  PROVE  Carries(Quoted(w), q, Append(q, w), u)
<1>1. Plainly(w) /\ Ascii(w) /\ w \in Seq(Nat)
  BY NamesArePlain DEF Plainly, Ascii
<1>2. ReadsAs(w, w)
  BY <1>1, PlainlyReads
<1>3. Runs("utf8", <<>>, w, <<>>)
  BY <1>1, AsciiIsUtf8
<1>4. Quoted(w) \in Seq(Nat) /\ Runs("json", Out(q), Quoted(w), Out(Append(q, w)))
  BY <1>1, <1>2, QuotedReads
<1>5. Runs("utf8", <<>>, Quoted(w), <<>>)
  BY <1>1, <1>3, QuotedRuns
<1> QED
  BY <1>4, <1>5 DEF Carries

LEMMA MarksAreAscii ==
  \A b \in {10, 32, 44, 49, 55, 57, 58, 91, 93, 123, 125} :
    Ascii(<<b>>) /\ \A i \in 1 .. Len(<<b>>) : <<b>>[i] # Quote
BY DEF Ascii, Quote

\* What wxpusher is sent: its content reads as what was to be sent, and is UTF-8 if
\* that was.
LEMMA PushReads ==
  ASSUME NEW o \in Seq(Nat)
  PROVE  /\ Std!Strings(PushBody(o)) = <<ContentName, o>>
         /\ Std!IsUtf8(o) => Std!IsUtf8(PushBody(o))
<1> DEFINE U == (0 .. 31) \cup {127}
           u == Runs("utf8", <<>>, o, <<>>)
           q0 == <<>>
           q1 == Append(q0, ContentName)
           q2 == Append(q1, o)
           a == <<123>>
           b == Quoted(ContentName)
           c == <<Colon>>
           d == Quoted(EscapedAll(o, U))
           e == <<125>>
<1>1. Carries(a, q0, q0, u) /\ Carries(c, q1, q1, u) /\ Carries(e, q2, q2, u)
  <2>1. 123 \in {10, 32, 44, 49, 55, 57, 58, 91, 93, 123, 125}
        /\ 58 \in {10, 32, 44, 49, 55, 57, 58, 91, 93, 123, 125}
        /\ 125 \in {10, 32, 44, 49, 55, 57, 58, 91, 93, 123, 125} /\ Colon = 58
    BY DEF Colon
  <2> HIDE DEF q0, q1, q2, u
  <2>2. Carries(a, q0, q0, u)
    BY <2>1, MarksAreAscii, CarriesMark, Zenon
  <2>3. Carries(c, q1, q1, u)
    BY <2>1, MarksAreAscii, CarriesMark
  <2>4. Carries(e, q2, q2, u)
    BY <2>1, MarksAreAscii, CarriesMark, Zenon
  <2> QED
    BY <2>2, <2>3, <2>4
<1>2. Carries(b, q0, q1, u)
  BY CarriesName DEF Names
<1>3. Carries(d, q1, q2, u)
  BY CarriesString DEF Unprintables
<1>4. PushBody(o) = (((a \o b) \o c) \o d) \o e
  BY DEF PushBody, json_escape, EscapedAll
<1>5. ContentName \in Seq(Nat)
  BY DEF ContentName
<1>6. q2 = <<ContentName, o>>
  <2> DEFINE l == <<ContentName, o>>
  <2>1. l \in Seq(Seq(Nat)) /\ Len(l) = 1 + 1 /\ l[0 + 1] = ContentName /\ l[1 + 1] = o
    BY <1>5
  <2> HIDE DEF l
  <2>2. Begins(q0, 0, l)
    BY DEF Begins
  <2> HIDE DEF q0
  <2>3. Begins(q1, 0 + 1, l) /\ 0 + 1 = 1 /\ 1 \in Nat
    BY <1>5, <2>1, <2>2, BeginsMore
  <2> HIDE DEF q1
  <2>4. Begins(q2, 1 + 1, l)
    <3>1. Begins(q1, 1, l)
      BY <2>3
    <3> QED
      BY <2>1, <2>3, <3>1, BeginsMore
  <2>5. q2 = l
    BY <2>1, <2>4, BeginsAll
  <2> QED
    BY <2>5 DEF l
<1>7. u <=> Std!IsUtf8(o)
  BY Utf8Runs
<1> HIDE DEF a, b, c, d, e, u, q1, q2
<1>8. Carries((((a \o b) \o c) \o d) \o e, q0, q2, u)
  BY <1>1, <1>2, <1>3, CarriesBoth
<1>9. /\ PushBody(o) \in Seq(Nat) /\ Runs("json", Out(<<>>), PushBody(o), Out(q2))
      /\ u => Runs("utf8", <<>>, PushBody(o), <<>>)
  BY <1>4, <1>8 DEF Carries
<1>10. Std!Strings(PushBody(o)) = q2
  <2>1. Std!Strings(PushBody(o)) = Out(q2).strings
    BY <1>9, StringsRead
  <2> QED
    BY <2>1 DEF Out, Std!Outside, Std!Reader
<1> QED
  BY <1>6, <1>7, <1>9, <1>10, Utf8Runs

----------------------------------------------------------------------------
(* Steps of pretty_json *)

\* Its state while nothing is wrong: the text so far, the brackets open, the token,
\* whether in a string and past a backslash, and the three marks.
St(o, k, t, s, e, n, c, h) ==
  [ok |-> TRUE, out |-> o, stack |-> k, token |-> t, in_string |-> s, escaped |-> e,
   need_indent |-> n, after_comma |-> c, has_token |-> h]
Fields == {"ok", "out", "stack", "token", "in_string", "escaped", "need_indent", "after_comma",
           "has_token"}
Is(st, o, k, t, s, e, n, c, h) ==
  /\ st = [f \in Fields |-> st[f]]
  /\ st.ok = TRUE /\ st.out = o /\ st.stack = k /\ st.token = t /\ st.in_string = s
  /\ st.escaped = e /\ st.need_indent = n /\ st.after_comma = c /\ st.has_token = h

LEMMA StIs ==
  ASSUME NEW o, NEW k, NEW t, NEW s, NEW e, NEW n, NEW c, NEW h
  PROVE  Is(St(o, k, t, s, e, n, c, h), o, k, t, s, e, n, c, h)
<1> DEFINE st == St(o, k, t, s, e, n, c, h)
<1>1. /\ st.ok = TRUE /\ st.out = o /\ st.stack = k /\ st.token = t /\ st.in_string = s
      /\ st.escaped = e /\ st.need_indent = n /\ st.after_comma = c /\ st.has_token = h
  BY DEF St
<1>2. st = [f \in Fields |-> st[f]]
  BY DEF St, Fields
<1> QED
  BY <1>1, <1>2 DEF Is

LEMMA IsSt ==
  ASSUME NEW st, NEW o, NEW k, NEW t, NEW s, NEW e, NEW n, NEW c, NEW h,
         Is(st, o, k, t, s, e, n, c, h)
  PROVE  st = St(o, k, t, s, e, n, c, h)
<1> DEFINE r == St(o, k, t, s, e, n, c, h)
<1>1. Is(r, o, k, t, s, e, n, c, h)
  BY StIs
<1> HIDE DEF r
<1>2. \A f \in Fields : st[f] = r[f]
  BY <1>1 DEF Is, Fields
<1>3. st = [f \in Fields |-> st[f]] /\ r = [f \in Fields |-> r[f]]
  BY <1>1 DEF Is
<1> HIDE DEF Fields
<1>4. [f \in Fields |-> st[f]] = [f \in Fields |-> r[f]]
  BY <1>2
<1>5. st = r
  BY <1>3, <1>4, Zenon
<1> QED
  BY <1>5 DEF r

\* What the steps set in it.
Seen(st)             == [st EXCEPT !.has_token = TRUE, !.after_comma = FALSE]
Clear(st)            == [st EXCEPT !.token = <<>>]
Grown(st, ch)        == [st EXCEPT !.token = Append(@, ch)]
Opened(st)           == [st EXCEPT !.in_string = TRUE]
Deeper(st, ch)       == [st EXCEPT !.stack = Append(@, ch), !.need_indent = TRUE]
Shallower(st)        == [st EXCEPT !.stack = Front(@), !.need_indent = FALSE]
Separated(st)        == [st EXCEPT !.need_indent = TRUE, !.after_comma = TRUE]
Unindented(st)       == [st EXCEPT !.need_indent = FALSE]
Turned(st, e, s)     == [st EXCEPT !.escaped = e, !.in_string = s]
Line(n)              == <<NL>> \o [i \in 1 .. 2 * n |-> Space]

LEMMA PutIs ==
  ASSUME NEW st, NEW o, NEW k, NEW t, NEW s, NEW e, NEW n, NEW c, NEW h, NEW b,
         Is(st, o, k, t, s, e, n, c, h)
  PROVE  Is(Put(st, b), o \o b, k, t, s, e, n, c, h)
<1> DEFINE x == o \o b
<1>1. st.out \o b = x
  BY Zenon DEF Is
<1>2. Put(st, b) = [st EXCEPT !.out = x]
  BY <1>1 DEF Put
<1> HIDE DEF x
<1>3. Is([st EXCEPT !.out = x], x, k, t, s, e, n, c, h)
  BY DEF Is, Fields
<1> QED
  BY <1>2, <1>3 DEF x

LEMMA SeenIs ==
  ASSUME NEW st, NEW o, NEW k, NEW t, NEW s, NEW e, NEW n, NEW c, NEW h,
         Is(st, o, k, t, s, e, n, c, h)
  PROVE  Is(Seen(st), o, k, t, s, e, n, FALSE, TRUE)
BY DEF Is, Fields, Seen

LEMMA ClearIs ==
  ASSUME NEW st, NEW o, NEW k, NEW t, NEW s, NEW e, NEW n, NEW c, NEW h,
         Is(st, o, k, t, s, e, n, c, h)
  PROVE  Is(Clear(st), o, k, <<>>, s, e, n, c, h)
BY DEF Is, Fields, Clear

LEMMA GrownIs ==
  ASSUME NEW st, NEW o, NEW k, NEW t, NEW s, NEW e, NEW n, NEW c, NEW h, NEW ch,
         Is(st, o, k, t, s, e, n, c, h)
  PROVE  Is(Grown(st, ch), o, k, Append(t, ch), s, e, n, c, h)
<1> DEFINE x == Append(t, ch)
<1>1. Append(st.token, ch) = x
  BY Zenon DEF Is
<1>2. Grown(st, ch) = [st EXCEPT !.token = x]
  BY <1>1 DEF Grown
<1> HIDE DEF x
<1>3. Is([st EXCEPT !.token = x], o, k, x, s, e, n, c, h)
  BY DEF Is, Fields
<1> QED
  BY <1>2, <1>3 DEF x

LEMMA OpenedIs ==
  ASSUME NEW st, NEW o, NEW k, NEW t, NEW s, NEW e, NEW n, NEW c, NEW h,
         Is(st, o, k, t, s, e, n, c, h)
  PROVE  Is(Opened(st), o, k, t, TRUE, e, n, c, h)
BY DEF Is, Fields, Opened

LEMMA DeeperIs ==
  ASSUME NEW st, NEW o, NEW k, NEW t, NEW s, NEW e, NEW n, NEW c, NEW h, NEW ch,
         Is(st, o, k, t, s, e, n, c, h)
  PROVE  Is(Deeper(st, ch), o, Append(k, ch), t, s, e, TRUE, c, h)
<1> DEFINE x == Append(k, ch)
<1>1. Append(st.stack, ch) = x
  BY Zenon DEF Is
<1>2. Deeper(st, ch) = [st EXCEPT !.stack = x, !.need_indent = TRUE]
  BY <1>1 DEF Deeper
<1> HIDE DEF x
<1>3. Is([st EXCEPT !.stack = x, !.need_indent = TRUE], o, x, t, s, e, TRUE, c, h)
  BY DEF Is, Fields
<1> QED
  BY <1>2, <1>3 DEF x

LEMMA ShallowerIs ==
  ASSUME NEW st, NEW o, NEW k, NEW t, NEW s, NEW e, NEW n, NEW c, NEW h,
         Is(st, o, k, t, s, e, n, c, h)
  PROVE  Is(Shallower(st), o, Front(k), t, s, e, FALSE, c, h)
<1> DEFINE x == Front(k)
<1>1. Front(st.stack) = x
  BY Zenon DEF Is
<1>2. Shallower(st) = [st EXCEPT !.stack = x, !.need_indent = FALSE]
  BY <1>1 DEF Shallower
<1> HIDE DEF x
<1>3. Is([st EXCEPT !.stack = x, !.need_indent = FALSE], o, x, t, s, e, FALSE, c, h)
  BY DEF Is, Fields
<1> QED
  BY <1>2, <1>3 DEF x

LEMMA SeparatedIs ==
  ASSUME NEW st, NEW o, NEW k, NEW t, NEW s, NEW e, NEW n, NEW c, NEW h,
         Is(st, o, k, t, s, e, n, c, h)
  PROVE  Is(Separated(st), o, k, t, s, e, TRUE, TRUE, h)
BY DEF Is, Fields, Separated

LEMMA UnindentedIs ==
  ASSUME NEW st, NEW o, NEW k, NEW t, NEW s, NEW e, NEW n, NEW c, NEW h,
         Is(st, o, k, t, s, e, n, c, h)
  PROVE  Is(Unindented(st), o, k, t, s, e, FALSE, c, h)
BY DEF Is, Fields, Unindented

LEMMA TurnedIs ==
  ASSUME NEW st, NEW o, NEW k, NEW t, NEW s, NEW e, NEW n, NEW c, NEW h, NEW x, NEW y,
         Is(st, o, k, t, s, e, n, c, h)
  PROVE  Is(Turned(st, x, y), o, k, t, y, x, n, c, h)
BY DEF Is, Fields, Turned

\* PrettyStep in these terms.
LEMMA PrettyStepIs ==
  ASSUME NEW st, NEW ch
  PROVE  Step("pretty", st, ch) =
           IF ~st.ok THEN st
           ELSE IF st.in_string
           THEN Turned(Put(st, <<ch>>), ~st.escaped /\ ch = Backslash, st.escaped \/ ch # Quote)
           ELSE IF ch \in White THEN st
           ELSE IF ~Structural(ch) THEN Grown(Put(Indented(Seen(st)), <<ch>>), ch)
           ELSE IF Allowed(st, ch) THEN AfterStructural(Clear(Seen(st)), ch)
           ELSE [st EXCEPT !.ok = FALSE]
BY DEF Step, PrettyStep, InString, Turned, Grown, Seen, Clear

LEMMA NewLineIs ==
  ASSUME NEW st, NEW n
  PROVE  NewLine(st, n) = Unindented(Put(st, Line(n)))
BY DEF NewLine, Unindented, Line

LEMMA AfterStructuralIs ==
  ASSUME NEW st, NEW ch
  PROVE  /\ ch = Quote => AfterStructural(st, ch) = Opened(Put(Indented(st), <<ch>>))
         /\ ch = 123 => AfterStructural(st, ch) = Deeper(Put(Indented(st), <<ch>>), ch)
         /\ ch = 125 => AfterStructural(st, ch)
              = Shallower(Put(IF st.need_indent THEN st ELSE NewLine(st, Len(st.stack) - 1), <<ch>>))
         /\ ch = Comma => AfterStructural(st, ch) = Separated(Put(st, <<ch>>))
         /\ ch = Colon => AfterStructural(st, ch) = Unindented(Put(st, <<ch, Space>>))
<1>1. ASSUME ch = Quote PROVE AfterStructural(st, ch) = Opened(Put(Indented(st), <<ch>>))
  <2>1. ch \notin OpenBrackets /\ ch \notin CloseBrackets /\ ch # Comma /\ ch # Colon
    BY <1>1 DEF Quote, OpenBrackets, CloseBrackets, Comma, Colon
  <2> QED
    BY <1>1, <2>1 DEF AfterStructural, Opened
<1>2. ASSUME ch = 123 PROVE AfterStructural(st, ch) = Deeper(Put(Indented(st), <<ch>>), ch)
  <2>1. ch \in OpenBrackets /\ ch \notin CloseBrackets /\ ch # Comma /\ ch # Colon /\ ch # Quote
    BY <1>2 DEF Quote, OpenBrackets, CloseBrackets, Comma, Colon
  <2> QED
    BY <2>1 DEF AfterStructural, Deeper
<1>3. ASSUME ch = 125
      PROVE  AfterStructural(st, ch)
               = Shallower(Put(IF st.need_indent THEN st ELSE NewLine(st, Len(st.stack) - 1), <<ch>>))
  <2>1. ch \notin OpenBrackets /\ ch \in CloseBrackets /\ ch # Comma /\ ch # Colon /\ ch # Quote
    BY <1>3 DEF Quote, OpenBrackets, CloseBrackets, Comma, Colon
  <2> QED
    BY <2>1 DEF AfterStructural, Shallower
<1>4. ASSUME ch = Comma PROVE AfterStructural(st, ch) = Separated(Put(st, <<ch>>))
  <2>1. ch \notin OpenBrackets /\ ch \notin CloseBrackets /\ ch # Colon /\ ch # Quote
    BY <1>4 DEF Quote, OpenBrackets, CloseBrackets, Comma, Colon
  <2> QED
    BY <1>4, <2>1 DEF AfterStructural, Separated
<1>5. ASSUME ch = Colon PROVE AfterStructural(st, ch) = Unindented(Put(st, <<ch, Space>>))
  <2>1. ch \notin OpenBrackets /\ ch \notin CloseBrackets /\ ch # Comma /\ ch # Quote
    BY <1>5 DEF Quote, OpenBrackets, CloseBrackets, Comma, Colon
  <2> QED
    BY <1>5, <2>1 DEF AfterStructural, Unindented
<1> QED
  BY <1>1, <1>2, <1>3, <1>4, <1>5

\* The line break that is due, if one is.
Due(n, depth) == IF n THEN Line(depth) ELSE <<>>

LEMMA LineIs ==
  ASSUME NEW n \in Nat
  PROVE  Ascii(Line(n)) /\ \A i \in 1 .. Len(Line(n)) : Line(n)[i] # Quote
<1> DEFINE a == <<NL>>
           b == [i \in 1 .. 2 * n |-> Space]
<1>1. a \in Seq(Nat) /\ Len(a) = 1 /\ a[1] = 10
  BY DEF NL
<1>2. 2 * n \in Nat /\ b \in Seq(Nat) /\ Len(b) = 2 * n /\ \A i \in 1 .. 2 * n : b[i] = 32
  <2> DEFINE l == 2 * n
             c == [i \in 1 .. l |-> Space]
  <2>1. l \in Nat
    OBVIOUS
  <2> HIDE DEF l
  <2>2. c \in Seq(Nat) /\ Len(c) = l /\ \A i \in 1 .. l : c[i] = 32
    BY <2>1 DEF Space
  <2> QED
    BY <2>1, <2>2 DEF l
<1> HIDE DEF a, b
<1>3. /\ a \o b \in Seq(Nat) /\ Len(a \o b) = Len(a) + Len(b)
      /\ \A i \in 1 .. Len(a) + Len(b) : (a \o b)[i] = IF i <= Len(a) THEN a[i] ELSE b[i - Len(a)]
  <2>1. a \in Seq(Nat) /\ b \in Seq(Nat)
    BY <1>1, <1>2
  <2> QED
    BY <2>1, ConcatProperties
<1>4. ASSUME NEW i \in 1 .. 1 + 2 * n
      PROVE  (a \o b)[i] \in {10, 32}
  <2>1. CASE i = 1
    BY <1>1, <1>2, <1>3, <2>1
  <2>2. CASE i # 1
    <3>1. i - 1 \in 1 .. 2 * n /\ ~(i <= 1)
      BY <1>2, <2>2
    <3> QED
      BY <1>1, <1>2, <1>3, <3>1
  <2> QED
    BY <2>1, <2>2
<1> DEFINE l == a \o b
<1>5. l \in Seq(Nat) /\ Len(l) = 1 + 2 * n /\ \A i \in 1 .. 1 + 2 * n : l[i] \in {10, 32}
  BY <1>1, <1>2, <1>3, <1>4
<1>6. l = Line(n)
  BY DEF a, b, Line
<1> HIDE DEF l
<1>7. Ascii(l) /\ \A i \in 1 .. Len(l) : l[i] # Quote
  BY <1>5 DEF Ascii, Quote
<1> QED
  BY <1>6, <1>7

LEMMA IndentedIs ==
  ASSUME NEW st, NEW o \in Seq(Nat), NEW k, NEW t, NEW s, NEW e, NEW n \in BOOLEAN, NEW c, NEW h,
         Is(st, o, k, t, s, e, n, c, h)
  PROVE  Is(Indented(st), o \o Due(n, Len(k)), k, t, s, e, FALSE, c, h)
<1>1. st.need_indent = n /\ Len(st.stack) = Len(k)
  BY Zenon DEF Is
<1>2. CASE n
  <2>1. Indented(st) = Unindented(Put(st, Line(Len(k)))) /\ Due(n, Len(k)) = Line(Len(k))
    BY <1>1, <1>2, NewLineIs DEF Indented, Due
  <2> DEFINE x == Line(Len(k))
  <2> HIDE DEF x
  <2>2. Is(Put(st, x), o \o x, k, t, s, e, n, c, h)
    BY PutIs
  <2>3. Is(Unindented(Put(st, x)), o \o x, k, t, s, e, FALSE, c, h)
    BY <2>2, UnindentedIs
  <2> QED
    BY <2>1, <2>3 DEF x
<1>3. CASE ~n
  <2>1. Indented(st) = st /\ o \o Due(n, Len(k)) = o /\ n = FALSE
    BY <1>1, <1>3 DEF Indented, Due
  <2> QED
    BY <2>1
<1> QED
  BY <1>2, <1>3

\* Inside the object but in no string, and in a string; after the object.
Object          == <<123>>
At(o, t, n, c)  == St(o, Object, t, FALSE, FALSE, n, c, TRUE)
Str(o, e)       == St(o, Object, <<>>, TRUE, e, FALSE, FALSE, TRUE)
End(o)          == St(o, <<>>, <<>>, FALSE, FALSE, FALSE, FALSE, TRUE)

LEMMA ObjectIs == Object # <<>> /\ Len(Object) = 1 /\ Last(Object) = 123 /\ Front(Object) = <<>>
BY DEF Object, Last, Front

LEMMA StepStart == Step("pretty", PrettyStart, 123) = At(<<123>>, <<>>, TRUE, FALSE)
<1> DEFINE st == PrettyStart
           e  == <<>>
<1>1. Is(st, e, e, e, FALSE, FALSE, FALSE, FALSE, FALSE)
  <2>1. st = St(<<>>, <<>>, <<>>, FALSE, FALSE, FALSE, FALSE, FALSE)
    BY DEF PrettyStart, St
  <2> QED
    BY <2>1, StIs
<1>2. st.ok /\ ~st.in_string /\ st.token = <<>>
  BY <1>1 DEF Is
<1>3. 123 \notin White /\ Structural(123) /\ Allowed(st, 123)
  <2>1. 123 \notin White /\ Structural(123)
    BY DEF White, Space, Structural, OpenBrackets
  <2>2. Flushed(st)
    BY <1>2 DEF Flushed
  <2>3. 123 \notin CloseBrackets /\ 123 # Comma /\ 123 # Colon
    BY DEF CloseBrackets, Comma, Colon
  <2> QED
    BY <2>1, <2>2, <2>3 DEF Allowed
<1> DEFINE s1 == Clear(Seen(st))
<1>4. Step("pretty", st, 123) = Deeper(Put(Indented(s1), <<123>>), 123)
  <2> HIDE DEF st
  <2>1. Step("pretty", st, 123) = AfterStructural(s1, 123)
    BY <1>2, <1>3, PrettyStepIs
  <2> HIDE DEF s1
  <2> QED
    BY <2>1, AfterStructuralIs
<1> HIDE DEF st
<1>5. Is(s1, e, e, <<>>, FALSE, FALSE, FALSE, FALSE, TRUE)
  <2>1. Is(Seen(st), e, e, e, FALSE, FALSE, FALSE, FALSE, TRUE)
    BY <1>1, SeenIs
  <2> QED
    BY <2>1, ClearIs
<1> HIDE DEF s1
<1>6. Is(Indented(s1), e, e, <<>>, FALSE, FALSE, FALSE, FALSE, TRUE)
  <2>1. e \in Seq(Nat) /\ e \o Due(FALSE, Len(e)) = e
    BY DEF Due
  <2> HIDE DEF e
  <2> QED
    BY <1>5, <2>1, IndentedIs
<1> DEFINE w == <<123>>
           s2 == Put(Indented(s1), w)
<1>7. Is(s2, w, e, <<>>, FALSE, FALSE, FALSE, FALSE, TRUE)
  <2>1. e \o w = w
    OBVIOUS
  <2> HIDE DEF w, e
  <2>2. Is(s2, e \o w, e, <<>>, FALSE, FALSE, FALSE, FALSE, TRUE)
    BY <1>6, PutIs
  <2> QED
    BY <2>1, <2>2
<1> HIDE DEF s2
<1>8. Is(Deeper(s2, 123), w, Object, <<>>, FALSE, FALSE, TRUE, FALSE, TRUE)
  <2>1. Append(e, 123) = Object
    BY DEF Object
  <2> HIDE DEF w, e
  <2>2. Is(Deeper(s2, 123), w, Append(e, 123), <<>>, FALSE, FALSE, TRUE, FALSE, TRUE)
    BY <1>7, DeeperIs
  <2> QED
    BY <2>1, <2>2
<1>9. Deeper(s2, 123) = At(w, <<>>, TRUE, FALSE)
  <2> DEFINE r == Deeper(s2, 123)
             m == <<>>
  <2>1. Is(r, w, Object, m, FALSE, FALSE, TRUE, FALSE, TRUE)
    BY <1>8
  <2> HIDE DEF r, w, m
  <2>2. \A f, t : Is(r, w, Object, m, f, f, t, f, t) => r = St(w, Object, m, f, f, t, f, t)
    BY IsSt
  <2>3. r = St(w, Object, m, FALSE, FALSE, TRUE, FALSE, TRUE)
    BY <2>1, <2>2
  <2> QED
    BY <2>3 DEF At, r, m
<1> QED
  BY <1>4, <1>9 DEF s2, st

LEMMA StepInString ==
  ASSUME NEW o, NEW e \in BOOLEAN, NEW ch
  PROVE  Step("pretty", Str(o, e), ch) =
           IF e THEN Str(o \o <<ch>>, FALSE)
           ELSE IF ch = Quote THEN At(o \o <<ch>>, <<>>, FALSE, FALSE)
           ELSE Str(o \o <<ch>>, ch = Backslash)
<1> DEFINE st == Str(o, e)
           x  == (~e /\ ch = Backslash)
           y  == (e \/ ch # Quote)
           w  == o \o <<ch>>
           m  == <<>>
<1>1. Is(st, o, Object, m, TRUE, e, FALSE, FALSE, TRUE)
  BY StIs DEF Str
<1> HIDE DEF st
<1>2. st.ok /\ st.in_string /\ st.escaped = e
  BY <1>1 DEF Is
<1>3. Step("pretty", st, ch) = Turned(Put(st, <<ch>>), ~st.escaped /\ ch = Backslash, st.escaped \/ ch # Quote)
  BY <1>2, PrettyStepIs
<1>4. (~st.escaped /\ ch = Backslash) = x /\ (st.escaped \/ ch # Quote) = y
  BY <1>2
<1>5. Is(Put(st, <<ch>>), w, Object, m, TRUE, e, FALSE, FALSE, TRUE)
  BY <1>1, PutIs
<1> HIDE DEF w, m
<1>6. Is(Turned(Put(st, <<ch>>), x, y), w, Object, m, y, x, FALSE, FALSE, TRUE)
  <2> HIDE DEF x, y
  <2> QED
    BY <1>5, TurnedIs
<1>7. Step("pretty", st, ch) = St(w, Object, m, y, x, FALSE, FALSE, TRUE)
  <2>1. Step("pretty", st, ch) = Turned(Put(st, <<ch>>), x, y)
    BY <1>3, <1>4
  <2> HIDE DEF x, y
  <2> QED
    <3> DEFINE r == Turned(Put(st, <<ch>>), x, y)
    <3>1. Is(r, w, Object, m, y, x, FALSE, FALSE, TRUE)
      BY <1>6
    <3> HIDE DEF r
    <3>2. \A f, t : Is(r, w, Object, m, y, x, f, f, t) => r = St(w, Object, m, y, x, f, f, t)
      BY IsSt
    <3>3. r = St(w, Object, m, y, x, FALSE, FALSE, TRUE)
      BY <3>1, <3>2
    <3> QED
      BY <2>1, <3>3 DEF r
<1>8. CASE e
  <2>1. x = FALSE /\ y = TRUE
    BY <1>8
  <2> QED
    BY <1>7, <1>8, <2>1 DEF Str, w, m, st
<1>9. CASE ~e /\ ch = Quote
  <2>1. x = FALSE /\ y = FALSE
    BY <1>9 DEF Quote, Backslash
  <2> QED
    BY <1>7, <1>9, <2>1 DEF At, w, m, st
<1>10. CASE ~e /\ ch # Quote
  <2>1. x = (ch = Backslash) /\ y = TRUE
    BY <1>10
  <2> QED
    BY <1>7, <1>10, <2>1 DEF Str, w, m, st
<1> QED
  BY <1>8, <1>9, <1>10

\* Between strings, as the fields say it.
LEMMA AtFields ==
  ASSUME NEW o, NEW t, NEW n, NEW c
  PROVE  LET st == At(o, t, n, c)
         IN  /\ st.ok /\ ~st.in_string /\ st.token = t /\ st.stack = Object
             /\ st.need_indent = n /\ st.after_comma = c
<1> DEFINE st == At(o, t, n, c)
<1>1. Is(st, o, Object, t, FALSE, FALSE, n, c, TRUE)
  BY StIs DEF At
<1> HIDE DEF st
<1>2. /\ st.ok /\ ~st.in_string /\ st.token = t /\ st.stack = Object
      /\ st.need_indent = n /\ st.after_comma = c
  BY <1>1, Zenon DEF Is
<1> QED
  BY <1>2, Zenon DEF st

LEMMA AtIs ==
  ASSUME NEW o, NEW t, NEW n, NEW c
  PROVE  LET st == At(o, t, n, c)
         IN  /\ Is(Seen(st), o, Object, t, FALSE, FALSE, n, FALSE, TRUE)
             /\ Is(Clear(Seen(st)), o, Object, <<>>, FALSE, FALSE, n, FALSE, TRUE)
<1> DEFINE st == At(o, t, n, c)
<1>1. Is(st, o, Object, t, FALSE, FALSE, n, c, TRUE)
  BY StIs DEF At
<1> HIDE DEF st
<1>2. Is(Seen(st), o, Object, t, FALSE, FALSE, n, FALSE, TRUE)
  BY <1>1, SeenIs
<1>3. Is(Clear(Seen(st)), o, Object, <<>>, FALSE, FALSE, n, FALSE, TRUE)
  BY <1>2, ClearIs
<1> QED
  BY <1>2, <1>3 DEF st

LEMMA StepOverStructural ==
  ASSUME NEW st, st.ok, ~st.in_string, NEW ch, ch \notin White, Structural(ch), Allowed(st, ch)
  PROVE  Step("pretty", st, ch) = AfterStructural(Clear(Seen(st)), ch)
BY PrettyStepIs

\* Such a token may end.
Ended(t) == t = <<>> \/ is_json_scalar(t)

LEMMA StructuralStep ==
  ASSUME NEW o, NEW t, Ended(t), NEW n \in BOOLEAN, NEW c \in BOOLEAN, NEW ch \in {Quote, Comma, Colon, 125},
         ch = Comma => ~n, ch = 125 => ~c
  PROVE  LET st == At(o, t, n, c)
         IN  Step("pretty", st, ch) = AfterStructural(Clear(Seen(st)), ch)
<1> DEFINE st == At(o, t, n, c)
<1>1. st.ok /\ ~st.in_string /\ st.token = t /\ st.stack = Object
      /\ st.need_indent = n /\ st.after_comma = c
  BY AtFields
<1> HIDE DEF st
<1>2. ch \notin White /\ Structural(ch)
  BY DEF Quote, Comma, Colon, White, Space, Structural, OpenBrackets, CloseBrackets
<1>3. Flushed(st)
  BY <1>1 DEF Flushed, Ended
<1>4. ch \in CloseBrackets => ch = 125 /\ Match(ch) = 123
  BY DEF Quote, Comma, Colon, CloseBrackets, Match
<1>5. st.stack # <<>> /\ Last(st.stack) = 123
  BY <1>1, ObjectIs
<1>6. Allowed(st, ch)
  BY <1>1, <1>3, <1>4, <1>5 DEF Allowed
<1>7. Step("pretty", st, ch) = AfterStructural(Clear(Seen(st)), ch)
  BY <1>1, <1>2, <1>6, StepOverStructural
<1> QED
  BY <1>7 DEF st

LEMMA StepQuote ==
  ASSUME NEW o \in Seq(Nat), NEW n \in BOOLEAN, NEW c \in BOOLEAN
  PROVE  Step("pretty", At(o, <<>>, n, c), Quote) = Str((o \o Due(n, 1)) \o <<Quote>>, FALSE)
<1> DEFINE st == At(o, <<>>, n, c)
           s1 == Clear(Seen(st))
           m  == <<>>
           x  == o \o Due(n, 1)
           w  == x \o <<Quote>>
           s2 == Put(Indented(s1), <<Quote>>)
<1>1. Is(s1, o, Object, m, FALSE, FALSE, n, FALSE, TRUE)
  BY AtIs
<1>2. Step("pretty", st, Quote) = AfterStructural(s1, Quote)
  <2>1. Ended(<<>>) /\ Quote # Comma /\ Quote # 125
    BY DEF Ended, Quote, Comma
  <2> QED
    BY <2>1, StructuralStep
<1> HIDE DEF s1, m
<1>3. AfterStructural(s1, Quote) = Opened(s2)
  BY AfterStructuralIs
<1>4. Is(Indented(s1), x, Object, m, FALSE, FALSE, FALSE, FALSE, TRUE)
  <2>1. Is(Indented(s1), o \o Due(n, Len(Object)), Object, m, FALSE, FALSE, FALSE, FALSE, TRUE)
    BY <1>1, IndentedIs
  <2> QED
    BY <2>1, ObjectIs
<1> HIDE DEF x
<1>5. Is(s2, w, Object, m, FALSE, FALSE, FALSE, FALSE, TRUE)
  BY <1>4, PutIs
<1> HIDE DEF s2, w
<1>6. Is(Opened(s2), w, Object, m, TRUE, FALSE, FALSE, FALSE, TRUE)
  BY <1>5, OpenedIs
<1> DEFINE r == Opened(s2)
<1>7. Is(r, w, Object, m, TRUE, FALSE, FALSE, FALSE, TRUE)
  BY <1>6
<1> HIDE DEF r
<1>8. \A f, u : Is(r, w, Object, m, u, f, f, f, u) => r = St(w, Object, m, u, f, f, f, u)
  BY IsSt
<1>9. r = St(w, Object, m, TRUE, FALSE, FALSE, FALSE, TRUE)
  BY <1>7, <1>8
<1> QED
  BY <1>2, <1>3, <1>9 DEF r, Str, w, x, m

LEMMA StepColon ==
  ASSUME NEW o, NEW c \in BOOLEAN
  PROVE  Step("pretty", At(o, <<>>, FALSE, c), Colon) = At(o \o <<Colon, Space>>, <<>>, FALSE, FALSE)
<1> DEFINE st == At(o, <<>>, FALSE, c)
           s1 == Clear(Seen(st))
           m  == <<>>
           w  == o \o <<Colon, Space>>
           s2 == Put(s1, <<Colon, Space>>)
<1>1. Is(s1, o, Object, m, FALSE, FALSE, FALSE, FALSE, TRUE)
  BY AtIs
<1>2. Step("pretty", st, Colon) = AfterStructural(s1, Colon)
  <2>1. Ended(<<>>) /\ Colon # Comma /\ Colon # 125
    BY DEF Ended, Colon, Comma
  <2>2. \A n \in BOOLEAN : ~n => Step("pretty", At(o, <<>>, n, c), Colon)
                       = AfterStructural(Clear(Seen(At(o, <<>>, n, c))), Colon)
    BY <2>1, StructuralStep
  <2> QED
    BY <2>2
<1> HIDE DEF s1, m
<1>3. AfterStructural(s1, Colon) = Unindented(s2)
  BY AfterStructuralIs
<1>4. Is(s2, w, Object, m, FALSE, FALSE, FALSE, FALSE, TRUE)
  BY <1>1, PutIs
<1> HIDE DEF s2, w
<1> DEFINE r == Unindented(s2)
<1>5. Is(r, w, Object, m, FALSE, FALSE, FALSE, FALSE, TRUE)
  BY <1>4, UnindentedIs
<1> HIDE DEF r
<1>6. \A f, u : Is(r, w, Object, m, f, f, f, f, u) => r = St(w, Object, m, f, f, f, f, u)
  BY IsSt
<1>7. r = St(w, Object, m, FALSE, FALSE, FALSE, FALSE, TRUE)
  BY <1>5, <1>6
<1> QED
  BY <1>2, <1>3, <1>7 DEF r, At, w, m

LEMMA StepComma ==
  ASSUME NEW o, NEW t, Ended(t), NEW c \in BOOLEAN
  PROVE  Step("pretty", At(o, t, FALSE, c), Comma) = At(o \o <<Comma>>, <<>>, TRUE, TRUE)
<1> DEFINE st == At(o, t, FALSE, c)
           s1 == Clear(Seen(st))
           m  == <<>>
           w  == o \o <<Comma>>
           s2 == Put(s1, <<Comma>>)
<1>1. Is(s1, o, Object, m, FALSE, FALSE, FALSE, FALSE, TRUE)
  BY AtIs
<1>2. Step("pretty", st, Comma) = AfterStructural(s1, Comma)
  <2>1. Comma # 125
    BY DEF Comma
  <2>2. \A n \in BOOLEAN : ~n => Step("pretty", At(o, t, n, c), Comma)
                       = AfterStructural(Clear(Seen(At(o, t, n, c))), Comma)
    BY <2>1, StructuralStep
  <2> QED
    BY <2>2
<1> HIDE DEF s1, m
<1>3. AfterStructural(s1, Comma) = Separated(s2)
  BY AfterStructuralIs
<1>4. Is(s2, w, Object, m, FALSE, FALSE, FALSE, FALSE, TRUE)
  BY <1>1, PutIs
<1> HIDE DEF s2, w
<1> DEFINE r == Separated(s2)
<1>5. Is(r, w, Object, m, FALSE, FALSE, TRUE, TRUE, TRUE)
  BY <1>4, SeparatedIs
<1> HIDE DEF r
<1>6. \A f, u : Is(r, w, Object, m, f, f, u, u, u) => r = St(w, Object, m, f, f, u, u, u)
  BY IsSt
<1>7. r = St(w, Object, m, FALSE, FALSE, TRUE, TRUE, TRUE)
  BY <1>5, <1>6
<1> QED
  BY <1>2, <1>3, <1>7 DEF r, At, w, m

LEMMA StepClose ==
  ASSUME NEW o, NEW t, Ended(t)
  PROVE  Step("pretty", At(o, t, FALSE, FALSE), 125) = End((o \o Line(0)) \o <<125>>)
<1> DEFINE st == At(o, t, FALSE, FALSE)
           s1 == Clear(Seen(st))
           m  == <<>>
           x  == o \o Line(0)
           w  == x \o <<125>>
           s2 == Unindented(Put(s1, Line(0)))
           s3 == Put(s2, <<125>>)
<1>1. Is(s1, o, Object, m, FALSE, FALSE, FALSE, FALSE, TRUE)
  BY AtIs
<1>2. Step("pretty", st, 125) = AfterStructural(s1, 125)
  <2>1. Comma # 125
    BY DEF Comma
  <2>2. \A n, d \in BOOLEAN : ~n /\ ~d => Step("pretty", At(o, t, n, d), 125)
                       = AfterStructural(Clear(Seen(At(o, t, n, d))), 125)
    BY <2>1, StructuralStep
  <2> QED
    BY <2>2
<1> HIDE DEF s1, m
<1>3. s1.need_indent = FALSE /\ Len(s1.stack) - 1 = 0
  <2>1. s1.need_indent = FALSE /\ s1.stack = Object
    BY <1>1, Zenon DEF Is
  <2> QED
    BY <2>1, ObjectIs
<1>4. AfterStructural(s1, 125) = Shallower(s3)
  <2>1. AfterStructural(s1, 125)
          = Shallower(Put(IF s1.need_indent THEN s1 ELSE NewLine(s1, Len(s1.stack) - 1), <<125>>))
    BY AfterStructuralIs
  <2>2. NewLine(s1, 0) = s2
    BY NewLineIs
  <2> QED
    BY <1>3, <2>1, <2>2
<1>5. Is(s2, x, Object, m, FALSE, FALSE, FALSE, FALSE, TRUE)
  <2>1. Is(Put(s1, Line(0)), x, Object, m, FALSE, FALSE, FALSE, FALSE, TRUE)
    BY <1>1, PutIs
  <2> HIDE DEF x
  <2> QED
    BY <2>1, UnindentedIs
<1> HIDE DEF s2, x
<1>6. Is(s3, w, Object, m, FALSE, FALSE, FALSE, FALSE, TRUE)
  BY <1>5, PutIs
<1> HIDE DEF s3, w
<1> DEFINE r == Shallower(s3)
<1>7. Is(r, w, m, m, FALSE, FALSE, FALSE, FALSE, TRUE)
  <2>1. Is(r, w, Front(Object), m, FALSE, FALSE, FALSE, FALSE, TRUE)
    BY <1>6, ShallowerIs
  <2> QED
    BY <2>1, ObjectIs DEF m
<1> HIDE DEF r
<1>8. \A f, u : Is(r, w, m, m, f, f, f, f, u) => r = St(w, m, m, f, f, f, f, u)
  BY IsSt
<1>9. r = St(w, m, m, FALSE, FALSE, FALSE, FALSE, TRUE)
  BY <1>7, <1>8
<1> QED
  BY <1>2, <1>4, <1>9 DEF r, End, w, x, m

LEMMA StepFigure ==
  ASSUME NEW o \in Seq(Nat), NEW t, NEW b \in Digits
  PROVE  Step("pretty", At(o, t, FALSE, FALSE), b) = At(o \o <<b>>, Append(t, b), FALSE, FALSE)
<1> DEFINE st == At(o, t, FALSE, FALSE)
           s1 == Seen(st)
           w  == o \o <<b>>
           x  == Append(t, b)
           s2 == Put(Indented(s1), <<b>>)
<1>1. Is(s1, o, Object, t, FALSE, FALSE, FALSE, FALSE, TRUE) /\ st.ok /\ ~st.in_string
  BY AtIs, AtFields
<1>2. b \notin White /\ ~Structural(b)
  BY DEF Digits, White, Space, Structural, Quote, Comma, Colon, OpenBrackets, CloseBrackets
<1>3. Step("pretty", st, b) = Grown(s2, b)
  <2> HIDE DEF st
  <2> QED
    BY <1>1, <1>2, PrettyStepIs
<1> HIDE DEF s1
<1>4. Is(Indented(s1), o, Object, t, FALSE, FALSE, FALSE, FALSE, TRUE)
  <2>1. Is(Indented(s1), o \o Due(FALSE, Len(Object)), Object, t, FALSE, FALSE, FALSE, FALSE, TRUE)
    BY <1>1, IndentedIs
  <2>2. o \o Due(FALSE, Len(Object)) = o
    BY DEF Due
  <2> QED
    BY <2>1, <2>2
<1>5. Is(s2, w, Object, t, FALSE, FALSE, FALSE, FALSE, TRUE)
  BY <1>4, PutIs
<1> HIDE DEF s2, w
<1> DEFINE r == Grown(s2, b)
<1>6. Is(r, w, Object, x, FALSE, FALSE, FALSE, FALSE, TRUE)
  BY <1>5, GrownIs
<1> HIDE DEF r, x
<1>7. \A f, u : Is(r, w, Object, x, f, f, f, f, u) => r = St(w, Object, x, f, f, f, f, u)
  BY IsSt
<1>8. r = St(w, Object, x, FALSE, FALSE, FALSE, FALSE, TRUE)
  BY <1>6, <1>7
<1> QED
  BY <1>3, <1>8 DEF r, At, w, x

----------------------------------------------------------------------------
(* What pretty_json makes of an upload *)

\* Inside a string w is copied and does not end it.
Literal(w) ==
  /\ w \in Seq(Nat)
  /\ \A o \in Seq(Nat) : Runs("pretty", Str(o, FALSE), w, Str(o \o w, FALSE))

LEMMA LiteralPlain ==
  ASSUME NEW w \in Seq(Nat), \A i \in 1 .. Len(w) : w[i] \notin {Quote, Backslash}
  PROVE  Literal(w)
<1> DEFINE n == Len(w)
<1>1. /\ n \in Nat /\ w \in Seq(Nat)
      /\ \A i \in 1 .. n : w[i] \in Nat /\ w[i] # Quote /\ w[i] # Backslash
  OBVIOUS
<1>2. ASSUME NEW o \in Seq(Nat)
      PROVE  Runs("pretty", Str(o, FALSE), w, Str(o \o w, FALSE))
  <2> DEFINE tr == [k \in 0 .. n |-> Str(o \o SubSeq(w, 1, k), FALSE)]
  <2>1. ASSUME NEW k \in 1 .. n PROVE tr[k] = Step("pretty", tr[k - 1], w[k])
    <3> DEFINE s == o \o SubSeq(w, 1, k - 1)
    <3>0. k \in 1 .. Len(w)
      OBVIOUS
    <3>1. k - 1 \in 0 .. n /\ k \in 0 .. n
      BY <1>1
    <3>2. tr[k - 1] = Str(s, FALSE) /\ tr[k] = Str(o \o SubSeq(w, 1, k), FALSE)
      BY <3>1
    <3>3. s \o <<w[k]>> = o \o SubSeq(w, 1, k)
      BY <3>0, Longer, ZenonT(20)
    <3> HIDE DEF s, tr
    <3>4. \A e \in BOOLEAN : ~e => Step("pretty", Str(s, e), w[k]) = Str(s \o <<w[k]>>, w[k] = Backslash)
      BY <1>1, StepInString
    <3>5. Step("pretty", Str(s, FALSE), w[k]) = Str(s \o <<w[k]>>, FALSE)
      <4>1. (w[k] = Backslash) = FALSE
        BY <1>1
      <4>2. Step("pretty", Str(s, FALSE), w[k]) = Str(s \o <<w[k]>>, w[k] = Backslash)
        BY <3>4
      <4> QED
        BY <4>1, <4>2
    <3> QED
      BY <3>2, <3>3, <3>5
  <2>2. tr[0] = Str(o, FALSE) /\ tr[n] = Str(o \o w, FALSE)
    <3>1. SubSeq(w, 1, 0) = <<>> /\ SubSeq(w, 1, n) = w
      BY <1>1
    <3>2. o \o <<>> = o
      OBVIOUS
    <3>3. 0 \in 0 .. n /\ n \in 0 .. n
      BY <1>1
    <3> QED
      BY <3>1, <3>2, <3>3
  <2> HIDE DEF tr
  <2>3. Trace("pretty", tr, Str(o, FALSE), w, Str(o \o w, FALSE))
    BY <2>1, <2>2 DEF Trace
  <2> QED
    BY <2>3 DEF Runs
<1> QED
  BY <1>1, <1>2 DEF Literal

LEMMA LiteralPair ==
  ASSUME NEW x \in Nat
  PROVE  Literal(<<Backslash, x>>)
<1>1. Backslash \in Nat /\ Backslash # Quote
  BY DEF Backslash, Quote
<1>2. <<Backslash>> \in Seq(Nat) /\ <<x>> \in Seq(Nat) /\ <<Backslash>> \o <<x>> = <<Backslash, x>>
  BY <1>1, TwoBytes
<1>3. ASSUME NEW o \in Seq(Nat)
      PROVE  Runs("pretty", Str(o, FALSE), <<Backslash, x>>, Str(o \o <<Backslash, x>>, FALSE))
  <2> DEFINE o1 == o \o <<Backslash>>
             o2 == o1 \o <<x>>
  <2>1. o2 = o \o <<Backslash, x>>
    BY <1>2, Associates
  <2> HIDE DEF o1
  <2>2. \A e \in BOOLEAN : e => Step("pretty", Str(o1, e), x) = Str(o2, FALSE)
    <3> SUFFICES ASSUME NEW e \in BOOLEAN, e PROVE Step("pretty", Str(o1, e), x) = Str(o2, FALSE)
      OBVIOUS
    <3>1. Step("pretty", Str(o1, e), x) =
            IF e THEN Str(o1 \o <<x>>, FALSE)
            ELSE IF x = Quote THEN At(o1 \o <<x>>, <<>>, FALSE, FALSE)
            ELSE Str(o1 \o <<x>>, x = Backslash)
      BY StepInString
    <3> QED
      BY <3>1, Zenon
  <2>3. \A e \in BOOLEAN : ~e => Step("pretty", Str(o, e), Backslash) = Str(o1, Backslash = Backslash)
    BY <1>1, StepInString DEF o1
  <2> HIDE DEF o2
  <2>4. Step("pretty", Str(o, FALSE), Backslash) = Str(o1, TRUE)
    <3>1. (Backslash = Backslash) = TRUE
      OBVIOUS
    <3>2. Step("pretty", Str(o, FALSE), Backslash) = Str(o1, Backslash = Backslash)
      BY <2>3
    <3> QED
      BY <3>1, <3>2
  <2>5. Step("pretty", Str(o1, TRUE), x) = Str(o2, FALSE)
    BY <2>2
  <2> DEFINE a == Str(o, FALSE)
             b == Str(o1, TRUE)
             c == Str(o2, FALSE)
  <2>6. b = Step("pretty", a, Backslash) /\ c = Step("pretty", b, x)
    BY <2>4, <2>5
  <2> HIDE DEF a, b, c
  <2>7. Runs("pretty", a, <<Backslash>>, b)
    BY <2>6, RunOne
  <2>8. Runs("pretty", a, <<Backslash>> \o <<x>>, c)
    BY <1>2, <2>6, <2>7, RunStep
  <2> QED
    BY <1>2, <2>1, <2>8 DEF a, c
<1>4. <<Backslash, x>> \in Seq(Nat)
  BY <1>2, JoinIs
<1> QED
  BY <1>3, <1>4 DEF Literal

LEMMA LiteralJoin ==
  ASSUME NEW v, NEW w, Literal(v), Literal(w)
  PROVE  Literal(v \o w)
<1>1. v \in Seq(Nat) /\ w \in Seq(Nat) /\ v \o w \in Seq(Nat)
  BY JoinIs DEF Literal
<1>2. ASSUME NEW o \in Seq(Nat) PROVE Runs("pretty", Str(o, FALSE), v \o w, Str(o \o (v \o w), FALSE))
  <2>1. o \o v \in Seq(Nat) /\ (o \o v) \o w = o \o (v \o w)
    BY <1>1, JoinIs, Associates
  <2>2. Runs("pretty", Str(o, FALSE), v, Str(o \o v, FALSE))
    BY DEF Literal
  <2>3. Runs("pretty", Str(o \o v, FALSE), w, Str((o \o v) \o w, FALSE))
    BY <2>1 DEF Literal
  <2> DEFINE a == Str(o, FALSE)
             b == Str(o \o v, FALSE)
             c == Str((o \o v) \o w, FALSE)
  <2> HIDE DEF a, b, c
  <2>4. Runs("pretty", a, v \o w, c)
    BY <1>1, <2>2, <2>3, RunJoin DEF a, b, c
  <2> QED
    BY <2>1, <2>4 DEF a, c
<1> QED
  BY <1>1, <1>2 DEF Literal

LEMMA LiteralEscaped ==
  ASSUME NEW b \in Nat
  PROVE  Literal(Escaped(b, 0 .. 31))
<1> DEFINE Named == {Quote, Backslash, 8, 9, NL, 12, CR}
           w == Escaped(b, 0 .. 31)
<1>1. CASE b \in Named
  <2>1. b \notin (0 .. 31) \ {8, 9, NL, 12, CR}
    BY <1>1 DEF Quote, Backslash, NL, CR
  <2>2. w = <<Backslash, Letter(b)>>
    BY <1>1, <2>1, Zenon DEF Escaped
  <2>3. Letter(b) \in Nat
    BY DEF Letter
  <2> QED
    BY <2>2, <2>3, LiteralPair
<1>2. CASE b \notin Named /\ b \in 0 .. 31
  <2> DEFINE m == b \div 16
             r == b % 16
             h == HexDigit(m)
             l == HexDigit(r)
             v == <<48, 48, h, l>>
  <2>1. m \in 0 .. 15 /\ r \in 0 .. 15
    <3>1. b \in 0 .. 127
      BY <1>2
    <3> QED
      BY <3>1, HalvesAre
  <2>2. w = <<Backslash, 117, 48, 48, h, l>>
    <3>1. w = Unicode(b)
      BY <1>2 DEF Escaped
    <3> QED
      BY <3>1 DEF Unicode
  <2> HIDE DEF m, r, w
  <2>3. /\ h \in Nat /\ h < 128 /\ h # Quote /\ h # Backslash
        /\ l \in Nat /\ l < 128 /\ l # Quote /\ l # Backslash
    BY <2>1 DEF HexDigit, Quote, Backslash
  <2> HIDE DEF h, l
  <2>4. Plainly(v)
    BY <2>3 DEF Plainly, Ascii, Quote, Backslash
  <2>5. Literal(v) /\ Literal(<<Backslash, 117>>)
    BY <2>4, LiteralPlain, LiteralPair DEF Plainly, Ascii
  <2>6. <<Backslash, 117>> \o v = w
    <3>1. <<Backslash, 117>> \in Seq(Nat) /\ v \in Seq(Nat) /\ w \in Seq(Nat)
      BY <2>2, <2>3 DEF Backslash
    <3>2. Len(<<Backslash, 117>>) = 2 /\ Len(v) = 4 /\ Len(w) = 6
      BY <2>2
    <3>3. Len(<<Backslash, 117>> \o v) = 6 /\ <<Backslash, 117>> \o v \in Seq(Nat)
      BY <3>1, <3>2, ConcatProperties
    <3>4. \A i \in 1 .. 6 : (<<Backslash, 117>> \o v)[i] =
                           IF i <= 2 THEN <<Backslash, 117>>[i] ELSE v[i - 2]
      BY <3>1, <3>2, ConcatProperties
    <3>5. \A i \in 1 .. 6 : (<<Backslash, 117>> \o v)[i] = w[i]
      <4> SUFFICES ASSUME NEW i \in 1 .. 6 PROVE (<<Backslash, 117>> \o v)[i] = w[i]
        OBVIOUS
      <4>1. i = 1 \/ i = 2 \/ i = 3 \/ i = 4 \/ i = 5 \/ i = 6
        OBVIOUS
      <4> QED
        BY <2>2, <3>4, <4>1
    <3> QED
      BY <3>1, <3>2, <3>3, <3>5, SeqEqual
  <2> HIDE DEF v
  <2>7. Literal(<<Backslash, 117>> \o v)
    BY <2>5, LiteralJoin
  <2> QED
    BY <2>6, <2>7 DEF w
<1>3. CASE b \notin Named /\ b \notin 0 .. 31
  <2>1. w = <<b>>
    BY <1>3 DEF Escaped
  <2>2. <<b>> \in Seq(Nat) /\ \A i \in 1 .. Len(<<b>>) : <<b>>[i] \notin {Quote, Backslash}
    BY <1>3
  <2> QED
    BY <2>1, <2>2, LiteralPlain
<1> QED
  BY <1>1, <1>2, <1>3

LEMMA LiteralFlatten ==
  ASSUME NEW ss \in Seq(Seq(Nat)), \A k \in 1 .. Len(ss) : Literal(ss[k])
  PROVE  Literal(FlattenSeq(ss))
<1> DEFINE n == Len(ss)
<1>1. n \in Nat
  OBVIOUS
<1>2. PICK f : Joins(f, ss)
  BY FlattenJoins
<1>3. \A i \in 1 .. n : f[i] = IF i = 1 THEN ss[i] ELSE f[i - 1] \o ss[i]
  BY <1>2 DEF Joins
<1> DEFINE M == {m \in 1 .. n : ~Literal(f[m])}
<1>4. M = {}
  <2> SUFFICES ASSUME M # {} PROVE FALSE
    OBVIOUS
  <2>1. M \subseteq Nat
    BY <1>1
  <2>2. \A m : m \in M <=> m \in 1 .. n /\ ~Literal(f[m])
    OBVIOUS
  <2> HIDE DEF M
  <2>3. PICK m \in M : \A k \in M : m <= k
    BY <2>1, HasLeast
  <2>4. m \in 1 .. n /\ ~Literal(f[m])
    BY <2>2, <2>3
  <2>5. CASE m = 1
    BY <1>3, <2>4, <2>5
  <2>6. CASE m # 1
    <3>1. m - 1 \in 1 .. n /\ m - 1 < m
      BY <1>1, <2>4, <2>6
    <3>2. m - 1 \notin M
      BY <1>1, <2>3, <2>4, <3>1
    <3>3. Literal(f[m - 1])
      BY <2>2, <3>1, <3>2
    <3>4. f[m] = f[m - 1] \o ss[m] /\ Literal(ss[m])
      BY <1>3, <2>4, <2>6
    <3> QED
      BY <2>4, <3>3, <3>4, LiteralJoin
  <2> QED
    BY <2>5, <2>6
<1>5. CASE ss = <<>>
  <2>1. FlattenSeq(ss) = <<>>
    BY <1>2, <1>5 DEF Joins
  <2>2. <<>> \in Seq(Nat) /\ \A i \in 1 .. Len(<<>>) : <<>>[i] \notin {Quote, Backslash}
    OBVIOUS
  <2>3. Literal(<<>>)
    BY <2>2, LiteralPlain
  <2> QED
    BY <2>1, <2>3
<1>6. CASE ss # <<>>
  <2>1. n \in 1 .. n
    BY <1>6
  <2>2. FlattenSeq(ss) = f[n]
    BY <1>2, <1>6 DEF Joins
  <2> QED
    BY <1>4, <2>1, <2>2
<1> QED
  BY <1>5, <1>6

LEMMA LiteralAll ==
  ASSUME NEW s \in Seq(Nat)
  PROVE  Literal(EscapedAll(s, 0 .. 31))
<1> DEFINE ss == [i \in DOMAIN s |-> Escaped(s[i], 0 .. 31)]
<1>1. /\ ss \in Seq(Seq(Nat)) /\ Len(ss) = Len(s)
      /\ \A k \in 1 .. Len(ss) : ss[k] = Escaped(s[k], 0 .. 31)
      /\ EscapedAll(s, 0 .. 31) = FlattenSeq(ss)
  BY EscapesAre DEF Unprintables
<1> HIDE DEF ss
<1>2. \A k \in 1 .. Len(ss) : Literal(ss[k])
  <2> SUFFICES ASSUME NEW k \in 1 .. Len(ss) PROVE Literal(ss[k])
    OBVIOUS
  <2>1. s[k] \in Nat /\ ss[k] = Escaped(s[k], 0 .. 31)
    BY <1>1
  <2> QED
    BY <2>1, LiteralEscaped
<1> QED
  BY <1>1, <1>2, LiteralFlatten

\* A string in quotes is copied as it is, on a new line if one is due.
LEMMA PrettyString ==
  ASSUME NEW o \in Seq(Nat), NEW n \in BOOLEAN, NEW c \in BOOLEAN, NEW w, Literal(w)
  PROVE  /\ Due(n, 1) \in Seq(Nat) /\ Quoted(w) \in Seq(Nat)
         /\ Runs("pretty", At(o, <<>>, n, c), Quoted(w),
                 At((o \o Due(n, 1)) \o Quoted(w), <<>>, FALSE, FALSE))
<1> DEFINE l == Due(n, 1)
           o0 == o \o l
           o1 == o0 \o <<Quote>>
           o2 == o1 \o w
           o3 == o2 \o <<Quote>>
<1>1. Quote \in Nat /\ <<Quote>> \in Seq(Nat) /\ w \in Seq(Nat)
  BY DEF Quote, Literal
<1>2. l \in Seq(Nat)
  <2>1. Line(1) \in Seq(Nat)
    BY LineIs DEF Ascii
  <2> QED
    BY <2>1 DEF Due
<1> HIDE DEF l
<1>3. /\ o0 \in Seq(Nat) /\ o1 \in Seq(Nat) /\ o2 \in Seq(Nat)
      /\ <<Quote>> \o w \in Seq(Nat) /\ Quoted(w) \in Seq(Nat)
  <2>1. o0 \in Seq(Nat)
    BY <1>2, JoinIs
  <2>2. o1 \in Seq(Nat)
    BY <1>1, <2>1, JoinIs
  <2>3. o2 \in Seq(Nat)
    BY <1>1, <2>2, JoinIs
  <2> QED
    BY <1>1, <2>1, <2>2, <2>3, JoinIs DEF Quoted
<1>4. o3 = o0 \o Quoted(w)
  <2>1. o1 \o w = o0 \o (<<Quote>> \o w)
    <3> DEFINE v == <<Quote>>
    <3>1. o0 \in Seq(Nat) /\ v \in Seq(Nat) /\ w \in Seq(Nat)
      BY <1>1, <1>3
    <3> HIDE DEF o0, v
    <3>2. (o0 \o v) \o w = o0 \o (v \o w)
      BY <3>1, Associates, Zenon
    <3> QED
      BY <3>2 DEF v
  <2>2. (o0 \o (<<Quote>> \o w)) \o <<Quote>> = o0 \o ((<<Quote>> \o w) \o <<Quote>>)
    <3> DEFINE v == <<Quote>> \o w
    <3>1. o0 \in Seq(Nat) /\ v \in Seq(Nat) /\ <<Quote>> \in Seq(Nat)
      BY <1>1, <1>3
    <3> HIDE DEF o0, v
    <3>2. (o0 \o v) \o <<Quote>> = o0 \o (v \o <<Quote>>)
      BY <3>1, Associates
    <3> QED
      BY <3>2 DEF v
  <2>3. (<<Quote>> \o w) \o <<Quote>> = Quoted(w)
    BY DEF Quoted
  <2> QED
    BY <2>1, <2>2, <2>3
<1> DEFINE a == At(o, <<>>, n, c)
           d == At(o3, <<>>, FALSE, FALSE)
<1>5. Step("pretty", a, Quote) = Str(o1, FALSE)
  BY StepQuote DEF l
<1>6. Step("pretty", Str(o2, FALSE), Quote) = d
  <2>1. \A e \in BOOLEAN : ~e => Step("pretty", Str(o2, e), Quote) = d
    <3> SUFFICES ASSUME NEW e \in BOOLEAN, ~e PROVE Step("pretty", Str(o2, e), Quote) = d
      OBVIOUS
    <3> HIDE DEF o2
    <3>1. Step("pretty", Str(o2, e), Quote) =
            IF e THEN Str(o2 \o <<Quote>>, FALSE)
            ELSE IF Quote = Quote THEN At(o2 \o <<Quote>>, <<>>, FALSE, FALSE)
            ELSE Str(o2 \o <<Quote>>, Quote = Backslash)
      BY StepInString
    <3> QED
      BY <3>1, Zenon
  <2> QED
    BY <2>1
<1> DEFINE b == Str(o1, FALSE)
           e == Str(o2, FALSE)
<1>7. Runs("pretty", b, w, e)
  BY <1>3 DEF Literal
<1>8. b = Step("pretty", a, Quote) /\ d = Step("pretty", e, Quote)
  BY <1>5, <1>6
<1> HIDE DEF a, b, d, e, o3
<1>9. Runs("pretty", a, <<Quote>>, b)
  BY <1>8, RunOne
<1>10. Runs("pretty", a, <<Quote>> \o w, e)
  BY <1>1, <1>7, <1>9, RunJoin
<1>11. Runs("pretty", a, (<<Quote>> \o w) \o <<Quote>>, d)
  BY <1>1, <1>3, <1>8, <1>10, RunStep
<1>12. (<<Quote>> \o w) \o <<Quote>> = Quoted(w)
  BY DEF Quoted
<1> QED
  BY <1>2, <1>3, <1>4, <1>11, <1>12 DEF a, d, l, o3

\* A time is a number: nothing in it ends a mantissa or starts a fraction.
LEMMA TimeEnds == Ended(ATime) /\ ATime \in Seq(Nat) /\ ATime # <<>>
<1> DEFINE a == ATime
<1>1. a \in Seq(Nat) /\ a # <<>> /\ Len(a) = 3 /\ \A i \in 1 .. 3 : a[i] \in Digits
  BY DEF ATime, Digits
<1> HIDE DEF a
<1>2. Unsigned(a, {45}) = a
  <2>1. 1 \in 1 .. 3 /\ a[1] \in Digits
    BY <1>1
  <2>2. a[1] \notin {45}
    BY <2>1 DEF Digits
  <2> QED
    BY <2>2 DEF Unsigned
<1>3. Before(a, Exp) = a
  <2>1. ASSUME NEW i \in 1 .. Len(a) PROVE ~Exp(a[i])
    <3>1. a[i] \in Digits
      BY <1>1
    <3> QED
      BY <3>1 DEF Exp, Digits
  <2>2. {i \in 1 .. Len(a) : Exp(a[i])} = {}
    BY <2>1
  <2>3. SelectInSeq(a, Exp) = 0
    BY <2>2 DEF SelectInSeq
  <2> QED
    BY <2>3 DEF Before
<1>4. Before(a, Dot) = a
  <2>1. ASSUME NEW i \in 1 .. Len(a) PROVE ~Dot(a[i])
    <3>1. a[i] \in Digits
      BY <1>1
    <3> QED
      BY <3>1 DEF Dot, Digits
  <2>2. {i \in 1 .. Len(a) : Dot(a[i])} = {}
    BY <2>1
  <2>3. SelectInSeq(a, Dot) = 0
    BY <2>2 DEF SelectInSeq
  <2> QED
    BY <2>3 DEF Before
<1>5. Number(a)
  BY <1>1 DEF Number, ToSet
<1>6. ~Contains(a, 46)
  <2>1. ASSUME NEW i \in 1 .. Len(a) PROVE a[i] # 46
    <3>1. a[i] \in Digits
      BY <1>1
    <3> QED
      BY <3>1 DEF Digits
  <2> QED
    BY <2>1 DEF Contains
<1>7. is_json_scalar(a)
  BY <1>1, <1>2, <1>3, <1>4, <1>5, <1>6 DEF is_json_scalar
<1> QED
  BY <1>1, <1>7 DEF a, Ended

----------------------------------------------------------------------------
(* From one place in an upload's object to the next *)

\* Where a member is due for the first time and after a comma, before and after a
\* name's colon and a string, and after a time.
Spots == {"first", "next", "within", "time"}
Stand(m, o) ==
  IF m = "start" THEN PrettyStart
  ELSE IF m = "first" THEN At(o, <<>>, TRUE, FALSE)
  ELSE IF m = "next" THEN At(o, <<>>, TRUE, TRUE)
  ELSE IF m = "within" THEN At(o, <<>>, FALSE, FALSE)
  ELSE IF m = "time" THEN At(o, ATime, FALSE, FALSE)
  ELSE End(o)

\* w leads from one of them to another, and its strings go into the output: q are
\* those there before, p those there after it.
Passes(w, m, q, l, p, u) ==
  /\ w \in Seq(Nat)
  /\ \A o : Carries(o, <<>>, q, u) =>
       \E r : Runs("pretty", Stand(m, o), w, Stand(l, r)) /\ Carries(r, <<>>, p, u)

LEMMA PassBoth ==
  ASSUME NEW v, NEW w, NEW m, NEW q, NEW l, NEW p, NEW k, NEW r, NEW u,
         Passes(v, m, q, l, p, u), Passes(w, l, p, k, r, u)
  PROVE  Passes(v \o w, m, q, k, r, u)
<1>1. v \in Seq(Nat) /\ w \in Seq(Nat) /\ v \o w \in Seq(Nat)
  BY JoinIs DEF Passes
<1>2. ASSUME NEW o, Carries(o, <<>>, q, u)
      PROVE  \E z : Runs("pretty", Stand(m, o), v \o w, Stand(k, z)) /\ Carries(z, <<>>, r, u)
  <2>1. PICK y : Runs("pretty", Stand(m, o), v, Stand(l, y)) /\ Carries(y, <<>>, p, u)
    BY <1>2 DEF Passes
  <2>2. PICK z : Runs("pretty", Stand(l, y), w, Stand(k, z)) /\ Carries(z, <<>>, r, u)
    BY <2>1 DEF Passes
  <2>3. Runs("pretty", Stand(m, o), v \o w, Stand(k, z))
    BY <1>1, <2>1, <2>2, RunJoin
  <2> QED
    BY <2>2, <2>3
<1> QED
  BY <1>1, <1>2 DEF Passes

\* Something in quotes, where it may come.
LEMMA QuotedPasses ==
  ASSUME NEW m \in {"first", "next", "within"}, NEW e, Literal(e), NEW q, NEW p, NEW u \in BOOLEAN,
         Carries(Quoted(e), q, p, u)
  PROVE  Passes(Quoted(e), m, q, "within", p, u)
<1>1. Literal(e) /\ Quoted(e) \in Seq(Nat)
  BY DEF Carries
<1>2. Carries(Quoted(e), q, p, u)
  OBVIOUS
<1>3. ASSUME NEW o, Carries(o, <<>>, q, u), NEW n \in BOOLEAN, NEW c \in BOOLEAN
      PROVE  \E r : /\ Runs("pretty", At(o, <<>>, n, c), Quoted(e), Stand("within", r))
                    /\ Carries(r, <<>>, p, u)
  <2> DEFINE d == Due(n, 1)
             r == (o \o d) \o Quoted(e)
  <2>1. o \in Seq(Nat)
    BY <1>3 DEF Carries
  <2>2. /\ d \in Seq(Nat)
        /\ Runs("pretty", At(o, <<>>, n, c), Quoted(e), At(r, <<>>, FALSE, FALSE))
    BY <1>1, <2>1, PrettyString
  <2>3. Ascii(d) /\ \A i \in 1 .. Len(d) : d[i] # Quote
    <3>1. Ascii(Line(1)) /\ \A i \in 1 .. Len(Line(1)) : Line(1)[i] # Quote
      BY LineIs
    <3>2. Ascii(<<>>) /\ \A i \in 1 .. Len(<<>>) : <<>>[i] # Quote
      BY DEF Ascii
    <3> QED
      BY <3>1, <3>2 DEF Due
  <2> HIDE DEF d
  <2>4. Carries(d, q, q, u)
    BY <2>3, CarriesMark
  <2>5. Carries(o \o d, <<>>, q, u)
    BY <1>3, <2>4, CarriesBoth
  <2>6. Carries(r, <<>>, p, u)
    BY <1>2, <2>5, CarriesBoth
  <2> HIDE DEF r
  <2>7. Stand("within", r) = At(r, <<>>, FALSE, FALSE)
    BY DEF Stand
  <2> QED
    BY <2>2, <2>6, <2>7 DEF r
<1>4. ASSUME NEW o, Carries(o, <<>>, q, u)
      PROVE  \E r : /\ Runs("pretty", Stand(m, o), Quoted(e), Stand("within", r))
                    /\ Carries(r, <<>>, p, u)
  <2>1. CASE m = "first"
    <3>1. Stand(m, o) = At(o, <<>>, TRUE, FALSE)
      BY <2>1 DEF Stand
    <3> QED
      BY <1>3, <1>4, <3>1
  <2>2. CASE m = "next"
    <3>1. Stand(m, o) = At(o, <<>>, TRUE, TRUE)
      BY <2>2 DEF Stand
    <3> QED
      BY <1>3, <1>4, <3>1
  <2>3. CASE m = "within"
    <3>1. Stand(m, o) = At(o, <<>>, FALSE, FALSE)
      BY <2>3 DEF Stand
    <3> QED
      BY <1>3, <1>4, <3>1
  <2> QED
    BY <2>1, <2>2, <2>3
<1> QED
  BY <1>1, <1>4 DEF Passes

LEMMA StringPasses ==
  ASSUME NEW m \in {"first", "next", "within"}, NEW s \in Seq(Nat), NEW q, NEW u \in BOOLEAN,
         u => Runs("utf8", <<>>, s, <<>>)
  PROVE  Passes(CJsonString(s), m, q, "within", Append(q, s), u)
<1>1. CJsonString(s) = Quoted(EscapedAll(s, 0 .. 31))
  BY DEF CJsonString, EscapedAll
<1>2. Literal(EscapedAll(s, 0 .. 31))
  BY LiteralAll
<1>3. Carries(Quoted(EscapedAll(s, 0 .. 31)), q, Append(q, s), u)
  BY CarriesString DEF Unprintables
<1> QED
  BY <1>1, <1>2, <1>3, QuotedPasses

LEMMA NamePasses ==
  ASSUME NEW m \in {"first", "next", "within"}, NEW w \in Names, NEW q, NEW u \in BOOLEAN
  PROVE  Passes(Quoted(w), m, q, "within", Append(q, w), u)
<1>1. Literal(w)
  BY NamesArePlain, LiteralPlain DEF Plainly, Ascii
<1>2. Carries(Quoted(w), q, Append(q, w), u)
  BY CarriesName
<1> QED
  BY <1>1, <1>2, QuotedPasses

\* A byte for which an output without quotation marks is written.
LEMMA MarkPasses ==
  ASSUME NEW m, NEW l, NEW ch \in Nat, NEW v, Ascii(v), \A i \in 1 .. Len(v) : v[i] # Quote,
         \A o \in Seq(Nat) : Step("pretty", Stand(m, o), ch) = Stand(l, o \o v),
         NEW q, NEW u
  PROVE  Passes(<<ch>>, m, q, l, q, u)
<1>1. ASSUME NEW o, Carries(o, <<>>, q, u)
      PROVE  \E r : Runs("pretty", Stand(m, o), <<ch>>, Stand(l, r)) /\ Carries(r, <<>>, q, u)
  <2>1. o \in Seq(Nat)
    BY <1>1 DEF Carries
  <2>2. Runs("pretty", Stand(m, o), <<ch>>, Stand(l, o \o v))
    BY <2>1, RunOne
  <2>3. Carries(v, q, q, u)
    BY CarriesMark
  <2>4. Carries(o \o v, <<>>, q, u)
    BY <1>1, <2>3, CarriesBoth
  <2> QED
    BY <2>2, <2>4
<1> QED
  BY <1>1 DEF Passes

LEMMA ColonPasses ==
  ASSUME NEW q, NEW u
  PROVE  Passes(<<Colon>>, "within", q, "within", q, u)
<1> DEFINE v == <<Colon, Space>>
<1>1. Colon \in Nat /\ Ascii(v) /\ \A i \in 1 .. Len(v) : v[i] # Quote
  BY DEF Colon, Space, Ascii, Quote
<1>2. ASSUME NEW o \in Seq(Nat)
      PROVE  Step("pretty", Stand("within", o), Colon) = Stand("within", o \o v)
  <2>1. \A c \in BOOLEAN : Step("pretty", At(o, <<>>, FALSE, c), Colon) = At(o \o v, <<>>, FALSE, FALSE)
    BY StepColon
  <2>2. Step("pretty", At(o, <<>>, FALSE, FALSE), Colon) = At(o \o v, <<>>, FALSE, FALSE)
    BY <2>1
  <2> QED
    BY <2>2 DEF Stand
<1> HIDE DEF v
<1> QED
  BY <1>1, <1>2, MarkPasses

LEMMA CommaPasses ==
  ASSUME NEW m \in {"within", "time"}, NEW q, NEW u
  PROVE  Passes(<<Comma>>, m, q, "next", q, u)
<1> DEFINE v == <<Comma>>
<1>1. Comma \in Nat /\ Ascii(v) /\ \A i \in 1 .. Len(v) : v[i] # Quote
  BY DEF Comma, Ascii, Quote
<1>2. ASSUME NEW o \in Seq(Nat), NEW t, Ended(t)
      PROVE  Step("pretty", At(o, t, FALSE, FALSE), Comma) = Stand("next", o \o v)
  <2>1. \A c \in BOOLEAN : Step("pretty", At(o, t, FALSE, c), Comma) = At(o \o v, <<>>, TRUE, TRUE)
    BY <1>2, StepComma
  <2>2. Step("pretty", At(o, t, FALSE, FALSE), Comma) = At(o \o v, <<>>, TRUE, TRUE)
    BY <2>1
  <2> QED
    BY <2>2 DEF Stand
<1>3. ASSUME NEW o \in Seq(Nat)
      PROVE  Step("pretty", Stand(m, o), Comma) = Stand("next", o \o v)
  <2>1. Ended(<<>>) /\ Ended(ATime)
    BY TimeEnds DEF Ended
  <2>2. Stand("within", o) = At(o, <<>>, FALSE, FALSE) /\ Stand("time", o) = At(o, ATime, FALSE, FALSE)
    BY DEF Stand
  <2> QED
    BY <1>2, <2>1, <2>2
<1> HIDE DEF v
<1> QED
  BY <1>1, <1>3, MarkPasses

LEMMA ClosePasses ==
  ASSUME NEW m \in {"within", "time"}, NEW q, NEW u
  PROVE  Passes(<<125>>, m, q, "end", q, u)
<1> DEFINE n == Line(0)
           v == n \o <<125>>
<1>1. Ascii(n) /\ n \in Seq(Nat) /\ \A i \in 1 .. Len(n) : n[i] # Quote
  BY LineIs DEF Ascii
<1> HIDE DEF n
<1>2. Ascii(v) /\ v \in Seq(Nat) /\ \A i \in 1 .. Len(v) : v[i] # Quote
  BY <1>1 DEF Ascii, Quote
<1>3. ASSUME NEW o \in Seq(Nat), NEW t, Ended(t)
      PROVE  Step("pretty", At(o, t, FALSE, FALSE), 125) = Stand("end", o \o v)
  <2>1. Step("pretty", At(o, t, FALSE, FALSE), 125) = End((o \o n) \o <<125>>)
    BY <1>3, StepClose DEF n
  <2>2. (o \o n) \o <<125>> = o \o v
    BY <1>1
  <2>3. Stand("end", o \o v) = End(o \o v)
    BY DEF Stand
  <2> QED
    BY <2>1, <2>2, <2>3
<1>4. ASSUME NEW o \in Seq(Nat)
      PROVE  Step("pretty", Stand(m, o), 125) = Stand("end", o \o v)
  <2>1. Ended(<<>>) /\ Ended(ATime)
    BY TimeEnds DEF Ended
  <2>2. Stand("within", o) = At(o, <<>>, FALSE, FALSE) /\ Stand("time", o) = At(o, ATime, FALSE, FALSE)
    BY DEF Stand
  <2>3. CASE m = "within"
    <3>1. Step("pretty", At(o, <<>>, FALSE, FALSE), 125) = Stand("end", o \o v)
      BY <1>3, <2>1
    <3> QED
      BY <2>2, <2>3, <3>1
  <2>4. CASE m = "time"
    <3>1. Step("pretty", At(o, ATime, FALSE, FALSE), 125) = Stand("end", o \o v)
      BY <1>3, <2>1
    <3> QED
      BY <2>2, <2>4, <3>1
  <2> QED
    BY <2>3, <2>4
<1> HIDE DEF v
<1> QED
  BY <1>2, <1>4, MarkPasses

LEMMA StartPasses ==
  ASSUME NEW u
  PROVE  Passes(<<123>>, "start", <<>>, "first", <<>>, u)
<1>1. ASSUME NEW o
      PROVE  /\ Runs("pretty", Stand("start", o), <<123>>, Stand("first", <<123>>))
             /\ Carries(<<123>>, <<>>, <<>>, u)
  <2>1. Step("pretty", Stand("start", o), 123) = Stand("first", <<123>>)
    BY StepStart DEF Stand
  <2>2. Runs("pretty", Stand("start", o), <<123>>, Stand("first", <<123>>))
    BY <2>1, RunOne
  <2> QED
    BY <2>2, MarksAreAscii, CarriesMark
<1> QED
  BY <1>1 DEF Passes

LEMMA TimeIs ==
  /\ ATime = Append(Append(Append(<<>>, 49), 55), 57)
  /\ \A o \in Seq(Nat) : ((o \o <<49>>) \o <<55>>) \o <<57>> = o \o ATime
<1>1. ATime = Append(Append(Append(<<>>, 49), 55), 57)
  BY DEF ATime
<1>2. ATime = (<<49>> \o <<55>>) \o <<57>>
  BY DEF ATime
<1> DEFINE x == <<49>>
           y == <<55>>
           z == <<57>>
<1>3. x \in Seq(Nat) /\ y \in Seq(Nat) /\ z \in Seq(Nat)
  OBVIOUS
<1> HIDE DEF x, y, z
<1>4. ASSUME NEW o \in Seq(Nat) PROVE ((o \o x) \o y) \o z = o \o ((x \o y) \o z)
  <2>1. x \o y \in Seq(Nat)
    BY <1>3
  <2>2. (o \o x) \o y = o \o (x \o y)
    BY <1>3, Associates
  <2>3. (o \o (x \o y)) \o z = o \o ((x \o y) \o z)
    <3> DEFINE p == x \o y
    <3>1. p \in Seq(Nat)
      BY <2>1
    <3> HIDE DEF p
    <3>2. z \in Seq(Nat)
      BY <1>3
    <3>3. (o \o p) \o z = o \o (p \o z)
      BY <3>1, <3>2, Associates, ZenonT(30)
    <3> QED
      BY <3>3 DEF p
  <2> QED
    BY <2>2, <2>3
<1> QED
  BY <1>1, <1>2, <1>4 DEF x, y, z

LEMMA TimePasses ==
  ASSUME NEW q, NEW u
  PROVE  Passes(ATime, "within", q, "time", q, u)
<1> DEFINE S(o, t) == At(o, t, FALSE, FALSE)
<1>1. ASSUME NEW o \in Seq(Nat)
      PROVE  Runs("pretty", Stand("within", o), ATime, Stand("time", o \o ATime))
  <2> DEFINE o1 == o \o <<49>>
             o2 == o1 \o <<55>>
             o3 == o2 \o <<57>>
             t1 == Append(<<>>, 49)
             t2 == Append(t1, 55)
             t3 == Append(t2, 57)
  <2>1. o1 \in Seq(Nat) /\ o2 \in Seq(Nat)
    OBVIOUS
  <2>2. o3 = o \o ATime
    BY TimeIs
  <2>3. t3 = ATime
    BY TimeIs
  <2>4. /\ t1 \in Seq(Nat) /\ t2 \in Seq(Nat) /\ t1 = <<49>>
        /\ t1 \o <<55>> = t2 /\ t2 \o <<57>> = t3
    OBVIOUS
  <2>5. \A y \in Seq(Nat) : \A t : \A b \in Digits : Step("pretty", S(y, t), b) = S(y \o <<b>>, Append(t, b))
    BY StepFigure
  <2>6. 49 \in Digits /\ 55 \in Digits /\ 57 \in Digits
    BY DEF Digits
  <2> HIDE DEF S
  <2>7. Step("pretty", S(o, <<>>), 49) = S(o1, t1)
    BY <2>5, <2>6, Zenon
  <2>8. Step("pretty", S(o1, t1), 55) = S(o2, t2)
    <3> HIDE DEF o1, t1
    <3>1. \A t : \A b \in Digits : Step("pretty", S(o1, t), b) = S(o1 \o <<b>>, Append(t, b))
      BY <2>1, <2>5, Zenon
    <3>2. Step("pretty", S(o1, t1), 55) = S(o1 \o <<55>>, Append(t1, 55))
      BY <2>6, <3>1, Zenon
    <3> QED
      BY <3>2
  <2>9. Step("pretty", S(o2, t2), 57) = S(o3, t3)
    <3> HIDE DEF o2, t2
    <3>1. \A t : \A b \in Digits : Step("pretty", S(o2, t), b) = S(o2 \o <<b>>, Append(t, b))
      BY <2>1, <2>5, Zenon
    <3>2. Step("pretty", S(o2, t2), 57) = S(o2 \o <<57>>, Append(t2, 57))
      BY <2>6, <3>1, Zenon
    <3> QED
      BY <3>2
  <2> HIDE DEF o1, o2, o3, t1, t2, t3
  <2> DEFINE a == S(o, <<>>)
             b == S(o1, t1)
             c == S(o2, t2)
             d == S(o3, t3)
  <2>10. b = Step("pretty", a, 49) /\ c = Step("pretty", b, 55) /\ d = Step("pretty", c, 57)
    BY <2>7, <2>8, <2>9
  <2>11. Stand("within", o) = a /\ Stand("time", o \o ATime) = d
    BY <2>2, <2>3 DEF Stand, S
  <2> HIDE DEF a, b, c, d
  <2>12. Runs("pretty", a, <<49>>, b)
    BY <2>10, RunOne
  <2>13. Runs("pretty", a, t2, c)
    BY <2>4, <2>10, <2>12, RunStep
  <2>14. Runs("pretty", a, t2 \o <<57>>, d)
    BY <2>4, <2>10, <2>13, RunStep
  <2> QED
    BY <2>3, <2>4, <2>11, <2>14
<1>2. Ascii(ATime) /\ \A i \in 1 .. Len(ATime) : ATime[i] # Quote
  BY DEF ATime, Ascii, Quote
<1>3. Carries(ATime, q, q, u)
  BY <1>2, CarriesMark
<1>4. ASSUME NEW o, Carries(o, <<>>, q, u)
      PROVE  Carries(o \o ATime, <<>>, q, u)
  BY <1>3, <1>4, CarriesBoth
<1> QED
  BY <1>1, <1>4, TimeEnds DEF Passes, Carries

\* A member of an object as cJSON prints it.
Member(name, value) == (Quoted(name) \o <<Colon>>) \o value

LEMMA MemberPasses ==
  ASSUME NEW m \in {"first", "next", "within"}, NEW name \in Names, NEW value, NEW q, NEW l, NEW p,
         NEW u \in BOOLEAN, Passes(value, "within", Append(q, name), l, p, u)
  PROVE  Passes(Member(name, value), m, q, l, p, u)
<1> DEFINE a == Append(q, name)
<1>1. Passes(Quoted(name), m, q, "within", a, u)
  BY NamePasses
<1>2. Passes(<<Colon>>, "within", a, "within", a, u)
  BY ColonPasses
<1> HIDE DEF a
<1>3. Passes(Quoted(name) \o <<Colon>>, m, q, "within", a, u)
  BY <1>1, <1>2, PassBoth
<1>4. Passes(value, "within", a, l, p, u)
  BY DEF a
<1> QED
  BY <1>3, <1>4, PassBoth DEF Member

LEMMA LaterMemberPasses ==
  ASSUME NEW m \in {"within", "time"}, NEW name \in Names, NEW value, NEW q, NEW l, NEW p,
         NEW u \in BOOLEAN, Passes(value, "within", Append(q, name), l, p, u)
  PROVE  Passes(<<Comma>> \o Member(name, value), m, q, l, p, u)
<1>1. Passes(<<Comma>>, m, q, "next", q, u)
  BY CommaPasses
<1>2. Passes(Member(name, value), "next", q, l, p, u)
  BY MemberPasses
<1> QED
  BY <1>1, <1>2, PassBoth

Three(n1, v1, n2, v2, n3, v3) ==
  CJsonObject(<<[name |-> n1, value |-> v1], [name |-> n2, value |-> v2], [name |-> n3, value |-> v3]>>)

LEMMA ObjectOfThree ==
  ASSUME NEW n1, NEW v1, NEW n2, NEW v2, NEW n3, NEW v3
  PROVE  Three(n1, v1, n2, v2, n3, v3)
           = ((<<123>> \o Member(n1, v1))
               \o ((<<Comma>> \o Member(n2, v2)) \o (<<Comma>> \o Member(n3, v3)))) \o <<125>>
<1> DEFINE members == <<[name |-> n1, value |-> v1], [name |-> n2, value |-> v2],
                        [name |-> n3, value |-> v3]>>
           M(m) == Quoted(m.name) \o <<Colon>> \o m.value
           OtherTwo == [i \in 1 .. Len(members) - 1 |-> <<Comma>> \o M(members[i + 1])]
<1>1. CJsonObject(members) = <<123>> \o M(members[1]) \o FlattenSeq(OtherTwo) \o <<125>>
  BY DEF CJsonObject
<1>2. /\ M(members[1]) = Member(n1, v1)
      /\ M(members[2]) = Member(n2, v2)
      /\ M(members[3]) = Member(n3, v3)
      /\ Len(members) = 3
  BY DEF Member
<1> HIDE DEF members, M
<1>3. /\ OtherTwo = [i \in 1 .. 2 |-> <<Comma>> \o M(members[i + 1])]
  BY <1>2
<1> HIDE DEF OtherTwo
<1>4. /\ OtherTwo[1] = <<Comma>> \o Member(n2, v2)
      /\ OtherTwo[2] = <<Comma>> \o Member(n3, v3)
  BY <1>2, <1>3
<1> DEFINE S == {OtherTwo[1], OtherTwo[2]}
<1>5. OtherTwo \in Seq(S) /\ Len(OtherTwo) = 2
  BY <1>3
<1>6. PICK f : Joins(f, OtherTwo)
  BY <1>5, FlattenJoins
<1>7. f[1] = OtherTwo[1] /\ f[2] = f[1] \o OtherTwo[2] /\ FlattenSeq(OtherTwo) = f[2]
  <2>1. DOMAIN OtherTwo = 1 .. 2 /\ OtherTwo # <<>> /\ Len(OtherTwo) = 2
    BY <1>5
  <2>2. \A i \in 1 .. 2 : f[i] = IF i = 1 THEN OtherTwo[i] ELSE f[i - 1] \o OtherTwo[i]
    BY <1>6, <2>1 DEF Joins
  <2>3. FlattenSeq(OtherTwo) = f[2]
    BY <1>6, <2>1 DEF Joins
  <2>4. f[1] = OtherTwo[1]
    BY <2>2
  <2>5. f[2] = f[1] \o OtherTwo[2]
    <3>1. 2 \in 1 .. 2 /\ 2 # 1 /\ 2 - 1 = 1
      OBVIOUS
    <3>2. f[2] = IF 2 = 1 THEN OtherTwo[2] ELSE f[2 - 1] \o OtherTwo[2]
      BY <2>2, <3>1
    <3> QED
      BY <3>1, <3>2
  <2> QED
    BY <2>3, <2>4, <2>5
<1>8. FlattenSeq(OtherTwo) = (<<Comma>> \o Member(n2, v2)) \o (<<Comma>> \o Member(n3, v3))
  BY <1>4, <1>7
<1> QED
  BY <1>1, <1>2, <1>8 DEF members, Three

\* Three members, the last with a time, in an object.
LEMMA ObjectPasses ==
  ASSUME NEW n1 \in Names, NEW v1, NEW q1, NEW n2 \in Names, NEW v2, NEW q2, NEW m \in {"within", "time"},
         NEW u \in BOOLEAN,
         Passes(v1, "within", Append(<<>>, n1), "within", q1, u),
         Passes(v2, "within", Append(q1, n2), m, q2, u)
  PROVE  Passes(Three(n1, v1, n2, v2, TsName, ATime), "start", <<>>, "end", Append(q2, TsName), u)
<1> DEFINE q3 == Append(q2, TsName)
           a == Member(n1, v1)
           b == <<Comma>> \o Member(n2, v2)
           c == <<Comma>> \o Member(TsName, ATime)
<1>1. Passes(<<123>>, "start", <<>>, "first", <<>>, u)
  BY StartPasses
<1>2. Passes(a, "first", <<>>, "within", q1, u)
  BY MemberPasses
<1>3. Passes(b, "within", q1, m, q2, u)
  BY LaterMemberPasses
<1>4. Passes(c, m, q2, "time", q3, u)
  <2>1. Passes(ATime, "within", q3, "time", q3, u)
    BY TimePasses
  <2> QED
    BY <2>1, LaterMemberPasses DEF Names
<1>5. Passes(<<125>>, "time", q3, "end", q3, u)
  BY ClosePasses
<1> HIDE DEF a, b, c, q3
<1>6. Passes(<<123>> \o a, "start", <<>>, "within", q1, u)
  BY <1>1, <1>2, PassBoth
<1>7. Passes(b \o c, "within", q1, "time", q3, u)
  BY <1>3, <1>4, PassBoth
<1>8. Passes((<<123>> \o a) \o (b \o c), "start", <<>>, "time", q3, u)
  BY <1>6, <1>7, PassBoth
<1>9. Passes(((<<123>> \o a) \o (b \o c)) \o <<125>>, "start", <<>>, "end", q3, u)
  BY <1>5, <1>8, PassBoth
<1>10. Three(n1, v1, n2, v2, TsName, ATime) = ((<<123>> \o a) \o (b \o c)) \o <<125>>
  BY ObjectOfThree DEF a, b, c
<1> QED
  BY <1>9, <1>10 DEF q3

\* What the strings in the JSON of an item are.
StringsOf(it) ==
  IF it.type = "call" THEN <<CallerName, it.sender, CallTsName, TsName>>
  ELSE <<SenderName, it.sender, ContentName, it.text, TsName>>

\* pretty_json takes the JSON of an item, changes no string in it and, if they are UTF-8,
\* returns UTF-8.
LEMMA UploadPasses ==
  ASSUME NEW it, it.sender \in Seq(Nat), it.text \in Seq(Nat), NEW u \in BOOLEAN,
         u => Runs("utf8", <<>>, it.sender, <<>>) /\ Runs("utf8", <<>>, it.text, <<>>)
  PROVE  Passes(UploadBody(it), "start", <<>>, "end", StringsOf(it), u)
<1> DEFINE s == it.sender
           t == it.text
           e == <<>>
           q1 == Append(e, SenderName)
           q2 == Append(q1, s)
           q3 == Append(q2, ContentName)
           q4 == Append(q3, t)
           q5 == Append(q4, TsName)
           p1 == Append(e, CallerName)
           p2 == Append(p1, s)
           p3 == Append(p2, CallTsName)
           p4 == Append(p3, TsName)
<1>1. /\ SenderName \in Seq(Nat) /\ CallerName \in Seq(Nat) /\ ContentName \in Seq(Nat)
      /\ CallTsName \in Seq(Nat) /\ TsName \in Seq(Nat)
  BY DEF SenderName, CallerName, ContentName, CallTsName, TsName
<1>2. /\ SenderName \in Names /\ CallerName \in Names /\ ContentName \in Names
      /\ CallTsName \in Names /\ TsName \in Names
  BY DEF Names
<1>3. s \in Seq(Nat) /\ t \in Seq(Nat)
      /\ (u => Runs("utf8", <<>>, s, <<>>)) /\ (u => Runs("utf8", <<>>, t, <<>>))
  OBVIOUS
<1> HIDE DEF s, t, e
<1>4. CASE it.type = "call"
  <2>1. Passes(CJsonString(s), "within", p1, "within", p2, u)
    <3> HIDE DEF p1
    <3> QED
      BY <1>3, StringPasses
  <2>2. Passes(ATime, "within", p3, "time", p3, u)
    BY TimePasses
  <2>3. Passes(UploadBody(it), "start", <<>>, "end", p4, u)
    <3>1. UploadBody(it) = Three(CallerName, CJsonString(s), CallTsName, ATime, TsName, ATime)
      BY <1>4 DEF UploadBody, Three, s
    <3>2. Passes(CJsonString(s), "within", Append(<<>>, CallerName), "within", p2, u)
      BY <2>1 DEF e
    <3> HIDE DEF p2
    <3>3. Passes(ATime, "within", Append(p2, CallTsName), "time", p3, u)
      BY <2>2
    <3> HIDE DEF p3
    <3> QED
      BY <1>2, <3>1, <3>2, <3>3, ObjectPasses
  <2>4. p4 = StringsOf(it)
    <3> DEFINE l == <<CallerName, s, CallTsName, TsName>>
    <3>1. /\ l \in Seq(Seq(Nat)) /\ Len(l) = 3 + 1 /\ l[0 + 1] = CallerName /\ l[1 + 1] = s
          /\ l[2 + 1] = CallTsName /\ l[3 + 1] = TsName
      BY <1>1, <1>3
    <3> HIDE DEF l
    <3>2. Begins(e, 0, l)
      BY DEF Begins, e
    <3>3. Begins(p1, 1, l)
      <4>1. Begins(p1, 0 + 1, l)
        BY <1>1, <3>1, <3>2, BeginsMore
      <4> QED
        BY <4>1
    <3> HIDE DEF p1
    <3>4. Begins(p2, 2, l)
      <4>1. Begins(p2, 1 + 1, l)
        BY <1>3, <3>1, <3>3, BeginsMore
      <4> QED
        BY <4>1
    <3> HIDE DEF p2
    <3>5. Begins(p3, 3, l)
      <4>1. Begins(p3, 2 + 1, l)
        BY <1>1, <3>1, <3>4, BeginsMore
      <4> QED
        BY <4>1
    <3> HIDE DEF p3
    <3>6. Begins(p4, 3 + 1, l)
      BY <1>1, <3>1, <3>5, BeginsMore
    <3>7. p4 = l
      <4> HIDE DEF p4
      <4> QED
        BY <3>1, <3>6, BeginsAll
    <3> QED
      BY <1>4, <3>7 DEF StringsOf, l, s
  <2> QED
    BY <2>3, <2>4
<1>5. CASE it.type # "call"
  <2>1. Passes(CJsonString(s), "within", q1, "within", q2, u)
    <3> HIDE DEF q1
    <3> QED
      BY <1>3, StringPasses
  <2>2. Passes(CJsonString(t), "within", q3, "within", q4, u)
    <3> HIDE DEF q3
    <3> QED
      BY <1>3, StringPasses
  <2>3. Passes(UploadBody(it), "start", <<>>, "end", q5, u)
    <3>1. UploadBody(it)
            = Three(SenderName, CJsonString(s), ContentName, CJsonString(t), TsName, ATime)
      BY <1>5 DEF UploadBody, Three, s, t
    <3>2. Passes(CJsonString(s), "within", Append(<<>>, SenderName), "within", q2, u)
      BY <2>1 DEF e
    <3> HIDE DEF q2
    <3>3. Passes(CJsonString(t), "within", Append(q2, ContentName), "within", q4, u)
      BY <2>2
    <3> HIDE DEF q4
    <3> QED
      BY <1>2, <3>1, <3>2, <3>3, ObjectPasses
  <2>4. q5 = StringsOf(it)
    <3> DEFINE l == <<SenderName, s, ContentName, t, TsName>>
    <3>1. /\ l \in Seq(Seq(Nat)) /\ Len(l) = 4 + 1 /\ l[0 + 1] = SenderName /\ l[1 + 1] = s
          /\ l[2 + 1] = ContentName /\ l[3 + 1] = t /\ l[4 + 1] = TsName
      BY <1>1, <1>3
    <3> HIDE DEF l
    <3>2. Begins(e, 0, l)
      BY DEF Begins, e
    <3>3. Begins(q1, 1, l)
      <4>1. Begins(q1, 0 + 1, l)
        BY <1>1, <3>1, <3>2, BeginsMore
      <4> QED
        BY <4>1
    <3> HIDE DEF q1
    <3>4. Begins(q2, 2, l)
      <4>1. Begins(q2, 1 + 1, l)
        BY <1>3, <3>1, <3>3, BeginsMore
      <4> QED
        BY <4>1
    <3> HIDE DEF q2
    <3>5. Begins(q3, 3, l)
      <4>1. Begins(q3, 2 + 1, l)
        BY <1>1, <3>1, <3>4, BeginsMore
      <4> QED
        BY <4>1
    <3> HIDE DEF q3
    <3>6. Begins(q4, 4, l)
      <4>1. Begins(q4, 3 + 1, l)
        BY <1>3, <3>1, <3>5, BeginsMore
      <4> QED
        BY <4>1
    <3> HIDE DEF q4
    <3>7. Begins(q5, 4 + 1, l)
      BY <1>1, <3>1, <3>6, BeginsMore
    <3>8. q5 = l
      <4> HIDE DEF q5
      <4> QED
        BY <3>1, <3>7, BeginsAll
    <3> QED
      BY <1>5, <3>8 DEF StringsOf, l, s, t
  <2> QED
    BY <2>3, <2>4
<1> QED
  BY <1>4, <1>5

\* What the server makes of an upload.
LEMMA UploadPretty ==
  ASSUME NEW it, it.sender \in Seq(Nat), it.text \in Seq(Nat)
  PROVE  LET made == PrettyRun(UploadBody(it))
         IN  /\ IsPretty(made) /\ made.out \in Seq(Nat)
             /\ Std!Strings(made.out) = StringsOf(it)
             /\ Std!IsUtf8(it.sender) /\ Std!IsUtf8(it.text) => Std!IsUtf8(made.out)
<1>1. ASSUME NEW u \in BOOLEAN,
             u => Runs("utf8", <<>>, it.sender, <<>>) /\ Runs("utf8", <<>>, it.text, <<>>)
      PROVE  LET made == PrettyRun(UploadBody(it))
             IN  /\ IsPretty(made) /\ made.out \in Seq(Nat)
                 /\ Std!Strings(made.out) = StringsOf(it)
                 /\ u => Std!IsUtf8(made.out)
  <2>1. Passes(UploadBody(it), "start", <<>>, "end", StringsOf(it), u)
    BY <1>1, UploadPasses
  <2>2. Carries(<<>>, <<>>, <<>>, u)
    <3>1. Ascii(<<>>) /\ \A i \in 1 .. Len(<<>>) : <<>>[i] # Quote
      BY DEF Ascii
    <3> QED
      BY <3>1, CarriesMark
  <2>3. PICK r : /\ Runs("pretty", Stand("start", <<>>), UploadBody(it), Stand("end", r))
                 /\ Carries(r, <<>>, StringsOf(it), u)
    BY <2>1, <2>2 DEF Passes
  <2>4. UploadBody(it) \in Seq(Nat) /\ Stand("start", <<>>) = PrettyStart /\ Stand("end", r) = End(r)
    BY <2>1 DEF Passes, Stand
  <2>5. PrettyRun(UploadBody(it)) = End(r)
    BY <2>3, <2>4, PrettyEnds
  <2>6. IsPretty(End(r)) /\ End(r).out = r
    BY DEF IsPretty, Flushed, End, St
  <2>7. /\ r \in Seq(Nat) /\ Runs("json", Out(<<>>), r, Out(StringsOf(it)))
        /\ u => Runs("utf8", <<>>, r, <<>>)
    BY <2>3 DEF Carries
  <2>8. Std!Strings(r) = Out(StringsOf(it)).strings
    BY <2>7, StringsRead
  <2>9. Std!Strings(r) = StringsOf(it)
    BY <2>8 DEF Out, Std!Outside, Std!Reader
  <2>10. u => Std!IsUtf8(r)
    BY <2>7, Utf8Runs
  <2> QED
    BY <2>5, <2>6, <2>7, <2>9, <2>10
<1> DEFINE v == Runs("utf8", <<>>, it.sender, <<>>) /\ Runs("utf8", <<>>, it.text, <<>>)
<1>2. v <=> Std!IsUtf8(it.sender) /\ Std!IsUtf8(it.text)
  BY Utf8Runs
<1>3. CASE v
  BY <1>1, <1>2, <1>3
<1>4. CASE ~v
  BY <1>1, <1>2, <1>4
<1> QED
  BY <1>3, <1>4

----------------------------------------------------------------------------
(* What is pushed *)

\* What is posted is the item's JSON, what is pushed is made of it, and nothing is
\* refused.
PushInv ==
  /\ PathInv
  /\ stage = "posted" => body = UploadBody(item)
  /\ stage = "pushed" => pushed = PushBody(PrettyRun(UploadBody(item)).out)
  /\ stage # "notjson"

\* An item that is under way has a sender and a text.
LEMMA ItemUnderWay ==
  ASSUME PathInv, stage # "none"
  PROVE  item.sender \in Seq(Nat) /\ item.text \in Seq(Nat)
BY DEF PathInv, PTypeOK, Items

LEMMA HandlingQueues ==
  ASSUME NEW d, Handled(d), stage = "none"
  PROVE  stage' \in {"none", "queued"}
BY DEF Handled, Queued

LEMMA PushStep == PushInv /\ [PNext]_pvars => PushInv'
<1> SUFFICES ASSUME PushInv, [PNext]_pvars PROVE PushInv'
  OBVIOUS
<1>1. PathInv'
  BY PathStep DEF PushInv
<1>2. ASSUME stage' \in {"none", "queued", "toolong"} PROVE PushInv'
  BY <1>1, <1>2 DEF PushInv
<1>3. ASSUME NEW k \in left, NEW n \in 0 .. Len(msg[k].urc), HandleCmt(k, n) PROVE PushInv'
  <2> DEFINE d == Decoded(SubSeq(msg[k].urc, 1, n))
  <2>1. stage = "none" /\ IF d # NoItem THEN Handled(d) ELSE UNCHANGED <<cache, item, expired, stage>>
    BY <1>3 DEF HandleCmt
  <2> HIDE DEF d
  <2>2. stage' \in {"none", "queued"}
    BY <2>1, HandlingQueues
  <2> QED
    BY <1>2, <2>2
<1>4. CASE ConcatExpire
  BY <1>2, <1>4 DEF ConcatExpire, Queued
<1>5. ASSUME NEW c \in Calls, CallPushed(c) PROVE PushInv'
  BY <1>2, <1>5 DEF CallPushed, Queued
<1>6. CASE NetUploadPost
  <2>1. /\ item' = item
        /\ \/ body' = UploadBody(item) /\ stage' = "posted"
           \/ stage' = "toolong"
    BY <1>6 DEF NetUploadPost
  <2>2. CASE stage' = "toolong"
    BY <1>2, <2>2
  <2>3. CASE body' = UploadBody(item) /\ stage' = "posted"
    BY <1>1, <2>1, <2>3 DEF PushInv
  <2> QED
    BY <2>1, <2>2, <2>3
<1>7. CASE LogRequest
  <2>1. /\ stage = "posted" /\ item' = item
        /\ IF IsPretty(PrettyRun(body)) THEN pushed' = PushBody(PrettyRun(body).out) /\ stage' = "pushed"
           ELSE stage' = "notjson"
    BY <1>7 DEF LogRequest
  <2>2. body = UploadBody(item) /\ IsPretty(PrettyRun(UploadBody(item)))
    BY <2>1, ItemUnderWay, UploadPretty DEF PushInv
  <2> QED
    BY <1>1, <2>1, <2>2 DEF PushInv
<1>8. CASE PopHead
  BY <1>2, <1>8 DEF PopHead
<1>9. CASE UNCHANGED pvars
  BY <1>1, <1>9 DEF PushInv, pvars
<1> QED
  BY <1>3, <1>4, <1>5, <1>6, <1>7, <1>8, <1>9 DEF PNext

\* What wxpusher is sent is JSON whose content is again JSON, with the item's sender and
\* text in it unchanged, whatever bytes they are made of and whatever the sizes are; and
\* the server refuses nothing the device posts.
THEOREM PushedItemsArrive == PSpec => []PushCarriesItem
<1>1. PInit => PushInv
  BY PathInit DEF PInit, PushInv
<1>2. PushInv => PushCarriesItem
  <2> SUFFICES ASSUME PushInv PROVE PushCarriesItem
    OBVIOUS
  <2>1. CASE stage = "pushed"
    <3> DEFINE o == PrettyRun(UploadBody(item)).out
    <3>1. o \in Seq(Nat) /\ Std!Strings(o) = StringsOf(item)
      BY <2>1, ItemUnderWay, UploadPretty DEF PushInv
    <3>2. pushed = PushBody(o)
      BY <2>1 DEF PushInv
    <3> HIDE DEF o
    <3>3. Std!Strings(pushed) = <<ContentName, o>>
      BY <3>1, <3>2, PushReads
    <3>4. Content = o
      BY <3>3 DEF Content
    <3> QED
      BY <3>1, <3>4, <2>1 DEF PushCarriesItem, StringsOf
  <2>2. CASE stage # "pushed"
    BY <2>2 DEF PushInv, PushCarriesItem
  <2> QED
    BY <2>1, <2>2
<1> QED
  BY <1>1, <1>2, PushStep, PTL DEF PSpec

----------------------------------------------------------------------------
(* What is pushed is UTF-8 *)

\* Those of the characters of a mark that have three octets.
ThreeOctets(b, c, d) == b \in {229, 230, 231} /\ c \in 128 .. 191 /\ d \in 128 .. 191

LEMMA ThreeBytes ==
  ASSUME NEW a \in Nat, NEW b \in Nat, NEW c \in Nat
  PROVE  /\ <<a, b, c>> \in Seq(Nat) /\ <<a, b>> \in Seq(Nat)
         /\ <<a, b>> \o <<c>> = <<a, b, c>>
<1>1. <<a, b, c>> = Append(<<a, b>>, c)
  OBVIOUS
<1>2. <<a, b>> \in Seq(Nat)
  OBVIOUS
<1>3. \A s \in Seq(Nat) : Append(s, c) = s \o <<c>>
  OBVIOUS
<1>4. <<a, b>> \o <<c>> = <<a, b, c>>
  BY <1>1, <1>2, <1>3, Zenon
<1>5. <<a, b, c>> \in Seq(Nat)
  OBVIOUS
<1> QED
  BY <1>2, <1>4, <1>5

LEMMA WideIsUtf8 ==
  ASSUME NEW b, NEW c, NEW d, ThreeOctets(b, c, d)
  PROVE  <<b, c, d>> \in Seq(Nat) /\ Runs("utf8", <<>>, <<b, c, d>>, <<>>)
<1> DEFINE f == Std!Further
           w0 == <<>>
           w1 == <<f, f>>
           w2 == <<f>>
<1>1. b \in Nat /\ c \in f /\ d \in f /\ c \in Nat /\ d \in Nat
  BY DEF ThreeOctets, Std!Further
<1>2. Step("utf8", w0, b) = w1
  <2>1. Std!Following(b) = w1
    BY DEF Std!Following, ThreeOctets
  <2> QED
    BY <2>1 DEF Step, Std!Wanted
<1> HIDE DEF f
<1>3. Step("utf8", w1, c) = w2
  BY <1>1 DEF Step, Std!Wanted
<1>4. Step("utf8", w2, d) = w0
  BY <1>1 DEF Step, Std!Wanted
<1>5. <<b>> \in Seq(Nat) /\ <<b, c>> \in Seq(Nat) /\ <<b, c, d>> \in Seq(Nat)
      /\ <<b>> \o <<c>> = <<b, c>> /\ <<b, c>> \o <<d>> = <<b, c, d>>
  BY <1>1, TwoBytes, ThreeBytes
<1> HIDE DEF w0, w1, w2
<1>6. Runs("utf8", w0, <<b>>, w1)
  BY <1>2, RunOne
<1>7. Runs("utf8", w0, <<b, c>>, w2)
  BY <1>1, <1>3, <1>5, <1>6, RunStep
<1>8. Runs("utf8", w0, <<b, c, d>>, w0)
  BY <1>1, <1>4, <1>5, <1>7, RunStep
<1> QED
  BY <1>5, <1>8 DEF w0

LEMMA BothUtf8 ==
  ASSUME NEW v \in Seq(Nat), NEW w \in Seq(Nat),
         Runs("utf8", <<>>, v, <<>>), Runs("utf8", <<>>, w, <<>>)
  PROVE  v \o w \in Seq(Nat) /\ Runs("utf8", <<>>, v \o w, <<>>)
<1>1. v \o w \in Seq(Nat)
  BY JoinIs
<1> QED
  BY <1>1, RunJoin

LEMMA MarkIsUtf8 ==
  ASSUME NEW k \in 1 .. 99
  PROVE  Mark(k) \in Seq(Nat) /\ Runs("utf8", <<>>, Mark(k), <<>>)
<1> DEFINE n == Decimal(k)
           c1 == <<231, 188, 186>>
           c2 == <<229, 164, 177>>
           c3 == <<229, 136, 134>>
           c4 == <<230, 174, 181>>
           a == <<91>>
           z == <<93>>
<1>1. Ascii(n)
  <2> DEFINE h == 48 + (k \div 10)
             l == 48 + (k % 10)
  <2>1. h \in Nat /\ h < 128 /\ l \in Nat /\ l < 128
    OBVIOUS
  <2> HIDE DEF h, l
  <2>2. Ascii(<<l>>) /\ Ascii(<<h>> \o <<l>>) /\ Ascii(<<>> \o <<l>>)
    BY <2>1 DEF Ascii
  <2>3. n = (IF k < 10 THEN <<>> ELSE <<h>>) \o <<l>>
    BY DEF Decimal, h, l
  <2> QED
    BY <2>2, <2>3
<1>2. n \in Seq(Nat) /\ Runs("utf8", <<>>, n, <<>>)
  BY <1>1, AsciiIsUtf8 DEF Ascii
<1>3. /\ a \in Seq(Nat) /\ Runs("utf8", <<>>, a, <<>>)
      /\ z \in Seq(Nat) /\ Runs("utf8", <<>>, z, <<>>)
  <2>1. Ascii(a) /\ Ascii(z)
    BY DEF Ascii
  <2> QED
    BY <2>1, AsciiIsUtf8 DEF Ascii
<1>4. ThreeOctets(231, 188, 186) /\ ThreeOctets(229, 164, 177) /\ ThreeOctets(229, 136, 134) /\ ThreeOctets(230, 174, 181)
  BY DEF ThreeOctets
<1>5. /\ c1 \in Seq(Nat) /\ Runs("utf8", <<>>, c1, <<>>)
      /\ c2 \in Seq(Nat) /\ Runs("utf8", <<>>, c2, <<>>)
      /\ c3 \in Seq(Nat) /\ Runs("utf8", <<>>, c3, <<>>)
      /\ c4 \in Seq(Nat) /\ Runs("utf8", <<>>, c4, <<>>)
  BY <1>4, WideIsUtf8
<1>6. Mark(k) = (((((a \o c1) \o c2) \o c3) \o c4) \o n) \o z
  BY DEF Mark
<1> HIDE DEF a, c1, c2, c3, c4, n, z
<1>7. LET b == ((a \o c1) \o c2) \o c3
      IN  b \in Seq(Nat) /\ Runs("utf8", <<>>, b, <<>>)
  BY <1>3, <1>5, BothUtf8
<1>8. LET b == (((((a \o c1) \o c2) \o c3) \o c4) \o n) \o z
      IN  b \in Seq(Nat) /\ Runs("utf8", <<>>, b, <<>>)
  BY <1>2, <1>3, <1>5, <1>7, BothUtf8
<1> QED
  BY <1>6, <1>8

\* UTF-8, or as long as the item's array lets it be.
Sound(t) == Std!IsUtf8(t) \/ Len(t) = SMS_TEXT_MAX - 1

\* Cut to the array of an item a text is sound.
LEMMA CutIsSound ==
  ASSUME NEW t \in Seq(Nat), Std!IsUtf8(t) \/ Len(t) >= SMS_TEXT_MAX - 1
  PROVE  Sound(Fits(t, SMS_TEXT_MAX))
<1>1. Len(t) \in Nat /\ SMS_TEXT_MAX \in Nat \ {0}
  BY Sizes
<1>2. CASE Len(t) < SMS_TEXT_MAX
  <2>1. Fits(t, SMS_TEXT_MAX) = t
    BY <1>1, <1>2, FitsIs
  <2>2. Len(t) >= SMS_TEXT_MAX - 1 => Len(t) = SMS_TEXT_MAX - 1
    BY <1>1, <1>2
  <2> QED
    BY <2>1, <2>2 DEF Sound
<1>3. CASE Len(t) >= SMS_TEXT_MAX
  <2>1. Fits(t, SMS_TEXT_MAX) = SubSeq(t, 1, SMS_TEXT_MAX - 1)
    BY <1>1, <1>3 DEF Fits
  <2>2. Len(SubSeq(t, 1, SMS_TEXT_MAX - 1)) = SMS_TEXT_MAX - 1
    BY <1>1, <1>3
  <2> QED
    BY <2>1, <2>2 DEF Sound
<1> QED
  BY <1>1, <1>2, <1>3

\* A message in known codings, whose texts are UTF-8 and fit in the arrays of the parts.
Spotless(m) ==
  /\ InKnown(m)
  /\ \A k \in DOMAIN m : Std!IsUtf8(Said(m[k])) /\ Len(Said(m[k])) < SMS_PART_TEXT_MAX

\* What the cache keeps of its parts.
LEMMA KeptIsSound ==
  ASSUME NEW m \in Messages, Spotless(m), NEW k \in DOMAIN m
  PROVE  KeptText(m, k) \in Seq(Nat) /\ Sound(KeptText(m, k))
<1> DEFINE t == Said(m[k])
           s == Fits(t, SMS_TEXT_MAX)
<1>1. t \in Seq(Nat) /\ Len(t) \in Nat /\ Len(t) < SMS_PART_TEXT_MAX /\ Std!IsUtf8(t)
  BY MessageParts, LengthIs DEF Spotless
<1> HIDE DEF t
<1>2. s \in Seq(Nat) /\ Len(s) \in Nat /\ Sound(s)
  BY <1>1, Sizes, FitsIs, LengthIs, CutIsSound
<1>3. Len(s) < SMS_PART_TEXT_MAX
  <2>1. CASE Len(t) < SMS_TEXT_MAX
    BY <1>1, <2>1, Sizes, FitsIs
  <2>2. CASE ~(Len(t) < SMS_TEXT_MAX)
    <3>1. Len(s) < SMS_TEXT_MAX
      BY <1>1, Sizes, FitsIs
    <3> HIDE DEF s
    <3> QED
      BY <1>1, <1>2, <2>2, <3>1, Sizes
  <2> QED
    BY <2>1, <2>2
<1> HIDE DEF s
<1>4. Fits(s, SMS_PART_TEXT_MAX) = s
  BY <1>2, <1>3, Sizes, FitsIs
<1>5. KeptText(m, k) = Fits(s, SMS_PART_TEXT_MAX)
  BY DEF KeptText, PartText, s, t
<1> QED
  BY <1>2, <1>4, <1>5

\* Put together with the marks of those that are missing.
LEMMA AssembledIsSound ==
  ASSUME NEW m \in Messages \cup {<<>>}, Spotless(m), NEW g \in Group, Gathers(m, g)
  PROVE  Sound(AssembledText(g))
<1> DEFINE ss == Pieces(g)
           w == FlattenSeq(ss)
<1>1. /\ ss = [k \in 1 .. g.total |-> IF g.parts[k] = NoItem THEN Mark(k) ELSE g.parts[k].text]
      /\ ss \in Seq(Seq(Nat))
      /\ AssembledText(g) = Fits(w, SMS_TEXT_MAX)
  BY PiecesAre
<1>2. g.total \in Nat /\ g.total <= SMS_CONCAT_MAX_PARTS
  BY Sizes DEF Group, Shape
<1>3. Len(ss) = g.total /\ DOMAIN ss = 1 .. g.total
  BY <1>1, <1>2
<1>4. ASSUME NEW k \in 1 .. g.total PROVE ss[k] \in Seq(Nat) /\ Sound(ss[k])
  <2>1. k \in 1 .. 99 /\ k \in Cache!Places
    BY <1>2, Sizes, MarkAssumption DEF Cache!Places
  <2>2. CASE g.parts[k] = NoItem
    <3>1. ss[k] = Mark(k)
      BY <1>1, <2>2
    <3> QED
      BY <2>1, <3>1, MarkIsUtf8, Utf8Runs DEF Sound
  <2>3. CASE g.parts[k] # NoItem
    <3>1. ss[k] = g.parts[k].text
      BY <1>1, <2>3
    <3>2. k \in DOMAIN m /\ g.parts[k].text = KeptText(m, k)
      BY <2>1, <2>3 DEF Gathers, Taken
    <3>3. m \in Messages
      BY <3>2
    <3> QED
      BY <3>1, <3>2, <3>3, KeptIsSound
  <2> QED
    BY <2>2, <2>3
<1> HIDE DEF ss
<1>5. w \in Seq(Nat) /\ \A k \in 1 .. g.total : Len(ss[k]) <= Len(w)
  BY <1>1, <1>3, FlattenIsString
<1>6. CASE \A k \in 1 .. g.total : Std!IsUtf8(ss[k])
  <2> DEFINE e == <<>>
             st == [k \in 0 .. Len(ss) |-> e]
  <2>1. Len(ss) \in Nat /\ st[0] = e /\ st[Len(ss)] = e
    BY <1>2, <1>3
  <2>2. ASSUME NEW k \in 1 .. Len(ss) PROVE Runs("utf8", st[k - 1], ss[k], st[k])
    <3>1. Runs("utf8", <<>>, ss[k], <<>>)
      BY <1>3, <1>4, <1>6, Utf8Runs
    <3>2. st[k - 1] = <<>> /\ st[k] = <<>>
      BY <2>1
    <3> QED
      BY <3>1, <3>2
  <2> HIDE DEF st
  <2>3. Runs("utf8", st[0], w, st[Len(ss)])
    BY <1>1, <2>2, RunFlatten
  <2>4. Runs("utf8", <<>>, w, <<>>)
    BY <2>1, <2>3
  <2>5. Std!IsUtf8(w)
    BY <1>5, <2>4, Utf8Runs
  <2> QED
    BY <1>1, <1>5, <2>5, CutIsSound
<1>7. CASE ~\A k \in 1 .. g.total : Std!IsUtf8(ss[k])
  <2>1. PICK k \in 1 .. g.total : ~Std!IsUtf8(ss[k])
    BY <1>7
  <2>2. Len(ss[k]) = SMS_TEXT_MAX - 1
    BY <1>4, <2>1 DEF Sound
  <2>3. Len(w) >= SMS_TEXT_MAX - 1
    <3>1. Len(w) \in Nat /\ Len(ss[k]) <= Len(w)
      BY <1>5, LengthIs
    <3> QED
      BY <2>2, <3>1, Sizes
  <2> QED
    BY <1>1, <1>5, <2>3, CutIsSound
<1> QED
  BY <1>6, <1>7

\* The number in a call's notification is in ASCII.
LEMMA ClipIs ==
  ASSUME CallsAscii, NEW c \in Calls
  PROVE  call_parse_clip(c.urc) \in FitSenders
<1> DEFINE u == c.urc
           S == 0 .. 127
           r == Rest(u, Quote)
           a == Ahead(r, Quote)
           s == Fits(a, SMS_SENDER_MAX)
<1>1. u \in Seq(Nat) /\ Len(u) \in Nat /\ \A i \in 1 .. Len(u) : u[i] < 128
  BY PathAssumption DEF CallsAscii
<1>2. s = call_parse_clip(u)
  BY DEF call_parse_clip, Ahead, Rest
<1> HIDE DEF u
<1>3. u \in Seq(S)
  <2>1. \A i \in 1 .. Len(u) : u[i] \in S
    <3>1. \A x \in Nat : x < 128 => x \in S
      OBVIOUS
    <3>2. \A i \in 1 .. Len(u) : u[i] \in Nat /\ u[i] < 128
      BY <1>1
    <3> QED
      BY <3>1, <3>2, Zenon
  <2> HIDE DEF S
  <2> QED
    BY <1>1, <2>1, StringOf
<1>4. r = <<>> \/ \E i \in 1 .. Len(u) : r = SubSeq(u, i + 1, Len(u))
  <2>1. Spot(u, Quote) \in 0 .. Len(u)
    BY <1>1, RestIs
  <2>2. CASE Spot(u, Quote) = 0
    BY <1>1, <2>2, RestIs
  <2>3. CASE Spot(u, Quote) # 0
    <3>1. r = SubSeq(u, Spot(u, Quote) + 1, Len(u))
      BY <1>1, <2>3, RestIs
    <3>2. Spot(u, Quote) \in 1 .. Len(u)
      BY <1>1, <2>1, <2>3
    <3> QED
      BY <3>1, <3>2
  <2> QED
    BY <2>2, <2>3
<1> HIDE DEF r, S
<1>5. r \in Seq(S)
  <2>1. <<>> \in Seq(S)
    BY JoinIs
  <2>2. \A i \in 1 .. Len(u) : SubSeq(u, i + 1, Len(u)) \in Seq(S)
    BY <1>1, <1>3, TailIs
  <2> QED
    BY <1>4, <2>1, <2>2
<1>6. a \in Seq(S)
  BY <1>5, AheadIs
<1> HIDE DEF a
<1>7. s \in Seq(S) /\ Len(s) < SMS_SENDER_MAX
  BY <1>6, Sizes, FitsIs
<1> HIDE DEF s
<1>8. \A i \in 1 .. Len(s) : s[i] \in Nat /\ s[i] < 128
  <2>1. \A i \in 1 .. Len(s) : s[i] \in S
    BY <1>7
  <2>2. \A x \in S : x \in Nat /\ x < 128
    BY DEF S
  <2> QED
    BY <2>1, <2>2, Zenon
<1>9. s \in Seq(Nat)
  BY <1>7, <1>8, StringOf
<1> QED
  BY <1>2, <1>7, <1>8, <1>9 DEF FitSenders, u

\* The item's sender is in ASCII and, if its message is spotless, its text is sound.
ItemIsSound(m, it) == it.sender \in FitSenders /\ (Spotless(m) => Sound(it.text))
TextInv == item # NoItem => ItemIsSound(msg, item)

LEMMA SmsItemIsSound ==
  ASSUME NEW m, NEW s \in FitSenders, NEW t, Spotless(m) => Sound(t)
  PROVE  ItemIsSound(m, SmsItem(s, t))
BY DEF ItemIsSound, SmsItem

LEMMA TextStep ==
  ASSUME PdusEndWhole, PdusReadAsSent, PartsNumbered, CallsAscii, ReadInv, TextInv, [PNext]_pvars
  PROVE  TextInv'
<1>1. cache \in [Cache!GroupIds -> Group] /\ PathInv
  BY DEF ReadInv, PathInv
<1>2. ASSUME msg' = msg, item' = item \/ item' = NoItem \/ ItemIsSound(msg, item')
      PROVE  TextInv'
  BY <1>2 DEF TextInv
<1>3. ASSUME NEW k \in left, NEW n \in 0 .. Len(msg[k].urc), HandleCmt(k, n) PROVE TextInv'
  <2> DEFINE d == Decoded(SubSeq(msg[k].urc, 1, n))
             p == CachePart(d)
             g == Cache!WithPart(cache, p, 0)
  <2>1. /\ IF d # NoItem THEN Handled(d) ELSE UNCHANGED <<cache, item, expired, stage>>
        /\ UNCHANGED <<msg, body, pushed>>
    BY <1>3 DEF HandleCmt
  <2>2. msg \in Messages /\ k \in DOMAIN msg 
        /\ msg[k].urc \in Seq(Nat) /\ Said(msg[k]) \in Seq(Nat)
    BY <1>1, PartThatComes, MessageParts
  <2>3. CASE d = NoItem
    BY <1>2, <2>1, <2>3
  <2>4. CASE d # NoItem
    <3>1. SubSeq(msg[k].urc, 1, n) \in Seq(Nat)
      BY <2>2, StartOf
    <3>2. /\ d.sender \in FitSenders /\ d.text \in Seq(Nat) /\ d.place \in Place
      BY <2>4, <3>1, DecodedIs DEF FitSenders
    <3>3. InKnown(msg) => /\ d.text = Fits(Said(msg[k]), SMS_TEXT_MAX)
                        /\ d.place.part = k /\ d.place.total = Len(msg)
      <4> SUFFICES ASSUME InKnown(msg)
                   PROVE  /\ d.text = Fits(Said(msg[k]), SMS_TEXT_MAX)
                          /\ d.place.part = k /\ d.place.total = Len(msg)
        OBVIOUS
      <4>1. msg[k].coding = "general"
        BY <2>2 DEF InKnown
      <4>2. d = Decoded(msg[k].urc)
        BY <1>1, <2>4, <4>1, DecodedIsWhole
      <4> QED
        BY <2>2, <2>4, <4>1, <4>2 DEF PdusReadAsSent, PartsNumbered
    <3>4. Handled(d) /\ msg' = msg
      BY <2>1, <2>4
    <3> HIDE DEF d
    <3>5. CASE d.place.total <= 1 \/ d.place.part <= 0
      <4>1. item' = SmsItem(d.sender, d.text)
        BY <3>4, <3>5 DEF Handled, Queued
      <4>2. Spotless(msg) => Sound(d.text)
        BY <2>2, <3>3, CutIsSound DEF Spotless
      <4> QED
        BY <1>2, <3>2, <3>4, <4>1, <4>2, SmsItemIsSound
    <3>6. CASE ~(d.place.total <= 1 \/ d.place.part <= 0)
      <4>1. IF Cache!Complete(g) THEN Queued(SmsItem(d.sender, AssembledText(g)), FALSE)
            ELSE UNCHANGED <<item, expired, stage>>
        BY <3>4, <3>6 DEF Handled
      <4>2. /\ p \in ShortParts
            /\ InKnown(msg) => p.part = k /\ p.total = Len(msg) /\ p.text = KeptText(msg, k)
        BY <3>2, <3>3, CachePartIs DEF CachePart, KeptText
      <4> HIDE DEF p
      <4>3. g \in Group /\ (InKnown(msg) => Gathers(msg, g))
        BY <1>1, <2>2, <4>2, MessageParts, WithPartIsGroup, WithPartGathers DEF ReadInv
      <4> HIDE DEF g
      <4>4. CASE Cache!Complete(g)
        <5>1. item' = SmsItem(d.sender, AssembledText(g))
          BY <4>1, <4>4 DEF Queued
        <5>2. Spotless(msg) => Sound(AssembledText(g))
          BY <2>2, <4>3, AssembledIsSound DEF Spotless
        <5> QED
          BY <1>2, <3>2, <3>4, <5>1, <5>2, SmsItemIsSound
      <4>5. CASE ~Cache!Complete(g)
        BY <1>2, <3>4, <4>1, <4>5
      <4> QED
        BY <4>4, <4>5
    <3> QED
      BY <3>5, <3>6
  <2> QED
    BY <2>3, <2>4
<1>4. CASE ConcatExpire
  <2>1. msg' = msg
    BY <1>4 DEF ConcatExpire
  <2>2. PICK i \in Cache!GroupIds : /\ cache[i].used
                                    /\ item' = SmsItem(cache[i].sender, AssembledText(cache[i]))
    BY <1>4 DEF ConcatExpire, Queued
  <2>3. cache[i] \in Group /\ (InKnown(msg) => Gathers(msg, cache[i]))
    BY <1>1 DEF ReadInv
  <2>4. cache[i].sender \in FitSenders
    BY <2>2, <2>3 DEF Group
  <2>5. msg \in Messages \cup {<<>>}
    BY <1>1 DEF PathInv, PTypeOK
  <2>6. Spotless(msg) => Sound(AssembledText(cache[i]))
    BY <2>3, <2>5, AssembledIsSound DEF Spotless
  <2> QED
    BY <1>2, <2>1, <2>2, <2>4, <2>6, SmsItemIsSound
<1>5. ASSUME NEW c \in Calls, CallPushed(c) PROVE TextInv'
  <2> DEFINE it == [type |-> "call", sender |-> call_parse_clip(c.urc), text |-> <<>>]
  <2>1. msg' = msg /\ item' = it
    BY <1>5 DEF CallPushed, Queued
  <2>2. it.sender \in FitSenders /\ it.text = <<>>
    BY ClipIs
  <2>3. Sound(<<>>)
    <3>1. <<>> \in Seq(Nat) /\ Runs("utf8", <<>>, <<>>, <<>>)
      BY RunNone
    <3>2. Std!IsUtf8(<<>>)
      BY <3>1, Utf8Runs
    <3> QED
      BY <3>2 DEF Sound
  <2> HIDE DEF it
  <2> QED
    BY <1>2, <2>1, <2>2, <2>3 DEF ItemIsSound
<1>6. CASE NetUploadPost \/ LogRequest
  BY <1>2, <1>6 DEF NetUploadPost, LogRequest
<1>7. CASE PopHead
  BY <1>2, <1>7 DEF PopHead
<1>8. CASE UNCHANGED pvars
  BY <1>2, <1>8 DEF pvars
<1> QED
  BY <1>3, <1>4, <1>5, <1>6, <1>7, <1>8 DEF PNext

\* What wxpusher is sent is UTF-8, whatever the messages, the order of their parts and the
\* sizes are, if the texts sent are in known codings and UTF-8, and neither a part nor the whole has filled its
\* array: neither the marks of missing parts, the escapings nor the re-indenting break a
\* character.  The notifications are what the network and the modem make them: PDUs that
\* end where they say and are decoded as sent, numbered parts, and numbers in ASCII.
THEOREM PushedIsUtf8 ==
  ASSUME PdusEndWhole, PdusReadAsSent, PartsNumbered, CallsAscii
  PROVE  PSpec => []PushIsUtf8
<1>1. PInit => ReadInv /\ PushInv /\ TextInv
  <2> SUFFICES ASSUME PInit PROVE ReadInv /\ PushInv /\ TextInv
    OBVIOUS
  <2>1. \A i \in Cache!GroupIds : Gathers(msg, cache[i])
    BY EmptyGathers DEF PInit
  <2>2. CompleteReadsAsWritten
    BY DEF PInit, CompleteReadsAsWritten
  <2>3. ReadInv
    BY <2>1, <2>2, PathInit DEF ReadInv
  <2> QED
    BY <2>3, PathInit DEF PInit, PushInv, TextInv
<1>2. ReadInv /\ PushInv /\ TextInv /\ [PNext]_pvars => (ReadInv /\ PushInv /\ TextInv)'
  BY ReadStep, PushStep, TextStep
<1>3. ReadInv /\ PushInv /\ TextInv => PushIsUtf8
  <2> SUFFICES ASSUME ReadInv, PushInv, TextInv, stage = "pushed", Readable, ~MayBeCut,
                      \A k \in DOMAIN msg : Std!IsUtf8(Said(msg[k]))
               PROVE  Std!IsUtf8(pushed)
    BY DEF PushIsUtf8
  <2> DEFINE o == PrettyRun(UploadBody(item)).out
  <2>1. PathInv /\ item # NoItem /\ item.sender \in Seq(Nat) /\ item.text \in Seq(Nat)
    BY ItemUnderWay DEF PushInv, PathInv, PTypeOK
  <2>2. Spotless(msg)
    <3>1. ASSUME NEW k \in DOMAIN msg PROVE Len(Said(msg[k])) < SMS_PART_TEXT_MAX
      <4>1. msg \in Messages \cup {<<>>}
        BY <2>1 DEF PathInv, PTypeOK
      <4>2. Len(Said(msg[k])) \in Nat
        BY <4>1, MessageParts, LengthIs
      <4>3. ~(Len(Said(msg[k])) >= SMS_PART_TEXT_MAX)
        BY DEF MayBeCut
      <4> QED
        BY <4>2, <4>3, Sizes
    <3> QED
      BY <3>1 DEF Spotless, Readable, InKnown
  <2>3. item.sender \in FitSenders /\ Sound(item.text)
    BY <2>1, <2>2 DEF TextInv, ItemIsSound
  <2>4. Std!IsUtf8(item.text)
    BY <2>3 DEF Sound, MayBeCut
  <2>5. Std!IsUtf8(item.sender)
    <3>1. Ascii(item.sender)
      BY <2>3 DEF FitSenders, Ascii
    <3> QED
      BY <2>1, <3>1, AsciiIsUtf8, Utf8Runs
  <2>6. o \in Seq(Nat) /\ Std!IsUtf8(o)
    BY <2>1, <2>4, <2>5, UploadPretty
  <2>7. pushed = PushBody(o)
    BY DEF PushInv
  <2> HIDE DEF o
  <2> QED
    BY <2>6, <2>7, PushReads
<1> QED
  BY <1>1, <1>2, <1>3, PTL DEF PSpec

=============================================================================
