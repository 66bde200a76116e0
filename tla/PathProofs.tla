----------------------------- MODULE PathProofs -----------------------------
(***************************************************************************)
(* Proofs about MessagePath: what a text may become on its way, whatever   *)
(* the messages are and however large the arrays.                          *)
(***************************************************************************)
EXTENDS MessagePath, NatFacts, FiniteSetTheorems

----------------------------------------------------------------------------
(* Strings *)

\* What fits: the whole string, or as much of it as leaves room for its end.
LEMMA FitsIs ==
  ASSUME NEW S, NEW s \in Seq(S), NEW size \in Nat \ {0}
  PROVE  /\ Fits(s, size) \in Seq(S) /\ Len(Fits(s, size)) < size
         /\ Len(s) < size => Fits(s, size) = s
BY DEF Fits

\* What is left of a string behind its first a elements.
LEMMA TailIs ==
  ASSUME NEW S, NEW s \in Seq(S), NEW a \in 0 .. Len(s)
  PROVE  /\ SubSeq(s, a + 1, Len(s)) \in Seq(S)
         /\ Len(SubSeq(s, a + 1, Len(s))) = Len(s) - a
         /\ \A i \in 1 .. Len(s) - a : SubSeq(s, a + 1, Len(s))[i] = s[a + i]
<1>1. ASSUME NEW i \in 1 .. Len(s) - a PROVE SubSeq(s, a + 1, Len(s))[i] = s[a + i]
  <2>1. SubSeq(s, a + 1, Len(s))[i] = s[i + (a + 1) - 1] /\ i + (a + 1) - 1 = a + i
    OBVIOUS
  <2> QED
    BY <2>1
<1> QED
  BY <1>1

\* The first index of a kind.
FirstOf(I) == IF I # {} THEN Min(I) ELSE 0

LEMMA FirstOfIs ==
  ASSUME NEW I \in SUBSET (Nat \ {0})
  PROVE  /\ FirstOf(I) \in Nat
         /\ FirstOf(I) = 0 <=> I = {}
         /\ I # {} => FirstOf(I) \in I /\ \A i \in I : FirstOf(I) <= i
<1>1. CASE I = {}
  BY <1>1 DEF FirstOf
<1>2. CASE I # {}
  <2>1. \E x \in I : \A y \in I : x <= y
    BY <1>2, HasLeast
  <2>2. Min(I) \in I /\ \A y \in I : Min(I) <= y
    BY <2>1 DEF Min
  <2> QED
    BY <1>2, <2>2 DEF FirstOf
<1> QED
  BY <1>1, <1>2

\* Where c stands first, and what follows it.
Spot(s, c) == FirstOf({j \in 1 .. Len(s) : s[j] = c})
Rest(s, c) == After(s, LAMBDA ch : ch = c)

LEMMA RestIs ==
  ASSUME NEW s \in Seq(Nat), NEW c
  PROVE  /\ Spot(s, c) \in 0 .. Len(s)
         /\ Spot(s, c) = 0 => Rest(s, c) = <<>> /\ \A j \in 1 .. Len(s) : s[j] # c
         /\ Spot(s, c) # 0 =>
              /\ s[Spot(s, c)] = c
              /\ \A j \in 1 .. Len(s) : s[j] = c => Spot(s, c) <= j
              /\ Rest(s, c) = SubSeq(s, Spot(s, c) + 1, Len(s))
         /\ Rest(s, c) \in Seq(Nat)
<1> DEFINE I == {j \in 1 .. Len(s) : s[j] = c}
           a == FirstOf(I)
<1>1. Rest(s, c) = IF a = 0 THEN <<>> ELSE SubSeq(s, a + 1, Len(s))
  BY DEF Rest, After, SelectInSeq, FirstOf
<1>2. I \in SUBSET (Nat \ {0})
  OBVIOUS
<1>3. /\ a \in Nat /\ (a = 0 <=> I = {})
      /\ I # {} => a \in I /\ \A i \in I : a <= i
  <2> HIDE DEF I
  <2> QED
    BY <1>2, FirstOfIs
<1>4. Spot(s, c) = a
  BY DEF Spot
<1> HIDE DEF a
<1>5. a \in 0 .. Len(s) /\ (a = 0 => \A j \in 1 .. Len(s) : s[j] # c)
  BY <1>3
<1>6. a # 0 => s[a] = c /\ \A j \in 1 .. Len(s) : s[j] = c => a <= j
  BY <1>3
<1>7. Rest(s, c) \in Seq(Nat)
  BY <1>1, <1>5
<1> QED
  BY <1>1, <1>4, <1>5, <1>6, <1>7

----------------------------------------------------------------------------
(* A notification cut short *)

\* v is what has come of u, or nothing that counts.
Cut(v, u) ==
  v = <<>> \/ (Len(v) < Len(u) /\ \A i \in 1 .. Len(v) : v[i] = u[i])

LEMMA RestOfCut ==
  ASSUME NEW u \in Seq(Nat), NEW v \in Seq(Nat), NEW c \in Nat, Cut(v, u)
  PROVE  Cut(Rest(v, c), Rest(u, c))
<1> DEFINE a == Spot(u, c)
           b == Spot(v, c)
<1>1. CASE b = 0
  BY <1>1, RestIs DEF Cut
<1>2. CASE b # 0
  <2>1. /\ b \in 1 .. Len(v) /\ v[b] = c /\ Rest(v, c) = SubSeq(v, b + 1, Len(v))
        /\ \A j \in 1 .. Len(v) : v[j] = c => b <= j
    BY <1>2, RestIs
  <2>2. Len(v) < Len(u) /\ \A i \in 1 .. Len(v) : v[i] = u[i]
    BY <2>1 DEF Cut
  <2>3. b \in 1 .. Len(u) /\ u[b] = c
    <3> HIDE DEF b
    <3>1. u[b] = c
      BY <2>1, <2>2
    <3>2. Len(v) \in Nat /\ Len(u) \in Nat
      OBVIOUS
    <3> QED
      BY <2>1, <2>2, <3>1, <3>2
  <2>4. a # 0
    BY <2>3, RestIs
  <2>5. /\ a \in 0 .. Len(u) /\ u[a] = c /\ Rest(u, c) = SubSeq(u, a + 1, Len(u))
        /\ \A j \in 1 .. Len(u) : u[j] = c => a <= j
    BY <2>4, RestIs
  <2>6. a \in 1 .. Len(u) /\ a <= b
    BY <2>3, <2>4, <2>5
  <2> HIDE DEF a, b
  <2>7. a \in 1 .. Len(v) /\ v[a] = c
    <3>1. a \in Nat /\ 1 <= a /\ a <= b /\ b \in Nat /\ b <= Len(v) /\ Len(v) \in Nat
      BY <2>1, <2>6
    <3>2. a \in 1 .. Len(v)
      BY <3>1
    <3>3. v[a] = u[a]
      BY <2>2, <3>2
    <3> QED
      BY <2>5, <3>2, <3>3
  <2>8. a = b /\ a \in Nat /\ Len(u) \in Nat /\ Len(v) \in Nat
    BY <2>1, <2>6, <2>7
  <2>9. /\ Len(Rest(u, c)) = Len(u) - a /\ Len(Rest(v, c)) = Len(v) - a
        /\ \A i \in 1 .. Len(u) - a : Rest(u, c)[i] = u[a + i]
        /\ \A i \in 1 .. Len(v) - a : Rest(v, c)[i] = v[a + i]
    <3>1. a \in 0 .. Len(u) /\ a \in 0 .. Len(v)
      BY <2>6, <2>7
    <3>2. /\ Len(Rest(u, c)) = Len(u) - a
          /\ \A i \in 1 .. Len(u) - a : Rest(u, c)[i] = u[a + i]
      BY <3>1, <2>5, TailIs
    <3>3. /\ Len(Rest(v, c)) = Len(v) - a
          /\ \A i \in 1 .. Len(v) - a : Rest(v, c)[i] = v[a + i]
      BY <3>1, <2>1, <2>8, TailIs
    <3> QED
      BY <3>2, <3>3
  <2>10. ASSUME NEW i \in 1 .. Len(v) - a PROVE Rest(v, c)[i] = Rest(u, c)[i]
    <3>1. i \in 1 .. Len(u) - a /\ a + i \in 1 .. Len(v)
      BY <2>2, <2>8
    <3> QED
      BY <3>1, <2>2, <2>9
  <2> QED
    BY <2>2, <2>8, <2>9, <2>10 DEF Cut
<1> QED
  BY <1>1, <1>2

\* Where the digits of a line start and end.
HexStart(s) == FirstOf({i \in 1 .. Len(s) : s[i] \notin {Newline, Blank}})
HexEnd(s)   == FirstOf({i \in 1 .. Len(s) : ~IsHex(s[i])})

LEMMA HexInIs ==
  ASSUME NEW urc, NEW size
  PROVE  HexIn(urc, size) =
           LET line == AfterHeader(urc)
               s    == SubSeq(line, HexStart(line), Len(line))
           IN  IF HexStart(line) = 0 THEN <<>>
               ELSE Fits(IF HexEnd(s) = 0 THEN s ELSE SubSeq(s, 1, HexEnd(s) - 1), size)
BY DEF HexIn, SelectInSeq, Before, FirstOf, HexStart, HexEnd

\* A line of digits that s_resp takes is read as a whole.
LEMMA DigitsAreRead ==
  ASSUME NEW urc, NEW line, line = AfterHeader(urc), line \in Seq(Nat),
         \A i \in DOMAIN line : IsHex(line[i]), Len(line) < RESP_SIZE
  PROVE  HexIn(urc, RESP_SIZE) = line
<1>1. /\ \A i \in 1 .. Len(line) : line[i] < 16 /\ IsHex(line[i])
      /\ line \in Seq(Nat) /\ Len(line) < RESP_SIZE
  BY DEF IsHex
<1>2. RESP_SIZE \in Nat \ {0}
  BY PathAssumption
<1>3. CASE line = <<>>
  <2>1. {i \in 1 .. Len(line) : line[i] \notin {Newline, Blank}} = {}
    BY <1>3
  <2>2. HexStart(line) = 0
    BY <2>1 DEF FirstOf, HexStart
  <2> QED
    BY <1>3, <2>2, HexInIs
<1>4. CASE line # <<>>
  <2>1. Len(line) \in Nat /\ Len(line) > 0
    BY <1>1, <1>4
  <2>2. {i \in 1 .. Len(line) : line[i] \notin {Newline, Blank}} = 1 .. Len(line)
    BY <1>1 DEF Newline, Blank
  <2>3. FirstOf(1 .. Len(line)) = 1
    <3>1. (1 .. Len(line)) \in SUBSET (Nat \ {0}) /\ 1 \in 1 .. Len(line)
      BY <2>1
    <3>2. FirstOf(1 .. Len(line)) \in 1 .. Len(line) /\ FirstOf(1 .. Len(line)) <= 1
      BY <3>1, FirstOfIs
    <3> QED
      BY <3>2, <2>1
  <2>4. HexStart(line) = 1
    BY <2>2, <2>3 DEF HexStart
  <2>5. SubSeq(line, 1, Len(line)) = line
    BY <1>1
  <2>6. {i \in 1 .. Len(line) : ~IsHex(line[i])} = {}
    BY <1>1
  <2>7. HexEnd(line) = 0
    BY <2>6 DEF FirstOf, HexEnd
  <2>8. Fits(line, RESP_SIZE) = line
    BY <1>1, <1>2, FitsIs
  <2>9. HexIn(urc, RESP_SIZE)
          = Fits(IF HexEnd(line) = 0 THEN line ELSE SubSeq(line, 1, HexEnd(line) - 1), RESP_SIZE)
    <3>1. HexIn(urc, RESP_SIZE) =
            LET s == SubSeq(line, HexStart(line), Len(line))
            IN  IF HexStart(line) = 0 THEN <<>>
                ELSE Fits(IF HexEnd(s) = 0 THEN s ELSE SubSeq(s, 1, HexEnd(s) - 1), RESP_SIZE)
      BY HexInIs
    <3>2. SubSeq(line, HexStart(line), Len(line)) = line
      BY <2>4, <2>5
    <3> QED
      BY <3>1, <3>2, <2>4
  <2> QED
    BY <2>7, <2>8, <2>9
<1> QED
  BY <1>3, <1>4

----------------------------------------------------------------------------
(* Octets *)

LEMMA ByteIs == \A x : x \in Byte <=> x \in Nat /\ x < 256
BY DEF Byte

LEMMA ByteAt ==
  ASSUME NEW o \in Seq(Byte), NEW i \in 1 .. Len(o)
  PROVE  o[i] \in Byte /\ o[i] \in Nat /\ o[i] < 256
BY ByteIs

\* The two digits of an octet are digits of the line.
LEMMA PairAt ==
  \A n \in Nat : \A i \in 1 .. n \div 2 : 2 * i - 1 \in 1 .. n /\ 2 * i \in 1 .. n
OBVIOUS

LEMMA TwoDigits ==
  \A a, b \in Nat : a < 16 /\ b < 16 => 16 * a + b \in Nat /\ 16 * a + b < 256
OBVIOUS

\* Two octets read as one number.
Wide(a, b) == 256 * a + b

LEMMA WideOctets == \A a, b \in Nat : Wide(a, b) \in Nat
BY DEF Wide

LEMMA HexIs == \A x : (x \in Nat /\ IsHex(x)) <=> x \in 0 .. 15
BY DEF IsHex

\* A string of such elements.
LEMMA StringOf ==
  ASSUME NEW S, NEW T, NEW s \in Seq(S), \A i \in 1 .. Len(s) : s[i] \in T
  PROVE  s \in Seq(T)
OBVIOUS

LEMMA ListOf ==
  ASSUME NEW T, NEW n \in Nat, NEW f, \A i \in 1 .. n : f[i] \in T
  PROVE  [i \in 1 .. n |-> f[i]] \in Seq(T)
OBVIOUS

LEMMA LengthIs == \A S : \A s \in Seq(S) : Len(s) \in Nat
OBVIOUS

\* What the digits of a line stand for.
OctetsOf(hex) == [i \in 1 .. Len(hex) \div 2 |-> 16 * hex[2 * i - 1] + hex[2 * i]]

LEMMA OctetsAre ==
  ASSUME NEW hex \in Seq(Nat), \A i \in 1 .. Len(hex) : hex[i] < 16
  PROVE  /\ OctetsOf(hex) \in Seq(Byte)
         /\ Len(OctetsOf(hex)) = Len(hex) \div 2
<1>1. Len(hex) \in Nat /\ Len(hex) \div 2 \in Nat
  OBVIOUS
<1>2. ASSUME NEW i \in 1 .. Len(hex) \div 2 PROVE OctetsOf(hex)[i] \in Byte
  <2>1. 2 * i - 1 \in 1 .. Len(hex) /\ 2 * i \in 1 .. Len(hex)
    BY <1>1, PairAt, Zenon
  <2>2. \A j \in 1 .. Len(hex) : hex[j] \in Nat /\ hex[j] < 16
    OBVIOUS
  <2>3. /\ hex[2 * i - 1] \in Nat /\ hex[2 * i] \in Nat
        /\ hex[2 * i - 1] < 16 /\ hex[2 * i] < 16
    BY <2>1, <2>2, Zenon
  <2>4. 16 * hex[2 * i - 1] + hex[2 * i] \in Nat /\ 16 * hex[2 * i - 1] + hex[2 * i] < 256
    BY <2>3, TwoDigits, Zenon
  <2>5. OctetsOf(hex)[i] = 16 * hex[2 * i - 1] + hex[2 * i]
    BY DEF OctetsOf
  <2> QED
    BY <2>4, <2>5, ByteIs
<1>3. OctetsOf(hex) \in [1 .. Len(hex) \div 2 -> Byte]
  BY <1>2 DEF OctetsOf
<1> QED
  BY <1>1, <1>3

\* Of a cut line fewer octets are read, unless a digit is left over.
LEMMA FewerOctets ==
  ASSUME NEW u \in Seq(Nat), NEW v \in Seq(Nat),
         \A i \in 1 .. Len(u) : u[i] < 16, \A i \in 1 .. Len(v) : v[i] < 16,
         Cut(v, u), v # <<>>, Len(u) % 2 = 0, Len(v) % 2 = 0
  PROVE  /\ Len(OctetsOf(v)) < Len(OctetsOf(u))
         /\ \A i \in 1 .. Len(OctetsOf(v)) : OctetsOf(v)[i] = OctetsOf(u)[i]
<1>1. Len(v) < Len(u) /\ \A i \in 1 .. Len(v) : v[i] = u[i]
  BY DEF Cut
<1>2. /\ Len(OctetsOf(u)) = Len(u) \div 2 /\ Len(OctetsOf(v)) = Len(v) \div 2
  BY OctetsAre
<1>3. Len(v) \div 2 < Len(u) \div 2 /\ Len(v) \div 2 \in Nat /\ Len(u) \div 2 \in Nat
  BY <1>1
<1>4. ASSUME NEW i \in 1 .. Len(v) \div 2
      PROVE  OctetsOf(v)[i] = OctetsOf(u)[i]
  <2>1. 2 * i - 1 \in 1 .. Len(v) /\ 2 * i \in 1 .. Len(v)
    BY LengthIs, PairAt, Zenon
  <2>2. i \in 1 .. Len(u) \div 2
    BY <1>3
  <2>3. v[2 * i - 1] = u[2 * i - 1] /\ v[2 * i] = u[2 * i]
    BY <1>1, <2>1
  <2> QED
    BY <2>2, <2>3 DEF OctetsOf
<1> QED
  BY <1>2, <1>3, <1>4

\* The first octets tell how many there must be.
LEMMA LengthIsTold ==
  ASSUME NEW o \in Seq(Byte), NEW p \in Seq(Byte), Decodable(p),
         Len(p) <= Len(o), \A i \in 1 .. Len(p) : p[i] = o[i]
  PROVE  UdlAt(o) + UdOctets(o) <= Len(p)
<1>1. /\ Len(p) > p[1] + 1 /\ Len(p) > AddressAt(p)
      /\ Len(p) >= UdlAt(p) /\ UdOctets(p) <= Len(p) - UdlAt(p)
      /\ p # <<>>
  BY DEF Decodable
<1>2. 1 \in 1 .. Len(p)
  BY <1>1
<1>3. /\ p[1] = o[1] /\ p[1] \in Nat
      /\ AddressAt(p) = AddressAt(o) /\ AddressAt(p) \in 1 .. Len(p)
  <2>1. p[1] = o[1] /\ p[1] \in Nat
    BY <1>2, ByteAt
  <2>2. AddressAt(p) = p[1] + 3 /\ AddressAt(o) = p[1] + 3 /\ Len(p) \in Nat
    BY <2>1 DEF AddressAt
  <2> QED
    BY <1>1, <2>1, <2>2
<1>4. p[AddressAt(p)] = o[AddressAt(o)] /\ p[AddressAt(p)] \in Nat
  BY <1>3, ByteAt
<1>5. AddrOctets(p) = AddrOctets(o) /\ AddrOctets(p) \in Nat
  BY <1>4 DEF AddrOctets
<1>6. /\ DcsAt(p) = DcsAt(o) /\ UdlAt(p) = UdlAt(o)
      /\ DcsAt(p) \in 1 .. Len(p) /\ UdlAt(p) \in 1 .. Len(p)
  BY <1>1, <1>3, <1>5 DEF DcsAt, UdlAt
<1>7. /\ p[DcsAt(p)] = o[DcsAt(o)] /\ p[UdlAt(p)] = o[UdlAt(o)]
      /\ p[UdlAt(p)] \in Nat
  BY <1>6, ByteAt
<1>8. UdOctets(p) = UdOctets(o)
  BY <1>7 DEF UdOctets, Encoding, Udl
<1>9. UdOctets(p) \in Nat
  <2>1. (7 * Udl(p) + 7) \div 8 \in Nat /\ Udl(p) \in Nat
    BY <1>7 DEF Udl
  <2> QED
    BY <2>1 DEF UdOctets
<1> QED
  BY <1>1, <1>6, <1>8, <1>9

\* A notification that is not all there yields nothing.
LEMMA CutIsNotDecoded ==
  ASSUME NEW urc \in Seq(Nat), EndsWithPdu(urc), NEW n \in 0 .. Len(urc), n # Len(urc)
  PROVE  Decoded(SubSeq(urc, 1, n)) = NoItem
<1> DEFINE cut == SubSeq(urc, 1, n)
           u == AfterHeader(urc)
           v == AfterHeader(cut)
<1>1. cut \in Seq(Nat) /\ Cut(cut, urc)
  BY DEF Cut
<1>2. u = Rest(Rest(urc, Tag), Newline) /\ v = Rest(Rest(cut, Tag), Newline)
  BY DEF AfterHeader, Rest
<1>3. Tag \in Nat /\ Newline \in Nat
  BY DEF Tag, Newline
<1> HIDE DEF cut
<1>4. u \in Seq(Nat) /\ v \in Seq(Nat) /\ Cut(v, u)
  <2>1. /\ Rest(urc, Tag) \in Seq(Nat) /\ Rest(cut, Tag) \in Seq(Nat)
        /\ Cut(Rest(cut, Tag), Rest(urc, Tag))
    BY <1>1, <1>3, RestIs, RestOfCut
  <2> QED
    BY <1>2, <1>3, <2>1, RestIs, RestOfCut
<1> HIDE DEF u, v
<1>5. /\ \A i \in DOMAIN u : IsHex(u[i])
      /\ Len(u) < RESP_SIZE /\ Extractable(urc, RESP_SIZE)
  BY DEF EndsWithPdu, u
<1>6. /\ \A i \in DOMAIN v : IsHex(v[i])
      /\ Len(v) < RESP_SIZE
  <2>1. CASE v = <<>>
    <3>1. Len(v) = 0 /\ DOMAIN v = {}
      BY <2>1
    <3> QED
      BY <3>1, PathAssumption
  <2>2. CASE v # <<>>
    <3>1. Len(v) < Len(u) /\ \A i \in 1 .. Len(v) : v[i] = u[i]
      BY <1>4, <2>2 DEF Cut
    <3>2. Len(v) \in Nat /\ Len(u) \in Nat /\ DOMAIN u = 1 .. Len(u) /\ DOMAIN v = 1 .. Len(v)
      BY <1>4
    <3>3. \A i \in DOMAIN v : IsHex(v[i])
      BY <1>5, <3>1, <3>2
    <3>4. Len(v) < RESP_SIZE
      BY <1>5, <3>1, <3>2, PathAssumption
    <3> QED
      BY <3>3, <3>4
  <2> QED
    BY <2>1, <2>2
<1>7. HexIn(urc, RESP_SIZE) = u /\ HexIn(cut, RESP_SIZE) = v
  BY <1>4, <1>5, <1>6, DigitsAreRead DEF u, v
<1>8. SUFFICES ASSUME Extractable(cut, RESP_SIZE), Decodable(sms_pdu_extract(cut, RESP_SIZE))
               PROVE  FALSE
  BY DEF Decoded, cut
<1>9. v # <<>> /\ Len(v) % 2 = 0 /\ Len(u) % 2 = 0
  BY <1>5, <1>7, <1>8 DEF Extractable
<1>10. sms_pdu_extract(urc, RESP_SIZE) = OctetsOf(u) /\ sms_pdu_extract(cut, RESP_SIZE) = OctetsOf(v)
  BY <1>7 DEF sms_pdu_extract, OctetsOf
<1>11. (\A i \in 1 .. Len(u) : u[i] < 16) /\ (\A i \in 1 .. Len(v) : v[i] < 16)
  <2>1. \A i \in 1 .. Len(u) : u[i] < 16
    BY <1>4, <1>5 DEF IsHex
  <2>2. \A i \in 1 .. Len(v) : v[i] < 16
    BY <1>4, <1>6 DEF IsHex
  <2> QED
    BY <2>1, <2>2
<1>12. /\ Len(OctetsOf(v)) < Len(OctetsOf(u))
       /\ \A i \in 1 .. Len(OctetsOf(v)) : OctetsOf(v)[i] = OctetsOf(u)[i]
       /\ OctetsOf(u) \in Seq(Byte) /\ OctetsOf(v) \in Seq(Byte)
  BY <1>4, <1>9, <1>11, FewerOctets, OctetsAre
<1>13. Len(OctetsOf(u)) = UdlAt(OctetsOf(u)) + UdOctets(OctetsOf(u))
  BY <1>10 DEF EndsWithPdu
<1>14. UdlAt(OctetsOf(u)) + UdOctets(OctetsOf(u)) <= Len(OctetsOf(v))
  <2>1. Len(OctetsOf(v)) <= Len(OctetsOf(u))
    BY <1>12
  <2> QED
    BY <1>8, <1>10, <1>12, <2>1, LengthIsTold
<1> QED
  BY <1>12, <1>13, <1>14

----------------------------------------------------------------------------
(* Functions that read a string piece by piece *)

\* What such a function is: nothing at a stop, else a piece and what follows it.
Unrolled(f, stop, piece, next) ==
  f = [i \in Nat |-> IF stop[i] THEN <<>> ELSE piece[i] \o f[next[i]]]

\* There is one if every step goes forward and there is a stop at the end.
LEMMA UnrollExists ==
  ASSUME NEW n \in Nat, NEW stop, NEW piece, NEW next,
         \A i \in Nat : i >= n => stop[i],
         \A i \in Nat : ~stop[i] => next[i] \in Nat /\ next[i] > i
  PROVE  \E f : Unrolled(f, stop, piece, next)
<1> DEFINE Good(g, m) == \A i \in Nat : i >= m =>
                           g[i] = IF stop[i] THEN <<>> ELSE piece[i] \o g[next[i]]
           M == {m \in Nat : \E g : Good(g, m)}
<1>1. Good([i \in Nat |-> <<>>], n)
  OBVIOUS
<1>2. n \in M
  BY <1>1
<1>3. PICK m \in M : \A k \in M : m <= k
  <2>1. M \in SUBSET Nat /\ M # {}
    BY <1>2
  <2> HIDE DEF M
  <2> QED
    BY <2>1, HasLeast
<1>4. m \in Nat
  OBVIOUS
<1>5. PICK g : Good(g, m)
  OBVIOUS
<1>6. CASE m = 0
  <2> DEFINE f == [i \in Nat |-> g[i]]
  <2>1. ASSUME NEW i \in Nat
        PROVE  g[i] = IF stop[i] THEN <<>> ELSE piece[i] \o f[next[i]]
    <3>1. g[i] = IF stop[i] THEN <<>> ELSE piece[i] \o g[next[i]]
      BY <1>5, <1>6
    <3>2. ~stop[i] => f[next[i]] = g[next[i]]
      OBVIOUS
    <3> QED
      BY <3>1, <3>2
  <2>2. f = [i \in Nat |-> IF stop[i] THEN <<>> ELSE piece[i] \o f[next[i]]]
    BY <2>1
  <2> QED
    BY <2>2 DEF Unrolled
<1>7. CASE m # 0
  <2> DEFINE k == m - 1
             h == [i \in Nat |-> IF i = k THEN (IF stop[i] THEN <<>> ELSE piece[i] \o g[next[i]])
                                 ELSE g[i]]
  <2>1. k \in Nat /\ k < m
    BY <1>4, <1>7
  <2>2. ASSUME NEW i \in Nat, i >= k
        PROVE  h[i] = IF stop[i] THEN <<>> ELSE piece[i] \o h[next[i]]
    <3>1. ~stop[i] => next[i] \in Nat /\ next[i] # k /\ h[next[i]] = g[next[i]]
      BY <2>1, <2>2
    <3>2. CASE i = k
      BY <3>1, <3>2
    <3>3. CASE i # k
      <4>1. i >= m
        BY <1>4, <2>1, <2>2, <3>3
      <4> QED
        BY <1>5, <3>1, <3>3, <4>1
    <3> QED
      BY <3>2, <3>3
  <2>3. Good(h, k)
    BY <2>2
  <2>4. k \in M
    BY <2>1, <2>3
  <2> QED
    BY <1>3, <1>4, <2>1, <2>4
<1> QED
  BY <1>6, <1>7

LEMMA JoinIs == \A S : <<>> \in Seq(S) /\ \A s, t \in Seq(S) : s \o t \in Seq(S)
OBVIOUS

\* Made of strings it is a string, from wherever its pieces are ones.
LEMMA UnrollTyped ==
  ASSUME NEW n \in Nat, NEW stop, NEW piece, NEW next, NEW f, NEW S, NEW a \in Nat,
         Unrolled(f, stop, piece, next),
         \A i \in Nat : i >= n => stop[i],
         \A i \in Nat : ~stop[i] => next[i] \in Nat /\ next[i] > i,
         \A i \in Nat : i >= a /\ ~stop[i] => piece[i] \in Seq(S)
  PROVE  \A i \in Nat : i >= a => f[i] \in Seq(S)
<1> DEFINE M == {m \in Nat : \A i \in Nat : i >= m /\ i >= a => f[i] \in Seq(S)}
<1>1. \A i \in Nat : f[i] = IF stop[i] THEN <<>> ELSE piece[i] \o f[next[i]]
  BY DEF Unrolled
<1>2. n \in M
  <2>1. \A i \in Nat : i >= n => f[i] = <<>>
    BY <1>1
  <2>2. \A i \in Nat : i >= n => f[i] \in Seq(S)
    BY <2>1, JoinIs
  <2> QED
    BY <2>2
<1>3. PICK m \in M : \A k \in M : m <= k
  <2>1. M \in SUBSET Nat /\ M # {}
    BY <1>2
  <2> HIDE DEF M
  <2> QED
    BY <2>1, HasLeast
<1>4. m \in Nat /\ \A i \in Nat : i >= m /\ i >= a => f[i] \in Seq(S)
  OBVIOUS
<1>5. CASE m = 0
  <2>1. \A i \in Nat : i >= m
    BY <1>5
  <2> QED
    BY <1>4, <2>1
<1>6. CASE m # 0
  <2>1. m - 1 \in Nat
    BY <1>4, <1>6
  <2>2. ASSUME NEW i \in Nat, i >= m - 1, i >= a PROVE f[i] \in Seq(S)
    <3>1. CASE stop[i]
      BY <1>1, <3>1
    <3>2. CASE ~stop[i]
      <4>1. next[i] \in Nat /\ next[i] >= m /\ next[i] >= a
        BY <1>4, <2>2, <3>2
      <4>2. f[next[i]] \in Seq(S) /\ piece[i] \in Seq(S)
        BY <1>4, <2>2, <3>2, <4>1
      <4>3. f[i] = piece[i] \o f[next[i]]
        BY <1>1, <3>2
      <4>4. piece[i] \o f[next[i]] \in Seq(S)
        BY <4>2, JoinIs
      <4> QED
        BY <4>3, <4>4
    <3> QED
      BY <3>1, <3>2
  <2>3. \A i \in Nat : i >= m - 1 /\ i >= a => f[i] \in Seq(S)
    BY <2>2
  <2>4. m - 1 \in M
    BY <2>1, <2>3
  <2> HIDE DEF M
  <2>5. m <= m - 1
    BY <1>3, <2>4
  <2> QED
    BY <1>4, <2>5
<1> QED
  BY <1>5, <1>6

----------------------------------------------------------------------------
(* The texts a PDU decodes to are strings *)

LEMMA Utf8IsString == \A cp \in Nat : Utf8(cp) \in Seq(Nat)
<1> SUFFICES ASSUME NEW cp \in Nat PROVE Utf8(cp) \in Seq(Nat)
  OBVIOUS
<1>1. /\ Bits(cp, 0, 6) \in Nat /\ Bits(cp, 6, 6) \in Nat /\ Bits(cp, 12, 6) \in Nat
      /\ Bits(cp, 6, 5) \in Nat /\ Bits(cp, 12, 4) \in Nat /\ Bits(cp, 18, 3) \in Nat
  BY DEF Bits
<1>2. CASE cp <= 127
  BY <1>2 DEF Utf8
<1>3. CASE cp > 127 /\ cp <= 2047
  BY <1>1, <1>3 DEF Utf8
<1>4. CASE cp > 2047 /\ cp <= 65535
  BY <1>1, <1>4 DEF Utf8
<1>5. CASE cp > 65535
  BY <1>1, <1>5 DEF Utf8
<1> QED
  BY <1>2, <1>3, <1>4, <1>5

LEMMA TableIs == s_gsm7 \in [1 .. 128 -> Nat]
BY DEF s_gsm7, Question

LEMMA ExtensionIs == \A code \in Nat : gsm7_extension(code) \in Nat
BY DEF gsm7_extension, Question

LEMMA UpTo127 == \A n \in 0 .. 127 : n \in Nat /\ n + 1 \in 1 .. 128
OBVIOUS

\* A septet that is there has a character.
LEMMA SeptetIs ==
  ASSUME NEW data \in Seq(Byte), NEW i \in Nat, HasSeptet(data, i)
  PROVE  /\ Septet(data, i) \in 0 .. 127
         /\ Utf8(s_gsm7[Septet(data, i) + 1]) \in Seq(Nat)
         /\ Utf8(gsm7_extension(Septet(data, i))) \in Seq(Nat)
<1> DEFINE byte == (7 * i) \div 8 + 1
           wide == data[byte] + (IF byte < Len(data) THEN 256 * data[byte + 1] ELSE 0)
<1>1. byte \in 1 .. Len(data)
  <2>1. (7 * i) \div 8 \in Nat /\ Len(data) \in Nat
    OBVIOUS
  <2>2. (7 * i) \div 8 < Len(data)
    BY <2>1 DEF HasSeptet
  <2> QED
    BY <2>1, <2>2
<1>2. wide \in Nat
  <2> HIDE DEF byte
  <2>1. data[byte] \in Nat /\ (byte < Len(data) => data[byte + 1] \in Nat)
    BY <1>1, ByteAt
  <2> QED
    BY <2>1
<1>3. Septet(data, i) = Bits(wide, (7 * i) % 8, 7)
  BY DEF Septet
<1> DEFINE Shifts == {0, 1, 2, 3, 4, 5, 6, 7}
<1>4. (7 * i) % 8 \in Shifts
  OBVIOUS
<1>5. \A w \in Nat : \A k \in Shifts : Bits(w, k, 7) \in 0 .. 127
  BY DEF Bits
<1> HIDE DEF wide, Shifts
<1>6. Septet(data, i) \in 0 .. 127
  <2> DEFINE k == (7 * i) % 8
  <2>1. k \in Shifts /\ Septet(data, i) = Bits(wide, k, 7)
    BY <1>3, <1>4
  <2> HIDE DEF k
  <2>2. Bits(wide, k, 7) \in 0 .. 127
    BY <1>2, <1>5, <2>1, Zenon
  <2> QED
    BY <2>1, <2>2, Zenon
<1>7. Septet(data, i) \in Nat /\ Septet(data, i) + 1 \in 1 .. 128
  BY <1>6, UpTo127, Zenon
<1>8. s_gsm7[Septet(data, i) + 1] \in Nat
  BY <1>7, TableIs, Zenon
<1> QED
  BY <1>6, <1>7, <1>8, ExtensionIs, Utf8IsString, Zenon

LEMMA Gsm7IsString ==
  ASSUME NEW data \in Seq(Byte), NEW udl \in Nat, NEW skip \in Nat
  PROVE  decode_gsm7(data, udl, skip) \in Seq(Nat)
<1> DEFINE Ext(i)  == Septet(data, i) = Escape /\ i + 1 < udl
           stop  == [i \in Nat |-> \/ i >= udl \/ ~HasSeptet(data, i)
                                   \/ Ext(i) /\ ~HasSeptet(data, i + 1)]
           piece == [i \in Nat |-> IF Ext(i) THEN Utf8(gsm7_extension(Septet(data, i + 1)))
                                   ELSE Utf8(s_gsm7[Septet(data, i) + 1])]
           next  == [i \in Nat |-> IF Ext(i) THEN i + 2 ELSE i + 1]
           From(f) == [i \in Nat |->
             IF i >= udl \/ ~HasSeptet(data, i) THEN <<>>
             ELSE IF Septet(data, i) # Escape \/ i + 1 >= udl
             THEN Utf8(s_gsm7[Septet(data, i) + 1]) \o f[i + 1]
             ELSE IF ~HasSeptet(data, i + 1) THEN <<>>
             ELSE Utf8(gsm7_extension(Septet(data, i + 1))) \o f[i + 2]]
           F == CHOOSE f : f = From(f)
<1>1. decode_gsm7(data, udl, skip) = F[skip]
  BY DEF decode_gsm7
<1>2. ASSUME NEW f, NEW i \in Nat
      PROVE  From(f)[i] = IF stop[i] THEN <<>> ELSE piece[i] \o f[next[i]]
  <2>1. i >= udl <=> ~(i < udl)
    OBVIOUS
  <2>2. i + 1 >= udl <=> ~(i + 1 < udl)
    OBVIOUS
  <2> QED
    BY <2>1, <2>2
<1>3. \A f : From(f) = [i \in Nat |-> IF stop[i] THEN <<>> ELSE piece[i] \o f[next[i]]]
  BY <1>2
<1>4. \A i \in Nat : i >= udl => stop[i]
  OBVIOUS
<1>5. \A i \in Nat : next[i] \in Nat /\ next[i] > i
  OBVIOUS
<1>6. \A i \in Nat : ~stop[i] => piece[i] \in Seq(Nat)
  BY SeptetIs
<1> HIDE DEF stop, piece, next, From
<1>7. \E f : f = From(f)
  <2>1. \E f : Unrolled(f, stop, piece, next)
    BY <1>4, <1>5, UnrollExists
  <2> QED
    BY <2>1, <1>3 DEF Unrolled
<1>8. F = From(F)
  BY <1>7
<1> HIDE DEF F
<1>9. Unrolled(F, stop, piece, next)
  BY <1>3, <1>8 DEF Unrolled
<1>10. \A i \in Nat : i >= 0 => F[i] \in Seq(Nat)
  <2>1. 0 \in Nat /\ \A i \in Nat : i >= 0 /\ ~stop[i] => piece[i] \in Seq(Nat)
    BY <1>6
  <2> QED
    BY <1>4, <1>5, <1>9, <2>1, UnrollTyped, ZenonT(60)
<1> QED
  BY <1>1, <1>10

LEMMA PairIs == \A h, l : High(h) /\ Low(l) => Paired(h, l) \in Nat
BY DEF High, Low, Paired

LEMMA Later == \A n, i \in Nat : i >= n + 1 => i > n
OBVIOUS

LEMMA UpTo == \A n, i \in Nat : i >= 1 /\ ~(i > n) => i \in 1 .. n
OBVIOUS

LEMMA Ucs2IsString ==
  ASSUME NEW data \in Seq(Byte)
  PROVE  decode_ucs2(data) \in Seq(Nat)
<1> DEFINE n == Len(data) \div 2
           unit == [i \in 1 .. n |-> 256 * data[2 * i - 1] + data[2 * i]]
           Pair(i) == High(unit[i]) /\ i < Len(unit) /\ Low(unit[i + 1])
           From(f) == [i \in Nat |->
             IF i > Len(unit) THEN <<>>
             ELSE IF Pair(i)
             THEN Utf8(Paired(unit[i], unit[i + 1])) \o f[i + 2]
             ELSE Utf8(unit[i]) \o f[i + 1]]
           stop  == [i \in Nat |-> i > Len(unit)]
           piece == [i \in Nat |->
             IF Pair(i) THEN Utf8(Paired(unit[i], unit[i + 1]))
             ELSE Utf8(unit[i])]
           next  == [i \in Nat |-> IF Pair(i) THEN i + 2 ELSE i + 1]
           F == CHOOSE f : f = From(f)
<1>1. decode_ucs2(data) = F[1]
  BY DEF decode_ucs2
<1>2. n \in Nat /\ Len(data) \in Nat
  OBVIOUS
<1>3. \A i \in 1 .. n : unit[i] \in Nat
  <2> SUFFICES ASSUME NEW i \in 1 .. n PROVE unit[i] \in Nat
    OBVIOUS
  <2>1. 2 * i - 1 \in 1 .. Len(data) /\ 2 * i \in 1 .. Len(data)
    BY <1>2, PairAt, Zenon
  <2>2. data[2 * i - 1] \in Nat /\ data[2 * i] \in Nat
    BY <2>1, ByteAt
  <2> HIDE DEF n
  <2>3. unit[i] = Wide(data[2 * i - 1], data[2 * i])
    BY DEF Wide
  <2> HIDE DEF unit
  <2> QED
    BY <2>2, <2>3, WideOctets, Zenon
<1>4. Len(unit) = n
  BY <1>2
<1> HIDE DEF unit, n
<1>5. ASSUME NEW f, NEW i \in Nat
      PROVE  From(f)[i] = IF stop[i] THEN <<>> ELSE piece[i] \o f[next[i]]
  <2> HIDE DEF Pair
  <2> QED
    OBVIOUS
<1>6. \A f : From(f) = [i \in Nat |-> IF stop[i] THEN <<>> ELSE piece[i] \o f[next[i]]]
  BY <1>5
<1>7. \A i \in Nat : i >= n + 1 => stop[i]
  <2> SUFFICES ASSUME NEW i \in Nat, i >= n + 1 PROVE stop[i]
    OBVIOUS
  <2>1. i > Len(unit)
    BY <1>2, <1>4, Later, Zenon
  <2> QED
    BY <2>1, Zenon
<1>8. \A i \in Nat : next[i] \in Nat /\ next[i] > i
  <2> HIDE DEF Pair
  <2> QED
    OBVIOUS
<1>9. \A i \in Nat : i >= 1 /\ ~stop[i] => piece[i] \in Seq(Nat)
  <2> SUFFICES ASSUME NEW i \in Nat, i >= 1, ~(i > Len(unit)) PROVE piece[i] \in Seq(Nat)
    BY Zenon
  <2>1. unit[i] \in Nat
    BY <1>2, <1>3, <1>4, UpTo, Zenon
  <2>2. CASE ~Pair(i)
    BY <2>1, <2>2, Utf8IsString, Zenon
  <2>3. CASE Pair(i)
    <3>1. Paired(unit[i], unit[i + 1]) \in Nat
      BY <2>3, PairIs, Zenon
    <3> QED
      BY <2>3, <3>1, Utf8IsString, Zenon
  <2> QED
    BY <2>2, <2>3
<1> HIDE DEF stop, piece, next, From
<1>10. n + 1 \in Nat
  BY <1>2
<1>11. \E f : f = From(f)
  <2>1. \E f : Unrolled(f, stop, piece, next)
    BY <1>7, <1>8, <1>10, UnrollExists
  <2> QED
    BY <2>1, <1>6 DEF Unrolled
<1>12. F = From(F)
  BY <1>11
<1> HIDE DEF F
<1>13. Unrolled(F, stop, piece, next)
  BY <1>6, <1>12 DEF Unrolled
<1>14. \A i \in Nat : i >= 1 => F[i] \in Seq(Nat)
  BY <1>7, <1>8, <1>9, <1>10, <1>13, UnrollTyped
<1> QED
  BY <1>1, <1>14

----------------------------------------------------------------------------
(* Strings put together *)

\* How FlattenSeq goes about it, and that the result has room for every part.
Joins(f, ss) ==
  /\ \A i \in DOMAIN ss : f[i] = IF i = 1 THEN ss[i] ELSE f[i - 1] \o ss[i]
  /\ FlattenSeq(ss) = IF ss = <<>> THEN <<>> ELSE f[Len(ss)]

LEMMA FlattenJoins ==
  ASSUME NEW S, NEW ss \in Seq(S)
  PROVE  \E f : Joins(f, ss)
<1> DEFINE n == Len(ss)
           Good(g, m) == \A i \in 1 .. n : i <= m =>
                           g[i] = IF i = 1 THEN ss[i] ELSE g[i - 1] \o ss[i]
           M == {m \in 0 .. n : ~\E g : Good(g, m)}
           From(f) == [i \in 1 .. n |-> IF i = 1 THEN ss[i] ELSE f[i - 1] \o ss[i]]
           F == CHOOSE f : f = From(f)
<1>1. n \in Nat
  OBVIOUS
<1>2. M = {}
  <2> SUFFICES ASSUME M # {} PROVE FALSE
    OBVIOUS
  <2>1. PICK m \in M : \A k \in M : m <= k
    <3>1. M \in SUBSET Nat
      OBVIOUS
    <3> HIDE DEF M
    <3> QED
      BY <3>1, HasLeast
  <2>2. m \in 0 .. n /\ ~\E g : Good(g, m)
    OBVIOUS
  <2>3. m # 0
    <3>1. Good(<<>>, 0)
      OBVIOUS
    <3> QED
      BY <2>2, <3>1
  <2>4. m - 1 \in 0 .. n /\ m - 1 < m
    BY <1>1, <2>2, <2>3
  <2>5. m - 1 \notin M
    <3> HIDE DEF M, n
    <3> QED
      BY <1>1, <2>1, <2>2, <2>4
  <2>6. PICK g : Good(g, m - 1)
    BY <2>4, <2>5
  <2> DEFINE h == [i \in 1 .. n |-> IF i = m THEN (IF i = 1 THEN ss[i] ELSE g[i - 1] \o ss[i])
                                   ELSE g[i]]
  <2>7. ASSUME NEW i \in 1 .. n, i <= m
        PROVE  h[i] = IF i = 1 THEN ss[i] ELSE h[i - 1] \o ss[i]
    <3>1. i # 1 => i - 1 \in 1 .. n /\ i - 1 # m /\ h[i - 1] = g[i - 1]
      BY <1>1, <2>2, <2>7
    <3>2. CASE i = m
      BY <3>1, <3>2
    <3>3. CASE i # m
      <4>1. i <= m - 1
        BY <2>2, <2>7, <3>3
      <4> QED
        BY <2>6, <3>1, <3>3, <4>1
    <3> QED
      BY <3>2, <3>3
  <2>8. Good(h, m)
    BY <2>7
  <2> QED
    BY <2>2, <2>8
<1>3. \E g : Good(g, n)
  <2>1. n \in 0 .. n /\ n \notin M
    BY <1>1, <1>2
  <2> HIDE DEF n
  <2> QED
    BY <2>1
<1>4. \E f : f = From(f)
  <2>1. PICK g : Good(g, n)
    BY <1>3
  <2> DEFINE f == [i \in 1 .. n |-> g[i]]
  <2>2. ASSUME NEW i \in 1 .. n PROVE f[i] = IF i = 1 THEN ss[i] ELSE f[i - 1] \o ss[i]
    <3>1. i # 1 => i - 1 \in 1 .. n
      BY <1>1
    <3> QED
      BY <2>1, <3>1
  <2>3. f = From(f)
    BY <2>2
  <2> QED
    BY <2>3
<1>5. F = From(F)
  <2> HIDE DEF From
  <2> QED
    BY <1>4
<1>6. FlattenSeq(ss) = IF Len(ss) = 0 THEN ss ELSE F[Len(ss)]
  BY DEF FlattenSeq
<1> HIDE DEF F
<1>7. \A i \in 1 .. n : F[i] = IF i = 1 THEN ss[i] ELSE F[i - 1] \o ss[i]
  BY <1>5
<1>8. Len(ss) = 0 <=> ss = <<>>
  OBVIOUS
<1> QED
  BY <1>6, <1>7, <1>8 DEF Joins

LEMMA FlattenIsString ==
  ASSUME NEW S, NEW ss \in Seq(Seq(S))
  PROVE  /\ FlattenSeq(ss) \in Seq(S)
         /\ \A k \in DOMAIN ss : Len(ss[k]) <= Len(FlattenSeq(ss))
         /\ Len(ss) = 1 => FlattenSeq(ss) = ss[1]
<1>1. PICK f : Joins(f, ss)
  BY FlattenJoins
<1> DEFINE n == Len(ss)
           Fine(i) == f[i] \in Seq(S) /\ \A k \in 1 .. i : Len(ss[k]) <= Len(f[i])
           M == {i \in 1 .. n : ~Fine(i)}
<1>2. n \in Nat /\ \A i \in 1 .. n : ss[i] \in Seq(S)
  OBVIOUS
<1>3. \A i \in 1 .. n : f[i] = IF i = 1 THEN ss[i] ELSE f[i - 1] \o ss[i]
  BY <1>1 DEF Joins
<1>4. M = {}
  <2> SUFFICES ASSUME M # {} PROVE FALSE
    OBVIOUS
  <2>1. PICK i \in M : \A k \in M : i <= k
    <3>1. M \in SUBSET Nat
      BY <1>2
    <3> HIDE DEF M
    <3> QED
      BY <3>1, HasLeast
  <2>2. i \in 1 .. n /\ ~Fine(i)
    OBVIOUS
  <2>3. CASE i = 1
    <3>1. f[i] = ss[1] /\ ss[1] \in Seq(S)
      BY <1>2, <1>3, <2>2, <2>3
    <3>2. \A k \in 1 .. i : k = 1
      BY <2>3
    <3>3. Len(ss[1]) <= Len(ss[1])
      BY <3>1, LengthIs
    <3> QED
      BY <2>2, <3>1, <3>2, <3>3, Zenon
  <2>4. CASE i # 1
    <3>1. i - 1 \in 1 .. n /\ i - 1 < i
      BY <1>2, <2>2, <2>4
    <3>2. i - 1 \notin M
      <4> HIDE DEF M, n
      <4> QED
        BY <1>2, <2>1, <2>2, <3>1
    <3>3. Fine(i - 1)
      BY <3>1, <3>2
    <3>4. f[i] = f[i - 1] \o ss[i] /\ ss[i] \in Seq(S) /\ f[i - 1] \in Seq(S)
      BY <1>2, <1>3, <2>2, <2>4, <3>3
    <3>5. /\ f[i] \in Seq(S) /\ Len(f[i]) = Len(f[i - 1]) + Len(ss[i])
          /\ Len(f[i - 1]) \in Nat /\ Len(ss[i]) \in Nat
      BY <3>4
    <3>6. ASSUME NEW k \in 1 .. i PROVE Len(ss[k]) <= Len(f[i])
      <4>1. CASE k = i
        <5>1. \A a, b \in Nat : b <= a + b
          OBVIOUS
        <5> QED
          BY <3>5, <4>1, <5>1, Zenon
      <4>2. CASE k # i
        <5>1. k \in 1 .. i - 1 /\ k \in 1 .. n
          BY <1>2, <2>2, <4>2
        <5>2. Len(ss[k]) <= Len(f[i - 1]) /\ Len(ss[k]) \in Nat
          BY <1>2, <3>3, <5>1, LengthIs, Zenon
        <5>3. \A a, b, c \in Nat : c <= a => c <= a + b
          OBVIOUS
        <5> QED
          BY <3>5, <5>2, <5>3, Zenon
      <4> QED
        BY <4>1, <4>2
    <3> QED
      BY <2>2, <3>5, <3>6
  <2> QED
    BY <2>3, <2>4
<1>5. CASE ss = <<>>
  <2>1. FlattenSeq(ss) = <<>> /\ DOMAIN ss = {} /\ Len(ss) = 0
    BY <1>1, <1>5 DEF Joins
  <2> QED
    BY <2>1
<1>6. CASE ss # <<>>
  <2>1. n \in 1 .. n /\ FlattenSeq(ss) = f[n] /\ DOMAIN ss = 1 .. n
    BY <1>1, <1>2, <1>6 DEF Joins
  <2>2. Fine(n)
    BY <1>4, <2>1
  <2>3. n = 1 => f[n] = ss[1]
    BY <1>3, <2>1
  <2> QED
    BY <2>1, <2>2, <2>3
<1> QED
  BY <1>5, <1>6

\* The texts of a group put one behind the other, and the octets of an 8-bit text.
LEMMA EightBitIsString ==
  ASSUME NEW data \in Seq(Byte)
  PROVE  decode_8bit(data) \in Seq(Nat)
<1> DEFINE ss == [i \in DOMAIN data |-> Utf8(data[i])]
<1>1. \A i \in 1 .. Len(data) : Utf8(data[i]) \in Seq(Nat)
  BY ByteAt, Utf8IsString
<1>2. DOMAIN data = 1 .. Len(data) /\ Len(data) \in Nat
  OBVIOUS
<1>3. ss \in Seq(Seq(Nat))
  BY <1>1, <1>2
<1> HIDE DEF ss
<1>4. FlattenSeq(ss) \in Seq(Nat)
  BY <1>3, FlattenIsString
<1> QED
  BY <1>4 DEF decode_8bit, ss

----------------------------------------------------------------------------
(* What sms_pdu_decode returns *)

\* What comes before the first c.
Ahead(s, c) == Before(s, LAMBDA ch : ch = c)

LEMMA AheadIs ==
  ASSUME NEW S, NEW s \in Seq(S), NEW c
  PROVE  Ahead(s, c) \in Seq(S) /\ Len(Ahead(s, c)) <= Len(s)
<1> DEFINE I == {j \in 1 .. Len(s) : s[j] = c}
           a == FirstOf(I)
<1>1. Ahead(s, c) = IF a = 0 THEN s ELSE SubSeq(s, 1, a - 1)
  BY DEF Ahead, Before, SelectInSeq, FirstOf
<1>2. I \in SUBSET (Nat \ {0})
  OBVIOUS
<1>3. a \in Nat /\ (a = 0 <=> I = {}) /\ (I # {} => a \in I)
  <2> HIDE DEF I
  <2> QED
    BY <1>2, FirstOfIs
<1>4. a \in 0 .. Len(s)
  BY <1>3
<1> HIDE DEF a
<1> QED
  BY <1>1, <1>4

\* The fields of a PDU that can be decoded are there.
LEMMA FieldsAre ==
  ASSUME NEW o \in Seq(Byte), Decodable(o)
  PROVE  /\ AddressAt(o) \in 1 .. Len(o) /\ o[AddressAt(o)] \in Nat
         /\ AddressAt(o) + AddrOctets(o) < Len(o) /\ AddrOctets(o) \in Nat
         /\ o[AddressAt(o) + 1] \in Nat
         /\ Udl(o) \in Nat
         /\ UserData(o) \in Seq(Byte)
         /\ HeaderOctets(o) \in 0 .. Len(UserData(o))
         /\ Len(UserData(o)) = UdOctets(o)
         /\ HeaderSeptets(o) \in Nat
<1>1. /\ o # <<>> /\ Len(o) > AddressAt(o) /\ Len(o) > AddressAt(o) + AddrOctets(o)
      /\ Len(o) >= UdlAt(o) /\ UdOctets(o) <= Len(o) - UdlAt(o)
      /\ HasHeader(o) => UdOctets(o) > 0 /\ HeaderOctets(o) <= UdOctets(o)
  BY DEF Decodable
<1>2. 1 \in 1 .. Len(o) /\ Len(o) \in Nat
  BY <1>1
<1>3. o[1] \in Nat
  BY <1>2, ByteAt
<1>4. AddressAt(o) \in 1 .. Len(o) /\ AddressAt(o) + 1 \in 1 .. Len(o)
  BY <1>1, <1>2, <1>3 DEF AddressAt
<1>5. o[AddressAt(o)] \in Nat /\ o[AddressAt(o) + 1] \in Nat
  BY <1>4, ByteAt
<1>6. AddrOctets(o) \in Nat
  BY <1>5 DEF AddrOctets
<1>7. UdlAt(o) \in 1 .. Len(o)
  BY <1>1, <1>2, <1>4, <1>6 DEF UdlAt, DcsAt
<1>8. Udl(o) \in Nat
  BY <1>7, ByteAt DEF Udl
<1>9. UdOctets(o) \in Nat
  <2>1. (7 * Udl(o) + 7) \div 8 \in Nat
    BY <1>8
  <2> QED
    BY <2>1, <1>8 DEF UdOctets
<1>10. UserData(o) \in Seq(Byte) /\ Len(UserData(o)) = UdOctets(o)
  <2>1. UdlAt(o) + UdOctets(o) <= Len(o)
    BY <1>1, <1>2, <1>7, <1>9
  <2> DEFINE a == UdlAt(o)
             b == UdOctets(o)
  <2>2. a \in Nat \ {0} /\ b \in Nat /\ a + b <= Len(o)
    BY <1>7, <1>9, <2>1
  <2> HIDE DEF a, b
  <2>3. SubSeq(o, a + 1, a + b) \in Seq(Byte) /\ Len(SubSeq(o, a + 1, a + b)) = b
    BY <2>2
  <2> QED
    BY <2>3 DEF UserData, a, b
<1>11. HeaderOctets(o) \in 0 .. UdOctets(o)
  <2>1. CASE HasHeader(o)
    <3>1. 1 \in 1 .. Len(UserData(o))
      BY <1>1, <1>9, <1>10, <2>1
    <3>2. UserData(o)[1] \in Nat
      BY <1>10, <3>1, ByteAt
    <3>3. HeaderOctets(o) \in Nat
      BY <2>1, <3>2 DEF HeaderOctets
    <3> QED
      BY <1>1, <1>9, <2>1, <3>3
  <2>2. CASE ~HasHeader(o)
    BY <1>9, <2>2 DEF HeaderOctets
  <2> QED
    BY <2>1, <2>2
<1>12. HeaderSeptets(o) \in Nat
  <2>1. HeaderOctets(o) \in Nat
    BY <1>9, <1>11
  <2> QED
    BY <2>1 DEF HeaderSeptets
<1> QED
  BY <1>1, <1>4, <1>5, <1>6, <1>8, <1>10, <1>11, <1>12

LEMMA TextIsString ==
  ASSUME NEW o \in Seq(Byte), Decodable(o)
  PROVE  TextIn(o) \in Seq(Nat)
<1> DEFINE data == SubSeq(UserData(o), HeaderOctets(o) + 1, UdOctets(o))
<1>1. data \in Seq(Byte)
  BY FieldsAre, TailIs
<1>2. /\ decode_gsm7(UserData(o), Udl(o), HeaderSeptets(o)) \in Seq(Nat)
      /\ decode_ucs2(data) \in Seq(Nat) /\ decode_8bit(data) \in Seq(Nat)
  <2> HIDE DEF data
  <2> QED
    BY <1>1, FieldsAre, Gsm7IsString, Ucs2IsString, EightBitIsString
<1>3. Encoding(o) \in {"gsm7", "ucs2", "8bit"}
  BY DEF Encoding, dcs_encoding
<1> HIDE DEF data
<1> QED
  BY <1>2, <1>3 DEF TextIn, data

LEMMA HalfWay == \A n \in Nat : \A i \in 1 .. n : (i + 1) \div 2 \in 1 .. (n + 1) \div 2
OBVIOUS

LEMMA HalfOctet == \A x \in Nat : Bits(x, 0, 4) \in Nat /\ Bits(x, 4, 4) \in Nat
BY DEF Bits

\* The sender fits in its array.
LEMMA SenderIs ==
  ASSUME NEW o \in Seq(Byte), Decodable(o), NEW toa \in Nat
  PROVE  /\ Sender(toa, DialledIn(o)) \in Seq(Nat) /\ Len(Sender(toa, DialledIn(o))) < SMS_SENDER_MAX
         /\ \A i \in 1 .. Len(Sender(toa, DialledIn(o))) : Sender(toa, DialledIn(o))[i] < 128
<1> DEFINE addr == SubSeq(o, AddressAt(o) + 2, Len(o))
           len  == o[AddressAt(o)]
           dialled == DialledIn(o)
           plus == IF toa >= 128 THEN <<Plus>> ELSE <<>>
           figures == [i \in DOMAIN dialled |-> 48 + dialled[i]]
<1>1. len \in Nat /\ (len + 1) \div 2 = AddrOctets(o)
  BY FieldsAre DEF AddrOctets
<1>2. addr \in Seq(Byte) /\ Len(addr) = Len(o) - AddressAt(o) - 1
  <2> DEFINE a == AddressAt(o) + 1
  <2>1. AddressAt(o) \in Nat /\ a \in 0 .. Len(o) /\ AddressAt(o) + 2 = a + 1
    BY FieldsAre, LengthIs
  <2>2. addr = SubSeq(o, a + 1, Len(o))
    BY <2>1
  <2> HIDE DEF addr, a
  <2>3. addr \in Seq(Byte) /\ Len(addr) = Len(o) - a
    BY <2>1, <2>2, TailIs
  <2> QED
    BY <2>1, <2>3, LengthIs DEF a
<1> HIDE DEF addr, len
<1>3. Nibbles(addr, len) \in Seq(Nat)
  <2>1. ASSUME NEW i \in 1 .. len
        PROVE  Bits(addr[(i + 1) \div 2], IF i % 2 = 1 THEN 0 ELSE 4, 4) \in Nat
    <3> DEFINE h == (i + 1) \div 2
    <3>1. h \in 1 .. AddrOctets(o)
      BY <1>1, HalfWay
    <3>2. h \in 1 .. Len(addr)
      <4>1. AddrOctets(o) <= Len(addr) /\ AddrOctets(o) \in Nat /\ Len(addr) \in Nat
        BY <1>2, FieldsAre, LengthIs
      <4> HIDE DEF h
      <4> QED
        BY <3>1, <4>1
    <3> HIDE DEF h
    <3>3. addr[h] \in Nat
      BY <1>2, <3>2, ByteAt
    <3>4. CASE i % 2 = 1
      BY <3>3, <3>4, HalfOctet DEF h
    <3>5. CASE i % 2 # 1
      BY <3>3, <3>5, HalfOctet DEF h
    <3> QED
      BY <3>4, <3>5
  <2> QED
    BY <1>1, <2>1 DEF Nibbles
<1>4. dialled \in Seq(Nat)
  <2>1. dialled = Ahead(Nibbles(addr, len), 15)
    BY DEF DialledIn, Dialled, Ahead, addr, len
  <2> QED
    BY <1>3, <2>1, AheadIs
<1>11. \A i \in DOMAIN dialled : dialled[i] <= 9
  BY DEF Decodable
<1> HIDE DEF dialled
<1>5. figures \in Seq(0 .. 127)
  <2>1. DOMAIN dialled = 1 .. Len(dialled) /\ Len(dialled) \in Nat
    BY <1>4
  <2>2. ASSUME NEW i \in 1 .. Len(dialled) PROVE 48 + dialled[i] \in 0 .. 127
    <3> DEFINE d == dialled[i]
    <3>1. d \in Nat /\ d <= 9
      BY <1>4, <1>11, <2>1
    <3> HIDE DEF d
    <3>2. 48 + d \in 0 .. 127
      BY <3>1
    <3> QED
      BY <3>2 DEF d
  <2> DEFINE f == [i \in 1 .. Len(dialled) |-> 48 + dialled[i]]
             S == 0 .. 127
  <2>3. figures = f /\ \A i \in 1 .. Len(dialled) : f[i] \in S
    BY <2>1, <2>2
  <2>4. f = [i \in 1 .. Len(dialled) |-> f[i]]
    OBVIOUS
  <2> HIDE DEF f, S
  <2>5. [i \in 1 .. Len(dialled) |-> f[i]] \in Seq(S)
    BY <2>1, <2>3, ListOf
  <2> QED
    BY <2>3, <2>4, <2>5 DEF S
<1>6. plus \in Seq(0 .. 127)
  <2>1. Plus \in 0 .. 127
    BY DEF Plus
  <2>2. <<Plus>> \in Seq(0 .. 127) /\ <<>> \in Seq(0 .. 127)
    BY <2>1
  <2> QED
    BY <2>2
<1>7. SMS_SENDER_MAX \in Nat \ {0}
  BY PathAssumption
<1>8. Sender(toa, dialled) = Fits(plus \o figures, SMS_SENDER_MAX)
  BY DEF Sender
<1> HIDE DEF plus, figures
<1>9. plus \o figures \in Seq(0 .. 127)
  BY <1>5, <1>6
<1> DEFINE s == Fits(plus \o figures, SMS_SENDER_MAX)
<1>10. s \in Seq(0 .. 127) /\ Len(s) < SMS_SENDER_MAX
  BY <1>7, <1>9, FitsIs
<1> HIDE DEF s
<1>12. s \in Seq(Nat) /\ \A i \in 1 .. Len(s) : s[i] < 128
  <2>1. \A i \in 1 .. Len(s) : s[i] \in 0 .. 127
    <3> DEFINE S == 0 .. 127
    <3>1. s \in Seq(S)
      BY <1>10
    <3> HIDE DEF S
    <3>2. \A i \in 1 .. Len(s) : s[i] \in S
      BY <3>1
    <3> QED
      BY <3>2 DEF S
  <2>2. \A x \in 0 .. 127 : x \in Nat /\ x < 128
    OBVIOUS
  <2>3. \A i \in 1 .. Len(s) : s[i] \in Nat /\ s[i] < 128
    BY <2>1, <2>2, Zenon
  <2> QED
    BY <1>10, <2>3, StringOf
<1> QED
  BY <1>8, <1>10, <1>12 DEF dialled, s

\* Of a set of indices there is a last one.
LEMMA LastIn ==
  ASSUME NEW n \in Nat, NEW I \in SUBSET (1 .. n), I # {}
  PROVE  Max(I) \in I
<1> DEFINE F == {n - i : i \in I}
<1>1. F \in SUBSET Nat /\ F # {}
  <2>1. \A i \in I : n - i \in Nat
    OBVIOUS
  <2>2. PICK i \in I : TRUE
    OBVIOUS
  <2> QED
    BY <2>1, <2>2
<1>2. PICK m \in F : \A k \in F : m <= k
  <2> HIDE DEF F
  <2> QED
    BY <1>1, HasLeast
<1>3. PICK i \in I : m = n - i
  OBVIOUS
<1>4. ASSUME NEW j \in I PROVE i >= j
  <2>1. n - i <= n - j
    BY <1>2, <1>3
  <2>2. i \in Nat /\ j \in Nat
    OBVIOUS
  <2> QED
    BY <2>1, <2>2
<1> QED
  BY <1>4 DEF Max

\* The information elements of a header.
Element == [iei : Byte, data : Seq(Byte)]

LEMMA ElementsAre ==
  ASSUME NEW udh \in Seq(Byte)
  PROVE  Elements(udh) \in Seq(Element)
<1> DEFINE n == Len(udh)
           stop  == [i \in Nat |-> i + 1 > n \/ i + 1 + udh[i + 1] > n]
           piece == [i \in Nat |->
             <<[iei |-> udh[i], data |-> SubSeq(udh, i + 2, i + 1 + udh[i + 1])]>>]
           next  == [i \in Nat |-> i + 2 + udh[i + 1]]
           From(f) == [i \in Nat |->
             IF i + 1 > Len(udh) \/ i + 1 + udh[i + 1] > Len(udh) THEN <<>>
             ELSE <<[iei |-> udh[i], data |-> SubSeq(udh, i + 2, i + 1 + udh[i + 1])]>>
                    \o f[i + 2 + udh[i + 1]]]
           F == CHOOSE f : f = From(f)
<1>1. Elements(udh) = F[2]
  BY DEF Elements
<1>2. \A f : From(f) = [i \in Nat |-> IF stop[i] THEN <<>> ELSE piece[i] \o f[next[i]]]
  OBVIOUS
<1>3. n \in Nat
  OBVIOUS
<1>4. \A i \in Nat : i >= n => stop[i]
  <2>1. \A k, i \in Nat : i >= k => i + 1 > k
    OBVIOUS
  <2> HIDE DEF n
  <2>2. \A i \in Nat : i >= n => i + 1 > n
    BY <1>3, <2>1
  <2> QED
    BY <2>2, Zenon
<1>5. ASSUME NEW i \in Nat, ~stop[i]
      PROVE  /\ next[i] \in Nat /\ next[i] > i
             /\ i >= 2 => piece[i] \in Seq(Element)
  <2>1. ~(i + 1 > n) /\ ~(i + 1 + udh[i + 1] > n)
    BY <1>5
  <2>2. i + 1 \in 1 .. n
    BY <1>3, <2>1
  <2>3. udh[i + 1] \in Nat
    BY <2>2, ByteAt
  <2> DEFINE d == udh[i + 1]
  <2>4. d \in Nat /\ i + 1 + d <= n
    BY <1>3, <2>1, <2>3
  <2>5. next[i] = i + 2 + d
    OBVIOUS
  <2>6. piece[i] = <<[iei |-> udh[i], data |-> SubSeq(udh, i + 2, i + 1 + d)]>>
    OBVIOUS
  <2> HIDE DEF d, stop, piece, next, From
  <2>7. next[i] \in Nat /\ next[i] > i
    BY <2>4, <2>5
  <2>8. ASSUME i >= 2 PROVE piece[i] \in Seq(Element)
    <3>1. i \in 1 .. Len(udh)
      BY <2>2, <2>8
    <3>2. udh[i] \in Byte
      BY <3>1, ByteAt
    <3>3. SubSeq(udh, i + 2, i + 1 + d) \in Seq(Byte)
      BY <1>3, <2>4
    <3>4. [iei |-> udh[i], data |-> SubSeq(udh, i + 2, i + 1 + d)] \in Element
      BY <3>2, <3>3, Zenon DEF Element
    <3> QED
      BY <2>6, <3>4
  <2> QED
    BY <2>7, <2>8
<1> HIDE DEF stop, piece, next, From, n
<1>6. \E f : f = From(f)
  <2>1. \E f : Unrolled(f, stop, piece, next)
    BY <1>3, <1>4, <1>5, UnrollExists
  <2> QED
    BY <2>1, <1>2 DEF Unrolled
<1>7. F = From(F)
  BY <1>6
<1> HIDE DEF F
<1>8. Unrolled(F, stop, piece, next)
  BY <1>2, <1>7 DEF Unrolled
<1>9. \A i \in Nat : i >= 2 => F[i] \in Seq(Element)
  BY <1>3, <1>4, <1>5, <1>8, UnrollTyped
<1> QED
  BY <1>1, <1>9

\* Where a header says its message's part belongs.
Place == [ref : Nat, part : Nat, total : Nat]

LEMMA PlaceIs ==
  ASSUME NEW udh \in Seq(Byte)
  PROVE  parse_udh(udh) \in Place
<1> DEFINE es == Elements(udh)
           I == {i \in 1 .. Len(es) : ShortRef(es[i]) \/ LongRef(es[i])}
<1>1. es \in Seq(Element)
  BY ElementsAre
<1>2. parse_udh(udh) = IF I # {} THEN PlaceOf(es[Max(I)]) ELSE Alone
  <2> DEFINE i == IF I # {} THEN Max(I) ELSE 0
  <2>1. parse_udh(udh) = IF i = 0 THEN Alone ELSE PlaceOf(es[i])
    BY DEF parse_udh, SelectLastInSeq
  <2>2. I # {} => Max(I) \in I
    <3>1. Len(es) \in Nat /\ I \in SUBSET (1 .. Len(es))
      BY <1>1
    <3> HIDE DEF I
    <3> QED
      BY <3>1, LastIn
  <2>3. I # {} => Max(I) # 0
    BY <2>2
  <2> HIDE DEF I, es
  <2> QED
    BY <2>1, <2>3
<1>3. CASE I = {}
  BY <1>2, <1>3 DEF Alone, Place
<1>4. CASE I # {}
  <2> DEFINE e == es[Max(I)]
  <2>1. Max(I) \in I
    <3>1. Len(es) \in Nat /\ I \in SUBSET (1 .. Len(es))
      BY <1>1
    <3> HIDE DEF I
    <3> QED
      BY <1>4, <3>1, LastIn
  <2>2. Max(I) \in 1 .. Len(es) /\ (ShortRef(e) \/ LongRef(e))
    BY <2>1
  <2>3. e \in Element
    <3> HIDE DEF I, es
    <3> QED
      BY <1>1, <2>2
  <2>4. parse_udh(udh) = PlaceOf(e)
    BY <1>2, <1>4
  <2> HIDE DEF e
  <2>5. e.data \in Seq(Byte)
    BY <2>3 DEF Element
  <2>6. CASE ShortRef(e)
    <3>1. Len(e.data) = 3
      BY <2>6 DEF ShortRef
    <3>2. 1 \in 1 .. Len(e.data) /\ 2 \in 1 .. Len(e.data) /\ 3 \in 1 .. Len(e.data)
      BY <3>1
    <3>3. e.data[1] \in Nat /\ e.data[2] \in Nat /\ e.data[3] \in Nat
      BY <2>5, <3>2, ByteAt
    <3> QED
      BY <2>4, <2>6, <3>3 DEF PlaceOf, Place
  <2>7. CASE ~ShortRef(e)
    <3>1. Len(e.data) = 4
      BY <2>2, <2>7 DEF LongRef, e
    <3>2. /\ 1 \in 1 .. Len(e.data) /\ 2 \in 1 .. Len(e.data)
          /\ 3 \in 1 .. Len(e.data) /\ 4 \in 1 .. Len(e.data)
      BY <3>1
    <3>3. /\ e.data[1] \in Nat /\ e.data[2] \in Nat
          /\ e.data[3] \in Nat /\ e.data[4] \in Nat
      BY <2>5, <3>2, ByteAt
    <3>4. Wide(e.data[1], e.data[2]) \in Nat
      BY <3>3, WideOctets, Zenon
    <3> QED
      BY <2>4, <2>7, <3>3, <3>4 DEF PlaceOf, Place, Wide
  <2> QED
    BY <2>6, <2>7
<1> QED
  BY <1>3, <1>4

----------------------------------------------------------------------------
(* What a notification is decoded to *)

\* Nothing but digits is taken from it.
LEMMA HexIsRead ==
  ASSUME NEW urc \in Seq(Nat)
  PROVE  HexIn(urc, RESP_SIZE) \in Seq(0 .. 15)
<1> DEFINE line == AfterHeader(urc)
           s == SubSeq(line, HexStart(line), Len(line))
           t == IF HexEnd(s) = 0 THEN s ELSE SubSeq(s, 1, HexEnd(s) - 1)
<1>1. HexIn(urc, RESP_SIZE) = IF HexStart(line) = 0 THEN <<>> ELSE Fits(t, RESP_SIZE)
  BY HexInIs
<1>2. line \in Seq(Nat)
  <2>1. line = Rest(Rest(urc, Tag), Newline)
    BY DEF AfterHeader, Rest
  <2>2. Rest(urc, Tag) \in Seq(Nat)
    BY RestIs
  <2> QED
    BY <2>1, <2>2, RestIs
<1> HIDE DEF line
<1>3. CASE HexStart(line) = 0
  BY <1>1, <1>3
<1>4. CASE HexStart(line) # 0
  <2>1. HexStart(line) \in 1 .. Len(line)
    <3> DEFINE I == {i \in 1 .. Len(line) : line[i] \notin {Newline, Blank}}
    <3>1. I \in SUBSET (Nat \ {0}) /\ HexStart(line) = FirstOf(I)
      BY DEF HexStart
    <3>2. HexStart(line) \in I
      <4> HIDE DEF I
      <4> QED
        BY <1>4, <3>1, FirstOfIs
    <3> QED
      BY <3>2
  <2>2. s \in Seq(Nat)
    BY <1>2, <2>1
  <2> HIDE DEF s
  <2> DEFINE E == {i \in 1 .. Len(s) : ~IsHex(s[i])}
             e == HexEnd(s)
  <2>3. /\ e \in Nat /\ (e = 0 <=> E = {})
        /\ E # {} => e \in E /\ \A i \in E : e <= i
    <3>1. E \in SUBSET (Nat \ {0}) /\ e = FirstOf(E)
      BY DEF HexEnd
    <3> HIDE DEF E, e
    <3> QED
      BY <3>1, FirstOfIs
  <2> HIDE DEF e
  <2>4. t = IF e = 0 THEN s ELSE SubSeq(s, 1, e - 1)
    BY DEF e
  <2> HIDE DEF t
  <2>5. \A i \in 1 .. Len(s) : IsHex(s[i]) => s[i] \in 0 .. 15
    <3>1. \A i \in 1 .. Len(s) : s[i] \in Nat
      BY <2>2
    <3> QED
      BY <3>1, HexIs, Zenon
  <2>6. t \in Seq(0 .. 15)
    <3>1. CASE e = 0
      <4>1. \A i \in 1 .. Len(s) : s[i] \in 0 .. 15
        BY <2>3, <2>5, <3>1
      <4>2. s \in Seq(0 .. 15)
        BY <2>2, <4>1, StringOf
      <4> QED
        BY <2>4, <3>1, <4>2
    <3>2. CASE e # 0
      <4>1. e \in 1 .. Len(s) /\ \A i \in E : e <= i
        BY <2>3, <3>2
      <4>2. \A i \in 1 .. e - 1 : i \in 1 .. Len(s) /\ i \notin E
        BY <2>2, <4>1
      <4>3. \A i \in 1 .. e - 1 : s[i] \in 0 .. 15
        BY <2>5, <4>2
      <4>4. Len(s) \in Nat /\ e - 1 \in Nat /\ e - 1 <= Len(s)
        BY <2>2, <4>1
      <4> HIDE DEF E
      <4>5. SubSeq(s, 1, e - 1) = [i \in 1 .. e - 1 |-> s[i]]
        BY <2>2, <4>4
      <4>6. [i \in 1 .. e - 1 |-> s[i]] \in Seq(0 .. 15)
        BY <4>3, <4>4, ListOf
      <4> QED
        BY <2>4, <3>2, <4>5, <4>6
    <3> QED
      BY <3>1, <3>2
  <2>7. RESP_SIZE \in Nat \ {0}
    BY PathAssumption
  <2>8. Fits(t, RESP_SIZE) \in Seq(0 .. 15)
    BY <2>6, <2>7, FitsIs
  <2> QED
    BY <1>1, <1>4, <2>8
<1> QED
  BY <1>3, <1>4

\* Its sender and its text fit in their arrays, and it has a place.
LEMMA DecodedIs ==
  ASSUME NEW urc \in Seq(Nat), Decoded(urc) # NoItem
  PROVE  /\ Decoded(urc).sender \in Seq(Nat) /\ Len(Decoded(urc).sender) < SMS_SENDER_MAX
         /\ \A i \in 1 .. Len(Decoded(urc).sender) : Decoded(urc).sender[i] < 128
         /\ Decoded(urc).text \in Seq(Nat) /\ Len(Decoded(urc).text) < SMS_TEXT_MAX
         /\ Decoded(urc).place \in Place
<1> DEFINE o == sms_pdu_extract(urc, RESP_SIZE)
           hex == HexIn(urc, RESP_SIZE)
<1>1. Decodable(o) /\ Decoded(urc) = sms_pdu_decode(o)
  BY DEF Decoded
<1>2. o \in Seq(Byte)
  <2>1. o = OctetsOf(hex)
    BY DEF sms_pdu_extract, OctetsOf
  <2>2. hex \in Seq(0 .. 15)
    BY HexIsRead
  <2> HIDE DEF hex
  <2>3. hex \in Seq(Nat) /\ \A i \in 1 .. Len(hex) : hex[i] < 16
    <3>1. \A i \in 1 .. Len(hex) : hex[i] \in 0 .. 15
      BY <2>2
    <3>2. \A x \in 0 .. 15 : x \in Nat /\ x < 16
      OBVIOUS
    <3>3. \A i \in 1 .. Len(hex) : hex[i] \in Nat /\ hex[i] < 16
      BY <3>1, <3>2, Zenon
    <3> QED
      BY <2>2, <3>3, StringOf
  <2> QED
    BY <2>1, <2>3, OctetsAre
<1> HIDE DEF o
<1>3. /\ sms_pdu_decode(o).sender = Sender(o[AddressAt(o) + 1], DialledIn(o))
      /\ sms_pdu_decode(o).text = CString(Fits(TextIn(o), SMS_TEXT_MAX))
      /\ sms_pdu_decode(o).place =
           IF HasHeader(o) THEN parse_udh(SubSeq(UserData(o), 1, HeaderOctets(o))) ELSE Alone
  BY DEF sms_pdu_decode
<1>4. /\ sms_pdu_decode(o).sender \in Seq(Nat)
      /\ Len(sms_pdu_decode(o).sender) < SMS_SENDER_MAX
      /\ \A i \in 1 .. Len(sms_pdu_decode(o).sender) : sms_pdu_decode(o).sender[i] < 128
  BY <1>1, <1>2, <1>3, FieldsAre, SenderIs
<1>5. /\ sms_pdu_decode(o).text \in Seq(Nat)
      /\ Len(sms_pdu_decode(o).text) < SMS_TEXT_MAX
  <2> DEFINE t == Fits(TextIn(o), SMS_TEXT_MAX)
  <2>1. SMS_TEXT_MAX \in Nat \ {0}
    BY PathAssumption
  <2>2. t \in Seq(Nat) /\ Len(t) < SMS_TEXT_MAX
    BY <1>1, <1>2, <2>1, TextIsString, FitsIs
  <2> HIDE DEF t
  <2>3. CString(t) \in Seq(Nat) /\ Len(CString(t)) <= Len(t)
    <3>1. CString(t) = Ahead(t, 0)
      BY DEF CString, Ahead
    <3> QED
      BY <2>2, <3>1, AheadIs
  <2>4. Len(CString(t)) < SMS_TEXT_MAX
    <3>1. Len(CString(t)) \in Nat /\ Len(t) \in Nat
      BY <2>2, <2>3, LengthIs
    <3> QED
      BY <2>1, <2>2, <2>3, <3>1
  <2> QED
    BY <1>3, <2>3, <2>4 DEF t
<1>6. sms_pdu_decode(o).place \in Place
  <2>1. Alone \in Place
    BY DEF Alone, Place
  <2>2. SubSeq(UserData(o), 1, HeaderOctets(o)) \in Seq(Byte)
    BY <1>1, <1>2, FieldsAre
  <2>3. parse_udh(SubSeq(UserData(o), 1, HeaderOctets(o))) \in Place
    BY <2>2, PlaceIs
  <2> QED
    BY <1>3, <2>1, <2>3
<1> QED
  BY <1>1, <1>4, <1>5, <1>6

----------------------------------------------------------------------------
(* The groups of the cache *)

FitSenders == {s \in Seq(Nat) : Len(s) < SMS_SENDER_MAX /\ \A i \in 1 .. Len(s) : s[i] < 128}
ShortParts == {p \in KeptParts : Len(p.text) < SMS_PART_TEXT_MAX /\ p.sender \in FitSenders}
Shape ==
  [used : BOOLEAN, ref : Nat, sender : FitSenders \cup {NoItem}, total : 0 .. SMS_CONCAT_MAX_PARTS,
   received : Nat, first : {0}, parts : [Cache!Places -> ShortParts \cup {NoItem}]]
Group == {g \in Shape : g.used => g.sender \in FitSenders}

LEMMA Sizes ==
  /\ SMS_TEXT_MAX \in Nat \ {0} /\ SMS_PART_TEXT_MAX \in Nat \ {0}
  /\ SMS_SENDER_MAX \in Nat \ {0} /\ SMS_CONCAT_MAX_PARTS \in Nat \ {0}
  /\ BODY_SIZE \in Nat \ {0}
BY PathAssumption

LEMMA EmptyIsGroup == Cache!EmptyGroup \in Group
BY Sizes DEF Cache!EmptyGroup, Group, Shape

LEMMA NoPartIsNoItem == \A p \in KeptParts : p # NoItem
BY PathAssumption

LEMMA NoItemIsNoItem == \A it \in Items : it # NoItem
BY PathAssumption

\* A decoded part, cut to the size of its array.
LEMMA CachePartIs ==
  ASSUME NEW d, d.sender \in FitSenders, d.text \in Seq(Nat), d.place \in Place
  PROVE  CachePart(d) \in ShortParts /\ CachePart(d).total = d.place.total
<1>1. PartText(d.text) \in Seq(Nat) /\ Len(PartText(d.text)) < SMS_PART_TEXT_MAX
  BY Sizes, FitsIs DEF PartText
<1>2. d.place.ref \in Nat /\ d.place.part \in Nat /\ d.place.total \in Nat
  BY DEF Place
<1>3. /\ CachePart(d) \in KeptParts /\ CachePart(d).text = PartText(d.text)
      /\ CachePart(d).sender = d.sender
  BY <1>1, <1>2 DEF CachePart, KeptParts, FitSenders
<1>4. CachePart(d).total = d.place.total
  BY DEF CachePart
<1> QED
  BY <1>1, <1>3, <1>4 DEF ShortParts

\* A part's group is one, with it or without.
LEMMA StoredIsGroup ==
  ASSUME NEW g \in Group, NEW p \in ShortParts
  PROVE  Cache!Store(g, p) \in Group
<1>1. CASE p.part \notin Cache!Places \/ g.parts[p.part] # NoItem
  BY <1>1 DEF Cache!Store
<1>2. CASE p.part \in Cache!Places /\ g.parts[p.part] = NoItem
  <2>1. Cache!Store(g, p) = [g EXCEPT !.parts[p.part] = p, !.received = @ + 1]
    BY <1>2 DEF Cache!Store
  <2>2. [g.parts EXCEPT ![p.part] = p] \in [Cache!Places -> ShortParts \cup {NoItem}]
    BY DEF Group, Shape
  <2>3. g.received + 1 \in Nat
    BY DEF Group, Shape
  <2> QED
    BY <2>1, <2>2, <2>3 DEF Group, Shape
<1> QED
  BY <1>1, <1>2

LEMMA NewIsGroup ==
  ASSUME NEW p \in ShortParts
  PROVE  Cache!NewGroup(p, 0) \in Group
<1>1. p.ref \in Nat /\ p.sender \in FitSenders /\ p.total \in Nat
  BY DEF ShortParts, KeptParts
<1>2. (IF p.total > SMS_CONCAT_MAX_PARTS THEN SMS_CONCAT_MAX_PARTS ELSE p.total)
        \in 0 .. SMS_CONCAT_MAX_PARTS
  BY <1>1, Sizes
<1> QED
  BY <1>1, <1>2, EmptyIsGroup DEF Cache!NewGroup, Group, Shape

LEMMA WithPartIsGroup ==
  ASSUME NEW c \in [Cache!GroupIds -> Group], NEW p \in ShortParts
  PROVE  /\ Cache!WithPart(c, p, 0) \in Group
         /\ Cache!CacheAfter(c, p, 0) \in [Cache!GroupIds -> Group]
<1>1. Cache!WithPart(c, p, 0) \in Group
  <2> DEFINE i == Cache!Target(c, p)
  <2>1. i \in Cache!Matching(c, p) => c[i] \in Group
    BY DEF Cache!Matching
  <2>2. Cache!WithPart(c, p, 0)
          = Cache!Store(IF i \in Cache!Matching(c, p) THEN c[i] ELSE Cache!NewGroup(p, 0), p)
    BY DEF Cache!WithPart
  <2> HIDE DEF i
  <2> QED
    BY <2>1, <2>2, NewIsGroup, StoredIsGroup
<1> QED
  BY <1>1, EmptyIsGroup DEF Cache!CacheAfter

\* The text made of a group fits in its array.
LEMMA MarkIs == \A k \in Nat : Mark(k) \in Seq(Nat)
<1> SUFFICES ASSUME NEW k \in Nat PROVE Mark(k) \in Seq(Nat)
  OBVIOUS
<1>1. 48 + (k \div 10) \in Nat /\ 48 + (k % 10) \in Nat
  OBVIOUS
<1>2. Decimal(k) \in Seq(Nat)
  BY <1>1 DEF Decimal
<1> DEFINE head == <<91>> \o <<231, 188, 186>> \o <<229, 164, 177>> \o <<229, 136, 134>>
                      \o <<230, 174, 181>>
<1>3. head \in Seq(Nat) /\ <<93>> \in Seq(Nat)
  OBVIOUS
<1>4. Mark(k) = head \o Decimal(k) \o <<93>>
  BY DEF Mark
<1> HIDE DEF head
<1> QED
  BY <1>2, <1>3, <1>4

Pieces(g) ==
  [k \in DOMAIN Cache!Assemble(g) |->
     IF Cache!Assemble(g)[k] = NoItem THEN Mark(k) ELSE Cache!Assemble(g)[k].text]

LEMMA PiecesAre ==
  ASSUME NEW g \in Group
  PROVE  /\ Pieces(g) = [k \in 1 .. g.total |->
                           IF g.parts[k] = NoItem THEN Mark(k) ELSE g.parts[k].text]
         /\ Pieces(g) \in Seq(Seq(Nat))
         /\ AssembledText(g) = Fits(FlattenSeq(Pieces(g)), SMS_TEXT_MAX)
<1>1. Pieces(g) = [k \in 1 .. g.total |->
                     IF g.parts[k] = NoItem THEN Mark(k) ELSE g.parts[k].text]
  BY DEF Pieces, Cache!Assemble
<1>2. g.total \in Nat /\ \A k \in 1 .. g.total : k \in Nat /\ k \in Cache!Places
  BY Sizes DEF Group, Shape, Cache!Places
<1>3. \A k \in 1 .. g.total : g.parts[k] # NoItem => g.parts[k].text \in Seq(Nat)
  <2>1. \A k \in Cache!Places : g.parts[k] \in ShortParts \cup {NoItem}
    BY DEF Group, Shape
  <2> QED
    BY <1>2, <2>1 DEF ShortParts, KeptParts
<1>4. \A k \in 1 .. g.total :
        (IF g.parts[k] = NoItem THEN Mark(k) ELSE g.parts[k].text) \in Seq(Nat)
  BY <1>2, <1>3, MarkIs
<1>5. Pieces(g) \in Seq(Seq(Nat))
  <2>1. Pieces(g) = [k \in 1 .. g.total |-> Pieces(g)[k]]
    BY <1>1, Zenon
  <2>2. \A k \in 1 .. g.total : Pieces(g)[k] \in Seq(Nat)
    BY <1>1, <1>4, Zenon
  <2>3. [k \in 1 .. g.total |-> Pieces(g)[k]] \in Seq(Seq(Nat))
    BY <1>2, <2>2, ListOf, Zenon
  <2> QED
    BY <2>1, <2>3, Zenon
<1>6. AssembledText(g) = Fits(FlattenSeq(Pieces(g)), SMS_TEXT_MAX)
  BY DEF AssembledText, Pieces
<1> QED
  BY <1>1, <1>5, <1>6

LEMMA AssembledIs ==
  ASSUME NEW g \in Group
  PROVE  AssembledText(g) \in Seq(Nat) /\ Len(AssembledText(g)) < SMS_TEXT_MAX
<1>1. FlattenSeq(Pieces(g)) \in Seq(Nat)
  BY PiecesAre, FlattenIsString
<1> QED
  BY <1>1, Sizes, PiecesAre, FitsIs

----------------------------------------------------------------------------
(* Types *)

PathInv == PTypeOK /\ cache \in [Cache!GroupIds -> Group] /\ item \in Items \cup {NoItem}

\* What is sent on is an item that fits.
FitItem(it) ==
  it \in Items /\ Len(it.text) < SMS_TEXT_MAX /\ Len(it.sender) < SMS_SENDER_MAX

LEMMA CacheShape ==
  ASSUME NEW c \in [Cache!GroupIds -> Group]
  PROVE  \A i \in Cache!GroupIds : \A k \in Cache!Places :
           c[i].parts[k] # NoItem => Len(c[i].parts[k].text) < SMS_PART_TEXT_MAX
BY DEF Group, Shape, ShortParts

LEMMA SmsItemFits ==
  ASSUME NEW sender \in FitSenders, NEW text \in Seq(Nat), Len(text) < SMS_TEXT_MAX
  PROVE  FitItem(SmsItem(sender, text))
BY DEF SmsItem, FitItem, Items, FitSenders

\* The type invariant holds at first.
LEMMA PathInit == PInit => PathInv
<1> SUFFICES ASSUME PInit PROVE PathInv
  OBVIOUS
<1>1. cache \in [Cache!GroupIds -> Group]
  BY EmptyIsGroup DEF PInit
<1>2. Len(body) < BODY_SIZE
  BY Sizes DEF PInit
<1>3. left \subseteq DOMAIN msg /\ heard.part = 0 /\ item = NoItem /\ stage = "none"
  BY DEF PInit, Silence
<1> QED
  BY <1>1, <1>2, <1>3, CacheShape DEF PathInv, PTypeOK, PInit

\* handle_decoded_sms, of something decoded.
LEMMA HandledTyped ==
  ASSUME PathInv, stage = "none",
         NEW d, d.sender \in FitSenders,
         d.text \in Seq(Nat), Len(d.text) < SMS_TEXT_MAX, d.place \in Place,
         Handled(d)
  PROVE  /\ cache' \in [Cache!GroupIds -> Group]
         /\ \/ UNCHANGED <<item, expired, stage>>
            \/ FitItem(item') /\ item' \in Items /\ stage' = "queued" /\ expired' = FALSE
<1> DEFINE p == CachePart(d)
           g == Cache!WithPart(cache, p, 0)
<1>1. CASE d.place.total <= 1 \/ d.place.part <= 0
  <2>1. Queued(SmsItem(d.sender, d.text), FALSE) /\ UNCHANGED cache
    BY <1>1 DEF Handled
  <2> QED
    BY <2>1, SmsItemFits DEF Queued, PathInv, FitItem
<1>2. CASE ~(d.place.total <= 1 \/ d.place.part <= 0)
  <2>1. /\ cache' = Cache!CacheAfter(cache, p, 0)
        /\ IF Cache!Complete(g) THEN Queued(SmsItem(d.sender, AssembledText(g)), FALSE)
           ELSE UNCHANGED <<item, expired, stage>>
    BY <1>2 DEF Handled
  <2>2. g \in Group /\ cache' \in [Cache!GroupIds -> Group]
    BY <2>1, CachePartIs, WithPartIsGroup DEF PathInv
  <2>3. AssembledText(g) \in Seq(Nat) /\ Len(AssembledText(g)) < SMS_TEXT_MAX
    BY <2>2, AssembledIs
  <2>4. FitItem(SmsItem(d.sender, AssembledText(g)))
    BY <2>3, SmsItemFits
  <2> QED
    BY <2>1, <2>2, <2>4 DEF Queued, FitItem
<1> QED
  BY <1>1, <1>2

\* Of a message the first n characters are a string.
LEMMA StartOf ==
  ASSUME NEW S, NEW s \in Seq(S), NEW n \in 0 .. Len(s)
  PROVE  SubSeq(s, 1, n) \in Seq(S) /\ (n = Len(s) => SubSeq(s, 1, n) = s)
OBVIOUS

LEMMA EntriesAre == \A S : \A s \in Seq(S) : \A k \in DOMAIN s : s[k] \in S
OBVIOUS

LEMMA MessageParts ==
  ASSUME NEW m \in Messages
  PROVE  /\ m \in Seq(SentPart) /\ m # <<>>
         /\ \A k \in DOMAIN m : m[k].urc \in Seq(Nat) /\ Said(m[k]) \in Seq(Nat)
<1>1. m \in Seq(SentPart) /\ m # <<>>
  BY PathAssumption
<1>2. \A k \in DOMAIN m : m[k] \in SentPart
  BY <1>1, Zenon, EntriesAre
<1>3. ASSUME NEW s \in SentPart PROVE s.urc \in Seq(Nat) /\ Said(s) \in Seq(Nat)
  <2>1. s.urc \in Seq(Nat) /\ s.text \in Seq(Nat)
    BY DEF SentPart
  <2>2. Said(s) = Ahead(s.text, 0)
    BY DEF Said, CString, Ahead
  <2> QED
    BY <2>1, <2>2, AheadIs
<1> QED
  BY <1>1, <1>2, <1>3

\* A part that comes is one of a message.
LEMMA PartThatComes ==
  ASSUME PathInv, NEW k \in left
  PROVE  msg \in Messages /\ k \in DOMAIN msg /\ msg[k].urc \in Seq(Nat)
<1>1. k \in DOMAIN msg /\ msg \in Messages \cup {<<>>}
  BY DEF PathInv, PTypeOK
<1>2. DOMAIN <<>> = {}
  OBVIOUS
<1> QED
  BY <1>1, <1>2, MessageParts

\* Every step keeps the types.
LEMMA PathStep == PathInv /\ [PNext]_pvars => PathInv'
<1> SUFFICES ASSUME PathInv, [PNext]_pvars PROVE PathInv'
  OBVIOUS
<1>1. /\ msg \in Messages \cup {<<>>} /\ left \subseteq DOMAIN msg
      /\ heard.part \in DOMAIN msg \cup {0}
      /\ stage \in {"none", "queued", "posted", "pushed", "toolong", "notjson"}
      /\ expired \in BOOLEAN
      /\ stage = "none" <=> item = NoItem
      /\ item # NoItem => Len(item.text) < SMS_TEXT_MAX /\ Len(item.sender) < SMS_SENDER_MAX
      /\ cache \in [Cache!GroupIds -> Group] /\ item \in Items \cup {NoItem}
      /\ Len(body) < BODY_SIZE
  BY DEF PathInv, PTypeOK
\* What has to be shown of the variables a step changes.
<1>2. ASSUME msg' = msg, left' \subseteq left, heard'.part \in DOMAIN msg \cup {0},
             cache' \in [Cache!GroupIds -> Group],
             \/ item' = item /\ stage' = stage
             \/ FitItem(item') /\ stage' \in {"queued", "posted", "pushed", "toolong", "notjson"}
             \/ item' = NoItem /\ stage' = "none",
             expired' \in BOOLEAN, Len(body') < BODY_SIZE
      PROVE  PathInv'
  <2>1. item' \in Items \cup {NoItem} /\ (stage' = "none" <=> item' = NoItem)
    BY <1>1, <1>2, NoItemIsNoItem DEF FitItem
  <2>2. item' # NoItem => Len(item'.text) < SMS_TEXT_MAX /\ Len(item'.sender) < SMS_SENDER_MAX
    BY <1>1, <1>2 DEF FitItem
  <2>3. stage' \in {"none", "queued", "posted", "pushed", "toolong", "notjson"}
    BY <1>1, <1>2
  <2>4. \A i \in Cache!GroupIds : \A k \in Cache!Places :
          cache'[i].parts[k] # NoItem => Len(cache'[i].parts[k].text) < SMS_PART_TEXT_MAX
    BY <1>2, CacheShape
  <2> QED
    BY <1>1, <1>2, <2>1, <2>2, <2>3, <2>4 DEF PathInv, PTypeOK
<1>3. ASSUME NEW k \in left, NEW n \in 0 .. Len(msg[k].urc), HandleCmt(k, n) PROVE PathInv'
  <2> DEFINE d == Decoded(SubSeq(msg[k].urc, 1, n))
  <2>1. /\ stage = "none" /\ left' = left \ {k} /\ heard'.part = k
        /\ IF d # NoItem THEN Handled(d) ELSE UNCHANGED <<cache, item, expired, stage>>
        /\ UNCHANGED <<msg, body, pushed>>
    BY <1>3 DEF HandleCmt
  <2>2. k \in DOMAIN msg /\ SubSeq(msg[k].urc, 1, n) \in Seq(Nat)
    BY PartThatComes, StartOf
  <2>3. CASE d = NoItem
    BY <1>1, <1>2, <2>1, <2>2, <2>3
  <2>4. CASE d # NoItem
    <3>1. Handled(d) /\ stage = "none"
      BY <2>1, <2>4
    <3>2. /\ d.sender \in FitSenders
          /\ d.text \in Seq(Nat) /\ Len(d.text) < SMS_TEXT_MAX /\ d.place \in Place
      BY <2>2, <2>4, DecodedIs DEF FitSenders
    <3> HIDE DEF d
    <3>3. /\ cache' \in [Cache!GroupIds -> Group]
          /\ \/ UNCHANGED <<item, expired, stage>>
             \/ FitItem(item') /\ stage' = "queued" /\ expired' = FALSE
      BY <3>1, <3>2, HandledTyped
    <3> QED
      BY <1>1, <1>2, <2>1, <2>2, <3>3
  <2> QED
    BY <2>3, <2>4
<1>4. CASE ConcatExpire
  <2>1. PICK i \in Cache!GroupIds :
          /\ cache[i].used
          /\ Queued(SmsItem(cache[i].sender, AssembledText(cache[i])), TRUE)
          /\ cache' = [cache EXCEPT ![i] = Cache!EmptyGroup]
    BY <1>4 DEF ConcatExpire
  <2>2. cache[i] \in Group
    BY <1>1
  <2>3. AssembledText(cache[i]) \in Seq(Nat) /\ Len(AssembledText(cache[i])) < SMS_TEXT_MAX
    BY <2>2, AssembledIs
  <2>4. cache' \in [Cache!GroupIds -> Group]
    BY <1>1, <2>1, EmptyIsGroup
  <2>5. cache[i].sender \in FitSenders
    BY <2>1, <2>2 DEF Group
  <2>6. FitItem(item') /\ stage' = "queued" /\ expired' = TRUE
    BY <2>1, <2>3, <2>5, SmsItemFits DEF Queued
  <2>7. UNCHANGED <<msg, left, heard, body, pushed>>
    BY <1>4 DEF ConcatExpire
  <2> QED
    BY <1>1, <1>2, <2>4, <2>6, <2>7
<1>5. ASSUME NEW c \in Calls, CallPushed(c) PROVE PathInv'
  <2>1. /\ msg = <<>> /\ heard' = [Silence EXCEPT !.got = c]
        /\ Queued([type |-> "call", sender |-> call_parse_clip(c.urc), text |-> <<>>], FALSE)
        /\ UNCHANGED <<msg, left, cache, body, pushed>>
    BY <1>5 DEF CallPushed
  <2>2. heard'.part = 0
    BY <2>1 DEF Silence
  <2>3. call_parse_clip(c.urc) \in Seq(Nat) /\ Len(call_parse_clip(c.urc)) < SMS_SENDER_MAX
    <3>1. c.urc \in Seq(Nat)
      BY PathAssumption
    <3>2. call_parse_clip(c.urc) = Fits(Ahead(Rest(c.urc, Quote), Quote), SMS_SENDER_MAX)
      BY DEF call_parse_clip, Ahead, Rest
    <3>3. Ahead(Rest(c.urc, Quote), Quote) \in Seq(Nat)
      BY <3>1, RestIs, AheadIs
    <3> QED
      BY <3>2, <3>3, Sizes, FitsIs
  <2>4. FitItem(item') /\ stage' = "queued" /\ expired' = FALSE
    BY <2>1, <2>3, Sizes DEF Queued, FitItem, Items
  <2> QED
    BY <1>1, <1>2, <2>1, <2>2, <2>4
<1>6. CASE NetUploadPost
  <2>1. UNCHANGED <<msg, left, heard, cache, item, expired, pushed>> /\ stage = "queued"
    BY <1>6 DEF NetUploadPost
  <2>2. FitItem(item)
    BY <1>1, <2>1 DEF FitItem
  <2>3. Len(body') < BODY_SIZE /\ stage' \in {"posted", "toolong"}
    BY <1>1, <1>6 DEF NetUploadPost, BodyFits
  <2> QED
    BY <1>1, <1>2, <2>1, <2>2, <2>3
<1>7. CASE LogRequest
  <2>1. UNCHANGED <<msg, left, heard, cache, item, expired, body>> /\ stage = "posted"
    BY <1>7 DEF LogRequest
  <2>2. FitItem(item)
    BY <1>1, <2>1 DEF FitItem
  <2>3. stage' \in {"pushed", "notjson"}
    BY <1>7 DEF LogRequest
  <2> QED
    BY <1>1, <1>2, <2>1, <2>2, <2>3
<1>8. CASE PopHead
  <2>1. /\ item' = NoItem /\ stage' = "none" /\ expired' = FALSE /\ body' = <<>>
        /\ UNCHANGED <<msg, left, heard, cache>>
    BY <1>8 DEF PopHead
  <2>2. Len(body') < BODY_SIZE
    BY <2>1, Sizes
  <2> QED
    BY <1>1, <1>2, <2>1, <2>2
<1>9. CASE UNCHANGED pvars
  BY <1>1, <1>2, <1>9 DEF pvars
<1> QED
  BY <1>3, <1>4, <1>5, <1>6, <1>7, <1>8, <1>9 DEF PNext

\* Every variable keeps its type, whatever the messages: a text or a sender never has
\* more bytes than its array takes, however it was decoded or put together.
THEOREM PathTypeCorrect == PSpec => []PTypeOK
<1>1. PathInv => PTypeOK
  BY DEF PathInv
<1> QED
  BY <1>1, PathInit, PathStep, PTL DEF PSpec

----------------------------------------------------------------------------
(* Notifications cut short *)

\* A notification that is decoded has come whole, if its coding group is not misread.
LEMMA DecodedIsWhole ==
  ASSUME PdusEndWhole, PathInv, NEW k \in left, NEW n \in 0 .. Len(msg[k].urc),
         msg[k].coding # "waiting",
         Decoded(SubSeq(msg[k].urc, 1, n)) # NoItem
  PROVE  n = Len(msg[k].urc) /\ SubSeq(msg[k].urc, 1, n) = msg[k].urc
<1>1. msg \in Messages /\ k \in DOMAIN msg /\ msg[k].urc \in Seq(Nat)
  BY PartThatComes
<1>2. EndsWithPdu(msg[k].urc)
  BY <1>1 DEF PdusEndWhole
<1>3. n = Len(msg[k].urc)
  BY <1>1, <1>2, CutIsNotDecoded
<1> QED
  BY <1>1, <1>3, StartOf

\* A notification cut short anywhere in its PDU is refused, whatever the messages are, if
\* their PDUs are as long as they say, except where the coding group is misread.
THEOREM CutNotificationsRefused ==
  ASSUME PdusEndWhole
  PROVE  PSpec => []CutIsRefused
<1>1. PInit => CutIsRefused
  BY DEF PInit, CutIsRefused, Silence
<1>2. ASSUME PathInv, CutIsRefused, [PNext]_pvars PROVE CutIsRefused'
  <2>1. ASSUME NEW k \in left, NEW n \in 0 .. Len(msg[k].urc), HandleCmt(k, n)
        PROVE  CutIsRefused'
    <3>1. heard' = [part |-> k, whole |-> n = Len(msg[k].urc),
                    got |-> Decoded(SubSeq(msg[k].urc, 1, n))]
      BY <2>1 DEF HandleCmt
    <3>2. /\ msg[k].coding # "waiting" /\ Decoded(SubSeq(msg[k].urc, 1, n)) # NoItem
          => n = Len(msg[k].urc)
      BY <1>2, DecodedIsWhole
    <3>3. msg' = msg
      BY <2>1 DEF HandleCmt
    <3> QED
      BY <3>1, <3>2, <3>3 DEF CutIsRefused
  <2>2. ASSUME NEW c \in Calls, CallPushed(c) PROVE CutIsRefused'
    BY <2>2 DEF CallPushed, CutIsRefused, Silence
  <2>3. ASSUME ConcatExpire \/ NetUploadPost \/ LogRequest \/ PopHead \/ UNCHANGED pvars
        PROVE  CutIsRefused'
    <3>1. heard' = heard /\ msg' = msg
      BY <2>3 DEF ConcatExpire, NetUploadPost, LogRequest, PopHead, pvars
    <3> QED
      BY <1>2, <3>1 DEF CutIsRefused
  <2> QED
    BY <1>2, <2>1, <2>2, <2>3 DEF PNext
<1> QED
  BY <1>1, <1>2, PathInit, PathStep, PTL DEF PSpec

----------------------------------------------------------------------------
(* Long messages *)

\* The places of a group that are taken.
Taken(g) == {k \in Cache!Places : g.parts[k] # NoItem}

\* The text the cache keeps of a message's part.
KeptText(m, k) == PartText(Fits(Said(m[k]), SMS_TEXT_MAX))

\* A group holds parts of m in their places and counts them; it expects as many as m has.
Gathers(m, g) ==
  /\ g.received = Cardinality(Taken(g))
  /\ \A k \in Taken(g) : k \in DOMAIN m /\ g.parts[k].text = KeptText(m, k)
  /\ g.used /\ Len(m) <= SMS_CONCAT_MAX_PARTS => g.total = Len(m)

LEMMA PlacesFinite ==
  /\ IsFiniteSet(Cache!Places)
  /\ \A S \in SUBSET Cache!Places : IsFiniteSet(S) /\ Cardinality(S) \in Nat
<1>1. IsFiniteSet(Cache!Places)
  BY Sizes, FS_Interval DEF Cache!Places
<1> QED
  BY <1>1, FS_Subset, FS_CardinalityType

LEMMA EmptyGathers == \A m : Gathers(m, Cache!EmptyGroup)
<1>1. Taken(Cache!EmptyGroup) = {}
  BY DEF Taken, Cache!EmptyGroup
<1>2. Cache!EmptyGroup.received = 0 /\ ~Cache!EmptyGroup.used
  BY DEF Cache!EmptyGroup
<1> QED
  BY <1>1, <1>2, FS_EmptySet DEF Gathers

\* A new group for a part of m.
LEMMA NewGathers ==
  ASSUME NEW m \in Seq(SentPart), NEW p \in ShortParts, p.total = Len(m)
  PROVE  Gathers(m, Cache!NewGroup(p, 0)) /\ Cache!NewGroup(p, 0).used
<1> DEFINE g == Cache!NewGroup(p, 0)
<1>1. /\ g.parts = [k \in Cache!Places |-> NoItem] /\ g.received = 0 /\ g.used
      /\ g.total = IF p.total > SMS_CONCAT_MAX_PARTS THEN SMS_CONCAT_MAX_PARTS ELSE p.total
  BY DEF Cache!NewGroup, Cache!EmptyGroup
<1> HIDE DEF g
<1>2. Taken(g) = {}
  BY <1>1 DEF Taken
<1>3. Len(m) <= SMS_CONCAT_MAX_PARTS => g.total = Len(m)
  BY <1>1, Sizes, LengthIs
<1> QED
  BY <1>1, <1>2, <1>3, FS_EmptySet DEF Gathers, g

\* A part of m stored in a group that gathers m.
LEMMA StoredGathers ==
  ASSUME NEW m \in Seq(SentPart), NEW g \in Group, Gathers(m, g), g.used,
         NEW p \in ShortParts, p.part \in DOMAIN m, p.text = KeptText(m, p.part)
  PROVE  Gathers(m, Cache!Store(g, p)) /\ Cache!Store(g, p).used
<1> DEFINE h == Cache!Store(g, p)
<1>1. CASE p.part \notin Cache!Places \/ g.parts[p.part] # NoItem
  BY <1>1 DEF Cache!Store
<1>2. CASE p.part \in Cache!Places /\ g.parts[p.part] = NoItem
  <2>1. h = [g EXCEPT !.parts[p.part] = p, !.received = @ + 1]
    BY <1>2 DEF Cache!Store
  <2>2. g.parts \in [Cache!Places -> ShortParts \cup {NoItem}] /\ g.received \in Nat
    BY DEF Group, Shape
  <2>3. /\ h.parts = [g.parts EXCEPT ![p.part] = p] /\ h.received = g.received + 1
        /\ h.used = g.used /\ h.total = g.total
    BY <2>1 DEF Group, Shape
  <2> HIDE DEF h
  <2>4. p # NoItem
    BY NoPartIsNoItem DEF ShortParts
  <2>5. Taken(h) = Taken(g) \cup {p.part} /\ p.part \notin Taken(g)
    BY <1>2, <2>2, <2>3, <2>4 DEF Taken
  <2>6. h.received = Cardinality(Taken(h))
    <3>1. IsFiniteSet(Taken(g))
      BY PlacesFinite DEF Taken
    <3>2. Cardinality(Taken(g) \cup {p.part}) = Cardinality(Taken(g)) + 1
      BY <2>5, <3>1, FS_AddElement
    <3> QED
      BY <2>3, <2>5, <3>2 DEF Gathers
  <2>7. \A k \in Taken(h) : k \in DOMAIN m /\ h.parts[k].text = KeptText(m, k)
    BY <1>2, <2>2, <2>3, <2>5 DEF Gathers, Taken
  <2>8. Len(m) <= SMS_CONCAT_MAX_PARTS => h.total = Len(m)
    BY <2>3 DEF Gathers
  <2> QED
    BY <2>3, <2>6, <2>7, <2>8 DEF Gathers, h
<1> QED
  BY <1>1, <1>2

\* A part of m goes to a group that gathers m.
LEMMA WithPartGathers ==
  ASSUME NEW m \in Seq(SentPart), NEW c \in [Cache!GroupIds -> Group],
         \A i \in Cache!GroupIds : Gathers(m, c[i]),
         NEW p \in ShortParts, p.part \in DOMAIN m, p.total = Len(m),
         p.text = KeptText(m, p.part)
  PROVE  /\ Gathers(m, Cache!WithPart(c, p, 0)) /\ Cache!WithPart(c, p, 0).used
         /\ \A i \in Cache!GroupIds : Gathers(m, Cache!CacheAfter(c, p, 0)[i])
<1> DEFINE t == Cache!Target(c, p)
           g == IF t \in Cache!Matching(c, p) THEN c[t] ELSE Cache!NewGroup(p, 0)
           w == Cache!WithPart(c, p, 0)
<1>1. w = Cache!Store(g, p)
  BY DEF Cache!WithPart
<1>2. g \in Group /\ Gathers(m, g) /\ g.used
  <2>1. CASE t \in Cache!Matching(c, p)
    BY <2>1 DEF Cache!Matching
  <2>2. CASE t \notin Cache!Matching(c, p)
    BY <2>2, NewIsGroup, NewGathers
  <2> QED
    BY <2>1, <2>2
<1> HIDE DEF g
<1>3. Gathers(m, w) /\ w.used
  BY <1>1, <1>2, StoredGathers
<1>4. Cache!CacheAfter(c, p, 0)
        = [c EXCEPT ![t] = IF Cache!Complete(w) THEN Cache!EmptyGroup ELSE w]
  BY DEF Cache!CacheAfter
<1> HIDE DEF w, t
<1>5. \A i \in Cache!GroupIds : Gathers(m, Cache!CacheAfter(c, p, 0)[i])
  BY <1>3, <1>4, EmptyGathers
<1> QED
  BY <1>3, <1>5 DEF w

\* m is in codings the decoder knows; its text and limits.
InKnown(m) == \A k \in DOMAIN m : m[k].coding = "general"
TextOf(m) == FlattenSeq([k \in DOMAIN m |-> Said(m[k])])
Within(m) ==
  /\ InKnown(m)
  /\ Len(m) <= SMS_CONCAT_MAX_PARTS
  /\ \A k \in DOMAIN m : Len(Said(m[k])) < SMS_PART_TEXT_MAX
  /\ Len(TextOf(m)) < SMS_TEXT_MAX

LEMMA TextsAre ==
  ASSUME NEW m \in Messages, Within(m)
  PROVE  /\ [k \in DOMAIN m |-> Said(m[k])] \in Seq(Seq(Nat))
         /\ TextOf(m) \in Seq(Nat)
         /\ \A k \in DOMAIN m : /\ Fits(Said(m[k]), SMS_TEXT_MAX) = Said(m[k])
                                /\ KeptText(m, k) = Said(m[k])
         /\ Len(m) = 1 => TextOf(m) = Said(m[1])
<1> DEFINE ss == [k \in DOMAIN m |-> Said(m[k])]
<1>1. DOMAIN m = 1 .. Len(m) /\ Len(m) \in Nat
  BY MessageParts
<1>2. \A k \in DOMAIN m : Said(m[k]) \in Seq(Nat)
  BY MessageParts
<1>3. ss \in Seq(Seq(Nat)) /\ Len(ss) = Len(m) /\ DOMAIN ss = DOMAIN m
  BY <1>1, <1>2
<1>4. \A k \in DOMAIN m : ss[k] = Said(m[k])
  OBVIOUS
<1>5. TextOf(m) = FlattenSeq(ss)
  BY DEF TextOf
<1> HIDE DEF ss
<1>6. /\ FlattenSeq(ss) \in Seq(Nat)
      /\ \A k \in DOMAIN ss : Len(ss[k]) <= Len(FlattenSeq(ss))
      /\ Len(ss) = 1 => FlattenSeq(ss) = ss[1]
  BY <1>3, FlattenIsString
<1>7. ASSUME NEW k \in DOMAIN m
      PROVE  /\ Fits(Said(m[k]), SMS_TEXT_MAX) = Said(m[k])
             /\ KeptText(m, k) = Said(m[k])
  <2>1. Len(Said(m[k])) <= Len(TextOf(m)) /\ Len(TextOf(m)) < SMS_TEXT_MAX
    BY <1>3, <1>4, <1>5, <1>6 DEF Within
  <2>2. Len(Said(m[k])) \in Nat /\ Len(TextOf(m)) \in Nat
    BY <1>2, <1>5, <1>6, LengthIs
  <2>3. Len(Said(m[k])) < SMS_TEXT_MAX
    BY <2>1, <2>2, Sizes
  <2>4. Fits(Said(m[k]), SMS_TEXT_MAX) = Said(m[k])
    BY <1>2, <2>3, Sizes, FitsIs
  <2>5. Fits(Said(m[k]), SMS_PART_TEXT_MAX) = Said(m[k])
    BY <1>2, Sizes, FitsIs DEF Within
  <2> QED
    BY <2>4, <2>5 DEF KeptText, PartText
<1>8. Len(m) = 1 => TextOf(m) = Said(m[1])
  BY <1>1, <1>3, <1>4, <1>5, <1>6
<1> QED
  BY <1>3, <1>5, <1>6, <1>7, <1>8 DEF ss

\* A complete group reads as its message.
LEMMA CompleteReads ==
  ASSUME NEW m \in Messages, Within(m), NEW g \in Group, Gathers(m, g), g.used,
         Cache!Complete(g)
  PROVE  AssembledText(g) = TextOf(m)
<1>1. Len(m) \in Nat /\ DOMAIN m = 1 .. Len(m) /\ Len(m) <= SMS_CONCAT_MAX_PARTS
  BY MessageParts DEF Within
<1>2. g.total = Len(m) /\ Cardinality(Taken(g)) >= Len(m)
  BY <1>1 DEF Gathers, Cache!Complete
<1>3. Taken(g) \subseteq 1 .. Len(m)
  BY <1>1 DEF Gathers
<1>4. Taken(g) = 1 .. Len(m)
  <2>1. IsFiniteSet(1 .. Len(m)) /\ Cardinality(1 .. Len(m)) = Len(m)
    BY <1>1, CountTo
  <2>2. Cardinality(Taken(g)) \in Nat /\ Cardinality(Taken(g)) <= Len(m)
    BY <1>3, <2>1, FS_Subset, FS_CardinalityType
  <2>3. Cardinality(Taken(g)) = Cardinality(1 .. Len(m))
    BY <1>1, <1>2, <2>1, <2>2
  <2> QED
    BY <1>3, <2>1, <2>3, FS_Subset
<1>5. \A k \in 1 .. Len(m) : g.parts[k] # NoItem /\ g.parts[k].text = Said(m[k])
  BY <1>1, <1>4, TextsAre DEF Gathers, Taken
<1>6. Pieces(g) = [k \in DOMAIN m |-> Said(m[k])]
  BY <1>1, <1>2, <1>5, PiecesAre
<1>7. FlattenSeq(Pieces(g)) = TextOf(m)
  BY <1>6 DEF TextOf
<1>8. TextOf(m) \in Seq(Nat) /\ Len(TextOf(m)) < SMS_TEXT_MAX
  BY TextsAre DEF Within
<1>9. Fits(TextOf(m), SMS_TEXT_MAX) = TextOf(m)
  BY <1>8, Sizes, FitsIs
<1> QED
  BY <1>7, <1>9, PiecesAre

ReadInv ==
  /\ PathInv
  /\ InKnown(msg) => \A i \in Cache!GroupIds : Gathers(msg, cache[i])
  /\ CompleteReadsAsWritten

\* An item that reads as msg was written.
LEMMA ReadsMsg ==
  ASSUME NEW it, it.type = "sms", msg \in Messages,
         Within(msg) => it.text = TextOf(msg),
         msg' = msg, item' = it
  PROVE  CompleteReadsAsWritten'
<1>1. Readable' /\ WithinLimits' => Within(msg)
  BY DEF Readable, InKnown, WithinLimits, WholeText, Within, TextOf
<1>2. WholeText' = TextOf(msg)
  BY DEF WholeText, TextOf
<1> QED
  BY <1>1, <1>2 DEF CompleteReadsAsWritten

LEMMA ReadStep ==
  ASSUME PdusEndWhole, PdusReadAsSent, PartsNumbered, ReadInv, [PNext]_pvars
  PROVE  ReadInv'
<1>1. PathInv'
  BY PathStep DEF ReadInv
<1>2. cache \in [Cache!GroupIds -> Group]
  BY DEF ReadInv, PathInv
<1>3. ASSUME UNCHANGED <<msg, cache>>, UNCHANGED <<item, expired>> \/ item' = NoItem
             \/ item'.type = "call"
      PROVE  ReadInv'
  <2>1. CompleteReadsAsWritten'
    BY <1>3 DEF ReadInv, CompleteReadsAsWritten, Readable, WithinLimits, WholeText
  <2> QED
    BY <1>1, <1>3, <2>1 DEF ReadInv
<1>10. ASSUME ~InKnown(msg), msg' = msg PROVE ReadInv'
  BY <1>1, <1>10 DEF ReadInv, CompleteReadsAsWritten, Readable, InKnown
<1>4. ASSUME NEW k \in left, NEW n \in 0 .. Len(msg[k].urc), HandleCmt(k, n) PROVE ReadInv'
  <2> DEFINE d == Decoded(SubSeq(msg[k].urc, 1, n))
             p == CachePart(d)
             g == Cache!WithPart(cache, p, 0)
  <2>1. /\ IF d # NoItem THEN Handled(d) ELSE UNCHANGED <<cache, item, expired, stage>>
        /\ UNCHANGED <<msg, body, pushed>>
    BY <1>4 DEF HandleCmt
  <2>2. msg \in Messages /\ k \in DOMAIN msg /\ msg[k].urc \in Seq(Nat)
    BY PartThatComes DEF ReadInv
  <2>3. CASE d = NoItem
    BY <1>3, <2>1, <2>3
  <2>4. CASE ~InKnown(msg)
    BY <1>10, <2>1, <2>4
  <2>5. CASE d # NoItem /\ InKnown(msg)
    <3>0. msg[k].coding = "general"
      BY <2>2, <2>5 DEF InKnown
    <3>1. d = Decoded(msg[k].urc)
      BY <2>5, <3>0, DecodedIsWhole DEF ReadInv
    <3>2. /\ d.sender \in FitSenders /\ d.text \in Seq(Nat) /\ d.place \in Place
      BY <2>2, <2>5, <3>1, DecodedIs DEF FitSenders
    <3>3. d.text = Fits(Said(msg[k]), SMS_TEXT_MAX) /\ d.place.part = k /\ d.place.total = Len(msg)
      BY <2>2, <2>5, <3>0, <3>1 DEF PdusReadAsSent, PartsNumbered
    <3>4. Handled(d) /\ msg' = msg
      BY <2>1, <2>5
    <3>5. DOMAIN msg = 1 .. Len(msg) /\ Len(msg) \in Nat /\ k \in 1 .. Len(msg)
      BY <2>2, MessageParts
    <3> HIDE DEF d
    <3>6. CASE d.place.total <= 1 \/ d.place.part <= 0
      <4>1. item' = SmsItem(d.sender, d.text) /\ cache' = cache
        BY <3>4, <3>6 DEF Handled, Queued
      <4>2. Len(msg) = 1 /\ k = 1
        BY <3>3, <3>5, <3>6
      <4>3. Within(msg) => d.text = TextOf(msg)
        BY <2>2, <3>3, <4>2, TextsAre
      <4>4. CompleteReadsAsWritten'
        <5>1. item'.type = "sms" /\ item'.text = d.text
          BY <4>1 DEF SmsItem
        <5> QED
          BY <2>2, <3>4, <4>3, <5>1, ReadsMsg
      <4> QED
        BY <1>1, <2>5, <3>4, <4>1, <4>4 DEF ReadInv
    <3>7. CASE ~(d.place.total <= 1 \/ d.place.part <= 0)
      <4>1. /\ cache' = Cache!CacheAfter(cache, p, 0)
            /\ IF Cache!Complete(g) THEN Queued(SmsItem(d.sender, AssembledText(g)), FALSE)
               ELSE UNCHANGED <<item, expired, stage>>
        BY <3>4, <3>7 DEF Handled
      <4>2. p \in ShortParts /\ p.part = k /\ p.total = Len(msg) /\ p.text = KeptText(msg, k)
        BY <3>2, <3>3, CachePartIs DEF CachePart, KeptText
      <4> HIDE DEF p
      <4>3. /\ g \in Group /\ Gathers(msg, g) /\ g.used
            /\ \A i \in Cache!GroupIds : Gathers(msg, cache'[i])
        BY <1>2, <2>2, <2>5, <4>1, <4>2, MessageParts, WithPartIsGroup, WithPartGathers
           DEF ReadInv
      <4> HIDE DEF g
      <4>4. CASE Cache!Complete(g)
        <5>1. Within(msg) => AssembledText(g) = TextOf(msg)
          BY <2>2, <4>3, <4>4, CompleteReads
        <5>2. item'.type = "sms" /\ item'.text = AssembledText(g)
          BY <4>1, <4>4 DEF SmsItem, Queued
        <5>3. CompleteReadsAsWritten'
          BY <2>2, <3>4, <5>1, <5>2, ReadsMsg
        <5> QED
          BY <1>1, <3>4, <4>3, <5>3 DEF ReadInv
      <4>5. CASE ~Cache!Complete(g)
        <5>1. CompleteReadsAsWritten'
          BY <3>4, <4>1, <4>5
             DEF ReadInv, CompleteReadsAsWritten, Readable, WithinLimits, WholeText
        <5> QED
          BY <1>1, <3>4, <4>3, <5>1 DEF ReadInv
      <4> QED
        BY <4>4, <4>5
    <3> QED
      BY <3>6, <3>7
  <2> QED
    BY <2>3, <2>4, <2>5
<1>5. CASE ConcatExpire
  <2>1. /\ expired' = TRUE /\ msg' = msg
        /\ \E i \in Cache!GroupIds : cache' = [cache EXCEPT ![i] = Cache!EmptyGroup]
    BY <1>5 DEF ConcatExpire, Queued
  <2>2. InKnown(msg) => \A i \in Cache!GroupIds : Gathers(msg, cache'[i])
    BY <1>2, <2>1, EmptyGathers DEF ReadInv
  <2>3. CompleteReadsAsWritten'
    BY <2>1 DEF CompleteReadsAsWritten
  <2> QED
    BY <1>1, <2>1, <2>2, <2>3 DEF ReadInv
<1>6. ASSUME NEW c \in Calls, CallPushed(c) PROVE ReadInv'
  BY <1>3, <1>6 DEF CallPushed, Queued
<1>7. CASE NetUploadPost \/ LogRequest
  BY <1>3, <1>7 DEF NetUploadPost, LogRequest
<1>8. CASE PopHead
  BY <1>3, <1>8 DEF PopHead
<1>9. CASE UNCHANGED pvars
  BY <1>3, <1>9 DEF pvars
<1> QED
  BY <1>4, <1>5, <1>6, <1>7, <1>8, <1>9 DEF PNext

\* A long message whose parts have come, in whatever order and with whatever cut copies
\* before them, reads as it was written, each part up to its first character 0, whatever
\* the messages and the sizes are, if its PDUs are in codings the decoder knows, well
\* formed, decoded as they are by HeardAsSent, and numbered.
THEOREM LongMessagesReadWhole ==
  ASSUME PdusEndWhole, PdusReadAsSent, PartsNumbered
  PROVE  PSpec => []CompleteReadsAsWritten
<1>1. PInit => ReadInv
  <2> SUFFICES ASSUME PInit PROVE ReadInv
    OBVIOUS
  <2>1. \A i \in Cache!GroupIds : Gathers(msg, cache[i])
    BY EmptyGathers DEF PInit
  <2>2. CompleteReadsAsWritten
    BY DEF PInit, CompleteReadsAsWritten
  <2> QED
    BY <2>1, <2>2, PathInit DEF ReadInv
<1>2. ReadInv /\ [PNext]_pvars => ReadInv'
  BY ReadStep
<1>3. ReadInv => CompleteReadsAsWritten
  BY DEF ReadInv
<1> QED
  BY <1>1, <1>2, <1>3, PTL DEF PSpec
=============================================================================
