----------------------------- MODULE Standards -----------------------------
(***************************************************************************)
(* What a phone, wxpusher and a reader of UTF-8 do, taken from their       *)
(* standards and not from the program: TS 23.040 and 23.038 (an            *)
(* SMS-DELIVER as the network sends it), RFC 8259 (the strings of a JSON   *)
(* text), RFC 3629 (UTF-8).  The program is checked against these.         *)
(***************************************************************************)
EXTENDS Naturals, Sequences, SequencesExt

----------------------------------------------------------------------------
(* SMS-DELIVER *)

CeilDiv(a, b) == (a + b - 1) \div b
BitOf(n, i)   == (n \div 2 ^ i) % 2

\* Octets from a sequence of bits, lowest first, filled up with zeros.
FromBits(bits) ==
  LET bit(i) == IF i <= Len(bits) THEN bits[i] ELSE 0
      octet(k) == LET b == [j \in 0 .. 7 |-> bit(8 * (k - 1) + j + 1)]
                  IN  b[0] + 2 * b[1] + 4 * b[2] + 8 * b[3] + 16 * b[4] + 32 * b[5] + 64 * b[6] + 128 * b[7]
  IN  [k \in 1 .. CeilDiv(Len(bits), 8) |-> octet(k)]

Septets7(septets) == FlattenSeq([i \in DOMAIN septets |-> [j \in 1 .. 7 |-> BitOf(septets[i], j - 1)]])

\* The septets of the characters the instances use; the third line's is in the national
\* table for Portuguese, that a header's element 36 announces with the number 3.
Gsm7Of(cp) ==
  CASE cp = 64 -> <<0>> [] cp = 233 -> <<5>> [] cp = 916 -> <<16>> [] cp = 10 -> <<10>>
    [] cp = 92 -> <<27, 47>> [] cp = 8364 -> <<27, 101>>
    [] cp = 234 -> <<27, 5>>
    [] OTHER -> <<cp>>   \* letters, figures and the quotation mark

UnitsOf(cp) ==
  IF cp < 65536 THEN <<cp>>
  ELSE <<55296 + ((cp - 65536) \div 1024), 56320 + ((cp - 65536) % 1024)>>

\* A coding is a group, an alphabet and what the group says besides: that the message
\* shows at once and is not kept, or that more is waiting.
Dcs(coding) ==
  CASE coding = "gsm7" -> 0 [] coding = "8bit" -> 4 [] coding = "ucs2" -> 8
    [] coding = "gsm7 at once" -> 240 [] coding = "8bit at once" -> 244
    [] coding = "gsm7 waiting" -> 200 [] coding = "ucs2 waiting" -> 224
AlphabetOf(coding) ==
  CASE coding \in {"gsm7", "gsm7 at once", "gsm7 waiting"} -> "gsm7"
    [] coding \in {"8bit", "8bit at once"} -> "8bit"
    [] coding \in {"ucs2", "ucs2 waiting"} -> "ucs2"

\* UDL and UD: the header, its length in front, and the text after it.
UserDataOf(alphabet, header, text) ==
  LET udh     == IF header = <<>> THEN <<>> ELSE <<Len(header)>> \o header
      septets == FlattenSeq([i \in DOMAIN text |-> Gsm7Of(text[i])])
      before  == CeilDiv(8 * Len(udh), 7)
      fill    == [i \in 1 .. 7 * before - 8 * Len(udh) |-> 0]
      units   == FlattenSeq([i \in DOMAIN text |-> UnitsOf(text[i])])
      octets  == IF alphabet = "8bit" THEN text
                 ELSE FlattenSeq([i \in DOMAIN units |-> <<units[i] \div 256, units[i] % 256>>])
  IN  IF alphabet = "gsm7"
      THEN <<before + Len(septets)>> \o udh \o FromBits(fill \o Septets7(septets))
      ELSE <<Len(udh) + Len(octets)>> \o udh \o octets

\* Semi-octets, low one first, the last octet filled with 15.
SemiOctets(d) ==
  [i \in 1 .. CeilDiv(Len(d), 2) |-> d[2 * i - 1] + 16 * (IF 2 * i <= Len(d) THEN d[2 * i] ELSE 15)]

Swap(n) == (n \div 10) + 16 * (n % 10)
\* Year to second, and the zone in quarters of an hour; its sign, set west of
\* Greenwich, is bit 3 of the octet, next to the tens.
TimeOctets(date, quarters, west) ==
  [i \in 1 .. 6 |-> Swap(date[i])] \o <<Swap(quarters) + (IF west THEN 8 ELSE 0)>>

\* References of one octet, of two, or none; other elements may stand before.
HeaderOf(place) ==
  CASE place.total = 1  -> <<>>
    [] place.ref < 100  -> <<36, 1, 3, 0, 3, place.ref, place.total, place.part>>
    [] place.ref \in 100 .. 255 -> <<0, 3, place.ref, place.total, place.part>>
    [] OTHER -> <<8, 4, place.ref \div 256, place.ref % 256, place.total, place.part>>

\* The octets of an SMS-DELIVER: service centre, first octet, sender, PID, DCS, time.
Deliver(smsc, toa, digits, coding, time, place, text) ==
  <<Len(smsc)>> \o smsc
    \o <<IF HeaderOf(place) = <<>> THEN 4 ELSE 68, Len(digits), toa>> \o SemiOctets(digits)
    \o <<0, Dcs(coding)>> \o time
    \o UserDataOf(AlphabetOf(coding), HeaderOf(place), text)

----------------------------------------------------------------------------
(* JSON *)

Unhex(d) == IF d <= 57 THEN d - 48 ELSE d - 87

\* What an escape of one letter stands for.
Plain(letter) ==
  CASE letter = 98 -> 8 [] letter = 116 -> 9 [] letter = 110 -> 10 [] letter = 102 -> 12
    [] letter = 114 -> 13 [] OTHER -> letter

\* A reader of a JSON text, byte by byte: the strings it has read, where it is, the
\* string under way, and of \uxxxx the digits still to come and the value so far.
\* That value is taken for a byte: neither side writes others.
Reader(strings, at, bytes, digits, code) ==
  [strings |-> strings, at |-> at, bytes |-> bytes, digits |-> digits, code |-> code]
Outside(strings)       == Reader(strings, "outside", <<>>, 0, 0)
Inside(strings, bytes) == Reader(strings, "inside", bytes, 0, 0)

Read(r, ch) ==
  CASE r.at = "outside" -> IF ch = 34 THEN Inside(r.strings, <<>>) ELSE r
    [] r.at = "inside"  ->
         CASE ch = 34 -> Outside(Append(r.strings, r.bytes))
           [] ch = 92 -> Reader(r.strings, "escape", r.bytes, 0, 0)
           [] OTHER   -> Inside(r.strings, Append(r.bytes, ch))
    [] r.at = "escape"  ->
         IF ch = 117 THEN Reader(r.strings, "digits", r.bytes, 4, 0)
         ELSE Inside(r.strings, Append(r.bytes, Plain(ch)))
    [] r.at = "digits"  ->
         LET code == 16 * r.code + Unhex(ch)
         IN  IF r.digits > 1 THEN Reader(r.strings, "digits", r.bytes, r.digits - 1, code)
             ELSE Inside(r.strings, Append(r.bytes, code))

\* The contents of the string literals of a JSON text, in their order.
Strings(doc) ==
  LET After0[i \in 0 .. Len(doc)] == IF i = 0 THEN Outside(<<>>) ELSE Read(After0[i - 1], doc[i])
  IN  After0[Len(doc)].strings

----------------------------------------------------------------------------
(* UTF-8 *)

Utf8Of(cp) ==
  CASE cp < 128   -> <<cp>>
    [] cp \in 128 .. 2047 -> <<192 + (cp \div 64), 128 + (cp % 64)>>
    [] cp \in 2048 .. 65535 -> <<224 + (cp \div 4096), 128 + ((cp \div 64) % 64), 128 + (cp % 64)>>
    [] OTHER ->
         <<240 + (cp \div 262144), 128 + ((cp \div 4096) % 64), 128 + ((cp \div 64) % 64), 128 + (cp % 64)>>

\* What must come after a first octet, octet by octet: the rest of a character that is
\* neither longer than need be, nor a surrogate, nor past the last one.
Further == 128 .. 191
Never   == <<{}>>
Following(b) ==
  CASE b <= 127         -> <<>>
    [] b \in 194 .. 223 -> <<Further>>
    [] b = 224          -> <<160 .. 191, Further>>
    [] b = 237          -> <<128 .. 159, Further>>
    [] b \in (225 .. 239) \ {237} -> <<Further, Further>>
    [] b = 240          -> <<144 .. 191, Further, Further>>
    [] b \in 241 .. 243 -> <<Further, Further, Further>>
    [] b = 244          -> <<128 .. 143, Further, Further>>
    [] OTHER            -> Never

\* What must come after an octet b where wanted had to come.
Wanted(wanted, b) ==
  IF wanted = <<>> THEN Following(b) ELSE IF b \in Head(wanted) THEN Tail(wanted) ELSE Never

IsUtf8(s) ==
  LET After0[i \in 0 .. Len(s)] == IF i = 0 THEN <<>> ELSE Wanted(After0[i - 1], s[i])
  IN  After0[Len(s)] = <<>>
=============================================================================
