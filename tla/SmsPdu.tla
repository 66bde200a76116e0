------------------------------- MODULE SmsPdu -------------------------------
(***************************************************************************)
(* applaction/sms_pdu.c: from the text of a +CMT notification to a message *)
(* and its place in a long one.                                            *)
(*                                                                         *)
(* A string is a sequence of byte values and ends before a 0.  The reader  *)
(* pdu_reader_t becomes the positions of the fields in a sequence of       *)
(* octets: a field that is not there makes the whole PDU refused.          *)
(***************************************************************************)
EXTENDS Integers, Sequences, SequencesExt

CONSTANTS
  SMS_TEXT_MAX,    \* sizes of sms_item_t's fields
  SMS_SENDER_MAX

Byte == 0 .. 255

\* Bits first .. first + count - 1 of n, the lowest being 0.
Bits(n, first, count) == (n \div 2 ^ first) % 2 ^ count

\* What of s comes before and after the first element of a kind; all and none of it
\* if there is no such element.
Before(s, Stops(_)) == LET i == SelectInSeq(s, Stops) IN IF i = 0 THEN s ELSE SubSeq(s, 1, i - 1)
After(s, Stops(_))  == LET i == SelectInSeq(s, Stops) IN IF i = 0 THEN <<>> ELSE SubSeq(s, i + 1, Len(s))

\* A string as its reader sees it.
CString(s) == Before(s, LAMBDA b : b = 0)

\* Variant: no room is left for the end of the string.
FitsExactly(s, size) == SubSeq(s, 1, IF Len(s) < size THEN Len(s) ELSE size)

\* append_bytes and its like, into an array of that size: what does not fit is cut
\* off, in the middle of a character if it comes to that.
Fits(s, size) == SubSeq(s, 1, IF Len(s) < size THEN Len(s) ELSE size - 1)

\* append_codepoint: the UTF-8 encoding, of a surrogate too.
Utf8(cp) ==
  IF cp <= 127 THEN <<cp>>
  ELSE IF cp <= 2047 THEN <<192 + Bits(cp, 6, 5), 128 + Bits(cp, 0, 6)>>
  ELSE IF cp <= 65535
  THEN <<224 + Bits(cp, 12, 4), 128 + Bits(cp, 6, 6), 128 + Bits(cp, 0, 6)>>
  ELSE <<240 + Bits(cp, 18, 3), 128 + Bits(cp, 12, 6), 128 + Bits(cp, 6, 6), 128 + Bits(cp, 0, 6)>>

----------------------------------------------------------------------------
(* The three alphabets *)

Question == 63
Escape   == 27

\* The default alphabet of TS 23.038; the escape has no character.
s_gsm7 ==
  <<64, 163, 36, 165, 232, 233, 249, 236, 242, 199, 10, 216, 248, 13, 197, 229,
    916, 95, 934, 915, 923, 937, 928, 936, 931, 920, 926, Question, 198, 230, 223, 201,
    32, 33, 34, 35, 164, 37, 38, 39, 40, 41, 42, 43, 44, 45, 46, 47,
    48, 49, 50, 51, 52, 53, 54, 55, 56, 57, 58, 59, 60, 61, 62, 63,
    161, 65, 66, 67, 68, 69, 70, 71, 72, 73, 74, 75, 76, 77, 78, 79,
    80, 81, 82, 83, 84, 85, 86, 87, 88, 89, 90, 196, 214, 209, 220, 167,
    191, 97, 98, 99, 100, 101, 102, 103, 104, 105, 106, 107, 108, 109, 110, 111,
    112, 113, 114, 115, 116, 117, 118, 119, 120, 121, 122, 228, 246, 241, 252, 224>>

gsm7_extension(code) ==
  CASE code = 10 -> 12   [] code = 20 -> 94   [] code = 40 -> 123  [] code = 41 -> 125
    [] code = 47 -> 92   [] code = 60 -> 91   [] code = 61 -> 126  [] code = 62 -> 93
    [] code = 64 -> 124  [] code = 101 -> 8364
    [] OTHER     -> Question

\* get_septet of septet i, counted from 0: its bits start in octet (7i) div 8 and may
\* run into the next, which must then be there.
HasSeptet(data, i) == (7 * i) \div 8 + (IF (7 * i) % 8 > 1 THEN 1 ELSE 0) < Len(data)

\* Variant: a septet is taken from one octet only.
SeptetOfOneOctet(data, i) == Bits(data[(7 * i) \div 8 + 1], (7 * i) % 8, 7)

Septet(data, i) ==
  LET byte == (7 * i) \div 8 + 1
  IN  Bits(data[byte] + (IF byte < Len(data) THEN 256 * data[byte + 1] ELSE 0), (7 * i) % 8, 7)

decode_gsm7(data, udl, skip_septets) ==
  LET From[i \in Nat] ==
        IF i >= udl \/ ~HasSeptet(data, i) THEN <<>>
        ELSE IF Septet(data, i) # Escape \/ i + 1 >= udl
        THEN Utf8(s_gsm7[Septet(data, i) + 1]) \o From[i + 1]
        ELSE IF ~HasSeptet(data, i + 1) THEN <<>>
        ELSE Utf8(gsm7_extension(Septet(data, i + 1))) \o From[i + 2]
  IN  From[skip_septets]

High(u) == u \in 55296 .. 56319
Low(u)  == u \in 56320 .. 57343
\* The character of a pair of them.
Paired(high, low) == 65536 + 1024 * (high - 55296) + (low - 56320)

\* Variant: surrogates are not paired.
ucs2_unpaired(data) ==
  FlattenSeq([i \in 1 .. Len(data) \div 2 |-> Utf8(256 * data[2 * i - 1] + data[2 * i])])

decode_ucs2(data) ==
  LET unit == [i \in 1 .. Len(data) \div 2 |-> 256 * data[2 * i - 1] + data[2 * i]]
      From[i \in Nat] ==
        IF i > Len(unit) THEN <<>>
        ELSE IF High(unit[i]) /\ i < Len(unit) /\ Low(unit[i + 1])
        THEN Utf8(Paired(unit[i], unit[i + 1])) \o From[i + 2]
        ELSE Utf8(unit[i]) \o From[i + 1]
  IN  From[1]

decode_8bit(data) == FlattenSeq([i \in DOMAIN data |-> Utf8(data[i])])

\* The data coding scheme's groups are not told apart.
dcs_encoding(dcs) ==
  CASE Bits(dcs, 2, 2) = 1 -> "8bit" [] Bits(dcs, 2, 2) = 2 -> "ucs2" [] OTHER -> "gsm7"

----------------------------------------------------------------------------
(* The fields *)

Plus == 43

\* The semi-octets of an address, low one first.
Nibbles(addr, len) ==
  [i \in 1 .. len |-> Bits(addr[(i + 1) \div 2], IF i % 2 = 1 THEN 0 ELSE 4, 4)]

\* 15 fills the last octet and ends the number.
Dialled(nibbles) == Before(nibbles, LAMBDA n : n = 15)

\* decode_address: every type of number with its top bit set, and that is all of
\* them, is given a plus.
Sender(toa, dialled) ==
  Fits((IF toa >= 128 THEN <<Plus>> ELSE <<>>) \o [i \in DOMAIN dialled |-> 48 + dialled[i]],
       SMS_SENDER_MAX)

Digit(n)     == IF n <= 9 THEN n ELSE 0
\* bcd_digit of both halves, the low one in front.
Swapped(oct) == 10 * Digit(Bits(oct, 0, 4)) + Digit(Bits(oct, 4, 4))

\* decode_scts: year, month, day, hour, minute, second, zone in quarters of an hour.
\* Bit 7 is taken for the zone's sign.
decode_scts(scts) ==
  [i \in 1 .. 7 |-> IF i < 7 THEN Swapped(scts[i])
                    ELSE (IF scts[i] >= 128 THEN -1 ELSE 1) * Swapped(scts[i] % 128)]

\* parse_udh: the information elements of a header, as long as they fit in it.
Elements(udh) ==
  LET From[i \in Nat] ==
        IF i + 1 > Len(udh) \/ i + 1 + udh[i + 1] > Len(udh) THEN <<>>
        ELSE <<[iei |-> udh[i], data |-> SubSeq(udh, i + 2, i + 1 + udh[i + 1])]>>
               \o From[i + 2 + udh[i + 1]]
  IN  From[2]

ShortRef(e) == e.iei = 0 /\ Len(e.data) = 3
LongRef(e)  == e.iei = 8 /\ Len(e.data) = 4

Alone == [ref |-> 0, part |-> 1, total |-> 1]

PlaceOf(e) ==
  IF ShortRef(e) THEN [ref |-> e.data[1], total |-> e.data[2], part |-> e.data[3]]
  ELSE [ref |-> 256 * e.data[1] + e.data[2], total |-> e.data[3], part |-> e.data[4]]

\* The last one counts.
parse_udh(udh) ==
  LET i == SelectLastInSeq(Elements(udh), LAMBDA e : ShortRef(e) \/ LongRef(e))
  IN  IF i = 0 THEN Alone ELSE PlaceOf(Elements(udh)[i])

----------------------------------------------------------------------------
(* sms_pdu_decode *)

\* Positions in o: the address, the data coding scheme, the user data's length.
AddressAt(o)   == o[1] + 3
AddrOctets(o)  == (o[AddressAt(o)] + 1) \div 2
DcsAt(o)       == AddressAt(o) + AddrOctets(o) + 3
UdlAt(o)       == DcsAt(o) + 8

HasHeader(o)   == Bits(o[o[1] + 2], 6, 1) = 1
DialledIn(o)   == Dialled(Nibbles(SubSeq(o, AddressAt(o) + 2, Len(o)), o[AddressAt(o)]))
Encoding(o)    == dcs_encoding(o[DcsAt(o)])
Udl(o)         == o[UdlAt(o)]
\* Variant: the last septets' octet is not counted.
UdOctetsFloor(o) == IF Encoding(o) = "gsm7" THEN (7 * Udl(o)) \div 8 ELSE Udl(o)
UdOctets(o)    == IF Encoding(o) = "gsm7" THEN (7 * Udl(o) + 7) \div 8 ELSE Udl(o)
UserData(o)    == SubSeq(o, UdlAt(o) + 1, UdlAt(o) + UdOctets(o))
HeaderOctets(o) == IF HasHeader(o) THEN UserData(o)[1] + 1 ELSE 0
\* The text starts on a septet boundary.
HeaderSeptets(o) == (8 * HeaderOctets(o) + 6) \div 7

\* The tests of sms_pdu_decode and decode_address, in their order: the service
\* centre's address, an SMS-DELIVER, the sender's address, every fixed field, the
\* user data and its header.
Decodable(o) ==
  /\ o # <<>> /\ o[1] <= 12 /\ Len(o) > o[1] + 1
  /\ o[o[1] + 2] % 4 = 0
  /\ Len(o) > AddressAt(o) /\ o[AddressAt(o)] <= 20
  /\ Len(o) > AddressAt(o) + AddrOctets(o)
  /\ \A i \in DOMAIN DialledIn(o) : DialledIn(o)[i] <= 9
  /\ Len(o) >= UdlAt(o)
  /\ UdOctets(o) <= 256 /\ UdOctets(o) <= Len(o) - UdlAt(o)
  /\ HasHeader(o) =>
       /\ UdOctets(o) > 0
       /\ HeaderOctets(o) <= UdOctets(o)
       /\ Encoding(o) = "gsm7" => HeaderSeptets(o) <= Udl(o)

TextIn(o) ==
  LET data == SubSeq(UserData(o), HeaderOctets(o) + 1, UdOctets(o))
  IN  CASE Encoding(o) = "gsm7" -> decode_gsm7(UserData(o), Udl(o), HeaderSeptets(o))
        [] Encoding(o) = "ucs2" -> decode_ucs2(data)
        [] Encoding(o) = "8bit" -> decode_8bit(data)

sms_pdu_decode(o) ==
  [sender    |-> Sender(o[AddressAt(o) + 1], DialledIn(o)),
   timestamp |-> decode_scts(SubSeq(o, DcsAt(o) + 1, DcsAt(o) + 7)),
   text      |-> CString(Fits(TextIn(o), SMS_TEXT_MAX)),
   place     |-> IF HasHeader(o) THEN parse_udh(SubSeq(UserData(o), 1, HeaderOctets(o))) ELSE Alone]

----------------------------------------------------------------------------
(* sms_pdu_extract *)

\* The characters of a notification: hexadecimal digits by their value, and others.
Tag     == 16   \* all of "+CMT:"
Newline == 17
Blank   == 18   \* a space, a tab or a carriage return
Other   == 19
IsHex(ch) == ch < 16

\* What comes after the tag's line.
AfterHeader(urc) == After(After(urc, LAMBDA ch : ch = Tag), LAMBDA ch : ch = Newline)

\* The digits on the first line of it that has anything, as many as s_resp takes.
HexIn(urc, size) ==
  LET line == AfterHeader(urc)
      pdu  == SelectInSeq(line, LAMBDA ch : ch \notin {Newline, Blank})
  IN  IF pdu = 0 THEN <<>>
      ELSE Fits(Before(SubSeq(line, pdu, Len(line)), LAMBDA ch : ~IsHex(ch)), size)

Extractable(urc, size) == HexIn(urc, size) # <<>> /\ Len(HexIn(urc, size)) % 2 = 0

sms_pdu_extract(urc, size) ==
  LET hex == HexIn(urc, size)
  IN  [i \in 1 .. Len(hex) \div 2 |-> 16 * hex[2 * i - 1] + hex[2 * i]]
=============================================================================
