--------------------------- MODULE MCMessagePath ---------------------------
(***************************************************************************)
(* MessagePath for messages as the network would send them: encoded by     *)
(* Standards.                                                              *)
(***************************************************************************)
EXTENDS MessagePath

\* "+CMT: ,length", and the PDU on the next line.
Notification(octets) ==
  <<Tag, Blank, Other, 2, Blank, Newline>>
    \o FlattenSeq([i \in DOMAIN octets |-> <<octets[i] \div 16, octets[i] % 16>>])

\* Who sends, through which centre, and the zone the centre's clock is in.
Toa(number) ==
  CASE number = "international" -> 145 [] number = "national" -> 129 [] number = "alphanumeric" -> 208

From(smsc, number, digits, quarters, west) ==
  [smsc |-> smsc, number |-> number, digits |-> digits, quarters |-> quarters, west |-> west]
China  == From(<<>>, "international", <<8, 6, 1, 3, 8>>, 32, FALSE)
Others == {From(<<145, 104>>, "international", <<4, 4, 7, 0>>, 0, FALSE),
           From(<<>>, "national", <<1, 0, 0, 8, 6>>, 32, FALSE),
           From(<<>>, "alphanumeric", <<4, 11, 8, 1>>, 32, FALSE),
           From(<<>>, "international", <<6, 1>>, 38, FALSE),
           From(<<>>, "international", <<1>>, 16, TRUE)}

Date == <<26, 9, 30, 23, 59, 8>>

Circumflex == 234   \* e-circumflex, in the Portuguese table only

Part(from, coding, place, text) ==
  [urc |-> Notification(Std!Deliver(from.smsc, Toa(from.number), from.digits, coding,
                                    Std!TimeOctets(Date, from.quarters, from.west), place, text)),
   sender |-> <<43>> \o [i \in DOMAIN from.digits |-> 48 + from.digits[i]],
   timestamp |-> Append(Date, IF from.west THEN 0 - from.quarters ELSE from.quarters),
   text |-> FlattenSeq([i \in DOMAIN text |-> Std!Utf8Of(text[i])]),
   place |-> place,
   number |-> from.number,
   misread |-> from.west \/ from.quarters % 10 >= 8,
   coding |-> IF coding \in {"gsm7 waiting", "ucs2 waiting"} THEN "waiting"
              ELSE IF Circumflex \in Range(text) THEN "shifted" ELSE "general"]

UpTo(S, n) == UNION {[1 .. k -> S] : k \in 0 .. n}

\* Alone: @ e-acute " \ euro delta newline in septets, an A, a Chinese character, an
\* emoji, half a surrogate pair, a \ and a character 0 in UCS2, and any octets, 0 too.
Alone7  == {<<Part(China, "gsm7", Alone, t)>> :
              t \in UpTo({64, 233, 34, 92, 8364, 916, 10}, 2)
                    \cup {[i \in 1 .. n |-> 96 + i] : n \in 7 .. 9}
                    \* an escape on either side of the eighth septet, where one begins an octet
                    \cup {[i \in 1 .. n |-> IF i = n THEN 8364 ELSE 97] : n \in 6 .. 9}}
Alone16 == {<<Part(China, "ucs2", Alone, t)>> : t \in UpTo({65, 20013, 128512, 55296, 92, 0}, 2)}
Alone8  == {<<Part(China, "8bit", Alone, t)>> :
              t \in UpTo({0, 1, 34, 233, 127}, 2) \cup {[i \in 1 .. n |-> 1] : n \in {20, 45}}}
AloneFrom == {<<Part(f, c, Alone, <<65>>)>> : f \in Others, c \in {"gsm7", "8bit", "ucs2"}}

\* In the other groups: those read as they are meant, and those that are not.
AloneGroup == {<<Part(China, c, Alone, t)>> :
                 c \in {"gsm7 at once", "8bit at once", "gsm7 waiting", "ucs2 waiting"},
                 t \in {<<65>>, <<65, 34>>, [i \in 1 .. 9 |-> 96 + i]}}

\* In parts: a reference of one octet after another element or alone, or of two.
InParts(coding, ref, texts) ==
  [k \in DOMAIN texts |-> Part(China, coding, [ref |-> ref, part |-> k, total |-> Len(texts)], texts[k])]

Long == {InParts(c, r, t) : c \in {"gsm7", "8bit"}, r \in {7, 200, 513},
                            t \in {<<<<65, 66>>, <<34>>>>, <<<<>>, <<97, 98, 99>>, <<233>>>>}}
        \cup {InParts("ucs2", 7, <<<<20013, 65>>, <<128512>>>>),
              InParts("ucs2", 513, <<<<65, 55357>>, <<56832>>>>),               \* a pair torn apart
              InParts("ucs2", 7, <<<<20013, 20013, 20013>>, <<20013>>>>),       \* more than a part takes
              InParts("ucs2", 7, <<<<20013, 20013>>, <<20013, 20013>>, <<65>>>>),
              InParts("gsm7", 7, <<<<65>>, <<66>>, <<67>>, <<68>>>>),           \* more parts than places
              InParts("8bit", 7, <<<<65, 0, 66>>, <<34>>>>),                    \* cut off at a 0
              InParts("gsm7", 7, <<<<65, Circumflex>>, <<34>>>>)}               \* in the table for Portuguese

MCMessages == Alone7 \cup Alone16 \cup Alone8 \cup AloneFrom \cup AloneGroup \cup Long

\* +CLIP: "...",145 with a number, a hidden one, and one longer than the array.
Clip(number) == [urc |-> <<43, 67, 58, Quote>> \o number \o <<Quote, 44, 49>>, number |-> number]
MCCalls == {Clip(<<43, 56, 54>>), Clip(<<>>), Clip([i \in 1 .. 30 |-> 49])}

ASSUME MCPremises == PartsNumbered /\ CallsAscii
=============================================================================
