---------------------------- MODULE MessagePath ----------------------------
(***************************************************************************)
(* What becomes of one message's text, or of a caller's number, from the   *)
(* notification (sms_handle_cmt, call_parse_clip) through the cache of     *)
(* parts, the upload's JSON and the report server to wxpusher.             *)
(*                                                                         *)
(* The threads, the queue, the connections and what other messages do to   *)
(* the cache are RecvTask's, UploadTask's and ReportServer's: the text     *)
(* depends on none of them, so one message at a time goes through.         *)
(***************************************************************************)
EXTENDS ReportText, FiniteSets

CONSTANTS
  Messages,            \* what the network may deliver
  Calls,               \* the +CLIP notifications, with the number each gives
  SMS_PART_TEXT_MAX,
  SMS_CONCAT_MAX_PARTS,
  RESP_SIZE,           \* of s_resp
  NoItem

\* Of each part of a message: its notification urc; what it says, sender, timestamp,
\* text and place; its sender's kind of number; whether its time zone is one
\* decode_scts misreads: west of Greenwich, or a count of quarters of an hour that
\* ends in 8 or 9; and how its text is coded:
\*   general  in one of the three alphabets, as dcs_encoding takes every coding group
\*   shifted  with characters of a national language table, which a header announces
\*   waiting  in a group of message waiting whose bits dcs_encoding misreads
SentPart ==
  [urc : Seq(Nat), sender : Seq(Nat), timestamp : Seq(Int), text : Seq(Nat),
   place : [ref : Nat, part : Nat, total : Nat],
   number : {"international", "national", "alphanumeric"}, misread : BOOLEAN,
   coding : {"general", "shifted", "waiting"}]

\* As much of a part's text as a C string holds: a character 0 ends it.
Said(p) == CString(p.text)

\* An item, and a part as the cache keeps it.
Items == [type : {"sms", "call"}, sender : Seq(Nat), text : Seq(Nat)]
KeptParts == [sender : Seq(Nat), ref : Nat, part : Nat, total : Nat, text : Seq(Nat)]

ASSUME PathAssumption ==
  /\ \A m \in Messages : m \in Seq(SentPart) /\ m # <<>>
  /\ \A c \in Calls : c \in [urc : Seq(Nat), number : Seq(Nat)]
  /\ {SMS_PART_TEXT_MAX, SMS_TEXT_MAX, SMS_SENDER_MAX, SMS_CONCAT_MAX_PARTS,
      RESP_SIZE, BODY_SIZE} \subseteq Nat \ {0}
  /\ NoItem \notin Items /\ NoItem \notin KeptParts

\* The number in a mark has at most two figures; the code has room for 10 parts.
ASSUME MarkAssumption == SMS_CONCAT_MAX_PARTS <= 99

VARIABLES
  msg,      \* the message under way, <<>> for a call
  left,     \* its parts still to come
  heard,    \* the last notification: the part, whether it came whole, what was made of it
  cache,    \* the parts kept
  item,     \* the item made of them, or NoItem
  expired,  \* the item was made by concat_expire, with parts missing
  stage,    \* where the item is: "none", "queued", "posted", "pushed", "toolong", "notjson"
  body,     \* the JSON posted
  pushed    \* the JSON sent to wxpusher

pvars == <<msg, left, heard, cache, item, expired, stage, body, pushed>>

Cache == INSTANCE ConcatCache WITH
  SMS_CONCAT_MAX_GROUPS <- 1, SMS_CONCAT_TIMEOUT_MS <- 5, TICK_MOD <- 2, Parts <- {}, NoPart <- NoItem
Std   == INSTANCE Standards

Silence == [part |-> 0, whole |-> TRUE, got |-> NoItem]

----------------------------------------------------------------------------
(* The receiving thread *)

\* Variant: a part's array is taken for one byte shorter.
PartTextShort(text) == Fits(text, SMS_PART_TEXT_MAX - 1)

\* copy_str into the array of a part.
PartText(text) == Fits(text, SMS_PART_TEXT_MAX)

Decimal(k) == (IF k < 10 THEN <<>> ELSE <<48 + (k \div 10)>>) \o <<48 + (k % 10)>>

\* "[缺失分段%d]" in UTF-8.
Mark(k) ==
  <<91>> \o <<231, 188, 186>> \o <<229, 164, 177>> \o <<229, 136, 134>> \o <<230, 174, 181>>
    \o Decimal(k) \o <<93>>

\* concat_assemble with text_append.
AssembledText(g) ==
  LET parts == Cache!Assemble(g)
  IN  Fits(FlattenSeq([k \in DOMAIN parts |-> IF parts[k] = NoItem THEN Mark(k) ELSE parts[k].text]),
           SMS_TEXT_MAX)

SmsItem(sender, text) == [type |-> "sms", sender |-> sender, text |-> text]

CachePart(d) ==
  [sender |-> d.sender, ref |-> d.place.ref, part |-> d.place.part, total |-> d.place.total,
   text |-> PartText(d.text)]

Decoded(urc) ==
  IF Extractable(urc, RESP_SIZE) /\ Decodable(sms_pdu_extract(urc, RESP_SIZE))
  THEN sms_pdu_decode(sms_pdu_extract(urc, RESP_SIZE))
  ELSE NoItem

Queued(it, late) ==
  /\ item' = it
  /\ expired' = late
  /\ stage' = "queued"

\* handle_decoded_sms of what was decoded.
Handled(d) ==
  IF d.place.total <= 1 \/ d.place.part <= 0
  THEN Queued(SmsItem(d.sender, d.text), FALSE) /\ UNCHANGED cache
  ELSE LET p == CachePart(d)
           g == Cache!WithPart(cache, p, 0)
       IN  /\ cache' = Cache!CacheAfter(cache, p, 0)
           /\ IF Cache!Complete(g) THEN Queued(SmsItem(d.sender, AssembledText(g)), FALSE)
              ELSE UNCHANGED <<item, expired, stage>>

\* sms_handle_cmt, of a notification of which the first n characters have come.
HandleCmt(k, n) ==
  /\ stage = "none"
  /\ k \in left
  /\ left' = left \ {k}
  /\ LET d == Decoded(SubSeq(msg[k].urc, 1, n))
     IN  /\ heard' = [part |-> k, whole |-> n = Len(msg[k].urc), got |-> d]
         /\ IF d # NoItem THEN Handled(d) ELSE UNCHANGED <<cache, item, expired, stage>>
  /\ UNCHANGED <<msg, body, pushed>>

\* concat_expire, when the parts still missing have not come in time.
ConcatExpire ==
  /\ stage = "none"
  /\ \E i \in Cache!GroupIds :
       /\ cache[i].used
       /\ Queued(SmsItem(cache[i].sender, AssembledText(cache[i])), TRUE)
       /\ cache' = [cache EXCEPT ![i] = Cache!EmptyGroup]
  /\ UNCHANGED <<msg, left, heard, body, pushed>>

\* call_parse_clip: what is between the first two quotation marks.
call_parse_clip(urc) ==
  Fits(Before(After(urc, LAMBDA b : b = Quote), LAMBDA b : b = Quote), SMS_SENDER_MAX)

\* call_push_item of the number in a +CLIP.
CallPushed(c) ==
  /\ msg = <<>> /\ stage = "none" /\ heard = Silence
  /\ heard' = [Silence EXCEPT !.got = c]
  /\ Queued([type |-> "call", sender |-> call_parse_clip(c.urc), text |-> <<>>], FALSE)
  /\ UNCHANGED <<msg, left, cache, body, pushed>>

----------------------------------------------------------------------------
(* The uploading thread and the server *)

\* net_upload_post up to its request; an item that does not fit is tried for ever.
NetUploadPost ==
  /\ stage = "queued"
  /\ IF BodyFits(UploadBody(item)) THEN body' = UploadBody(item) /\ stage' = "posted"
                                   ELSE stage' = "toolong" /\ UNCHANGED body
  /\ UNCHANGED <<msg, left, heard, cache, item, expired, pushed>>

\* log_request: not JSON is not forwarded, but answered all the same.
LogRequest ==
  /\ stage = "posted"
  /\ LET pretty == PrettyRun(body)
     IN  IF IsPretty(pretty) THEN pushed' = PushBody(pretty.out) /\ stage' = "pushed"
                             ELSE stage' = "notjson" /\ UNCHANGED pushed
  /\ UNCHANGED <<msg, left, heard, cache, item, expired, body>>

\* The answer was 200.
PopHead ==
  /\ stage \in {"pushed", "notjson"}
  /\ stage' = "none"
  /\ item' = NoItem
  /\ expired' = FALSE
  /\ body' = <<>> /\ pushed' = <<>>
  /\ UNCHANGED <<msg, left, heard, cache>>

----------------------------------------------------------------------------

PInit ==
  /\ msg \in Messages \cup {<<>>}
  /\ left = DOMAIN msg
  /\ heard = Silence
  /\ cache = [i \in Cache!GroupIds |-> Cache!EmptyGroup]
  /\ item = NoItem
  /\ expired = FALSE
  /\ stage = "none"
  /\ body = <<>>
  /\ pushed = <<>>

PNext ==
  \/ \E k \in left : \E n \in 0 .. Len(msg[k].urc) : HandleCmt(k, n)
  \/ ConcatExpire
  \/ \E c \in Calls : CallPushed(c)
  \/ NetUploadPost \/ LogRequest \/ PopHead

PSpec == PInit /\ [][PNext]_pvars

----------------------------------------------------------------------------
(* What is checked *)

\* Every variable keeps its type: no text is longer than its array allows, whatever
\* parts it is put together from.
PTypeOK ==
  /\ msg \in Messages \cup {<<>>}
  /\ left \subseteq DOMAIN msg
  /\ heard.part \in DOMAIN msg \cup {0}
  /\ stage \in {"none", "queued", "posted", "pushed", "toolong", "notjson"}
  /\ expired \in BOOLEAN
  /\ stage = "none" <=> item = NoItem
  /\ item # NoItem => Len(item.text) < SMS_TEXT_MAX /\ Len(item.sender) < SMS_SENDER_MAX
  /\ \A i \in Cache!GroupIds : \A k \in Cache!Places :
       cache[i].parts[k] # NoItem => Len(cache[i].parts[k].text) < SMS_PART_TEXT_MAX
  /\ Len(body) < BODY_SIZE

\* What follows the first line of a notification is a PDU's digits and nothing else, as
\* many as s_resp takes, and as the PDU's own lengths add up to.
EndsWithPdu(urc) ==
  /\ \A i \in DOMAIN AfterHeader(urc) : IsHex(AfterHeader(urc)[i])
  /\ Len(AfterHeader(urc)) < RESP_SIZE
  /\ Extractable(urc, RESP_SIZE)
  /\ LET o == sms_pdu_extract(urc, RESP_SIZE) IN Len(o) = UdlAt(o) + UdOctets(o)

\* A notification that came whole is read to its end and decoded to what TS 23.040
\* says it says: the text in the default alphabet, 8-bit data and UCS2, up to the first
\* character 0, and the place in a long message from a reference of one octet or two,
\* also behind another element of the header.  Not promised are the text if it uses a
\* national language table, anything of the message waiting groups misread, any sender
\* but an international number, and the time in a zone misread.
HeardAsSent ==
  heard.part # 0 /\ heard.whole =>
    LET part == msg[heard.part]
    IN  part.coding # "waiting" =>
          /\ EndsWithPdu(part.urc)
          /\ part.number # "alphanumeric" =>
               /\ heard.got # NoItem
               /\ part.coding = "general" => heard.got.text = Fits(Said(part), SMS_TEXT_MAX)
               /\ heard.got.place = part.place
          /\ part.number = "international" => heard.got.sender = part.sender
          /\ part.number # "alphanumeric" /\ ~part.misread => heard.got.timestamp = part.timestamp

\* The premises of what is proved of cut and of long ones, HeardAsSent of every part of
\* every message: a PDU ends where its lengths say, and one that is decoded gives its
\* part's text and place.  The parts of a message are numbered.
PdusEndWhole ==
  \A m \in Messages : \A k \in DOMAIN m : m[k].coding # "waiting" => EndsWithPdu(m[k].urc)
PdusReadAsSent ==
  \A m \in Messages : \A k \in DOMAIN m :
    LET d == Decoded(m[k].urc)
    IN  m[k].coding = "general" /\ d # NoItem =>
          d.text = Fits(Said(m[k]), SMS_TEXT_MAX) /\ d.place = m[k].place
PartsNumbered ==
  \A m \in Messages : \A k \in DOMAIN m : m[k].place.part = k /\ m[k].place.total = Len(m)

\* A call's notification is in ASCII.
CallsAscii == \A c \in Calls : \A i \in DOMAIN c.urc : c.urc[i] < 128

\* One that was cut short anywhere in its PDU is refused: it is never taken for a
\* shorter message, nor for the part of a long one.  Where the coding group is misread,
\* so is the length, and nothing is promised.
CutIsRefused == ~heard.whole /\ msg[heard.part].coding # "waiting" => heard.got = NoItem

\* The message under way is in codings the decoder knows.
Readable == \A k \in DOMAIN msg : msg[k].coding = "general"

\* A long message whose parts have all come, in whatever order, reads as it was
\* written, each part up to its first character 0, if its parts and its length are
\* within the limits.
WholeText == FlattenSeq([k \in DOMAIN msg |-> Said(msg[k])])
WithinLimits ==
  /\ Len(msg) <= SMS_CONCAT_MAX_PARTS
  /\ \A k \in DOMAIN msg : Len(Said(msg[k])) < SMS_PART_TEXT_MAX
  /\ Len(WholeText) < SMS_TEXT_MAX
CompleteReadsAsWritten ==
  item # NoItem /\ item.type = "sms" /\ ~expired /\ Readable /\ WithinLimits =>
    item.text = WholeText

\* What wxpusher is sent is JSON whose content is again JSON, with the item's sender
\* and text in it unchanged: two escapings and the re-indenting between them cancel
\* out.  The server refuses nothing the device posts.
Content == Std!Strings(pushed)[2]
PushCarriesItem ==
  /\ stage # "notjson"
  /\ stage = "pushed" =>
       Std!Strings(Content) =
         IF item.type = "call" THEN <<CallerName, item.sender, CallTsName, TsName>>
         ELSE <<SenderName, item.sender, ContentName, item.text, TsName>>

\* It is UTF-8, unless a part or the assembled text has filled its array, which may
\* cut a character, a part has half of a surrogate pair, or a coding is not known.
MayBeCut ==
  \/ Len(item.text) = SMS_TEXT_MAX - 1
  \/ \E k \in DOMAIN msg : Len(Said(msg[k])) >= SMS_PART_TEXT_MAX
PushIsUtf8 ==
  /\ stage = "pushed" /\ Readable /\ ~MayBeCut
  /\ \A k \in DOMAIN msg : Std!IsUtf8(Said(msg[k]))
  => Std!IsUtf8(pushed)
=============================================================================
