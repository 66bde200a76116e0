----------------------------- MODULE ReportText -----------------------------
(***************************************************************************)
(* The text of a report on its way from net_upload_post through the        *)
(* report server (pretty_json, json_escape, send_wxpusher) to wxpusher.    *)
(* Strings are sequences of byte values.                                   *)
(***************************************************************************)
EXTENDS Naturals, Sequences, SequencesExt, SmsPdu

CONSTANT BODY_SIZE   \* of s_body in net_upload.c

NL == 10
CR == 13
Space == 32
Quote == 34
Comma == 44
Colon == 58
Backslash == 92
Digits == 48 .. 57
White  == (9 .. 13) \cup {Space}
OpenBrackets  == {91, 123}
CloseBrackets == {93, 125}
Match(close)  == close - 2

Letter(byte) ==
  CASE byte = 8 -> 98 [] byte = 9 -> 116 [] byte = NL -> 110 [] byte = 12 -> 102
    [] byte = CR -> 114 [] OTHER -> byte
HexDigit(n)  == IF n < 10 THEN 48 + n ELSE 87 + n
Unicode(byte) == <<Backslash, 117, 48, 48, HexDigit(byte \div 16), HexDigit(byte % 16)>>

\* One byte inside a JSON string, where those in unprintable become \u00xx.
Escaped(byte, unprintable) ==
  CASE byte \in {Quote, Backslash, 8, 9, NL, 12, CR} -> <<Backslash, Letter(byte)>>
    [] byte \in unprintable \ {8, 9, NL, 12, CR}    -> Unicode(byte)
    [] OTHER                                        -> <<byte>>

\* json_escape of the server.
json_escape(text) == FlattenSeq([i \in DOMAIN text |-> Escaped(text[i], (0 .. 31) \cup {127})])

----------------------------------------------------------------------------
(* net_upload_post *)

Quoted(s)      == <<Quote>> \o s \o <<Quote>>
\* The library's printer.
CJsonString(s) == Quoted(FlattenSeq([i \in DOMAIN s |-> Escaped(s[i], 0 .. 31)]))
CJsonObject(members) ==
  LET Member(m) == Quoted(m.name) \o <<Colon>> \o m.value
      Rest      == [i \in 1 .. Len(members) - 1 |-> <<Comma>> \o Member(members[i + 1])]
  IN  <<123>> \o Member(members[1]) \o FlattenSeq(Rest) \o <<125>>

\* Field names by their first letters.
SenderName  == <<115>>
CallerName  == <<99, 97>>
ContentName == <<99>>
CallTsName  == <<99, 116>>
TsName      == <<116>>
ATime       == <<49, 55, 57>>   \* seconds since 1970, in figures

\* The JSON of an item.  msg_id, imei, imsi, type and scts are plain text that is
\* handled like any other; a call's time is a number.
UploadBody(item) ==
  CJsonObject(
    IF item.type = "call"
    THEN <<[name |-> CallerName, value |-> CJsonString(item.sender)],
           [name |-> CallTsName, value |-> ATime],
           [name |-> TsName, value |-> ATime]>>
    ELSE <<[name |-> SenderName, value |-> CJsonString(item.sender)],
           [name |-> ContentName, value |-> CJsonString(item.text)],
           [name |-> TsName, value |-> ATime]>>)

BodyFits(body) == Len(body) < BODY_SIZE

----------------------------------------------------------------------------
(* pretty_json *)

Number(s) == s # <<>> /\ ToSet(s) \subseteq Digits
Dot(b)    == b = 46
Exp(b)    == b \in {69, 101}
Unsigned(s, signs) == IF s # <<>> /\ s[1] \in signs THEN Tail(s) ELSE s

\* true, false, null
Words == {<<116, 114, 117, 101>>, <<102, 97, 108, 115, 101>>, <<110, 117, 108, 108>>}

is_json_scalar(token) ==
  LET u        == Unsigned(token, {45})
      mantissa == Before(u, Exp)
  IN  \/ token \in Words
      \/ /\ Number(Before(mantissa, Dot))
         /\ Contains(mantissa, 46) => Number(After(mantissa, Dot))
         /\ Len(mantissa) < Len(u) => Number(Unsigned(After(u, Exp), {43, 45}))

\* out: the result so far; stack: the brackets open, which is also the indentation.
PrettyStart ==
  [ok |-> TRUE, out |-> <<>>, stack |-> <<>>, token |-> <<>>, in_string |-> FALSE,
   escaped |-> FALSE, need_indent |-> FALSE, after_comma |-> FALSE, has_token |-> FALSE]

Put(st, bytes)   == [st EXCEPT !.out = @ \o bytes]
NewLine(st, n)   == [Put(st, <<NL>> \o [i \in 1 .. 2 * n |-> Space]) EXCEPT !.need_indent = FALSE]
Indented(st)     == IF st.need_indent THEN NewLine(st, Len(st.stack)) ELSE st
Flushed(st)      == st.token = <<>> \/ is_json_scalar(st.token)
Structural(ch)   == ch \in {Quote, Comma, Colon} \cup OpenBrackets \cup CloseBrackets

\* Variant: after a backslash the next character is looked at like any other.
InStringNoEscape(st, ch) == [Put(st, <<ch>>) EXCEPT !.in_string = (ch # Quote)]

\* A character inside a string is copied.
InString(st, ch) ==
  [Put(st, <<ch>>) EXCEPT !.escaped = (~st.escaped /\ ch = Backslash),
                          !.in_string = (st.escaped \/ ch # Quote)]

\* A character that ends the token before it, if any.
Allowed(st, ch) ==
  /\ Flushed(st)
  /\ ch \in CloseBrackets => ~st.after_comma /\ st.stack # <<>> /\ Last(st.stack) = Match(ch)
  /\ ch = Comma => st.stack # <<>> /\ ~st.need_indent
  /\ ch = Colon => st.stack # <<>>

AfterStructural(st, ch) ==
  CASE ch = Quote            -> [Put(Indented(st), <<ch>>) EXCEPT !.in_string = TRUE]
    [] ch \in OpenBrackets   -> [Put(Indented(st), <<ch>>) EXCEPT !.stack = Append(@, ch), !.need_indent = TRUE]
    [] ch \in CloseBrackets  ->
         [Put(IF st.need_indent THEN st ELSE NewLine(st, Len(st.stack) - 1), <<ch>>)
            EXCEPT !.stack = Front(@), !.need_indent = FALSE]
    [] ch = Comma            -> [Put(st, <<ch>>) EXCEPT !.need_indent = TRUE, !.after_comma = TRUE]
    [] ch = Colon            -> [Put(st, <<ch, Space>>) EXCEPT !.need_indent = FALSE]

PrettyStep(st, ch) ==
  IF ~st.ok THEN st
  ELSE IF st.in_string THEN InString(st, ch)
  ELSE IF ch \in White THEN st
  ELSE LET seen == [st EXCEPT !.has_token = TRUE, !.after_comma = FALSE]
       IN  IF ~Structural(ch) THEN [Put(Indented(seen), <<ch>>) EXCEPT !.token = Append(@, ch)]
           ELSE IF Allowed(st, ch) THEN AfterStructural([seen EXCEPT !.token = <<>>], ch)
           ELSE [st EXCEPT !.ok = FALSE]

PrettyRun(text) ==
  LET After0[n \in 0 .. Len(text)] == IF n = 0 THEN PrettyStart ELSE PrettyStep(After0[n - 1], text[n])
  IN  After0[Len(text)]

IsPretty(st) == st.ok /\ ~st.in_string /\ st.stack = <<>> /\ st.has_token /\ Flushed(st)

----------------------------------------------------------------------------
(* send_wxpusher *)

\* The request's body; the token, the summary and the recipient are fixed text.
PushBody(content) ==
  <<123>> \o Quoted(ContentName) \o <<Colon>> \o Quoted(json_escape(content)) \o <<125>>
=============================================================================
