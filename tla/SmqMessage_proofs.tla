------------------------- MODULE SmqMessage_proofs -------------------------
(***************************************************************************)
(* Proofs about SmqMessage: what a message says survives every way through *)
(* packing, sending, redirecting, saving and reading back.                 *)
(*                                                                         *)
(* The inductive invariant follows the body of the message in its three    *)
(* copies (the parsed form, the SIP text and the save file) and tells one  *)
(* that is still to be packed from one that has been.                      *)
(***************************************************************************)
EXTENDS SmqMessage, TLAPS

Sayings == Texts \cup {NoText, Garbled}

\* A body as it came, that says o.
FreshBody(f, o) ==
    /\ f.says = o
    /\ \/ f.type = "TEXT_PLAIN" /\ f.kind = "text" /\ o \notin Undecodable
       \/ f.type = "VND_3GPP_SMS" /\ f.kind = "SUBMIT"
       \/ f.type = "VND_3GPP_SMS" /\ f.kind \in {"empty", "noise"} /\ o = NoText

\* A body that needs no packing any more.  What cannot be decoded stays in a TPDU
\* that was only recoded, and is gone from what was converted.
PackedBody(f, o) ==
    \/ f.type = "TEXT_PLAIN" /\ f.kind = "text" /\ f.says = decode(o)
    \/ f.type = "VND_3GPP_SMS" /\ f.kind = "DELIVER" /\ f.says \in {o, decode(o)}
    \/ f.kind = "empty" /\ f.says = NoText /\ o = NoText

SameBody(f, g) == f.type = g.type /\ f.kind = g.kind /\ f.says = g.says

\* What has not been packed is as it was parsed.
FreshOK(m, o) ==
    /\ FreshBody(m.parsed, o)
    /\ m.content_type = m.parsed.type
    /\ m.content_type = "VND_3GPP_SMS" => m.ms_to_sc
    /\ m.tl_message = parseTPDU(m.parsed)

\* What a bounce quotes of a message that said o when it came.
Quote(came, is, o) ==
    IF o \in Undecodable THEN NoText
    ELSE IF came = is THEN o
    ELSE IF came = "TEXT_PLAIN" THEN Garbled ELSE NoText

PackedOK(m, o) ==
    /\ PackedBody(m.parsed, o)
    /\ get_text(m) = Quote(m.content_type, m.parsed.type, o)

\* The message m, that said o when it came.
MsgOK(m, o) ==
    /\ m \in short_msg /\ m.parsed \in Form /\ m.parsed_is_valid
    /\ m.need_repack => FreshOK(m, o)
    /\ ~m.need_repack => PackedOK(m, o)
    /\ ~m.parsed_is_better => SameBody(m.text, m.parsed)

RecordOK(r, o) ==
    /\ r.text \in Form /\ r.ms_to_sc \in BOOLEAN /\ r.need_repack \in BOOLEAN
    /\ r.need_repack => /\ FreshBody(r.text, o)
                        /\ r.text.type = "VND_3GPP_SMS" => r.ms_to_sc
    /\ ~r.need_repack => PackedBody(r.text, o)

\* Before a message is sent its text is written out, if it is not current.
OutgoingOK(m, s) ==
    s \in {"REQUEST_MSG_DELIVERY", "ASKED_FOR_MSG_DELIVERY"} =>
        m.parsed_is_better \/ m.text = m.parsed

\* A message for the relay is converted when it is packed.
RelayOK(m, s, r, o) ==
    /\ s = "INITIAL_STATE" => m.need_repack
    /\ m.parsed.uri = "phone" /\ r # "none" =>
         /\ m.need_repack /\ s \in {"REQUEST_MSG_DELIVERY", "ASKED_FOR_MSG_DELIVERY"}
              => m.convert_content_type = r
         /\ ~m.need_repack => m.parsed.type = r /\ m.parsed.says = decode(o)

\* Without a relay no TPDU is converted, since it is routed to handsets only.
LocalOK(m, s, o) ==
    /\ m.need_repack /\ m.parsed.kind = "SUBMIT" =>
         /\ ~Converting(m)
         /\ s = "REQUEST_DESTINATION_SIPURL" => m.parsed.uri = "imsi"
    /\ ~m.need_repack => m.parsed.says = o
    /\ ~m.parsed_is_better => m.text.uri = m.parsed.uri

RoutedOK(m, s, o) ==
    /\ crashes = 0 => RelayOK(m, s, relay, o)
    /\ relay = "none" => LocalOK(m, s, o)

LocalRecord(r, o) ==
    /\ r.need_repack /\ r.text.kind = "SUBMIT" /\ r.state = "REQUEST_DESTINATION_SIPURL"
         => r.text.uri = "imsi"
    /\ ~r.need_repack => r.text.says = o

FiledOK(r, o) == RecordOK(r, o) /\ (relay = "none" => LocalRecord(r, o))

SentOK(d, o) ==
    /\ d \in Form /\ PackedBody(d, o)
    /\ (d.uri = "phone" /\ relay # "none" /\ crashes = 0) => d.type = relay /\ d.says = decode(o)
    /\ relay = "none" => d.says = o

MessageInv ==
    /\ relay \in Relays /\ crashes \in 0..MaxCrashes /\ original \in Sayings
    /\ up \in BOOLEAN
    /\ msg # NoMsg => /\ MsgOK(msg, original) /\ OutgoingOK(msg, state)
                      /\ RoutedOK(msg, state, original)
    /\ file # NoRecord => FiledOK(file, original)
    /\ ~up => msg = NoMsg /\ state = "none" /\ crashes > 0
    /\ datagram # NoForm => SentOK(datagram, original)
    /\ NoticeQuotesText

-----------------------------------------------------------------------------
(* The two forms of the message.                                           *)

\* A form is not the absence of one.
LEMMA FormIsSome ==
    ASSUME NEW f \in Form
    PROVE  f # NoForm
BY DEF Form, NoForm, ContentType

\* Nor is a message.
LEMMA MsgIsSome ==
    ASSUME NEW m \in short_msg
    PROVE  m # NoMsg
<1>1. m.text \in Form
    BY DEF short_msg
<1>2. m.text # NoForm
    BY <1>1, FormIsSome
<1>3. QED
    BY <1>2 DEF NoMsg

\* e is m with other headers, and perhaps a request to convert it.
Changed(e, m) ==
    /\ e \in short_msg /\ e.parsed \in Form /\ e.parsed_is_valid
    /\ SameBody(e.parsed, m.parsed) /\ e.text = m.text
    /\ e.content_type = m.content_type /\ e.tl_message = m.tl_message
    /\ e.ms_to_sc = m.ms_to_sc /\ e.need_repack = m.need_repack
    /\ m.parsed_is_better => e.parsed_is_better
    /\ Converting(m) => Converting(e)

\* Changing headers of a message that is in order leaves it in order.
LEMMA ChangedOK ==
    ASSUME NEW o, NEW m, MsgOK(m, o), NEW e, Changed(e, m)
    PROVE  MsgOK(e, o)
<1>1. get_text(e) = get_text(m)
    BY DEF Changed, SameBody, get_text
<1>2. e.need_repack => FreshOK(e, o)
    BY DEF Changed, SameBody, MsgOK, FreshOK, FreshBody, parseTPDU, HasTPDU
<1>3. ~e.need_repack => PackedOK(e, o)
    BY <1>1 DEF Changed, SameBody, MsgOK, PackedOK, PackedBody
<1>4. ~e.parsed_is_better => SameBody(e.text, e.parsed)
    BY DEF Changed, SameBody, MsgOK
<1>5. QED
    BY <1>2, <1>3, <1>4 DEF MsgOK, Changed

\* Nothing changed is a change of that kind.
LEMMA SelfChanged ==
    ASSUME NEW o, NEW m, MsgOK(m, o)
    PROVE  Changed(m, m)
BY DEF Changed, MsgOK, SameBody

\* parsed_was_changed() only says which form is the better one.
LEMMA BetterChanged ==
    ASSUME NEW m, NEW e, Changed(e, m)
    PROVE  /\ Changed(parsed_was_changed(e), m)
           /\ parsed_was_changed(e).parsed_is_better
           /\ parsed_was_changed(e).parsed = e.parsed
           /\ parsed_was_changed(e).convert_content_type = e.convert_content_type
<1> DEFINE b == parsed_was_changed(e)
<1>1. e \in short_msg
    BY DEF Changed
<1>2. /\ b \in short_msg /\ b.text = e.text /\ b.parsed = e.parsed
      /\ b.parsed_is_valid = e.parsed_is_valid /\ b.parsed_is_better
      /\ b.content_type = e.content_type /\ b.tl_message = e.tl_message
      /\ b.convert_content_type = e.convert_content_type
      /\ b.ms_to_sc = e.ms_to_sc /\ b.need_repack = e.need_repack
    BY <1>1 DEF parsed_was_changed, short_msg
<1> HIDE DEF b
<1>3. Changed(b, m)
    BY <1>2 DEF Changed, SameBody, Converting
<1>4. QED
    BY <1>2, <1>3 DEF b

\* The text is written out.
LEMMA TextValid ==
    ASSUME NEW o, NEW m, MsgOK(m, o)
    PROVE  /\ MsgOK(make_text_valid(m), o)
           /\ SameBody(make_text_valid(m).text, m.parsed)
           /\ make_text_valid(m).text \in Form
           /\ make_text_valid(m).parsed = m.parsed
           /\ make_text_valid(m).ms_to_sc = m.ms_to_sc
           /\ make_text_valid(m).need_repack = m.need_repack
           /\ make_text_valid(m).convert_content_type = m.convert_content_type
           /\ m.parsed_is_better \/ m.text = m.parsed => make_text_valid(m).text = m.parsed
           /\ ~m.parsed_is_better => make_text_valid(m) = m
<1> DEFINE b == [m EXCEPT !.text = m.parsed, !.parsed_is_better = FALSE]
<1>1. m \in short_msg /\ m.parsed \in Form /\ m.parsed_is_valid
    BY DEF MsgOK
<1>2. CASE m.parsed_is_better
    <2>1. make_text_valid(m) = b
        BY <1>1, <1>2 DEF make_text_valid
    <2>2. /\ b \in short_msg /\ b.text = m.parsed /\ b.parsed = m.parsed
          /\ b.parsed_is_valid /\ ~b.parsed_is_better
          /\ b.content_type = m.content_type /\ b.tl_message = m.tl_message
          /\ b.convert_content_type = m.convert_content_type
          /\ b.ms_to_sc = m.ms_to_sc /\ b.need_repack = m.need_repack
        BY <1>1 DEF short_msg
    <2> HIDE DEF b
    <2>3. get_text(b) = get_text(m)
        BY <2>2 DEF get_text
    <2>4. MsgOK(b, o)
        BY <1>1, <2>2, <2>3 DEF MsgOK, FreshOK, PackedOK, SameBody, Converting
    <2>5. QED
        BY <1>1, <1>2, <2>1, <2>2, <2>4 DEF SameBody
<1>3. CASE ~m.parsed_is_better
    <2>1. make_text_valid(m) = m
        BY <1>3 DEF make_text_valid
    <2>2. m.text \in Form
        BY <1>1 DEF short_msg
    <2>3. QED
        BY <1>3, <2>1, <2>2 DEF MsgOK
<1>4. QED
    BY <1>2, <1>3

\* What is parsed for the first time.
LEMMA ParseNew ==
    ASSUME NEW f \in Form, NEW m \in short_msg, m.text = f, ~m.parsed_is_valid
    PROVE  LET e == parse(m)
           IN  /\ e \in short_msg /\ e.text = f /\ e.parsed = f
               /\ e.parsed_is_valid /\ ~e.parsed_is_better
               /\ e.content_type = f.type /\ e.tl_message = parseTPDU(f)
               /\ e.ms_to_sc = m.ms_to_sc /\ e.need_repack = m.need_repack
               /\ e.convert_content_type = m.convert_content_type
<1>1. make_text_valid(m) = m
    BY DEF make_text_valid
<1>2. unparse(m) = [m EXCEPT !.tl_message = NoTl, !.content_type = "UNSUPPORTED_CONTENT",
        !.parsed = NoForm, !.parsed_is_valid = FALSE, !.parsed_is_better = FALSE]
    BY <1>1 DEF unparse
<1>3. NoTl \in TLMessage /\ parseTPDU(f) \in TLMessage /\ f.type \in ContentType
    BY DEF NoTl, TLMessage, parseTPDU, Form
<1> DEFINE u == unparse(m)
<1>4. /\ u \in short_msg /\ u.text = f /\ ~u.parsed_is_better
      /\ u.ms_to_sc = m.ms_to_sc /\ u.need_repack = m.need_repack
      /\ u.convert_content_type = m.convert_content_type
    <2>1. "UNSUPPORTED_CONTENT" \in ContentType
        BY DEF ContentType
    <2>2. u \in short_msg
        BY <1>2, <1>3, <2>1 DEF short_msg
    <2>3. QED
        BY <1>2, <2>2 DEF short_msg
<1>5. parse(m) = [u EXCEPT !.parsed = f, !.parsed_is_valid = TRUE,
                           !.content_type = f.type, !.tl_message = parseTPDU(f)]
    BY DEF parse
<1> HIDE DEF u
<1>6. QED
    BY <1>3, <1>4, <1>5 DEF short_msg

\* A new message object has its text and nothing parsed.
LEMMA InitializeType ==
    ASSUME NEW f \in Form
    PROVE  /\ initialize(f) \in short_msg /\ initialize(f).text = f
           /\ ~initialize(f).parsed_is_valid /\ ~initialize(f).ms_to_sc
           /\ initialize(f).need_repack
           /\ initialize(f).convert_content_type = "UNSUPPORTED_CONTENT"
BY DEF initialize, short_msg, NoTl, TLMessage, ContentType

-----------------------------------------------------------------------------
(* Packing.                                                                *)

\* What has not been packed is read as its sender wrote it, if it can be decoded.
LEMMA FreshText ==
    ASSUME NEW o, NEW m, FreshOK(m, o)
    PROVE  /\ get_text(m) = decode(o)
           /\ get_text(m) = Quote(m.content_type, m.parsed.type, o)
           /\ m.parsed.kind # "SUBMIT" => decode(o) = o
<1>1. m.tl_message = NoTl => m.tl_message.mti = "none"
    BY DEF NoTl
<1>2. CASE m.content_type = "TEXT_PLAIN"
    BY <1>2 DEF FreshOK, FreshBody, get_text, decode, Quote
<1>3. CASE m.content_type = "VND_3GPP_SMS" /\ m.parsed.kind = "SUBMIT"
    BY <1>3 DEF FreshOK, FreshBody, get_text, parseTPDU, HasTPDU, decode, Quote
<1>4. CASE m.content_type = "VND_3GPP_SMS" /\ m.parsed.kind # "SUBMIT"
    BY <1>1, <1>4, TextAssumption
    DEF FreshOK, FreshBody, get_text, parseTPDU, decode, Quote
<1>5. QED
    BY <1>2, <1>3, <1>4 DEF FreshOK, FreshBody

\* osip_message_set_body() replaces the body and no header.
LEMMA SetBodyType ==
    ASSUME NEW f \in Form, NEW kind \in Kinds, NEW says \in Sayings
    PROVE  LET b == SetBody(f, kind, says)
           IN  /\ b \in Form /\ b.type = f.type /\ b.uri = f.uri
               /\ f.kind = "empty" => b.kind = "empty" /\ b.says = f.says
               /\ f.kind # "empty" => b.kind = kind /\ b.says = says
BY DEF SetBody, Form, Sayings

\* The body becomes a DELIVER that says what it is given: what was said before,
\* or what decode() made of it.
LEMMA DeliveryOK ==
    ASSUME NEW o \in Sayings, NEW m, MsgOK(m, o), FreshOK(m, o),
           NEW w, w = o \/ w = decode(o)
    PROVE  LET d == create_sms_delivery(m, w)
           IN  /\ d \in short_msg /\ d.parsed \in Form /\ d.parsed_is_valid
               /\ d.parsed_is_better /\ ~d.ms_to_sc /\ d.parsed.uri = m.parsed.uri
               /\ d.tl_message = [mti |-> "DELIVER", says |-> w]
               /\ d.parsed.type = m.parsed.type /\ d.parsed.says = w
               /\ d.parsed.kind = "DELIVER" \/ (d.parsed.kind = "empty" /\ o = NoText)
               /\ m.parsed.kind # "empty" => d.parsed.kind = "DELIVER"
               /\ d.content_type = m.content_type
               /\ d.convert_content_type = m.convert_content_type
<1> DEFINE b == SetBody(m.parsed, "DELIVER", w)
           t == [mti |-> "DELIVER", says |-> w]
           c == [m EXCEPT !.tl_message = t, !.parsed = b, !.ms_to_sc = FALSE]
           d == create_sms_delivery(m, w)
<1>1. w \in Sayings
    BY DEF decode, Sayings
<1>2. m \in short_msg /\ m.parsed \in Form /\ m.parsed_is_valid
    BY DEF MsgOK
<1>3. "DELIVER" \in Kinds
    BY DEF Kinds
<1>4. /\ b \in Form /\ b.type = m.parsed.type /\ b.uri = m.parsed.uri
      /\ m.parsed.kind = "empty" => b.kind = "empty" /\ b.says = m.parsed.says
      /\ m.parsed.kind # "empty" => b.kind = "DELIVER" /\ b.says = w
    BY <1>1, <1>2, <1>3, SetBodyType
<1>5. b.says = w /\ (b.kind = "DELIVER" \/ (b.kind = "empty" /\ o = NoText))
    BY <1>4, TextAssumption DEF FreshOK, FreshBody, decode
<1>6. t \in TLMessage
    BY <1>1 DEF TLMessage, Sayings
<1>7. d = parsed_was_changed(c)
    BY DEF create_sms_delivery
<1> HIDE DEF b, t, d
<1>8. /\ c \in short_msg /\ c.parsed = b /\ c.parsed_is_valid /\ ~c.ms_to_sc
      /\ c.tl_message = t /\ c.content_type = m.content_type
      /\ c.convert_content_type = m.convert_content_type
    BY <1>2, <1>4, <1>6 DEF short_msg
<1> HIDE DEF c
<1>9. /\ d \in short_msg /\ d.parsed = b /\ d.parsed_is_valid /\ d.parsed_is_better
      /\ ~d.ms_to_sc /\ d.tl_message = t /\ d.content_type = m.content_type
      /\ d.convert_content_type = m.convert_content_type
    BY <1>7, <1>8 DEF parsed_was_changed, short_msg
<1>10. QED
    BY <1>4, <1>5, <1>9 DEF t, d

\* What Packed returns: it says o, and is what was asked for.
PackedNow(e, m, o) ==
    /\ e \in short_msg /\ e.parsed \in Form /\ e.parsed_is_valid /\ e.parsed_is_better
    /\ PackedBody(e.parsed, o) /\ e.parsed.uri = m.parsed.uri
    /\ e.parsed.type = PackAs(m)
    /\ e.convert_content_type = m.convert_content_type
    /\ e.parsed.says = IF Converting(m) THEN decode(o) ELSE o
    /\ get_text(e) = Quote(e.content_type, e.parsed.type, o)

\* What packing makes of a message that has not been packed.
LEMMA PackedMeans ==
    ASSUME NEW o \in Sayings, NEW m, MsgOK(m, o), m.need_repack, ~PackFails(m)
    PROVE  PackedNow(Packed(m), m, o)
<1>1. /\ m \in short_msg /\ m.parsed \in Form /\ m.parsed_is_valid /\ FreshOK(m, o)
    BY DEF MsgOK
<1>2. get_text(m) = decode(o) /\ (m.parsed.kind # "SUBMIT" => decode(o) = o)
    BY <1>1, FreshText
<1>3. decode(o) \in Sayings /\ decode(decode(o)) = decode(o)
    BY TextAssumption DEF decode, Sayings
<1>4. m.content_type \in {"TEXT_PLAIN", "VND_3GPP_SMS"} /\ m.content_type = m.parsed.type
    BY <1>1 DEF FreshOK, FreshBody
<1>5. m.content_type = "TEXT_PLAIN" => m.parsed.kind = "text" /\ o \notin Undecodable
    BY <1>1 DEF FreshOK, FreshBody
<1>6. PackAs(m) \in ContentType /\ PackAs(m) # "UNSUPPORTED_CONTENT"
    BY <1>1 DEF PackAs, PackFails, short_msg
<1>7. CASE PackAs(m) = "TEXT_PLAIN"
    <2> DEFINE b == SetBody(m.parsed, "text", decode(o))
               c == [b EXCEPT !.type = "TEXT_PLAIN"]
               d == [m EXCEPT !.parsed = c, !.ms_to_sc = FALSE]
               e == Packed(m)
    <2>1. "text" \in Kinds
        BY DEF Kinds
    <2>2. /\ b \in Form /\ b.uri = m.parsed.uri
          /\ m.parsed.kind = "empty" => b.kind = "empty" /\ b.says = m.parsed.says
          /\ m.parsed.kind # "empty" => b.kind = "text" /\ b.says = decode(o)
        BY <1>1, <1>3, <2>1, SetBodyType
    <2> HIDE DEF b
    <2>3. /\ c \in Form /\ c.uri = m.parsed.uri /\ c.type = "TEXT_PLAIN"
          /\ c.kind = b.kind /\ c.says = b.says
        BY <2>2 DEF Form, ContentType
    <2> HIDE DEF c
    <2>4. PackedBody(c, o)
        BY <1>1, <2>2, <2>3 DEF PackedBody, FreshOK, FreshBody
    <2>5. c.says = decode(o)
        BY <1>1, <1>2, <2>2, <2>3 DEF FreshOK, FreshBody
    <2>6. e = parsed_was_changed(d)
        BY <1>2, <1>7 DEF Packed, pack_plain_text, b, c
    <2>7. /\ d \in short_msg /\ d.parsed = c /\ d.parsed_is_valid
          /\ d.content_type = m.content_type /\ d.tl_message = m.tl_message /\ ~d.ms_to_sc
          /\ d.convert_content_type = m.convert_content_type
        BY <1>1, <2>3 DEF short_msg
    <2> HIDE DEF d, e
    <2>8. /\ e \in short_msg /\ e.parsed = c /\ e.parsed_is_valid /\ e.parsed_is_better
          /\ e.content_type = m.content_type /\ e.tl_message = m.tl_message /\ ~e.ms_to_sc
          /\ e.convert_content_type = m.convert_content_type
        BY <2>6, <2>7 DEF parsed_was_changed, short_msg
    <2>9. get_text(e) = Quote(e.content_type, e.parsed.type, o)
        <3>1. CASE m.content_type = "TEXT_PLAIN"
            <4>1. c.kind = "text"
                BY <1>5, <2>2, <2>3, <3>1
            <4>2. QED
                BY <1>5, <2>3, <2>5, <2>8, <3>1, <4>1 DEF get_text, Quote, decode
        <3>2. CASE m.content_type = "VND_3GPP_SMS"
            <4>1. m.tl_message.mti # "DELIVER"
                BY <1>1 DEF FreshOK, parseTPDU, NoTl
            <4>2. QED
                BY <2>3, <2>8, <3>2, <4>1 DEF get_text, Quote
        <3>3. QED
            BY <1>4, <3>1, <3>2
    <2>10. ~Converting(m) => decode(o) = o
        BY <1>7, <1>5 DEF Converting, PackAs, decode
    <2>11. QED
        BY <1>7, <2>3, <2>4, <2>5, <2>8, <2>9, <2>10 DEF PackedNow, e
<1>8. CASE PackAs(m) = "VND_3GPP_SMS" /\ Converting(m)
    <2> DEFINE d == create_sms_delivery(m, decode(o))
    <2>1. /\ d \in short_msg /\ d.parsed \in Form /\ d.parsed_is_valid
          /\ d.parsed_is_better /\ ~d.ms_to_sc /\ d.parsed.uri = m.parsed.uri
          /\ d.tl_message = [mti |-> "DELIVER", says |-> decode(o)]
          /\ d.parsed.type = m.parsed.type /\ d.parsed.says = decode(o)
          /\ d.parsed.kind = "DELIVER" \/ (d.parsed.kind = "empty" /\ o = NoText)
          /\ d.content_type = m.content_type
          /\ m.parsed.kind # "empty" => d.parsed.kind = "DELIVER"
          /\ d.convert_content_type = m.convert_content_type
        BY <1>1, DeliveryOK
    <2> DEFINE c == [d EXCEPT !.parsed.type = "VND_3GPP_SMS"]
               e == Packed(m)
    <2>2. e = parsed_was_changed(c)
        BY <1>2, <1>8 DEF Packed, pack_text_to_tpdu
    <2> HIDE DEF d, e
    <2>3. /\ c \in short_msg /\ c.parsed \in Form /\ c.parsed_is_valid
          /\ c.parsed.uri = m.parsed.uri /\ c.parsed.says = decode(o)
          /\ c.parsed.kind = d.parsed.kind /\ c.parsed.type = "VND_3GPP_SMS"
          /\ c.content_type = m.content_type /\ c.tl_message = d.tl_message /\ ~c.ms_to_sc
          /\ c.convert_content_type = m.convert_content_type
        <3> DEFINE g == [d.parsed EXCEPT !.type = "VND_3GPP_SMS"]
        <3>1. /\ g \in Form /\ g.uri = m.parsed.uri /\ g.says = decode(o)
              /\ g.kind = d.parsed.kind /\ g.type = "VND_3GPP_SMS"
            BY <2>1 DEF Form, ContentType
        <3>2. c = [d EXCEPT !.parsed = g]
            BY <2>1 DEF short_msg
        <3> HIDE DEF g
        <3>3. QED
            BY <2>1, <3>1, <3>2 DEF short_msg
    <2> HIDE DEF c
    <2>4. /\ e \in short_msg /\ e.parsed = c.parsed /\ e.parsed_is_valid
          /\ e.parsed_is_better /\ e.convert_content_type = m.convert_content_type
          /\ e.content_type = m.content_type /\ e.tl_message = d.tl_message /\ ~e.ms_to_sc
        BY <2>2, <2>3 DEF parsed_was_changed, short_msg
    <2>5. PackedBody(e.parsed, o)
        BY <2>1, <2>3, <2>4, TextAssumption DEF PackedBody, decode
    <2>6. get_text(e) = Quote(e.content_type, e.parsed.type, o)
        <3>1. CASE m.content_type = "TEXT_PLAIN"
            BY <1>5, <2>1, <2>3, <2>4, <3>1 DEF get_text, Quote
        <3>2. CASE m.content_type = "VND_3GPP_SMS"
            <4>1. get_text(e) = decode(o)
                BY <1>3, <2>1, <2>4, <3>2 DEF get_text
            <4>2. QED
                BY <2>3, <2>4, <3>2, <4>1 DEF Quote, decode
        <3>3. QED
            BY <1>4, <3>1, <3>2
    <2>7. QED
        BY <1>8, <2>3, <2>4, <2>5, <2>6 DEF PackedNow, e
<1>9. CASE PackAs(m) = "VND_3GPP_SMS" /\ ~Converting(m)
    <2> DEFINE d == create_sms_delivery(m, o)
    <2>1. /\ d \in short_msg /\ d.parsed \in Form /\ d.parsed_is_valid
          /\ d.parsed_is_better /\ d.parsed.uri = m.parsed.uri /\ d.parsed.says = o
          /\ d.parsed.type = m.parsed.type /\ ~d.ms_to_sc
          /\ d.tl_message = [mti |-> "DELIVER", says |-> o]
          /\ d.parsed.kind = "DELIVER" \/ (d.parsed.kind = "empty" /\ o = NoText)
          /\ d.content_type = m.content_type
          /\ d.convert_content_type = m.convert_content_type
        BY <1>1, DeliveryOK
    <2>2. m.content_type = "VND_3GPP_SMS" /\ m.ms_to_sc /\ m.parsed.type = "VND_3GPP_SMS"
        BY <1>1, <1>9 DEF PackAs, Converting, FreshOK
    <2>3. m.tl_message # NoTl
        BY <1>9, <2>2 DEF PackFails
    <2>4. m.tl_message.says = o
        BY <1>1, <2>3 DEF FreshOK, parseTPDU, FreshBody
    <2>5. Packed(m) = d
        BY <1>9, <2>2, <2>4 DEF Packed, recode_tpdu
    <2> HIDE DEF d
    <2>6. get_text(d) = Quote(d.content_type, d.parsed.type, o)
        BY <2>1, <2>2 DEF get_text, Quote, decode
    <2>7. QED
        BY <1>9, <2>1, <2>2, <2>5, <2>6 DEF PackedNow, PackedBody
<1>10. QED
    BY <1>6, <1>7, <1>8, <1>9 DEF ContentType

\* pack_sms_for_delivery() packs once and keeps what the sender wrote, unless
\* it is converted and cannot be decoded.
LEMMA PackOK ==
    ASSUME NEW o \in Sayings, NEW m, MsgOK(m, o), ~PackFails(m)
    PROVE  LET e == pack_sms_for_delivery(m)
           IN  /\ MsgOK(e, o) /\ ~e.need_repack /\ e.parsed.uri = m.parsed.uri
               /\ m.need_repack =>
                    /\ e.parsed.type = PackAs(m) /\ e.parsed_is_better
                    /\ e.parsed.says = IF Converting(m) THEN decode(o) ELSE o
               /\ ~m.need_repack => e = m
               /\ e.convert_content_type = m.convert_content_type
<1>1. m \in short_msg
    BY DEF MsgOK
<1>2. CASE m.need_repack
    <2> DEFINE p == Packed(m)
               e == [p EXCEPT !.need_repack = FALSE]
    <2>1. PackedNow(p, m, o)
        BY <1>2, PackedMeans
    <2>2. pack_sms_for_delivery(m) = e
        BY <1>2 DEF pack_sms_for_delivery
    <2> HIDE DEF p
    <2>3. /\ e \in short_msg /\ e.parsed = p.parsed /\ e.parsed_is_valid = p.parsed_is_valid
          /\ e.parsed_is_better = p.parsed_is_better /\ ~e.need_repack
          /\ e.content_type = p.content_type /\ e.tl_message = p.tl_message
          /\ e.convert_content_type = p.convert_content_type
          /\ e.ms_to_sc = p.ms_to_sc
        BY <2>1 DEF PackedNow, short_msg
    <2> HIDE DEF e
    <2>4. get_text(e) = get_text(p)
        BY <2>3 DEF get_text
    <2>5. MsgOK(e, o)
        BY <2>1, <2>3, <2>4 DEF PackedNow, MsgOK, PackedOK, Converting
    <2>6. QED
        BY <1>2, <2>1, <2>2, <2>3, <2>5 DEF PackedNow
<1>3. CASE ~m.need_repack
    <2>1. pack_sms_for_delivery(m) = m
        BY <1>3 DEF pack_sms_for_delivery
    <2>2. QED
        BY <1>3, <2>1
<1>4. QED
    BY <1>2, <1>3

-----------------------------------------------------------------------------
(* Headers, saving and reading back.                                       *)

\* e is m with the headers of g, to be converted to c.
WithHeaders(e, m, g, c) == e = [m EXCEPT !.parsed = g, !.convert_content_type = c]

\* New headers over the same body are a change of headers.
LEMMA HeadersChanged ==
    ASSUME NEW o, NEW m, NEW g, NEW c, NEW e, WithHeaders(e, m, g, c),
           MsgOK(m, o), g \in Form, SameBody(g, m.parsed), c \in ContentType,
           c = m.convert_content_type \/ c # "UNSUPPORTED_CONTENT"
    PROVE  /\ Changed(e, m) /\ e.parsed = g /\ e.convert_content_type = c
           /\ e.parsed_is_better = m.parsed_is_better
<1>1. m \in short_msg /\ m.parsed_is_valid
    BY DEF MsgOK
<1>2. /\ e \in short_msg /\ e.text = m.text /\ e.parsed = g
      /\ e.parsed_is_valid = m.parsed_is_valid /\ e.parsed_is_better = m.parsed_is_better
      /\ e.content_type = m.content_type /\ e.tl_message = m.tl_message
      /\ e.convert_content_type = c
      /\ e.ms_to_sc = m.ms_to_sc /\ e.need_repack = m.need_repack
    BY <1>1 DEF short_msg, WithHeaders
<1>3. Changed(e, m)
    BY <1>1, <1>2 DEF Changed, Converting
<1>4. QED
    BY <1>2, <1>3

\* What is written to the file can be read back.
LEMMA RecordWritten ==
    ASSUME NEW o, NEW m, MsgOK(m, o), NEW s
    PROVE  RecordOK([state |-> s, text |-> make_text_valid(m).text,
                     ms_to_sc |-> m.ms_to_sc, need_repack |-> m.need_repack], o)
<1> DEFINE t == make_text_valid(m).text
<1>1. t \in Form /\ SameBody(t, m.parsed)
    BY TextValid
<1>2. m.ms_to_sc \in BOOLEAN /\ m.need_repack \in BOOLEAN
    BY DEF MsgOK, short_msg
<1> HIDE DEF t
<1>3. m.need_repack => /\ FreshBody(t, o)
                       /\ t.type = "VND_3GPP_SMS" => m.ms_to_sc
    BY <1>1 DEF MsgOK, FreshOK, FreshBody, SameBody
<1>4. ~m.need_repack => PackedBody(t, o)
    BY <1>1 DEF MsgOK, PackedOK, PackedBody, SameBody
<1>5. QED
    BY <1>1, <1>2, <1>3, <1>4 DEF RecordOK, t

\* And says then what it said before, if it is accepted.
LEMMA RecordRead ==
    ASSUME NEW o, RecordOK(file, o), ~ParseFails(Reread)
    PROVE  /\ MsgOK(parse(Reread), o) /\ parse(Reread).text = parse(Reread).parsed
           /\ parse(Reread).parsed = file.text
           /\ parse(Reread).need_repack = file.need_repack /\ ~Converting(parse(Reread))
<1> DEFINE f == file.text
           i == initialize(f)
           e == parse(Reread)
<1>1. f \in Form /\ file.ms_to_sc \in BOOLEAN /\ file.need_repack \in BOOLEAN
    BY DEF RecordOK
<1>2. /\ i \in short_msg /\ i.text = f /\ ~i.parsed_is_valid
      /\ i.convert_content_type = "UNSUPPORTED_CONTENT"
    BY <1>1, InitializeType
<1>3. Reread = [i EXCEPT !.ms_to_sc = file.ms_to_sc, !.need_repack = file.need_repack]
    BY DEF Reread
<1> HIDE DEF f, i
<1>4. /\ Reread \in short_msg /\ Reread.text = f /\ ~Reread.parsed_is_valid
      /\ Reread.convert_content_type = "UNSUPPORTED_CONTENT"
      /\ Reread.ms_to_sc = file.ms_to_sc /\ Reread.need_repack = file.need_repack
    BY <1>1, <1>2, <1>3 DEF short_msg
<1>5. /\ e \in short_msg /\ e.text = f /\ e.parsed = f
      /\ e.parsed_is_valid /\ ~e.parsed_is_better
      /\ e.content_type = f.type /\ e.tl_message = parseTPDU(f)
      /\ e.ms_to_sc = Reread.ms_to_sc /\ e.need_repack = Reread.need_repack
      /\ e.convert_content_type = Reread.convert_content_type
    BY <1>1, <1>4, ParseNew
<1>6. ~(HasTPDU(f) /\ parseTPDU(f) = NoTl)
    BY <1>4 DEF ParseFails
<1> HIDE DEF e
<1>7. e.need_repack => FreshOK(e, o)
    BY <1>4, <1>5 DEF RecordOK, FreshOK, f
<1>8. ASSUME ~e.need_repack
      PROVE  PackedOK(e, o)
    <2>1. PackedBody(f, o)
        BY <1>4, <1>5, <1>8 DEF RecordOK, f
    <2>2. f.kind # "DELIVER" \/ f.type # "VND_3GPP_SMS"
        BY <1>6 DEF HasTPDU, parseTPDU
    <2>3. f.type = "VND_3GPP_SMS" => f.kind = "empty" /\ o = NoText
        BY <2>1, <2>2 DEF PackedBody
    <2>4. f.kind = "empty" => parseTPDU(f).mti = "none"
        BY DEF parseTPDU, HasTPDU, NoTl
    <2>5. NoText \notin Undecodable
        BY TextAssumption
    <2>6. CASE f.type = "VND_3GPP_SMS"
        <3>1. get_text(e) = NoText
            BY <1>5, <2>3, <2>4, <2>6 DEF get_text
        <3>2. QED
            BY <1>5, <2>1, <2>3, <2>5, <2>6, <3>1 DEF PackedOK, Quote
    <2>7. CASE f.type = "TEXT_PLAIN"
        <3>1. f.kind \in {"text", "empty"}
            BY <2>1, <2>7 DEF PackedBody
        <3>2. get_text(e) = f.says
            BY <1>5, <2>7, <3>1 DEF get_text
        <3>3. QED
            BY <1>5, <2>1, <2>5, <2>7, <3>2 DEF PackedOK, PackedBody, Quote, decode
    <2>8. CASE f.type = "UNSUPPORTED_CONTENT"
        <3>1. get_text(e) = NoText
            BY <1>5, <2>8 DEF get_text
        <3>2. QED
            BY <1>5, <2>1, <2>5, <2>8, <3>1 DEF PackedOK, PackedBody, Quote
    <2>9. f.type \in ContentType
        BY <1>1 DEF Form
    <2>10. QED
        BY <2>6, <2>7, <2>8, <2>9 DEF ContentType
<1>9. MsgOK(e, o)
    BY <1>1, <1>5, <1>7, <1>8 DEF MsgOK, SameBody
<1>10. QED
    BY <1>4, <1>5, <1>9 DEF e, f, Converting

\* A notice quotes what was written.
LEMMA QuoteOK ==
    ASSUME NEW o, NEW m, MsgOK(m, o)
    PROVE  get_text(m) = Quote(m.content_type, m.parsed.type, o)
BY FreshText DEF MsgOK, PackedOK

-----------------------------------------------------------------------------
(* Every step preserves the invariant.                                     *)

\* A message that is in order may come into an empty queue.
LEMMA EnterKeeps ==
    ASSUME MessageInv, Free, NEW m, NEW s, NEW says \in Sayings, Enter(m, s, says),
           MsgOK(m, says), OutgoingOK(m, s), RoutedOK(m, s, says)
    PROVE  MessageInv'
<1>1. /\ msg' = m /\ state' = s /\ original' = says /\ file' = NoRecord
      /\ datagram' = NoForm /\ notice' = NoNotice
      /\ relay' = relay /\ up' = up /\ crashes' = crashes /\ up
    BY DEF Enter, Free
<1>2. MsgOK(msg, original)' /\ OutgoingOK(msg, state)' /\ RoutedOK(msg, state, original)'
    BY <1>1 DEF RoutedOK
<1>3. NoticeQuotesText'
    BY <1>1 DEF NoticeQuotesText
<1>4. QED
    BY <1>1, <1>2, <1>3 DEF MessageInv

\* A handler that leaves its message in order keeps the invariant.
LEMMA StepKeeps ==
    ASSUME MessageInv, up, NEW m, NEW s, Step(m, s),
           m # NoMsg => /\ MsgOK(m, original) /\ OutgoingOK(m, s)
                        /\ RoutedOK(m, s, original)
    PROVE  MessageInv'
<1>1. /\ msg' = m /\ state' = s /\ original' = original /\ file' = file
      /\ datagram' = datagram /\ notice' = notice
      /\ relay' = relay /\ up' = up /\ crashes' = crashes
    BY DEF Step, history
<1>2. msg' # NoMsg => /\ MsgOK(msg, original)' /\ OutgoingOK(msg, state)'
                      /\ RoutedOK(msg, state, original)'
    BY <1>1 DEF RoutedOK
<1>3. NoticeQuotesText'
    BY <1>1 DEF MessageInv, NoticeQuotesText
<1>4. file' # NoRecord => FiledOK(file, original)'
    BY <1>1 DEF MessageInv, FiledOK
<1>5. datagram' # NoForm => SentOK(datagram, original)'
    BY <1>1 DEF MessageInv, SentOK
<1>6. QED
    BY <1>1, <1>2, <1>3, <1>4, <1>5 DEF MessageInv

\* The message changes in its headers only and is not about to be sent.
LEMMA QuietStepKeeps ==
    ASSUME MessageInv, up, msg # NoMsg, NEW m, NEW s, Step(m, s), Changed(m, msg),
           s \notin {"INITIAL_STATE", "REQUEST_MSG_DELIVERY", "ASKED_FOR_MSG_DELIVERY"},
           m.parsed.uri = msg.parsed.uri \/ (m.parsed.uri # "phone" /\ m.parsed_is_better),
           relay = "none" => /\ m.convert_content_type = msg.convert_content_type
                             /\ s = "REQUEST_DESTINATION_SIPURL" => m.parsed.uri = "imsi"
    PROVE  MessageInv'
<1>1. MsgOK(msg, original) /\ RoutedOK(msg, state, original)
    BY DEF MessageInv
<1>2. MsgOK(m, original)
    BY <1>1, ChangedOK
<1>3. OutgoingOK(m, s)
    BY DEF OutgoingOK
<1>4. RoutedOK(m, s, original)
    BY <1>1 DEF RoutedOK, RelayOK, LocalOK, Changed, SameBody, Converting
<1>5. QED
    BY <1>2, <1>3, <1>4, StepKeeps

\* main_loop() receives a message.
LEMMA ReceiveKeeps ==
    ASSUME MessageInv, NEW f \in Arrivals, Receive(f)
    PROVE  MessageInv'
<1> DEFINE i == initialize(f)
           p == parse(i)
           m == [p EXCEPT !.ms_to_sc = TRUE]
<1>1. f \in Form /\ f.says \in Sayings
    BY DEF Arrivals, Form, ContentType, Kinds, Sayings
<1>2. /\ i \in short_msg /\ i.text = f /\ ~i.parsed_is_valid /\ i.need_repack
      /\ i.convert_content_type = "UNSUPPORTED_CONTENT"
    BY <1>1, InitializeType
<1>3. ~(HasTPDU(f) /\ parseTPDU(f) = NoTl)
    BY <1>2 DEF Receive, ParseFails
<1> HIDE DEF i
<1>4. /\ p \in short_msg /\ p.text = f /\ p.parsed = f
      /\ p.parsed_is_valid /\ ~p.parsed_is_better
      /\ p.content_type = f.type /\ p.tl_message = parseTPDU(f)
      /\ p.ms_to_sc = i.ms_to_sc /\ p.need_repack = i.need_repack
      /\ p.convert_content_type = i.convert_content_type
    BY <1>1, <1>2, ParseNew
<1> HIDE DEF p
<1>5. /\ m \in short_msg /\ m.text = f /\ m.parsed = f
      /\ m.parsed_is_valid /\ ~m.parsed_is_better
      /\ m.content_type = f.type /\ m.tl_message = parseTPDU(f)
      /\ m.ms_to_sc /\ m.need_repack /\ m.convert_content_type = "UNSUPPORTED_CONTENT"
    BY <1>2, <1>4 DEF short_msg
<1>6. Free /\ Enter(m, "INITIAL_STATE", f.says)
    BY DEF Receive, i, p
<1> HIDE DEF m
<1>7. FreshBody(f, f.says)
    <2>1. /\ f.type \in {"TEXT_PLAIN", "VND_3GPP_SMS"} /\ f.kind \in Kinds \ {"DELIVER"}
          /\ f.type = "TEXT_PLAIN" <=> f.kind = "text"
          /\ f.says = NoText <=> f.kind \in {"empty", "noise", "REPORT"}
          /\ f.says \in Undecodable => f.kind = "SUBMIT"
        BY DEF Arrivals
    <2>2. f.kind # "REPORT"
        BY <1>3, <2>1 DEF HasTPDU, parseTPDU
    <2>3. QED
        BY <2>1, <2>2 DEF FreshBody, Kinds
<1>8. MsgOK(m, f.says)
    BY <1>1, <1>5, <1>7 DEF MsgOK, FreshOK, SameBody
<1>9. OutgoingOK(m, "INITIAL_STATE")
    BY DEF OutgoingOK
<1>10. RoutedOK(m, "INITIAL_STATE", f.says)
    BY <1>2, <1>4, <1>5 DEF RoutedOK, RelayOK, LocalOK, Converting
<1>11. QED
    BY <1>1, <1>6, <1>8, <1>9, <1>10, EnterKeeps

\* originate_sm() makes a message of its own.
LEMMA OriginateKeeps ==
    ASSUME MessageInv, NEW f \in Originals,
           NEW s \in {"REQUEST_DESTINATION_IMSI", "REQUEST_DESTINATION_SIPURL"}, Originate(f, s)
    PROVE  MessageInv'
<1> DEFINE i == initialize(f)
           p == parse(i)
           w == parsed_was_changed(p)
           t == make_text_valid(w)
           u == unparse(w)
           m == parse(u)
<1>1. /\ f \in Form /\ f.says \in Sayings /\ f.type = "TEXT_PLAIN" /\ f.kind = "text"
      /\ f.says \notin Undecodable
    <2>1. PICK g \in Arrivals : /\ f = [g EXCEPT !.via = TRUE, !.from = "phone"]
                                /\ g.type = "TEXT_PLAIN"
        BY Zenon DEF Originals
    <2>2. g \in Form /\ g.kind = "text" /\ g.says \notin Undecodable
        BY <2>1 DEF Arrivals, Form, ContentType, Kinds
    <2>3. QED
        BY <2>1, <2>2 DEF Form, Sayings
<1>2. i \in short_msg /\ i.text = f /\ ~i.parsed_is_valid /\ i.need_repack
    BY <1>1, InitializeType
<1>3. Free /\ Enter(m, s, f.says)
    BY DEF Originate
<1> HIDE DEF i
<1>4. /\ p \in short_msg /\ p.text = f /\ p.parsed = f
      /\ p.parsed_is_valid /\ ~p.parsed_is_better
      /\ p.content_type = f.type /\ p.tl_message = parseTPDU(f)
      /\ p.ms_to_sc = i.ms_to_sc /\ p.need_repack = i.need_repack
      /\ p.convert_content_type = i.convert_content_type
    BY <1>1, <1>2, ParseNew
<1> HIDE DEF p
<1>5. /\ w \in short_msg /\ w.parsed = f /\ w.parsed_is_valid /\ w.parsed_is_better
      /\ w.need_repack
    BY <1>2, <1>4 DEF parsed_was_changed, short_msg
<1> HIDE DEF w
<1>6. t \in short_msg /\ t.text = f /\ t.need_repack
    BY <1>1, <1>5 DEF make_text_valid, short_msg
<1>7. u = [t EXCEPT !.tl_message = NoTl, !.content_type = "UNSUPPORTED_CONTENT",
        !.parsed = NoForm, !.parsed_is_valid = FALSE, !.parsed_is_better = FALSE]
    BY DEF unparse
<1>8. NoTl \in TLMessage
    BY DEF NoTl, TLMessage
<1> HIDE DEF t, u
<1>9. u \in short_msg /\ u.text = f /\ ~u.parsed_is_valid /\ u.need_repack
    BY <1>6, <1>7, <1>8 DEF short_msg, ContentType
<1>10. /\ m \in short_msg /\ m.text = f /\ m.parsed = f
       /\ m.parsed_is_valid /\ ~m.parsed_is_better
       /\ m.content_type = f.type /\ m.tl_message = parseTPDU(f)
       /\ m.ms_to_sc = u.ms_to_sc /\ m.need_repack = u.need_repack
       /\ m.convert_content_type = u.convert_content_type
    BY <1>1, <1>9, ParseNew
<1> HIDE DEF m
<1>11. MsgOK(m, f.says)
    BY <1>1, <1>9, <1>10 DEF MsgOK, FreshOK, FreshBody, SameBody
<1>12. OutgoingOK(m, s) /\ RoutedOK(m, s, f.says)
    BY <1>1, <1>9, <1>10 DEF OutgoingOK, RoutedOK, RelayOK, LocalOK
<1>13. QED
    BY <1>1, <1>3, <1>11, <1>12, EnterKeeps

\* register_handset() makes a REGISTER.
LEMMA OriginateRegisterKeeps ==
    ASSUME MessageInv, OriginateRegister
    PROVE  MessageInv'
<1> DEFINE f == [type |-> "UNSUPPORTED_CONTENT", kind |-> "empty",
                 says |-> NoText, from |-> "imsi", uri |-> "none",
                 via |-> TRUE, routed |-> TRUE]
           i == initialize(f)
           p == parse(i)
           m == [p EXCEPT !.need_repack = FALSE]
<1>1. f \in Form /\ NoText \in Sayings
    BY DEF Form, ContentType, Kinds, Sayings
<1>2. /\ f.type = "UNSUPPORTED_CONTENT" /\ f.kind = "empty" /\ f.says = NoText
      /\ f.uri = "none"
    OBVIOUS
<1>3. Free /\ Enter(m, "REQUEST_MSG_DELIVERY", NoText)
    BY DEF OriginateRegister
<1> HIDE DEF f
<1>4. i \in short_msg /\ i.text = f /\ ~i.parsed_is_valid
    BY <1>1, InitializeType
<1> HIDE DEF i
<1>5. /\ p \in short_msg /\ p.text = f /\ p.parsed = f
      /\ p.parsed_is_valid /\ ~p.parsed_is_better
      /\ p.content_type = f.type /\ p.tl_message = parseTPDU(f)
      /\ p.ms_to_sc = i.ms_to_sc /\ p.need_repack = i.need_repack
      /\ p.convert_content_type = i.convert_content_type
    BY <1>1, <1>4, ParseNew
<1> HIDE DEF p
<1>6. /\ m \in short_msg /\ m.text = f /\ m.parsed = f
      /\ m.parsed_is_valid /\ ~m.parsed_is_better
      /\ m.content_type = f.type /\ ~m.need_repack
    BY <1>5 DEF short_msg
<1> HIDE DEF m
<1>7. get_text(m) = NoText
    BY <1>2, <1>6 DEF get_text
<1>8. MsgOK(m, NoText)
    BY <1>1, <1>2, <1>6, <1>7, TextAssumption DEF MsgOK, PackedOK, PackedBody, SameBody, Quote
<1>9. OutgoingOK(m, "REQUEST_MSG_DELIVERY")
    BY <1>6 DEF OutgoingOK
<1>10. RoutedOK(m, "REQUEST_MSG_DELIVERY", NoText)
    BY <1>2, <1>6 DEF RoutedOK, RelayOK, LocalOK
<1>11. QED
    BY <1>1, <1>3, <1>8, <1>9, <1>10, EnterKeeps

\* shortcode_smsc() turns what came for the SMS centre into an ordinary message.
LEMMA SmscKeeps ==
    ASSUME MessageInv, shortcode_smsc
    PROVE  MessageInv'
<1> DEFINE g == [msg.parsed EXCEPT !.uri = "phone"]
           c == msg.convert_content_type
           e == [msg EXCEPT !.parsed = g, !.convert_content_type = c]
           b == parsed_was_changed(e)
<1>1. /\ up /\ msg # NoMsg /\ state = "INITIAL_STATE"
      /\ Step(parsed_was_changed([msg EXCEPT !.parsed.uri = "phone"]), "INITIAL_STATE")
    BY DEF shortcode_smsc, In
<1>2. MsgOK(msg, original) /\ RoutedOK(msg, state, original)
    BY <1>1 DEF MessageInv
<1>3. msg \in short_msg /\ msg.parsed \in Form
    BY <1>2 DEF MsgOK
<1>4. g \in Form /\ SameBody(g, msg.parsed) /\ c \in ContentType
    BY <1>3 DEF Form, SameBody, short_msg
<1>5. [msg EXCEPT !.parsed.uri = "phone"] = e
    BY <1>3 DEF short_msg
<1>6. WithHeaders(e, msg, g, c) /\ c = msg.convert_content_type
    BY DEF WithHeaders
<1> HIDE DEF g, e
<1>7. /\ Changed(e, msg) /\ e.parsed = g /\ e.convert_content_type = c
      /\ e.parsed_is_better = msg.parsed_is_better
    BY <1>2, <1>4, <1>6, HeadersChanged
<1>8. Changed(b, msg)
    BY <1>7, BetterChanged
<1>9. b.parsed_is_better /\ b.convert_content_type = e.convert_content_type
    BY <1>7, BetterChanged
<1>10. Step(b, "INITIAL_STATE")
    BY <1>1, <1>5
<1> HIDE DEF b
<1>11. MsgOK(b, original)
    BY <1>2, <1>8, ChangedOK
<1>12. OutgoingOK(b, "INITIAL_STATE")
    BY DEF OutgoingOK
<1>13. RoutedOK(b, "INITIAL_STATE", original)
    BY <1>1, <1>2, <1>7, <1>8, <1>9 DEF RoutedOK, RelayOK, LocalOK, Changed, SameBody, Converting
<1>14. QED
    BY <1>1, <1>10, <1>11, <1>12, <1>13, StepKeeps

\* Steps that leave the message alone.
LEMMA IdleStepKeeps ==
    ASSUME MessageInv, up, msg # NoMsg, NEW s, Step(msg, s),
           s \notin {"INITIAL_STATE", "REQUEST_MSG_DELIVERY", "ASKED_FOR_MSG_DELIVERY"},
           s = "REQUEST_DESTINATION_SIPURL" => msg.parsed.uri = "imsi"
    PROVE  MessageInv'
<1>1. Changed(msg, msg)
    BY SelfChanged DEF MessageInv
<1>2. QED
    BY <1>1, QuietStepKeeps

\* The handlers that leave the message as it is, or end it.
LEMMA IdleKeeps ==
    ASSUME MessageInv,
           \/ sendEMail \/ sendHTTP \/ shortcode_smsc_error \/ Ordinary
           \/ lookup_uri_imsi_error \/ Relocated
    PROVE  MessageInv'
<1>1. CASE sendEMail
    BY <1>1, IdleStepKeeps DEF sendEMail, submitSMS, In
<1>2. CASE sendHTTP
    BY <1>2, IdleStepKeeps DEF sendHTTP, submitSMS, In
<1>3. CASE shortcode_smsc_error
    BY <1>3, IdleStepKeeps DEF shortcode_smsc_error, In
<1>4. CASE Ordinary
    BY <1>4, IdleStepKeeps DEF Ordinary, In
<1>5. CASE lookup_uri_imsi_error
    BY <1>5, IdleStepKeeps DEF lookup_uri_imsi_error, In
<1>6. CASE Relocated
    BY <1>6, IdleStepKeeps DEF Relocated, Answerable
<1>7. QED
    BY <1>1, <1>2, <1>3, <1>4, <1>5, <1>6

\* lookup_from_address() replaces From.
LEMMA FromKeeps ==
    ASSUME MessageInv, lookup_from_address
    PROVE  MessageInv'
<1> DEFINE c == msg.convert_content_type
           via == [msg EXCEPT !.parsed.via = TRUE]
<1>1. up /\ msg # NoMsg
    BY DEF lookup_from_address, In
<1>2. MsgOK(msg, original)
    BY <1>1 DEF MessageInv
<1>3. msg \in short_msg /\ msg.parsed \in Form /\ c \in ContentType
    BY <1>2 DEF MsgOK, short_msg
<1>4. CASE Step(via, "REQUEST_DESTINATION_IMSI")
    <2> DEFINE g == [msg.parsed EXCEPT !.via = TRUE]
               e == [msg EXCEPT !.parsed = g, !.convert_content_type = c]
    <2>1. g \in Form /\ SameBody(g, msg.parsed) /\ g.uri = msg.parsed.uri
        BY <1>3 DEF Form, SameBody
    <2>2. via = e
        BY <1>3 DEF short_msg
    <2>3. WithHeaders(e, msg, g, c) /\ c = msg.convert_content_type
        BY DEF WithHeaders
    <2> HIDE DEF g, c, e
    <2>4. /\ Changed(e, msg) /\ e.parsed = g /\ e.convert_content_type = c
          /\ e.parsed_is_better = msg.parsed_is_better
        BY <1>2, <1>3, <2>1, <2>3, HeadersChanged
    <2>5. Step(e, "REQUEST_DESTINATION_IMSI")
        BY <1>4, <2>2
    <2>6. QED
        BY <1>1, <2>1, <2>3, <2>4, <2>5, QuietStepKeeps
<1>5. CASE Step(parsed_was_changed([via EXCEPT !.parsed.from = "phone"]),
                "REQUEST_DESTINATION_IMSI")
    <2> DEFINE g == [msg.parsed EXCEPT !.via = TRUE, !.from = "phone"]
               e == [msg EXCEPT !.parsed = g, !.convert_content_type = c]
               b == parsed_was_changed(e)
    <2>1. g \in Form /\ SameBody(g, msg.parsed) /\ g.uri = msg.parsed.uri
        BY <1>3 DEF Form, SameBody
    <2>2. [via EXCEPT !.parsed.from = "phone"] = e
        BY <1>3 DEF short_msg
    <2>3. WithHeaders(e, msg, g, c) /\ c = msg.convert_content_type
        BY DEF WithHeaders
    <2> HIDE DEF g, c, e
    <2>4. /\ Changed(e, msg) /\ e.parsed = g /\ e.convert_content_type = c
          /\ e.parsed_is_better = msg.parsed_is_better
        BY <1>2, <1>3, <2>1, <2>3, HeadersChanged
    <2>5. Step(b, "REQUEST_DESTINATION_IMSI")
        BY <1>5, <2>2
    <2>6. /\ Changed(b, msg) /\ b.parsed = e.parsed /\ b.parsed_is_better
          /\ b.convert_content_type = e.convert_content_type
        BY <2>4, BetterChanged
    <2> HIDE DEF b
    <2>7. QED
        BY <1>1, <2>1, <2>3, <2>4, <2>5, <2>6, QuietStepKeeps
<1>6. QED
    BY <1>4, <1>5 DEF lookup_from_address

\* lookup_uri_imsi() replaces the Request-URI.
LEMMA ImsiKeeps ==
    ASSUME MessageInv, lookup_uri_imsi
    PROVE  MessageInv'
<1> DEFINE c == msg.convert_content_type
           g == [msg.parsed EXCEPT !.uri = "imsi"]
           e == [msg EXCEPT !.parsed = g, !.convert_content_type = c]
           b == parsed_was_changed(e)
<1>1. up /\ msg # NoMsg
    BY DEF lookup_uri_imsi, ToLookup, In
<1>2. MsgOK(msg, original)
    BY <1>1 DEF MessageInv
<1>3. msg \in short_msg /\ msg.parsed \in Form /\ c \in ContentType
    BY <1>2 DEF MsgOK, short_msg
<1>4. CASE msg.parsed.uri = "imsi"
    BY <1>1, <1>4, IdleStepKeeps DEF lookup_uri_imsi
<1>5. CASE msg.parsed.uri # "imsi"
    <2>1. g \in Form /\ SameBody(g, msg.parsed) /\ g.uri = "imsi"
        BY <1>3 DEF Form, SameBody
    <2>2. [msg EXCEPT !.parsed.uri = "imsi"] = e
        BY <1>3 DEF short_msg
    <2>3. WithHeaders(e, msg, g, c) /\ c = msg.convert_content_type
        BY DEF WithHeaders
    <2> HIDE DEF g, c, e
    <2>4. /\ Changed(e, msg) /\ e.parsed = g /\ e.convert_content_type = c
          /\ e.parsed_is_better = msg.parsed_is_better
        BY <1>2, <1>3, <2>1, <2>3, HeadersChanged
    <2>5. Step(b, "REQUEST_DESTINATION_SIPURL")
        BY <1>5, <2>2 DEF lookup_uri_imsi
    <2>6. /\ Changed(b, msg) /\ b.parsed = e.parsed /\ b.parsed_is_better
          /\ b.convert_content_type = e.convert_content_type
        BY <2>4, BetterChanged
    <2> HIDE DEF b
    <2>7. QED
        BY <1>1, <2>1, <2>3, <2>4, <2>5, <2>6, QuietStepKeeps
<1>6. QED
    BY <1>4, <1>5

\* The relay has a type that can be packed for.
LEMMA RelayTypeKnown ==
    ASSUME relay \in Relays
    PROVE  /\ global_relay_contenttype \in ContentType
           /\ global_relay_contenttype # "UNSUPPORTED_CONTENT"
           /\ relay # "none" => global_relay_contenttype = relay
BY RelayAssumption DEF global_relay_contenttype, ContentType

\* The destination is not here: the message goes to the relay, in its type.
LEMMA RelayKeeps ==
    ASSUME MessageInv, lookup_uri_imsi_relay
    PROVE  MessageInv'
<1>1. up /\ msg # NoMsg /\ relay \in Relays /\ relay # "none"
    BY DEF lookup_uri_imsi_relay, ToLookup, In, MessageInv
<1>2. MsgOK(msg, original)
    BY <1>1 DEF MessageInv
<1>3. msg \in short_msg /\ msg.parsed \in Form
    BY <1>2 DEF MsgOK
<1> DEFINE c == global_relay_contenttype
<1>4. c \in ContentType /\ c # "UNSUPPORTED_CONTENT"
    BY <1>1, RelayTypeKnown
<1>5. PICK from \in {msg.parsed.from, "global"} :
         Step([msg EXCEPT !.parsed.from = from, !.convert_content_type = c],
              "REQUEST_DESTINATION_SIPURL")
    BY DEF lookup_uri_imsi_relay
<1> DEFINE g == [msg.parsed EXCEPT !.from = from]
           e == [msg EXCEPT !.parsed = g, !.convert_content_type = c]
<1> HIDE DEF c
<1>6. g \in Form /\ SameBody(g, msg.parsed) /\ g.uri = msg.parsed.uri
    BY <1>3, <1>5 DEF Form, SameBody
<1>7. [msg EXCEPT !.parsed.from = from, !.convert_content_type = c] = e
    BY <1>3 DEF short_msg
<1>8. WithHeaders(e, msg, g, c)
    BY DEF WithHeaders
<1> HIDE DEF g, e
<1>9. /\ Changed(e, msg) /\ e.parsed = g /\ e.convert_content_type = c
      /\ e.parsed_is_better = msg.parsed_is_better
    BY <1>2, <1>4, <1>6, <1>8, HeadersChanged
<1>10. Step(e, "REQUEST_DESTINATION_SIPURL")
    BY <1>5, <1>7
<1>11. QED
    BY <1>1, <1>6, <1>9, <1>10, QuietStepKeeps

\* lookup_uri_hostport() replaces the Request-URI and announces it.
LEMMA HostportKeeps ==
    ASSUME MessageInv, lookup_uri_hostport
    PROVE  MessageInv'
<1> DEFINE c == IF msg.parsed.uri = "imsi" THEN msg.convert_content_type
                ELSE global_relay_contenttype
           g == [msg.parsed EXCEPT !.routed = TRUE]
           e == [msg EXCEPT !.parsed = g, !.convert_content_type = c]
           b == parsed_was_changed(e)
<1>1. up /\ msg # NoMsg /\ relay \in Relays
    BY DEF lookup_uri_hostport, In, MessageInv
<1>2. MsgOK(msg, original) /\ RoutedOK(msg, state, original)
    BY <1>1 DEF MessageInv
<1>3. msg \in short_msg /\ msg.parsed \in Form
    BY <1>2 DEF MsgOK
<1>4. /\ c \in ContentType
      /\ c = msg.convert_content_type \/ c # "UNSUPPORTED_CONTENT"
      /\ msg.parsed.uri = "phone" /\ relay # "none" => c = relay
      /\ msg.parsed.uri = "imsi" => c = msg.convert_content_type
    BY <1>1, <1>3, RelayTypeKnown DEF short_msg
<1>5. g \in Form /\ SameBody(g, msg.parsed) /\ g.uri = msg.parsed.uri
    BY <1>3 DEF Form, SameBody
<1>6. [msg EXCEPT !.parsed.routed = TRUE,
                  !.convert_content_type = IF msg.parsed.uri = "imsi" THEN @
                                           ELSE global_relay_contenttype] = e
    BY <1>3 DEF short_msg
<1>7. Step(b, "REQUEST_MSG_DELIVERY")
    BY <1>6 DEF lookup_uri_hostport
<1>8. WithHeaders(e, msg, g, c)
    BY DEF WithHeaders
<1> HIDE DEF g, c, e
<1>9. /\ Changed(e, msg) /\ e.parsed = g /\ e.convert_content_type = c
      /\ e.parsed_is_better = msg.parsed_is_better
    BY <1>2, <1>4, <1>5, <1>8, HeadersChanged
<1>10. /\ Changed(b, msg) /\ b.parsed_is_better /\ b.parsed = e.parsed
      /\ b.convert_content_type = e.convert_content_type
    BY <1>9, BetterChanged
<1> HIDE DEF b
<1>11. MsgOK(b, original)
    BY <1>2, <1>10, ChangedOK
<1>12. OutgoingOK(b, "REQUEST_MSG_DELIVERY")
    BY <1>10 DEF OutgoingOK
<1>13. RoutedOK(b, "REQUEST_MSG_DELIVERY", original)
    <2>1. state = "REQUEST_DESTINATION_SIPURL"
        BY DEF lookup_uri_hostport, In
    <2>2. crashes = 0 => RelayOK(b, "REQUEST_MSG_DELIVERY", relay, original)
        BY <1>2, <1>4, <1>5, <1>9, <1>10 DEF RoutedOK, RelayOK, Changed, SameBody
    <2>3. relay = "none" => LocalOK(b, "REQUEST_MSG_DELIVERY", original)
        BY <1>2, <1>4, <1>5, <1>9, <1>10, <2>1
        DEF RoutedOK, LocalOK, Changed, SameBody, Converting
    <2>4. QED
        BY <2>2, <2>3 DEF RoutedOK
<1>14. QED
    BY <1>1, <1>7, <1>11, <1>12, <1>13, StepKeeps

\* What packing makes of a message that is about to be sent.
LEMMA PackKeeps ==
    ASSUME MessageInv, msg # NoMsg, state = "REQUEST_MSG_DELIVERY", ~PackFails(msg)
    PROVE  LET e == pack_sms_for_delivery(msg)
           IN  /\ MsgOK(e, original) /\ ~e.need_repack
               /\ e.parsed_is_better \/ e.text = e.parsed
               /\ (crashes = 0 /\ e.parsed.uri = "phone" /\ relay # "none")
                    => e.parsed.type = relay /\ e.parsed.says = decode(original)
               /\ relay = "none" => e.parsed.says = original
<1> DEFINE e == pack_sms_for_delivery(msg)
<1>1. /\ MsgOK(msg, original) /\ OutgoingOK(msg, state)
      /\ RoutedOK(msg, state, original)
      /\ original \in Sayings /\ relay \in Relays
    BY DEF MessageInv
<1>2. /\ MsgOK(e, original) /\ ~e.need_repack /\ e.parsed.uri = msg.parsed.uri
      /\ msg.need_repack =>
           /\ e.parsed.type = PackAs(msg) /\ e.parsed_is_better
           /\ e.parsed.says = IF Converting(msg) THEN decode(original) ELSE original
      /\ ~msg.need_repack => e = msg
      /\ e.convert_content_type = msg.convert_content_type
    BY <1>1, PackOK
<1> HIDE DEF e
<1>3. e.parsed_is_better \/ e.text = e.parsed
    BY <1>1, <1>2 DEF OutgoingOK
<1>4. ASSUME crashes = 0, e.parsed.uri = "phone", relay # "none"
      PROVE  e.parsed.type = relay /\ e.parsed.says = decode(original)
    <2>1. relay # "UNSUPPORTED_CONTENT"
        BY <1>1, RelayAssumption
    <2>2. /\ msg.need_repack => msg.convert_content_type = relay
          /\ ~msg.need_repack => /\ msg.parsed.type = relay
                                 /\ msg.parsed.says = decode(original)
        <3>1. RelayOK(msg, state, relay, original)
            BY <1>1, <1>4 DEF RoutedOK
        <3>2. QED
            BY <1>2, <1>4, <3>1 DEF RelayOK
    <2>3. QED
        BY <1>2, <2>1, <2>2 DEF PackAs, Converting
<1>5. ASSUME relay = "none"
      PROVE  e.parsed.says = original
    <2>1. LocalOK(msg, state, original)
        BY <1>1, <1>5 DEF RoutedOK
    <2>2. CASE ~msg.need_repack
        BY <1>2, <2>1, <2>2 DEF LocalOK
    <2>3. CASE msg.need_repack
        <3>1. msg.parsed.kind # "SUBMIT" => decode(original) = original
            BY <1>1, <2>3, FreshText DEF MsgOK
        <3>2. QED
            BY <1>2, <2>1, <2>3, <3>1 DEF LocalOK
    <2>4. QED
        BY <2>2, <2>3
<1>6. QED
    BY <1>2, <1>3, <1>4, <1>5 DEF e

\* What deliver_msg_datagram() sends is the parsed form of that moment.
LEMMA DeliverKeeps ==
    ASSUME MessageInv, deliver_msg_datagram
    PROVE  MessageInv' /\ datagram' = msg'.parsed
<1> DEFINE e == pack_sms_for_delivery(msg)
           t == make_text_valid(e)
<1>1. /\ up /\ msg # NoMsg /\ state = "REQUEST_MSG_DELIVERY" /\ ~PackFails(msg)
      /\ msg' = t /\ state' = "ASKED_FOR_MSG_DELIVERY" /\ datagram' = t.text
      /\ relay' = relay /\ file' = file /\ up' = up /\ crashes' = crashes
      /\ original' = original /\ notice' = notice
    BY DEF deliver_msg_datagram, In
<1>2. /\ MsgOK(e, original) /\ ~e.need_repack
      /\ e.parsed_is_better \/ e.text = e.parsed
      /\ (crashes = 0 /\ e.parsed.uri = "phone" /\ relay # "none")
           => e.parsed.type = relay /\ e.parsed.says = decode(original)
      /\ relay = "none" => e.parsed.says = original
    BY <1>1, PackKeeps
<1> HIDE DEF e
<1>3. /\ MsgOK(t, original) /\ t.text \in Form /\ t.parsed = e.parsed
      /\ t.need_repack = e.need_repack /\ t.text = e.parsed
    BY <1>2, TextValid
<1> HIDE DEF t
<1>4. PackedBody(t.text, original)
    BY <1>2, <1>3 DEF MsgOK, PackedOK
<1>5. OutgoingOK(t, "ASKED_FOR_MSG_DELIVERY")
    BY <1>3 DEF OutgoingOK
<1>6. RoutedOK(t, "ASKED_FOR_MSG_DELIVERY", original)
    BY <1>2, <1>3 DEF RoutedOK, RelayOK, LocalOK
<1>7. /\ MsgOK(msg, original)' /\ OutgoingOK(msg, state)'
      /\ RoutedOK(msg, state, original)'
    BY <1>1, <1>3, <1>5, <1>6 DEF RoutedOK
<1>8. SentOK(datagram, original)'
    BY <1>1, <1>2, <1>3, <1>4 DEF SentOK
<1>9. NoticeQuotesText'
    BY <1>1 DEF MessageInv, NoticeQuotesText
<1>10. file' # NoRecord => FiledOK(file, original)'
    BY <1>1 DEF MessageInv, FiledOK
<1>11. QED
    BY <1>1, <1>3, <1>7, <1>8, <1>9, <1>10 DEF MessageInv

\* The retries are used up.
LEMMA GiveUpKeeps ==
    ASSUME MessageInv, GiveUp
    PROVE  MessageInv'
<1> DEFINE e == pack_sms_for_delivery(msg)
<1>1. up /\ msg # NoMsg /\ state = "REQUEST_MSG_DELIVERY"
    BY DEF GiveUp, In
<1>2. CASE PackFails(msg)
    BY <1>1, <1>2, IdleStepKeeps DEF GiveUp
<1>3. CASE ~PackFails(msg)
    <2>1. Step(e, "DELETE_ME_STATE")
        BY <1>3 DEF GiveUp
    <2>2. /\ MsgOK(e, original) /\ ~e.need_repack
          /\ e.parsed_is_better \/ e.text = e.parsed
          /\ (crashes = 0 /\ e.parsed.uri = "phone" /\ relay # "none")
               => e.parsed.type = relay /\ e.parsed.says = decode(original)
          /\ relay = "none" => e.parsed.says = original
        BY <1>1, <1>3, PackKeeps
    <2> HIDE DEF e
    <2>3. OutgoingOK(e, "DELETE_ME_STATE")
        BY DEF OutgoingOK
    <2>4. RoutedOK(e, "DELETE_ME_STATE", original)
        BY <2>2 DEF RoutedOK, RelayOK, LocalOK
    <2>5. QED
        BY <1>1, <2>1, <2>2, <2>3, <2>4, StepKeeps
<1>4. QED
    BY <1>2, <1>3

\* A message without an answer is tried again.
LEMMA NoAnswerKeeps ==
    ASSUME MessageInv, NoAnswer
    PROVE  MessageInv'
<1>1. /\ up /\ msg # NoMsg /\ state = "ASKED_FOR_MSG_DELIVERY"
      /\ Step(msg, "REQUEST_MSG_DELIVERY")
    BY DEF NoAnswer, In
<1>2. /\ MsgOK(msg, original) /\ OutgoingOK(msg, state)
      /\ RoutedOK(msg, state, original)
    BY <1>1 DEF MessageInv
<1>3. OutgoingOK(msg, "REQUEST_MSG_DELIVERY")
    BY <1>1, <1>2 DEF OutgoingOK
<1>4. RoutedOK(msg, "REQUEST_MSG_DELIVERY", original)
    BY <1>1, <1>2 DEF RoutedOK, RelayOK, LocalOK
<1>5. QED
    BY <1>1, <1>2, <1>3, <1>4, StepKeeps

\* bounce_message() quotes the text of the message that it ends.
LEMMA BounceKeeps ==
    ASSUME MessageInv, up, msg # NoMsg, bounce_message
    PROVE  MessageInv'
<1>1. /\ msg' = msg /\ state' = "DELETE_ME_STATE"
      /\ notice' = [says |-> get_text(msg), came |-> msg.content_type, is |-> msg.parsed.type]
      /\ relay' = relay /\ file' = file /\ up' = up /\ crashes' = crashes
      /\ original' = original /\ datagram' = datagram
    BY DEF bounce_message
<1>2. MsgOK(msg, original) /\ RoutedOK(msg, state, original)
    BY DEF MessageInv
<1>3. MsgOK(msg, original)'
    BY <1>1, <1>2
<1>4. OutgoingOK(msg, state)'
    BY <1>1 DEF OutgoingOK
<1>5. RoutedOK(msg, state, original)'
    BY <1>1, <1>2 DEF RoutedOK, RelayOK, LocalOK
<1>6. NoticeQuotesText'
    <2>1. get_text(msg) = Quote(msg.content_type, msg.parsed.type, original)
        BY <1>2, QuoteOK
    <2>2. QED
        BY <1>1, <2>1 DEF NoticeQuotesText, Quote
<1>7. file' # NoRecord => FiledOK(file, original)'
    BY <1>1 DEF MessageInv, FiledOK
<1>8. datagram' # NoForm => SentOK(datagram, original)'
    BY <1>1 DEF MessageInv, SentOK
<1>9. QED
    BY <1>1, <1>3, <1>4, <1>5, <1>6, <1>7, <1>8 DEF MessageInv

\* Writing out the text changes nothing else that matters.
LEMMA WriteOutKeeps ==
    ASSUME MessageInv, msg # NoMsg
    PROVE  LET t == make_text_valid(msg)
           IN  /\ MsgOK(t, original) /\ OutgoingOK(t, state)
               /\ RoutedOK(t, state, original)
<1> DEFINE t == make_text_valid(msg)
<1>1. /\ MsgOK(msg, original) /\ OutgoingOK(msg, state)
      /\ RoutedOK(msg, state, original)
    BY DEF MessageInv
<1>2. /\ MsgOK(t, original) /\ t.parsed = msg.parsed
      /\ t.need_repack = msg.need_repack
      /\ t.convert_content_type = msg.convert_content_type
      /\ msg.parsed_is_better \/ msg.text = msg.parsed => t.text = msg.parsed
      /\ ~msg.parsed_is_better => t = msg
    BY <1>1, TextValid
<1> HIDE DEF t
<1>3. OutgoingOK(t, state)
    BY <1>1, <1>2 DEF OutgoingOK
<1>4. RoutedOK(t, state, original)
    BY <1>1, <1>2 DEF RoutedOK, RelayOK, LocalOK, Converting
<1>5. QED
    BY <1>2, <1>3, <1>4 DEF t

\* The debug dump makes the text valid and changes nothing that is said.
LEMMA DumpKeeps ==
    ASSUME MessageInv, debug_dump
    PROVE  MessageInv'
<1> DEFINE t == make_text_valid(msg)
<1>1. up /\ msg # NoMsg /\ Step(t, state)
    BY DEF debug_dump
<1>2. /\ MsgOK(t, original) /\ OutgoingOK(t, state)
      /\ RoutedOK(t, state, original)
    BY <1>1, WriteOutKeeps
<1> HIDE DEF t
<1>3. QED
    BY <1>1, <1>2, StepKeeps

\* save_queue_to_file() makes the text valid and writes it.
LEMMA SaveKeeps ==
    ASSUME MessageInv, save_queue_to_file
    PROVE  MessageInv'
<1> DEFINE t == make_text_valid(msg)
           r == [state |-> state, text |-> t.text,
                 ms_to_sc |-> msg.ms_to_sc, need_repack |-> msg.need_repack]
<1>1. /\ up /\ msg # NoMsg /\ msg' = t /\ file' = r
      /\ state' = state /\ relay' = relay /\ up' = up /\ crashes' = crashes
      /\ original' = original /\ datagram' = datagram /\ notice' = notice
    BY DEF save_queue_to_file, history
<1>2. /\ MsgOK(t, original) /\ OutgoingOK(t, state)
      /\ RoutedOK(t, state, original)
    BY <1>1, WriteOutKeeps
<1>3. RecordOK(r, original)
    BY <1>1, RecordWritten DEF MessageInv
<1>4. ASSUME relay = "none"
       PROVE  LocalRecord(r, original)
    <2>1. /\ t.text.kind = msg.parsed.kind /\ t.text.says = msg.parsed.says
          /\ msg.parsed_is_better => t.text = msg.parsed
          /\ ~msg.parsed_is_better => t.text = msg.text
        BY <1>1, TextValid DEF MessageInv, SameBody
    <2>2. LocalOK(msg, state, original)
        BY <1>1, <1>4 DEF MessageInv, RoutedOK
    <2> HIDE DEF t
    <2>3. QED
        BY <2>1, <2>2 DEF LocalOK, LocalRecord
<1> HIDE DEF t, r
<1>5. /\ MsgOK(msg, original)' /\ OutgoingOK(msg, state)'
      /\ RoutedOK(msg, state, original)'
    BY <1>1, <1>2 DEF RoutedOK
<1>6. FiledOK(file, original)'
    BY <1>1, <1>3, <1>4 DEF FiledOK
<1>7. NoticeQuotesText'
    BY <1>1 DEF MessageInv, NoticeQuotesText
<1>8. datagram' # NoForm => SentOK(datagram, original)'
    BY <1>1 DEF MessageInv, SentOK
<1>9. QED
    BY <1>1, <1>5, <1>6, <1>7, <1>8 DEF MessageInv

\* The process dies: the file is what remains.
LEMMA CrashKeeps ==
    ASSUME MessageInv, Crash
    PROVE  MessageInv'
<1>1. /\ crashes' = crashes + 1 /\ crashes < MaxCrashes /\ up' = FALSE /\ msg' = NoMsg
      /\ state' = "none"
      /\ relay' = relay /\ file' = file
      /\ original' = original /\ datagram' = datagram /\ notice' = notice
    BY DEF Crash, history
<1>2. crashes' \in 0..MaxCrashes /\ crashes' > 0
    BY <1>1, CrashAssumption DEF MessageInv
<1>3. NoticeQuotesText'
    BY <1>1 DEF MessageInv, NoticeQuotesText
<1>4. file' # NoRecord => FiledOK(file, original)'
    BY <1>1 DEF MessageInv, FiledOK
<1>5. datagram' # NoForm => SentOK(datagram, original)'
    BY <1>1 DEF MessageInv, SentOK
<1>6. crashes' # 0
    BY <1>2
<1>7. QED
    BY <1>1, <1>2, <1>3, <1>4, <1>5, <1>6 DEF MessageInv

\* read_queue_from_file() makes a message of the text in the file.
LEMMA ReadKeeps ==
    ASSUME MessageInv, read_queue_from_file
    PROVE  MessageInv'
<1>1. /\ ~up /\ up' = TRUE /\ relay' = relay /\ file' = file /\ crashes' = crashes
      /\ original' = original /\ datagram' = datagram /\ notice' = notice
    BY DEF read_queue_from_file
<1>2. msg = NoMsg /\ crashes > 0 /\ crashes \in 0..MaxCrashes
    BY <1>1 DEF MessageInv
<1>3. crashes # 0
    BY <1>2
<1>4. NoticeQuotesText'
    BY <1>1 DEF MessageInv, NoticeQuotesText
<1>5. file' # NoRecord => FiledOK(file, original)'
    BY <1>1 DEF MessageInv, FiledOK
<1>6. datagram' # NoForm => SentOK(datagram, original)'
    BY <1>1 DEF MessageInv, SentOK
<1>7. CASE msg' = msg
    BY <1>1, <1>2, <1>3, <1>4, <1>5, <1>6, <1>7 DEF MessageInv
<1>8. CASE file # NoRecord /\ ~ParseFails(Reread) /\ msg' = parse(Reread) /\ state' = file.state
    <2> DEFINE e == parse(Reread)
    <2>1. /\ MsgOK(e, original) /\ e.text = e.parsed /\ e.parsed = file.text
          /\ e.need_repack = file.need_repack /\ ~Converting(e)
        BY <1>8, RecordRead DEF MessageInv, FiledOK
    <2>2. RoutedOK(e, file.state, original)
        <3>1. relay = "none" => LocalRecord(file, original)
            BY <1>8 DEF MessageInv, FiledOK
        <3>2. QED
            BY <1>3, <2>1, <3>1 DEF RoutedOK, LocalOK, LocalRecord
    <2> HIDE DEF e
    <2>3. msg' = e
        BY <1>8 DEF e
    <2>4. MsgOK(msg, original)'
        BY <1>1, <2>1, <2>3
    <2>5. OutgoingOK(msg, state)'
        BY <2>1, <2>3 DEF OutgoingOK
    <2>6. RoutedOK(msg, state, original)'
        BY <1>1, <1>8, <2>2, <2>3 DEF RoutedOK
    <2>7. QED
        BY <1>1, <1>2, <1>3, <1>4, <1>5, <1>6, <2>4, <2>5, <2>6 DEF MessageInv
<1>9. QED
    BY <1>7, <1>8 DEF read_queue_from_file

-----------------------------------------------------------------------------
(* The theorems.                                                           *)

\* Whatever happens to a message, its body is one of the two kinds the invariant
\* tells apart, and says what its sender wrote, or nothing if it was converted and
\* decode() refused it.
THEOREM MessageInvariant == Spec => []MessageInv
<1>1. Init => MessageInv
    BY CrashAssumption DEF Init, MessageInv, NoticeQuotesText, Sayings
<1>2. MessageInv /\ [Next]_vars => MessageInv'
    <2> SUFFICES ASSUME MessageInv, [Next]_vars PROVE MessageInv'
        OBVIOUS
    <2>1. CASE \E f \in Arrivals : Receive(f)
        BY <2>1, ReceiveKeeps
    <2>2. CASE \E f \in Originals, s \in {"REQUEST_DESTINATION_IMSI", "REQUEST_DESTINATION_SIPURL"} :
                 Originate(f, s)
        BY <2>2, OriginateKeeps
    <2>3. CASE OriginateRegister
        BY <2>3, OriginateRegisterKeeps
    <2>4. CASE shortcode_smsc
        BY <2>4, SmscKeeps
    <2>5. CASE \/ sendEMail \/ sendHTTP \/ shortcode_smsc_error \/ Ordinary
               \/ lookup_uri_imsi_error \/ Relocated
        BY <2>5, IdleKeeps
    <2>6. CASE lookup_from_address
        BY <2>6, FromKeeps
    <2>7. CASE lookup_uri_imsi
        BY <2>7, ImsiKeeps
    <2>8. CASE lookup_uri_imsi_relay
        BY <2>8, RelayKeeps
    <2>9. CASE lookup_uri_imsi_bounce
        BY <2>9, BounceKeeps DEF lookup_uri_imsi_bounce, ToLookup, In
    <2>10. CASE lookup_uri_hostport
        BY <2>10, HostportKeeps
    <2>11. CASE deliver_msg_datagram
        BY <2>11, DeliverKeeps
    <2>12. CASE GiveUp
        BY <2>12, GiveUpKeeps
    <2>13. CASE NoAnswer
        BY <2>13, NoAnswerKeeps
    <2>14. CASE Refused
        BY <2>14, BounceKeeps DEF Refused, Answerable
    <2>15. CASE Gone
        BY <2>15, StepKeeps DEF Gone
    <2>16. CASE debug_dump
        BY <2>16, DumpKeeps
    <2>17. CASE save_queue_to_file
        BY <2>17, SaveKeeps
    <2>18. CASE Crash
        BY <2>18, CrashKeeps
    <2>19. CASE read_queue_from_file
        BY <2>19, ReadKeeps
    <2>20. CASE UNCHANGED vars
        <3>1. /\ msg' = msg /\ state' = state /\ relay' = relay /\ file' = file /\ up' = up
              /\ crashes' = crashes /\ original' = original /\ datagram' = datagram
              /\ notice' = notice
            BY <2>20 DEF vars
        <3>2. NoticeQuotesText'
            BY <3>1 DEF MessageInv, NoticeQuotesText
        <3>3. msg' # NoMsg => /\ MsgOK(msg, original)' /\ OutgoingOK(msg, state)'
                              /\ RoutedOK(msg, state, original)'
            BY <3>1 DEF MessageInv, RoutedOK
        <3>4. file' # NoRecord => FiledOK(file, original)'
            BY <3>1 DEF MessageInv, FiledOK
        <3>5. datagram' # NoForm => SentOK(datagram, original)'
            BY <3>1 DEF MessageInv, SentOK
        <3>6. QED
            BY <3>1, <3>2, <3>3, <3>4, <3>5 DEF MessageInv
    <2>21. QED
        BY <2>1, <2>2, <2>3, <2>4, <2>5, <2>6, <2>7, <2>8, <2>9, <2>10, <2>11,
           <2>12, <2>13, <2>14, <2>15, <2>16, <2>17, <2>18, <2>19, <2>20 DEF Next
<1>3. QED
    BY <1>1, <1>2, PTL DEF Spec

\* The types of what SmqMessage keeps and of what it sends.
THEOREM TypeCorrect == Spec => []TypeOK
<1>1. MessageInv => TypeOK
    BY DEF MessageInv, MsgOK, SentOK, TypeOK
<1>2. QED
    BY <1>1, MessageInvariant, PTL

\* What deliver_msg_datagram() sends says what the sender wrote, however often
\* the message was packed, redirected, saved and read back before; but what
\* get_text() cannot decode goes out empty where there is a relay to convert it for.
THEOREM SentAsWritten == Spec => []TextPreserved
<1>1. MessageInv => TextPreserved
    <2> SUFFICES ASSUME MessageInv, datagram # NoForm
                 PROVE  TextPreserved
        BY DEF TextPreserved
    <2>1. SentOK(datagram, original)
        BY DEF MessageInv
    <2>2. QED
        BY <2>1 DEF SentOK, PackedBody, TextPreserved, decode
<1>2. QED
    BY <1>1, MessageInvariant, PTL

\* pack_sms_for_delivery() lets no SMS-SUBMIT out.
THEOREM SentIsPacked == Spec => []SentIsDownlink
<1>1. MessageInv => SentIsDownlink
    BY DEF MessageInv, SentIsDownlink, SentOK, PackedBody
<1>2. QED
    BY <1>1, MessageInvariant, PTL

\* The global relay gets the content type that set_global_relay() took from the
\* configuration, as long as the process lives.
THEOREM RelayServed == Spec => []RelayGetsItsType
<1>1. MessageInv => RelayGetsItsType
    BY DEF MessageInv, SentOK, RelayGetsItsType
<1>2. QED
    BY <1>1, MessageInvariant, PTL

\* What bounce_message() quotes, before and after packing, for every alphabet and
\* every conversion.
THEOREM NoticesQuote == Spec => []NoticeQuotesText
<1>1. MessageInv => NoticeQuotesText
    BY DEF MessageInv
<1>2. QED
    BY <1>1, MessageInvariant, PTL

\* What is sent is the parsed form as it is at that moment: no change made to it
\* is left behind in an older text.
THEOREM NothingStaleSent == Spec => SentIsCurrent
<1> DEFINE A == state = "REQUEST_MSG_DELIVERY" /\ state' = "ASKED_FOR_MSG_DELIVERY"
                  => datagram' = msg'.parsed
<1>1. MessageInv /\ [Next]_vars => [A]_vars
    <2> SUFFICES ASSUME MessageInv, Next, state = "REQUEST_MSG_DELIVERY",
                        state' = "ASKED_FOR_MSG_DELIVERY"
                 PROVE  datagram' = msg'.parsed
        OBVIOUS
    <2>1. CASE deliver_msg_datagram
        BY <2>1, DeliverKeeps
    <2>2. CASE \/ \E f \in Arrivals : Receive(f)
               \/ \E f \in Originals,
                     s \in {"REQUEST_DESTINATION_IMSI", "REQUEST_DESTINATION_SIPURL"} :
                    Originate(f, s)
               \/ OriginateRegister
        BY <2>2 DEF Receive, Originate, OriginateRegister, Enter
    <2>3. CASE \/ shortcode_smsc \/ sendEMail \/ sendHTTP \/ shortcode_smsc_error \/ Ordinary
               \/ lookup_from_address
        BY <2>3 DEF shortcode_smsc, sendEMail, sendHTTP, submitSMS, shortcode_smsc_error,
                    Ordinary, lookup_from_address, Step
    <2>4. CASE \/ lookup_uri_imsi \/ lookup_uri_imsi_relay \/ lookup_uri_imsi_bounce
               \/ lookup_uri_imsi_error \/ lookup_uri_hostport
        BY <2>4 DEF lookup_uri_imsi, lookup_uri_imsi_relay, lookup_uri_imsi_bounce,
                    lookup_uri_imsi_error, lookup_uri_hostport, bounce_message, Step
    <2>5. CASE GiveUp \/ NoAnswer \/ Refused \/ Relocated \/ Gone
        BY <2>5 DEF GiveUp, NoAnswer, Refused, Relocated, Gone, bounce_message, Step
    <2>6. CASE debug_dump \/ save_queue_to_file \/ Crash \/ read_queue_from_file
        <3>1. ~up => state # "REQUEST_MSG_DELIVERY"
            BY DEF MessageInv
        <3>2. QED
            BY <2>6, <3>1 DEF debug_dump, save_queue_to_file, Crash, read_queue_from_file, Step
    <2>7. QED
        BY <2>1, <2>2, <2>3, <2>4, <2>5, <2>6 DEF Next
<1>2. QED
    BY <1>1, MessageInvariant, PTL DEF Spec, SentIsCurrent
=============================================================================
