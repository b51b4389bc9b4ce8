----------------------------- MODULE SmqMessage -----------------------------
(***************************************************************************)
(* One short_msg on its way through smqueue: the SIP text, the parsed form *)
(* of it, the flags that say which of the two is good, and what            *)
(* pack_sms_for_delivery() makes of the body before it is sent.            *)
(*                                                                         *)
(* When a step happens belongs to SmqQueue; here a step of a state may     *)
(* happen whenever the message is in it.  The process may die and read the *)
(* message back from the save file.                                        *)
(***************************************************************************)
EXTENDS Integers

CONSTANTS
    Texts,       \* what users write
    Undecodable, \* of these, what handsets code in octets or UCS-2
    NoText,      \* the empty string
    Garbled,     \* a TPDU taken for text
    Relays,      \* SIP.GlobalRelay.ContentType, or "none": no relay
    MaxCrashes   \* bound: times the process dies

ContentType == {"UNSUPPORTED_CONTENT", "TEXT_PLAIN", "VND_3GPP_SMS"}

ASSUME TextAssumption == /\ NoText \notin Texts /\ Garbled \notin Texts \cup {NoText}
                         /\ Undecodable \subseteq Texts
ASSUME RelayAssumption == Relays \subseteq {"none", "TEXT_PLAIN", "VND_3GPP_SMS"}
ASSUME CrashAssumption == MaxCrashes \in Nat

\* A SIP message: type and kind of its body, what the body says, and the
\* headers that smqueue changes ("routed": host, port and Call-ID).  An "empty" or
\* a "noise" body has no TPDU, a "REPORT" one that parseTPDU() does not implement.
Kinds == {"empty", "noise", "text", "SUBMIT", "DELIVER", "REPORT"}
Form == [type : ContentType, kind : Kinds, says : Texts \cup {NoText, Garbled},
         from : {"imsi", "phone", "global"}, uri : {"none", "smsc", "phone", "imsi"},
         via : BOOLEAN, routed : BOOLEAN]

NoForm == [type |-> "none"]                      \* a NULL parsed
NoTl == [mti |-> "none", says |-> NoText]        \* a NULL tl_message
TLMessage == [mti : {"SUBMIT", "DELIVER", "none"}, says : Texts \cup {NoText, Garbled}]

short_msg == [text : Form, parsed : Form \cup {NoForm},
              parsed_is_valid : BOOLEAN, parsed_is_better : BOOLEAN,
              content_type : ContentType, convert_content_type : ContentType,
              tl_message : TLMessage, ms_to_sc : BOOLEAN, need_repack : BOOLEAN]

NoMsg == [text |-> NoForm]
NoRecord == [state |-> "none"]
NoNotice == [says |-> "none"]

VARIABLES
    msg,        \* the message, or NoMsg
    state,      \* its sm_state
    relay,      \* the global relay, by the type it expects
    file,       \* its record in the save file, or NoRecord
    up,         \* the process runs
    crashes,
    original,   \* history: what the user wrote
    datagram,   \* history: the text last given to the network, or NoForm
    notice,     \* history: what the last bounce quoted, and the types of the body
                \* as it was parsed and as it is now, or NoNotice
    refused     \* history: the save file's record was not taken back

vars == <<msg, state, relay, file, up, crashes, original, datagram, notice, refused>>
history == <<original, datagram, notice, refused>>

-----------------------------------------------------------------------------
(* The two forms of the message.                                           *)

\* initialize(), after the constructor.
initialize(text) ==
    [text |-> text, parsed |-> NoForm,
     parsed_is_valid |-> FALSE, parsed_is_better |-> FALSE,
     content_type |-> "UNSUPPORTED_CONTENT",
     convert_content_type |-> "UNSUPPORTED_CONTENT",
     tl_message |-> NoTl, ms_to_sc |-> FALSE, need_repack |-> TRUE]

parsed_was_changed(m) == [m EXCEPT !.parsed_is_better = TRUE]

make_text_valid(m) ==
    IF m.parsed_is_better /\ m.parsed_is_valid
    THEN [m EXCEPT !.text = m.parsed, !.parsed_is_better = FALSE] ELSE m

unparse(m) ==
    [make_text_valid(m) EXCEPT !.tl_message = NoTl, !.content_type = "UNSUPPORTED_CONTENT",
        !.parsed = NoForm, !.parsed_is_valid = FALSE, !.parsed_is_better = FALSE]

\* decodeRPData() and parseTPDU(): "just the uplink cases", of which only
\* SUBMIT is implemented.
HasTPDU(f) == f.type = "VND_3GPP_SMS" /\ f.kind \notin {"empty", "noise"}
parseTPDU(f) == IF HasTPDU(f) /\ f.kind = "SUBMIT"
                THEN [mti |-> "SUBMIT", says |-> f.says] ELSE NoTl

parse(m) ==
    IF m.parsed_is_valid THEN m
    ELSE [unparse(m) EXCEPT !.parsed = m.text, !.parsed_is_valid = TRUE,
             !.content_type = m.text.type, !.tl_message = parseTPDU(m.text)]

\* parse() returned false, so that validate_short_msg() returns 400.
ParseFails(m) == HasTPDU(m.text) /\ parseTPDU(m.text) = NoTl

\* UD().decode() knows the 7-bit alphabet only; its SMSReadError is caught.
decode(says) == IF says \in Undecodable THEN NoText ELSE says

\* The text in plain form, as far as content_type and direction tell.
get_text(m) ==
    CASE m.content_type = "TEXT_PLAIN" ->
           IF m.parsed.kind \in {"SUBMIT", "DELIVER"} THEN Garbled ELSE m.parsed.says
      [] m.content_type = "VND_3GPP_SMS" ->
           IF m.tl_message.mti = (IF m.ms_to_sc THEN "SUBMIT" ELSE "DELIVER")
           THEN decode(m.tl_message.says) ELSE NoText
      [] OTHER -> NoText

-----------------------------------------------------------------------------
(* pack_sms_for_delivery().                                                *)

\* A message without a body keeps none.
SetBody(f, kind, says) ==
    IF f.kind = "empty" THEN f ELSE [f EXCEPT !.kind = kind, !.says = says]

\* Mutant of create_sms_delivery: the parsed TPDU is left as it was.
DeliveryKeepsTl(m, says) ==
    parsed_was_changed([m EXCEPT !.parsed = SetBody(@, "DELIVER", says), !.ms_to_sc = FALSE])

\* The body becomes an SMS-DELIVER.
create_sms_delivery(m, says) ==
    parsed_was_changed(
        [m EXCEPT !.tl_message = [mti |-> "DELIVER", says |-> says],
                  !.parsed = SetBody(@, "DELIVER", says), !.ms_to_sc = FALSE])

pack_text_to_tpdu(m) ==
    LET d == create_sms_delivery(m, get_text(m))
    IN  parsed_was_changed([d EXCEPT !.parsed.type = "VND_3GPP_SMS"])

pack_plain_text(m) ==
    parsed_was_changed(
        [m EXCEPT !.parsed = [SetBody(@, "text", get_text(m)) EXCEPT !.type = "TEXT_PLAIN"],
                  !.ms_to_sc = FALSE])

\* The user data stays in the coding it came in.
recode_tpdu(m) == create_sms_delivery(m, m.tl_message.says)

\* Mutant of PackAs: the request to convert is forgotten.
PackAsItIs(m) == m.content_type

\* What the body is to become: what was asked for, else what it is.
PackAs(m) == IF m.convert_content_type # "UNSUPPORTED_CONTENT"
             THEN m.convert_content_type ELSE m.content_type

Converting(m) == m.convert_content_type # "UNSUPPORTED_CONTENT"

PackFails(m) ==
    /\ m.need_repack
    /\ \/ PackAs(m) = "UNSUPPORTED_CONTENT"
       \/ /\ ~Converting(m) /\ m.content_type = "VND_3GPP_SMS"
          /\ m.ms_to_sc /\ m.tl_message = NoTl

\* Mutant of Packed: a SUBMIT is left as it is.
PackedUncoded(m) ==
    IF PackAs(m) = "TEXT_PLAIN" THEN pack_plain_text(m)
    ELSE IF Converting(m) THEN pack_text_to_tpdu(m) ELSE m

Packed(m) ==
    IF PackAs(m) = "TEXT_PLAIN" THEN pack_plain_text(m)
    ELSE IF Converting(m) THEN pack_text_to_tpdu(m)
    ELSE IF m.ms_to_sc THEN recode_tpdu(m)
    ELSE m

\* Mutant of pack_sms_for_delivery: need_repack stays set.
PackEveryTime(m) == IF m.need_repack THEN Packed(m) ELSE m

pack_sms_for_delivery(m) ==
    IF m.need_repack THEN [Packed(m) EXCEPT !.need_repack = FALSE] ELSE m

-----------------------------------------------------------------------------
(* A message comes into being.                                             *)

Free == up /\ msg = NoMsg

\* The message before is not followed any further.
Enter(m, s, says) ==
    /\ msg' = m /\ state' = s
    /\ original' = says
    /\ file' = NoRecord /\ datagram' = NoForm /\ notice' = NoNotice /\ refused' = FALSE
    /\ UNCHANGED <<relay, up, crashes>>

\* main_loop(): a MESSAGE that parses.
Receive(f) ==
    /\ Free /\ ~ParseFails(initialize(f))
    /\ Enter([parse(initialize(f)) EXCEPT !.ms_to_sc = TRUE], "INITIAL_STATE", f.says)

\* originate_sm(): a text message that is written out, unparsed and parsed again.
Originate(f, s) ==
    /\ Free
    /\ Enter(parse(unparse(parsed_was_changed(parse(initialize(f))))), s, f.says)

\* register_handset(): a REGISTER, which is not repacked.
OriginateRegister ==
    /\ Free
    /\ Enter([parse(initialize([type |-> "UNSUPPORTED_CONTENT", kind |-> "empty",
                                says |-> NoText, from |-> "imsi", uri |-> "none",
                                via |-> TRUE, routed |-> TRUE]))
                EXCEPT !.need_repack = FALSE],
             "REQUEST_MSG_DELIVERY", NoText)

-----------------------------------------------------------------------------
(* Its states.                                                             *)

In(s) == up /\ msg # NoMsg /\ state = s

Step(m, s) ==
    /\ msg' = m /\ state' = s
    /\ UNCHANGED <<relay, file, up, crashes, history>>

\* shortcode_smsc(): the number dialled, which the SUBMIT or the To names,
\* becomes the Request-URI and processing restarts.
shortcode_smsc ==
    /\ In("INITIAL_STATE") /\ msg.parsed.uri = "smsc"
    /\ msg.content_type = "TEXT_PLAIN" \/ msg.tl_message.mti = "SUBMIT"
    /\ Step(parsed_was_changed([msg EXCEPT !.parsed.uri = "phone"]), "INITIAL_STATE")

\* Or submitSMS() gives it to the mail program, if it starts with an address ...
submitSMS == In("INITIAL_STATE") /\ msg.parsed.uri = "smsc" /\ msg.tl_message.mti = "SUBMIT"
sendEMail == submitSMS /\ \E s \in {"DELETE_ME_STATE", "NO_STATE"} : Step(msg, s)

\* ... or, without a relay, to the HTTP gateway.
sendHTTP ==
    /\ submitSMS /\ relay = "none"
    /\ \E s \in {"DELETE_ME_STATE", "NO_STATE"} : Step(msg, s)

\* It is not a SUBMIT.
shortcode_smsc_error ==
    /\ In("INITIAL_STATE") /\ msg.parsed.uri = "smsc"
    /\ msg.content_type # "TEXT_PLAIN" /\ msg.tl_message.mti # "SUBMIT"
    /\ Step(msg, "NO_STATE")

Ordinary ==
    /\ In("INITIAL_STATE") /\ msg.parsed.uri # "smsc"
    /\ Step(msg, "REQUEST_FROM_ADDRESS_LOOKUP")

\* A Via is added, of which nobody is told; the sender may be translated.
lookup_from_address ==
    /\ In("REQUEST_FROM_ADDRESS_LOOKUP")
    /\ LET via == [msg EXCEPT !.parsed.via = TRUE]
       IN  \/ Step(via, "REQUEST_DESTINATION_IMSI")
           \/ /\ msg.parsed.from = "imsi"
              /\ Step(parsed_was_changed([via EXCEPT !.parsed.from = "phone"]),
                      "REQUEST_DESTINATION_IMSI")

\* Mutant of global_relay_contenttype: without a relay there is none.
RelayTypeUnset == relay

\* set_global_relay(): without a relay it is that of a TPDU.
global_relay_contenttype == IF relay = "none" THEN "VND_3GPP_SMS" ELSE relay

ToLookup == In("REQUEST_DESTINATION_IMSI") /\ msg.parsed.uri # "none"

\* An IMSI already, or translated into one.
lookup_uri_imsi ==
    /\ ToLookup
    /\ Step(IF msg.parsed.uri = "imsi" THEN msg
            ELSE parsed_was_changed([msg EXCEPT !.parsed.uri = "imsi"]),
            "REQUEST_DESTINATION_SIPURL")

\* Unknown: the sender's global number is put in, again without telling.
lookup_uri_imsi_relay ==
    /\ ToLookup /\ msg.parsed.uri # "imsi"
    /\ relay # "none"
    /\ \E from \in {msg.parsed.from, "global"} :
         Step([msg EXCEPT !.parsed.from = from, !.convert_content_type = global_relay_contenttype],
              "REQUEST_DESTINATION_SIPURL")

\* bounce_message() quotes the text to the sender.
bounce_message ==
    /\ msg' = msg /\ state' = "DELETE_ME_STATE"
    /\ notice' = [says |-> get_text(msg), came |-> msg.content_type, is |-> msg.parsed.type]
    /\ UNCHANGED <<relay, file, up, crashes, original, datagram, refused>>

lookup_uri_imsi_bounce ==
    /\ ToLookup /\ msg.parsed.uri # "imsi"
    /\ relay = "none"
    /\ bounce_message

\* A REGISTER that was redirected has no user name.
lookup_uri_imsi_error ==
    /\ In("REQUEST_DESTINATION_IMSI") /\ msg.parsed.uri = "none"
    /\ Step(msg, "NO_STATE")

\* Mutant of lookup_uri_hostport: the change is not announced.
HostportSilently ==
    /\ In("REQUEST_DESTINATION_SIPURL")
    /\ Step([msg EXCEPT !.parsed.routed = TRUE,
                !.convert_content_type = IF msg.parsed.uri = "imsi" THEN @
                                         ELSE global_relay_contenttype],
            "REQUEST_MSG_DELIVERY")

\* Host, port and Call-ID are replaced.  The ports are compared as pointers, so
\* that parsed_was_changed() is called whatever they are.
lookup_uri_hostport ==
    /\ In("REQUEST_DESTINATION_SIPURL")
    /\ Step(parsed_was_changed(
              [msg EXCEPT !.parsed.routed = TRUE,
                 !.convert_content_type = IF msg.parsed.uri = "imsi" THEN @
                                         ELSE global_relay_contenttype]),
            "REQUEST_MSG_DELIVERY")

\* Packed, written out and sent.
deliver_msg_datagram ==
    /\ In("REQUEST_MSG_DELIVERY") /\ ~PackFails(msg)
    /\ msg' = make_text_valid(pack_sms_for_delivery(msg))
    /\ state' = "ASKED_FOR_MSG_DELIVERY"
    /\ datagram' = msg'.text
    /\ UNCHANGED <<relay, file, up, crashes, original, notice, refused>>

\* Retries exceeded, or packing failed.
GiveUp ==
    /\ In("REQUEST_MSG_DELIVERY")
    /\ Step(IF PackFails(msg) THEN msg ELSE pack_sms_for_delivery(msg),
            IF PackFails(msg) THEN "NO_STATE" ELSE "DELETE_ME_STATE")

NoAnswer ==
    /\ In("ASKED_FOR_MSG_DELIVERY")
    /\ Step(msg, "REQUEST_MSG_DELIVERY")

\* Answers come late and repeatedly, whatever the state.
Answerable == up /\ msg # NoMsg /\ datagram # NoForm
Refused == Answerable /\ bounce_message
Relocated == Answerable /\ Step(msg, "REQUEST_DESTINATION_IMSI")
Gone ==
    /\ up /\ msg # NoMsg
    /\ state \in {"NO_STATE", "DELETE_ME_STATE"} \/ datagram # NoForm
    /\ Step(NoMsg, "none")

-----------------------------------------------------------------------------
(* Dumping, saving and reading back.                                       *)

debug_dump == up /\ msg # NoMsg /\ Step(make_text_valid(msg), state)

save_queue_to_file ==
    /\ up /\ msg # NoMsg
    /\ msg' = make_text_valid(msg)
    /\ file' = [state |-> state, text |-> msg'.text, ms_to_sc |-> msg.ms_to_sc,
                need_repack |-> msg.need_repack]
    /\ UNCHANGED <<state, relay, up, crashes, history>>

Crash ==
    /\ up /\ crashes < MaxCrashes
    /\ crashes' = crashes + 1
    /\ up' = FALSE
    /\ msg' = NoMsg /\ state' = "none"
    /\ UNCHANGED <<relay, file, history>>

\* convert_content_type is not in the file.
Reread == [initialize(file.text) EXCEPT !.ms_to_sc = file.ms_to_sc,
                                        !.need_repack = file.need_repack]

read_queue_from_file ==
    /\ ~up
    /\ up' = TRUE
    /\ \/ /\ file = NoRecord
          /\ UNCHANGED <<msg, state, refused>>
       \/ /\ file # NoRecord /\ ParseFails(Reread)
          /\ refused' = TRUE
          /\ UNCHANGED <<msg, state>>
       \/ /\ file # NoRecord /\ ~ParseFails(Reread)
          /\ msg' = parse(Reread) /\ state' = file.state
          /\ UNCHANGED refused
    /\ UNCHANGED <<relay, file, crashes, original, datagram, notice>>

-----------------------------------------------------------------------------
Init ==
    /\ msg = NoMsg /\ state = "none"
    /\ relay \in Relays
    /\ file = NoRecord
    /\ up = TRUE /\ crashes = 0
    /\ original = NoText /\ datagram = NoForm /\ notice = NoNotice /\ refused = FALSE

\* What validate_short_msg() lets in: a text, or what may be a TPDU.
Arrivals ==
    {f \in [type : {"TEXT_PLAIN", "VND_3GPP_SMS"}, kind : Kinds \ {"DELIVER"},
            says : Texts \cup {NoText}, from : {"imsi", "phone"},
            uri : {"smsc", "phone", "imsi"}, via : {FALSE}, routed : {FALSE}] :
        /\ f.type = "TEXT_PLAIN" <=> f.kind = "text"
        /\ f.says = NoText <=> f.kind \in {"empty", "noise", "REPORT"}
        /\ f.says \in Undecodable => f.kind = "SUBMIT"}

Originals == {[f EXCEPT !.via = TRUE, !.from = "phone"] :
                f \in {g \in Arrivals : g.type = "TEXT_PLAIN" /\ g.uri # "smsc"}}

Next ==
    \/ \E f \in Arrivals : Receive(f)
    \/ \E f \in Originals, s \in {"REQUEST_DESTINATION_IMSI", "REQUEST_DESTINATION_SIPURL"} :
         Originate(f, s)
    \/ OriginateRegister
    \/ shortcode_smsc \/ sendEMail \/ sendHTTP \/ shortcode_smsc_error \/ Ordinary
    \/ lookup_from_address
    \/ lookup_uri_imsi \/ lookup_uri_imsi_relay \/ lookup_uri_imsi_bounce
    \/ lookup_uri_imsi_error
    \/ lookup_uri_hostport
    \/ deliver_msg_datagram \/ GiveUp \/ NoAnswer
    \/ Refused \/ Relocated \/ Gone
    \/ debug_dump \/ save_queue_to_file \/ Crash \/ read_queue_from_file

Spec == Init /\ [][Next]_vars

-----------------------------------------------------------------------------
(* Properties.                                                             *)

\* Every variable has its type.
TypeOK ==
    /\ msg \in short_msg \cup {NoMsg}
    /\ relay \in Relays
    /\ crashes \in 0..MaxCrashes
    /\ datagram \in Form \cup {NoForm}

\* What goes out carries every change made to the message, those of which
\* parsed_was_changed() was not told included.
SentIsCurrent ==
    [][state = "REQUEST_MSG_DELIVERY" /\ state' = "ASKED_FOR_MSG_DELIVERY"
         => datagram' = msg'.parsed]_vars

\* However often a message is packed, sent, redirected, saved and read back, it
\* says what its sender wrote.  The exception: get_text() returns "" when the
\* decoding fails, so that a message in another alphabet than the 7-bit one may go
\* out empty if there is a relay to convert it for, and always does to the relay
\* (within one life of the process, which forgets what it was to convert).
TextPreserved ==
    datagram # NoForm =>
      /\ \/ datagram.says = original
         \/ original \in Undecodable /\ relay # "none" /\ datagram.says = NoText
      /\ (original \in Undecodable /\ relay # "none" /\ datagram.uri = "phone" /\ crashes = 0)
           => datagram.says = NoText

\* What goes out is never the SMS-SUBMIT that came from a handset.
SentIsDownlink == datagram # NoForm => datagram.kind # "SUBMIT"

\* "The content type that the global relay expects" is what it gets, within one
\* life of the process.
RelayGetsItsType ==
    (datagram # NoForm /\ datagram.uri = "phone" /\ relay # "none" /\ crashes = 0)
      => datagram.type = relay

\* A notice quotes what the sender wrote, before and after the message was packed,
\* except that get_text() finds nothing in what decode() refuses, takes the digits
\* of a TPDU for the text of a message that came as text, and finds no TPDU in one
\* that has become text.
NoticeQuotesText ==
    notice # NoNotice =>
      notice.says = IF original \in Undecodable THEN NoText
                    ELSE IF notice.came = notice.is THEN original
                    ELSE IF notice.came = "TEXT_PLAIN" THEN Garbled ELSE NoText

\* "Get message text in plain text form": what goes out still says what came.
NothingLost == datagram # NoForm => datagram.says = original

\* "Save the queue to a file; read it back from a file": what was accepted once
\* is accepted again.
ReadBack == ~refused
=============================================================================
