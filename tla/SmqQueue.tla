------------------------------ MODULE SmqQueue ------------------------------
(***************************************************************************)
(* The message queue of smqueue: SMq::time_sorted_list and the state       *)
(* machine that process_timeout() and handle_response() drive over it.     *)
(*                                                                         *)
(* The list is a sequence of message records.  Every operation on it runs  *)
(* under sortedListMutex from beginning to end, so a whole handler is one  *)
(* atomic step: the reader thread inserts what arrives at the FRONT, the   *)
(* writer thread looks at the head only and handles it when it is due.     *)
(*                                                                         *)
(* Time is relative: a message carries "due", the ticks left until its     *)
(* next_action_time; Tick lets time pass.  A message is overdue by any     *)
(* amount when due = -1.                                                   *)
(*                                                                         *)
(* A behaviour is one life of the process, which starts with what the one  *)
(* before has left: the save file, which the reader thread reads before it *)
(* receives anything, and requests that may still be answered.  How a file *)
(* is written, cut short and read is the subject of SmqSaveFile.           *)
(***************************************************************************)
EXTENDS Integers, Sequences, FiniteSets, SequencesExt

CONSTANTS
    Ids,              \* list nodes that can be allocated (bounds the queue)
    Legacies,         \* what the process may find when it starts
    UserTags,         \* queue tags chosen by SIP clients
    OwnNumbers,       \* what new_random_number() & 0xFFFF may return
    NoTag,            \* a NULL linktag
    MaxRequests,      \* bound: requests the reader accepts
    MaxResponses,     \* bound: responses the reader accepts
    MaxRegister,      \* bound: REGISTERs smqueue originates
    Methods,          \* SIP methods of the requests that arrive
    Froms,            \* kinds of From address that arrive
    Targets,          \* kinds of Request-URI that arrive
    Statuses,         \* status codes of the responses that arrive
    ShortCodes,       \* the addresses short_code_map knows
    ShortCodeActions, \* what the short-code functions return
    GlobalRelay,      \* SIP.GlobalRelay.* configured?
    MaxRetries,       \* SMS.MaxRetries, 0 = never give up
    RateLimit,        \* SMS.RateLimit in seconds, 0 = off
    AckedResend,      \* SIP.Timeout.ACKedMessageResend
    MessageBounce,    \* SIP.Timeout.MessageBounce
    UniqueTags,       \* TRUE: clients and the random generator never repeat a tag
    Ticks             \* milliseconds to ticks, order preserving

VARIABLES
    time_sorted_list,   \* the queue, head first
    file,               \* the records of the save file that are still to be read
    register_call_seq,  \* CSeq of the last REGISTER originated
    spacing,            \* ticks since spacingTimer.now(), saturating
    sent,               \* requests the network has been given: it may answer them
    running,            \* "up", "stopping" (stop_main_loop) or "crashed"
    requests,           \* requests accepted so far
    responses           \* responses accepted so far

vars == <<time_sorted_list, file, register_call_seq, spacing, sent, running, requests,
          responses>>

\* The step changes the queue and nothing else.
ListOnly ==
    UNCHANGED <<file, register_call_seq, spacing, sent, running, requests, responses>>

-----------------------------------------------------------------------------
(* The states and the table of timeouts, in milliseconds.                  *)

sm_states == <<
    "NO_STATE", "INITIAL_STATE",
    "REQUEST_FROM_ADDRESS_LOOKUP", "ASKED_FOR_FROM_ADDRESS_LOOKUP",
    "AWAITING_TRY_DESTINATION_IMSI", "REQUEST_DESTINATION_IMSI",
    "ASKED_FOR_DESTINATION_IMSI",
    "AWAITING_TRY_DESTINATION_SIPURL", "REQUEST_DESTINATION_SIPURL",
    "ASKED_FOR_DESTINATION_SIPURL",
    "AWAITING_TRY_MSG_DELIVERY", "REQUEST_MSG_DELIVERY",
    "ASKED_FOR_MSG_DELIVERY", "DELETE_ME_STATE",
    "AWAITING_REGISTER_HANDSET", "REGISTER_HANDSET",
    "ASKED_TO_REGISTER_HANDSET">>

sm_state == {
    "NO_STATE", "INITIAL_STATE",
    "REQUEST_FROM_ADDRESS_LOOKUP", "ASKED_FOR_FROM_ADDRESS_LOOKUP",
    "AWAITING_TRY_DESTINATION_IMSI", "REQUEST_DESTINATION_IMSI",
    "ASKED_FOR_DESTINATION_IMSI",
    "AWAITING_TRY_DESTINATION_SIPURL", "REQUEST_DESTINATION_SIPURL",
    "ASKED_FOR_DESTINATION_SIPURL",
    "AWAITING_TRY_MSG_DELIVERY", "REQUEST_MSG_DELIVERY",
    "ASKED_FOR_MSG_DELIVERY", "DELETE_ME_STATE",
    "AWAITING_REGISTER_HANDSET", "REGISTER_HANDSET",
    "ASKED_TO_REGISTER_HANDSET"}

NT == 3000 * 1000   \* "No Timeout", 50 minutes
RT == 300 * 1000    \* "Re Try", 5 minutes
TT == 60 * 1000     \* added on a 100 Trying

\* Row: state left; column, in the order of sm_states: state entered.
timeouts == [
  NO_STATE |->
    <<NT,  0,  0, NT,  NT,  0, NT,  NT,  0, NT,  NT,  0, NT,   0,  NT, NT, NT>>,
  INITIAL_STATE |->
    << 0,  0,  0, NT,  NT, NT, NT,  NT, NT, NT,  NT,  0, NT,   0,  NT, NT, NT>>,
  REQUEST_FROM_ADDRESS_LOOKUP |->
    << 0, NT, 10, 10,  NT,  0, NT,  NT, NT, NT,  NT, NT, NT,   0,   1,  0, NT>>,
  ASKED_FOR_FROM_ADDRESS_LOOKUP |->
    << 0, NT, 60, NT,  NT, NT, NT,  NT, NT, NT,  NT, NT, NT,   0,  NT, NT, NT>>,
  AWAITING_TRY_DESTINATION_IMSI |->
    << 0, NT, RT, NT,  RT, NT, NT,  NT, NT, NT,  NT, NT, NT,   0,  NT, NT, NT>>,
  REQUEST_DESTINATION_IMSI |->
    << 0, NT, RT, NT,  RT, NT, NT,  NT,  0, NT,  NT, NT, NT,   MessageBounce,
       NT, NT, NT>>,
  ASKED_FOR_DESTINATION_IMSI |->
    << 0, NT, RT, NT,  RT, NT, NT,  NT, NT, NT,  NT, NT, NT,   0,  NT, NT, NT>>,
  AWAITING_TRY_DESTINATION_SIPURL |->
    << 0, NT, RT, NT,  RT, NT, NT,  NT, NT, NT,  NT, NT, NT,   0,  NT, NT, NT>>,
  REQUEST_DESTINATION_SIPURL |->
    << 0, NT, RT, NT,  RT, NT, NT,  NT, NT, NT,  NT,  0, NT,   0,  NT, NT, NT>>,
  ASKED_FOR_DESTINATION_SIPURL |->
    << 0, NT, RT, NT,  RT, NT, NT,  NT, NT, NT,  NT, NT, NT,   0,  NT, NT, NT>>,
  AWAITING_TRY_MSG_DELIVERY |->
    << 0, NT, RT, NT,  RT, NT, NT,  NT, NT, NT,  75000, 0, NT, 0,  NT, NT, NT>>,
  REQUEST_MSG_DELIVERY |->
    << 0, NT, RT, NT,  RT, NT, NT,  NT, 15000, NT,  75000, 75000, 15000,
       0,  NT, NT, NT>>,
  ASKED_FOR_MSG_DELIVERY |->
    << 0, NT, RT, NT,  NT, NT, NT,  NT, NT, NT,  60000, 10000, TT,
       0,  NT, NT, NT>>,
  DELETE_ME_STATE |->
    << 0,  0,  0,  0,   0,  0,  0,   0,  0,  0,   0,  0,  0,   0,   0,  0,  0>>,
  AWAITING_REGISTER_HANDSET |->
    << 0, NT,  0, NT,  RT, NT, NT,  NT, NT, NT,  NT, NT, NT,   0,
       1000,  0, NT>>,
  REGISTER_HANDSET |->
    << 0, NT,  0, NT,  RT, NT, NT,  NT, NT, NT,  NT, NT, NT,   0,
       1000, 1000, 2000>>,
  ASKED_TO_REGISTER_HANDSET |->
    << 0, NT,  0, NT,  RT, NT, NT,  NT, NT, NT,  NT, NT, NT,   0,
       1000, 1000, 10000>>]

\* Every delay the code adds to the clock, in milliseconds.
Delays == {timeouts[s][i] : s \in sm_state, i \in 1..17}
            \cup {AckedResend, 1000 * RateLimit}

Column(s) == CHOOSE i \in 1..17 : sm_states[i] = s

\* Ticks until next_action_time when a message moves from state "old" to "new".
Timeout(old, new) == Ticks[timeouts[old][Column(new)]]

AckedTimeout == Ticks[AckedResend]
RateTicks == Ticks[1000 * RateLimit]

-----------------------------------------------------------------------------
(* Messages.  An address is an IMSI, a phone number, the configured        *)
(* Bounce.Code, another short code, or absent.                             *)

Address == {"imsi", "phone", "bounce", "short", "none"}
RequestMethods == {"MESSAGE", "REGISTER"}
Tags == UserTags \cup OwnNumbers \cup 1..MaxRegister
Runs == {"up", "stopping", "crashed"}

(***************************************************************************)
(* The last four fields are history, not code: how often this process has  *)
(* handed the message to the network, how many messages smqueue itself     *)
(* originated on the way to it, whether a short code asked for it to be    *)
(* run again, and whether it was read from the save file.                  *)
(***************************************************************************)
Message == [id : Ids, method : RequestMethods \cup {"RESPONSE"},
            from : Address, uri : Address, qtag : Tags,
            linktag : Tags \cup {NoTag}, status : Statuses \cup {0},
            state : sm_state, due : Int, retries : Nat,
            sends : Nat, gen : Nat, again : BOOLEAN, old : BOOLEAN]

\* What is saved of a request.
Saved == [method : RequestMethods, from : Address, uri : Address, qtag : Tags,
          gen : 0..2, state : sm_state, due : Int]

\* A request on the network, in the headers that its answer repeats.  "stale" is
\* history: it is a REGISTER of an earlier process, whose CSeq is given again.
SentRecord == [qtag : Tags, from : Address, gen : Nat, stale : BOOLEAN]

ASSUME MaxRetriesAssumption == MaxRetries \in Nat
ASSUME RateLimitAssumption == RateLimit \in Nat
ASSUME BoundsAssumption == MaxRequests \in Nat /\ MaxResponses \in Nat /\ MaxRegister \in Nat
ASSUME AddressAssumption ==
    /\ Methods \subseteq RequestMethods
    /\ Froms \subseteq {"imsi", "phone"}
    /\ Targets \subseteq Address \ {"none"}
    /\ ShortCodes \subseteq {"bounce", "short"}
ASSUME StatusAssumption == Statuses \subseteq 100..799
ASSUME SwitchAssumption == GlobalRelay \in BOOLEAN /\ UniqueTags \in BOOLEAN
\* The scaled delays are natural numbers, zero stays zero, and a longer delay
\* never becomes a shorter one.
ASSUME TimeoutAssumption ==
    /\ \A s, t \in sm_state : Timeout(s, t) \in Nat
    /\ AckedTimeout \in Nat
    /\ RateTicks \in Nat
    /\ Ticks[0] = 0
    /\ \A c, d \in Delays : c <= d => Ticks[c] <= Ticks[d]

IsImsi(a) == a = "imsi"
Queued(q) == {q[i].id : i \in 1..Len(q)}
TagsOf(q) == {q[i].qtag : i \in 1..Len(q)}
Up == running = "up"

-----------------------------------------------------------------------------
(* Operations on the list.                                                 *)

\* A short_msg_pending as its constructor leaves it.
NewMessage(id, method, from, uri, qtag, gen) ==
    [id |-> id, method |-> method, from |-> from, uri |-> uri, qtag |-> qtag,
     linktag |-> NoTag, status |-> 0, state |-> "NO_STATE", due |-> 0,
     retries |-> 0, sends |-> 0, gen |-> gen, again |-> FALSE, old |-> FALSE]

\* short_msg_pending::set_state: new state and timeout, list position untouched.
Restate(m, s) == [m EXCEPT !.state = s, !.due = Timeout(m.state, s)]

\* SMq::insert_new_message: splice at the front, whatever the others' times are.
insert_new_message(q, m, s) == Cons(Restate(m, s), q)

\* Mutant of Slot: the message is always pushed to the back.
SlotAtEnd(q, d) == Len(q) + 1

\* Where SMq::set_state splices: before the first message not earlier than d.
Slot(q, d) ==
    LET later == {i \in 1..Len(q) : q[i].due >= d}
    IN  IF later = {} THEN Len(q) + 1 ELSE Min(later)

\* SMq::set_state, given the list without the message.
set_state(rest, m, s) ==
    InsertAt(rest, Slot(rest, Restate(m, s).due), Restate(m, s))

\* Mutant of find_queued_msg_by_tag: the hashes agree, the tags are not compared.
FindByHashOnly(q, tag) == IF q = <<>> THEN 0 ELSE 1

\* Index of the first message with this tag, 0 if there is none.
find_queued_msg_by_tag(q, tag) == SelectInSeq(q, LAMBDA m : m.qtag = tag)

-----------------------------------------------------------------------------
(* Allocation, and the originating of messages.                            *)

CanAllocate == Queued(time_sorted_list) # Ids
NewId == CHOOSE i \in Ids : i \notin Queued(time_sorted_list)

FreshTag(t) ==
    UniqueTags => t \notin TagsOf(time_sorted_list) \cup TagsOf(file) \cup {s.qtag : s \in sent}

\* originate_sm: q with a MESSAGE from "from" to "to", entering at "firststate".
originate_sm(q, from, to, n, gen, firststate) ==
    insert_new_message(q, NewMessage(NewId, "MESSAGE", from, to, n, gen), firststate)

\* Mutant of originate_register: the CSeq is incremented twice.
RegisterSkippingCSeq(q, m) ==
    insert_new_message(q,
        [NewMessage(NewId, "REGISTER", m.from, "none", register_call_seq + 2,
                    m.gen + 1) EXCEPT !.linktag = m.qtag],
        "REQUEST_MSG_DELIVERY")

\* The REGISTER that register_handset() queues for SMS m.
originate_register(q, m) ==
    insert_new_message(q,
        [NewMessage(NewId, "REGISTER", m.from, "none", register_call_seq + 1,
                    m.gen + 1) EXCEPT !.linktag = m.qtag],
        "REQUEST_MSG_DELIVERY")

\* Mutant of MayBounce: the sender is not looked at.
BounceAnything(m) == TRUE

\* "Don't bounce a message from us - it makes endless loops."
MayBounce(m) == m.from # "bounce"

\* The notice that bounce_message() queues for m's sender.
originate_bounce(q, m, n) ==
    originate_sm(q, "bounce", m.from, n, m.gen + 1,
                 IF IsImsi(m.from) THEN "REQUEST_DESTINATION_SIPURL"
                                   ELSE "REQUEST_DESTINATION_IMSI")

-----------------------------------------------------------------------------
(* The reader thread: first the save file, last message first, each record *)
(* at the front of the list with the state and the time that it had; then  *)
(* a valid datagram enters the queue in INITIAL_STATE.                     *)

Restored(r) ==
    [NewMessage(NewId, r.method, r.from, r.uri, r.qtag, r.gen)
       EXCEPT !.state = r.state, !.due = r.due, !.old = TRUE]

read_queue_from_file ==
    /\ Up /\ CanAllocate /\ file # <<>>
    /\ time_sorted_list' = Cons(Restored(Head(file)), time_sorted_list)
    /\ file' = Tail(file)
    /\ UNCHANGED <<register_call_seq, spacing, sent, running, requests, responses>>

ReceiveRequest(method, from, uri, tag) ==
    /\ Up /\ CanAllocate /\ file = <<>> /\ requests < MaxRequests
    /\ FreshTag(tag)
    /\ time_sorted_list' =
         insert_new_message(time_sorted_list,
             NewMessage(NewId, method, from, uri, tag, 0), "INITIAL_STATE")
    /\ requests' = requests + 1
    /\ UNCHANGED <<file, register_call_seq, spacing, sent, running, responses>>

\* An answer may come late, repeatedly, or not at all.
ReceiveResponse(s, status) ==
    /\ Up /\ CanAllocate /\ file = <<>> /\ responses < MaxResponses
    /\ time_sorted_list' =
         insert_new_message(time_sorted_list,
             [NewMessage(NewId, "RESPONSE", s.from, "none", s.qtag, s.gen)
                EXCEPT !.status = status], "INITIAL_STATE")
    /\ responses' = responses + 1
    /\ UNCHANGED <<file, register_call_seq, spacing, sent, running, requests>>

-----------------------------------------------------------------------------
(* The writer thread: process_timeout() looks at the head, if it is due.   *)

First == Head(time_sorted_list)
Others == Tail(time_sorted_list)

HeadIn(states) ==
    /\ Up
    /\ time_sorted_list # <<>>
    /\ First.due <= 0
    /\ First.state \in states

\* The head, as "m", re-enters the list "rest" in state s.
Move(rest, m, s) == time_sorted_list' = set_state(rest, m, s)

NewRequest == HeadIn({"INITIAL_STATE"}) /\ First.method # "RESPONSE"

\* "We support only MESSAGE here."
InvalidMethod ==
    /\ NewRequest
    /\ First.method # "MESSAGE"
    /\ Move(Others, First, "NO_STATE")
    /\ ListOnly

OrdinaryMessage ==
    /\ NewRequest
    /\ First.method = "MESSAGE"
    /\ First.uri \in ShortCodes => "SCA_TREAT_AS_ORDINARY" \in ShortCodeActions
    /\ Move(Others, First, "REQUEST_FROM_ADDRESS_LOOKUP")
    /\ ListOnly

-----------------------------------------------------------------------------
(* handle_short_code(): what follows each short_code_action.               *)

ShortCode(action) ==
    /\ NewRequest
    /\ First.method = "MESSAGE"
    /\ First.uri \in ShortCodes
    /\ action \in ShortCodeActions

\* The reply goes to the sender, from the short code.
Reply(rest, n) == originate_sm(rest, First.uri, First.from, n, First.gen + 1,
                               "REQUEST_DESTINATION_SIPURL")

ShortCodeReply(n) ==
    /\ ShortCode("SCA_REPLY") /\ CanAllocate /\ FreshTag(n)
    /\ Move(Reply(Others, n), First, "DELETE_ME_STATE")
    /\ ListOnly

\* The function failed, or its reply did not validate.
ShortCodeError ==
    /\ ShortCode("SCA_INTERNAL_ERROR") \/ ShortCode("SCA_REPLY")
    /\ Move(Others, First, "NO_STATE")
    /\ ListOnly

ShortCodeDone ==
    /\ ShortCode("SCA_DONE")
    /\ Move(Others, First, "DELETE_ME_STATE")
    /\ ListOnly

\* SCA_QUIT_SMQUEUE and SCA_EXEC_SMQUEUE both stop the main loops.
ShortCodeStop ==
    /\ ShortCode("SCA_QUIT_SMQUEUE")
    /\ Move(Others, First, "DELETE_ME_STATE")
    /\ running' = "stopping"
    /\ UNCHANGED <<file, register_call_seq, spacing, sent, requests, responses>>

ShortCodeRetry ==
    /\ ShortCode("SCA_RETRY_AFTER_DELAY")
    /\ Move(Others, [First EXCEPT !.retries = @ + 1, !.again = TRUE],
            "REQUEST_FROM_ADDRESS_LOOKUP")
    /\ ListOnly

ShortCodeAwaitRegister ==
    /\ ShortCode("SCA_AWAIT_REGISTER")
    /\ Move(Others, First, "AWAITING_REGISTER_HANDSET")
    /\ ListOnly

\* Mutant of register_handset: the CSeq counter is not advanced.
RegisterSameCSeq(m) ==
    /\ register_call_seq < MaxRegister
    /\ \/ CanAllocate
          /\ Move(originate_register(Others, m), m, "ASKED_TO_REGISTER_HANDSET")
       \/ Move(Others, m, "DELETE_ME_STATE")
    /\ UNCHANGED <<file, register_call_seq, spacing, sent, running, requests, responses>>

\* register_handset() for the head m: the REGISTER is queued, or is refused.
register_handset(m) ==
    /\ register_call_seq < MaxRegister
    /\ register_call_seq' = register_call_seq + 1
    /\ \/ CanAllocate
          /\ Move(originate_register(Others, m), m, "ASKED_TO_REGISTER_HANDSET")
       \/ Move(Others, m, "DELETE_ME_STATE")
    /\ UNCHANGED <<file, spacing, sent, running, requests, responses>>

ShortCodeRegister == ShortCode("SCA_REGISTER") /\ register_handset(First)

\* The SMSC puts the number dialled into the Request-URI and starts over.
ShortCodeRestart(uri) ==
    /\ ShortCode("SCA_RESTART_PROCESSING")
    /\ Move(Others, [First EXCEPT !.uri = uri], "INITIAL_STATE")
    /\ ListOnly

\* The zap command deletes another message by its tag, then replies or is done.
ShortCodeZap(tag, n) ==
    /\ ShortCode("ZAP") /\ First.qtag # tag
    /\ LET j == find_queued_msg_by_tag(Others, tag)
           rest == RemoveAt(Others, j)
       IN  /\ j # 0
           /\ \/ Move(rest, First, "DELETE_ME_STATE")
              \/ /\ CanAllocate /\ FreshTag(n)
                 /\ Move(Reply(rest, n), First, "DELETE_ME_STATE")
    /\ ListOnly

\* "411" compares the user name of every Request-URI on its way out; that of a
\* REGISTER is NULL.
ShortCodeInfoCrash ==
    /\ ShortCode("INFO")
    /\ \E i \in 1..Len(Others) :
          /\ Others[i].uri = "none"
          /\ Others[i].state \in {"REQUEST_DESTINATION_SIPURL", "REQUEST_MSG_DELIVERY",
                                  "ASKED_FOR_MSG_DELIVERY", "AWAITING_TRY_MSG_DELIVERY"}
    /\ running' = "crashed"
    /\ UNCHANGED <<file, time_sorted_list, register_call_seq, spacing, sent, requests, responses>>

\* Zapping the command itself, or walking on from a node just freed, uses
\* freed memory: the process dies.
ShortCodeZapCrash ==
    /\ ShortCode("ZAP")
    /\ running' = "crashed"
    /\ UNCHANGED <<file, time_sorted_list, register_call_seq, spacing, sent, requests, responses>>

-----------------------------------------------------------------------------
(* Address lookups.  What the HLR answers is the environment's choice.     *)

\* States no case of the switch names: "Message timed out with bad state".
BadStates == {"ASKED_FOR_FROM_ADDRESS_LOOKUP",
              "AWAITING_TRY_DESTINATION_IMSI", "ASKED_FOR_DESTINATION_IMSI",
              "AWAITING_TRY_DESTINATION_SIPURL", "ASKED_FOR_DESTINATION_SIPURL"}

\* The default case restates the message and falls into the From lookup.
FromLookupHead == IF First.state \in BadStates
                  THEN Restate(First, "INITIAL_STATE") ELSE First

lookup_from_address(from) ==
    /\ HeadIn(BadStates \cup {"REQUEST_FROM_ADDRESS_LOOKUP"})
    /\ from = "phone" \/ from = First.from
    /\ IsImsi(First.from) \/ from = First.from
    /\ Move(Others, [FromLookupHead EXCEPT !.from = from], "REQUEST_DESTINATION_IMSI")
    /\ ListOnly

\* No host, not a sip: URI, or an IMSI of the wrong length.
lookup_from_address_error ==
    /\ HeadIn(BadStates \cup {"REQUEST_FROM_ADDRESS_LOOKUP"})
    /\ Move(Others, FromLookupHead, "NO_STATE")
    /\ ListOnly

UriLookup == HeadIn({"REQUEST_DESTINATION_IMSI"}) /\ First.method # "RESPONSE"

\* Already an IMSI, or the HLR translates the phone number into one.
lookup_uri_imsi ==
    /\ UriLookup
    /\ First.uri # "none"
    /\ Move(Others, [First EXCEPT !.uri = "imsi"], "REQUEST_DESTINATION_SIPURL")
    /\ ListOnly

\* No user name (a REGISTER), or an IMSI of the wrong length.
lookup_uri_imsi_error ==
    /\ UriLookup
    /\ First.uri \in {"none", "imsi"}
    /\ Move(Others, First, "NO_STATE")
    /\ ListOnly

UnknownNumber == UriLookup /\ First.uri \notin {"none", "imsi"}

\* Unknown number, but there is a global relay: the From may become the
\* sender's global number (mapCLIDGlobal), the number is routed as it is.
lookup_uri_imsi_relay(from) ==
    /\ UnknownNumber /\ GlobalRelay
    /\ from = First.from \/ (from = "phone" /\ First.from = "imsi")
    /\ Move(Others, [First EXCEPT !.from = from], "REQUEST_DESTINATION_SIPURL")
    /\ ListOnly

\* Unknown number and no relay: bounce_message().
lookup_uri_imsi_bounce(n) ==
    /\ UnknownNumber /\ ~GlobalRelay
    /\ MayBounce(First) /\ CanAllocate /\ FreshTag(n)
    /\ Move(originate_bounce(Others, First, n), First, "DELETE_ME_STATE")
    /\ ListOnly

\* The message is a bounce itself, or the notice did not validate.
lookup_uri_imsi_punt ==
    /\ UnknownNumber /\ ~GlobalRelay
    /\ Move(Others, First, "NO_STATE")
    /\ ListOnly

\* A response has no Request-URI to look at: NULL is dereferenced.
lookup_uri_imsi_crash ==
    /\ HeadIn({"REQUEST_DESTINATION_IMSI"})
    /\ First.method = "RESPONSE"
    /\ running' = "crashed"
    /\ UNCHANGED <<file, time_sorted_list, register_call_seq, spacing, sent, requests, responses>>

\* Host and port always come from somewhere: registration, relay or default.
\* The message gets a new Call-ID, but set_qtag() makes the tag from the CSeq
\* and the From tag (USE_CALL_ID_TAG is never defined): the tag stays.
lookup_uri_hostport ==
    /\ HeadIn({"REQUEST_DESTINATION_SIPURL"})
    /\ Move(Others, First,
            IF First.uri = "none" THEN "NO_STATE" ELSE "REQUEST_MSG_DELIVERY")
    /\ ListOnly

-----------------------------------------------------------------------------
(* Delivery.                                                               *)

\* AWAITING_TRY_MSG_DELIVERY is restated and falls into REQUEST_MSG_DELIVERY,
\* which counts the try before anything else can stop it.
Try == [(IF First.state = "AWAITING_TRY_MSG_DELIVERY"
         THEN Restate(First, "REQUEST_MSG_DELIVERY") ELSE First)
          EXCEPT !.retries = @ + 1]

Delivery == HeadIn({"AWAITING_TRY_MSG_DELIVERY", "REQUEST_MSG_DELIVERY"})

\* Mutant of RetriesExceeded: one try too many.
RetriesExceededLate == MaxRetries # 0 /\ Try.retries > MaxRetries + 1

RetriesExceeded == MaxRetries # 0 /\ Try.retries > MaxRetries
TooSoon == RateLimit > 0 /\ RateTicks >= spacing

\* pack_sms_for_delivery() fails: only a MESSAGE is ever repacked.
pack_sms_for_delivery_error ==
    /\ Delivery
    /\ First.method = "MESSAGE"
    /\ Move(Others, Try, "NO_STATE")
    /\ ListOnly

GiveUp ==
    /\ Delivery
    /\ RetriesExceeded
    /\ Move(Others, Try, "DELETE_ME_STATE")
    /\ ListOnly

\* The rate limiter moves next_action_time where the message stands; one that
\* is overdue may stay overdue.
RateLimited ==
    /\ Delivery
    /\ ~RetriesExceeded /\ TooSoon
    /\ LET at == IF First.state = "REQUEST_MSG_DELIVERY" THEN 1
                 ELSE Slot(Others, Try.due)
       IN  \E due \in (IF Try.due < 0 THEN -1 ELSE RateTicks)..(Try.due + RateTicks) :
             time_sorted_list' = InsertAt(Others, at, [Try EXCEPT !.due = due])
    /\ ListOnly

\* A datagram that cannot be sent is treated like one that was.
deliver_msg_datagram ==
    /\ Delivery
    /\ ~RetriesExceeded /\ ~TooSoon
    /\ Move(Others, [Try EXCEPT !.sends = @ + 1], "ASKED_FOR_MSG_DELIVERY")
    /\ sent' = sent \cup {[qtag |-> First.qtag, from |-> First.from, gen |-> First.gen,
                           stale |-> First.old /\ First.method = "REGISTER"]}
    /\ spacing' = IF RateLimit > 0 THEN 0 ELSE spacing
    /\ UNCHANGED <<file, register_call_seq, running, requests, responses>>

\* Mutants of NoAnswer: the message waits in the state of another lookup, or
\* goes on waiting for its answer.
NoAnswerToLookup ==
    /\ HeadIn({"ASKED_FOR_MSG_DELIVERY"})
    /\ Move(Others, First, "AWAITING_TRY_DESTINATION_SIPURL")
    /\ ListOnly
NoAnswerWaitsOn ==
    /\ HeadIn({"ASKED_FOR_MSG_DELIVERY"})
    /\ Move(Others, First, "ASKED_FOR_MSG_DELIVERY")
    /\ ListOnly

\* "never got back an ack.  Must wait awhile to avoid flooding"
NoAnswer ==
    /\ HeadIn({"ASKED_FOR_MSG_DELIVERY"})
    /\ Move(Others, First, "AWAITING_TRY_MSG_DELIVERY")
    /\ ListOnly

\* NO_STATE (an error) and DELETE_ME_STATE leave the queue.
Discard ==
    /\ HeadIn({"NO_STATE", "DELETE_ME_STATE"})
    /\ time_sorted_list' = Others
    /\ ListOnly

-----------------------------------------------------------------------------
(* Registration of a handset.                                              *)

Registering == {"AWAITING_REGISTER_HANDSET", "REGISTER_HANDSET",
                "ASKED_TO_REGISTER_HANDSET"}

\* The HLR does not map the IMSI yet.
NotReadyToRegister ==
    /\ HeadIn({"AWAITING_REGISTER_HANDSET"})
    /\ Move(Others, First, "AWAITING_REGISTER_HANDSET")
    /\ ListOnly

\* AWAITING_REGISTER_HANDSET falls into REGISTER_HANDSET.
RegisterHandset ==
    /\ HeadIn({"AWAITING_REGISTER_HANDSET", "REGISTER_HANDSET"})
    /\ register_handset(IF First.state = "AWAITING_REGISTER_HANDSET"
                        THEN Restate(First, "REGISTER_HANDSET") ELSE First)

RegisterTimeout ==
    /\ HeadIn({"ASKED_TO_REGISTER_HANDSET"})
    /\ Move(Others, First, "AWAITING_REGISTER_HANDSET")
    /\ ListOnly

-----------------------------------------------------------------------------
(* handle_response(): the response leaves the list first, then the first   *)
(* message with its tag is taken for the request it answers.  That message *)
(* changes state and timeout where it stands.                              *)

NewResponse == HeadIn({"INITIAL_STATE"}) /\ First.method = "RESPONSE"
Answered == find_queued_msg_by_tag(Others, First.qtag)
Class == First.status \div 100
RetryLater == Class \in {1, 5} \/ First.status \in {480, 486}

ResponseUnmatched ==
    /\ NewResponse
    /\ Answered = 0
    /\ time_sorted_list' = Others
    /\ ListOnly

increase_acked_msg_timeout ==
    /\ NewResponse
    /\ Answered # 0 /\ RetryLater
    /\ time_sorted_list' = [Others EXCEPT ![Answered].due = AckedTimeout]
    /\ ListOnly

\* Mutant of RerunLinked: the state of the SMS is not looked at.
RerunAny(q, m) ==
    LET k == find_queued_msg_by_tag(q, m.linktag)
    IN  IF m.method = "REGISTER" /\ k # 0
        THEN [q EXCEPT ![k] = Restate(q[k], "INITIAL_STATE")] ELSE q

\* A registered handset's SMS is run again from the start.
RerunLinked(q, m) ==
    LET k == find_queued_msg_by_tag(q, m.linktag)
    IN  IF m.method = "REGISTER" /\ k # 0 /\ q[k].state \in Registering
        THEN [q EXCEPT ![k] = Restate(q[k], "INITIAL_STATE")] ELSE q

ResponseDelivered ==
    /\ NewResponse
    /\ Answered # 0 /\ Class = 2
    /\ time_sorted_list' =
         RemoveAt(RerunLinked(Others, Others[Answered]), Answered)
    /\ ListOnly

Refused == NewResponse /\ Answered # 0 /\ Class = 4 /\ ~RetryLater

ResponseBounce(n) ==
    /\ Refused
    /\ MayBounce(Others[Answered]) /\ CanAllocate /\ FreshTag(n)
    /\ time_sorted_list' =
         originate_bounce([Others EXCEPT ![Answered] = Restate(@, "DELETE_ME_STATE")],
                          Others[Answered], n)
    /\ ListOnly

ResponsePunt ==
    /\ Refused
    /\ time_sorted_list' = [Others EXCEPT ![Answered] = Restate(@, "NO_STATE")]
    /\ ListOnly

\* 3xx and 6xx: look the destination up again.
ResponseRelocate ==
    /\ NewResponse
    /\ Answered # 0 /\ Class \in {3, 6}
    /\ time_sorted_list' =
         [Others EXCEPT ![Answered] = Restate(@, "REQUEST_DESTINATION_IMSI")]
    /\ ListOnly

ResponseUnknown ==
    /\ NewResponse
    /\ Answered # 0 /\ Class \notin 1..6
    /\ time_sorted_list' = Others
    /\ ListOnly

-----------------------------------------------------------------------------
(* What may be left by an earlier process.                                 *)

\* What a message of each kind may be doing: a response is never sent or
\* registered, a REGISTER never runs a short code, only a user's own MESSAGE
\* waits for a registration, and nothing rests in a state that the switch of
\* process_timeout() leaves to its ALERT default.
StateFitsKind(m) ==
    /\ m.state \notin BadStates \cup {"REGISTER_HANDSET"}
    /\ m.method = "RESPONSE" =>
         m.state \in {"INITIAL_STATE", "REQUEST_DESTINATION_IMSI",
                      "NO_STATE", "DELETE_ME_STATE"}
    /\ m.method = "REGISTER" => m.state # "REQUEST_FROM_ADDRESS_LOOKUP"
    /\ m.state \in Registering => m.method = "MESSAGE" /\ m.gen = 0

\* What smqueue originates at the second remove is a bounce, and what has yet to run
\* as a short code or to have its sender looked up came from outside.
BounceIsLast(m) == m.gen <= 1 \/ (m.gen = 2 /\ m.from = "bounce")
ChainEnds(m) ==
    /\ BounceIsLast(m)
    /\ m.method # "RESPONSE" /\ m.state \in {"INITIAL_STATE", "REQUEST_FROM_ADDRESS_LOOKUP"}
         => m.gen = 0

\* A process leaves what the list can hold (NoBadState, NoBounceLoop) and what was
\* sent, and has used up some of the bounds.
ASSUME LegacyAssumption ==
    \A l \in Legacies :
        /\ l.file \in Seq(Saved) /\ l.sent \subseteq SentRecord
        /\ l.requests \in 0..MaxRequests /\ l.responses \in 0..MaxResponses
        /\ \A i \in 1..Len(l.file) : StateFitsKind(l.file[i]) /\ ChainEnds(l.file[i])
        /\ \A s \in l.sent : BounceIsLast(s)

\* The lists were saved, from the end, such that none hid a due message.
SavedInOrder ==
    \A l \in Legacies : \A i, j \in 1..Len(l.file) :
        i < j => l.file[j].due <= 0 \/ l.file[j].due <= l.file[i].due

-----------------------------------------------------------------------------
Init ==
    /\ time_sorted_list = <<>>
    /\ register_call_seq = 0
    /\ spacing = 0
    /\ running = "up"
    /\ \E l \in Legacies :
         file = l.file /\ sent = l.sent /\ requests = l.requests /\ responses = l.responses

Receive ==
    \/ read_queue_from_file
    \/ \E m \in Methods, f \in Froms, u \in Targets, t \in UserTags :
         ReceiveRequest(m, f, u, t)
    \/ \E s \in sent, status \in Statuses : ReceiveResponse(s, status)

\* One call of process_timeout() that finds its head due.
process_timeout ==
    \/ InvalidMethod \/ OrdinaryMessage
    \/ \E n \in OwnNumbers : ShortCodeReply(n)
    \/ ShortCodeError \/ ShortCodeDone \/ ShortCodeStop \/ ShortCodeRetry
    \/ ShortCodeAwaitRegister \/ ShortCodeRegister
    \/ \E u \in Targets : ShortCodeRestart(u)
    \/ \E t \in Tags, n \in OwnNumbers : ShortCodeZap(t, n)
    \/ ShortCodeInfoCrash \/ ShortCodeZapCrash
    \/ \E f \in Address : lookup_from_address(f)
    \/ lookup_from_address_error
    \/ lookup_uri_imsi \/ lookup_uri_imsi_error
    \/ \E f \in Address : lookup_uri_imsi_relay(f)
    \/ \E n \in OwnNumbers : lookup_uri_imsi_bounce(n)
    \/ lookup_uri_imsi_punt \/ lookup_uri_imsi_crash
    \/ lookup_uri_hostport
    \/ pack_sms_for_delivery_error \/ GiveUp \/ RateLimited
    \/ deliver_msg_datagram \/ NoAnswer \/ Discard
    \/ NotReadyToRegister \/ RegisterHandset \/ RegisterTimeout
    \/ ResponseUnmatched \/ increase_acked_msg_timeout \/ ResponseDelivered
    \/ \E n \in OwnNumbers : ResponseBounce(n)
    \/ ResponsePunt \/ ResponseRelocate \/ ResponseUnknown

Earlier(d) == IF d > 0 THEN d - 1 ELSE -1

\* The clock advances, for every message and for the rate limiter.
Tick ==
    /\ time_sorted_list' = [i \in DOMAIN time_sorted_list |->
         [time_sorted_list[i] EXCEPT !.due = Earlier(@)]]
    /\ file' = [i \in DOMAIN file |-> [file[i] EXCEPT !.due = Earlier(@)]]
    /\ spacing' = IF TooSoon THEN spacing + 1 ELSE spacing
    /\ UNCHANGED <<register_call_seq, sent, running, requests, responses>>

Next == Receive \/ process_timeout \/ Tick

Spec == Init /\ [][Next]_vars

(***************************************************************************)
(* The writer's loop wakes at least every 200 ms (SmqWaitforMessage) and   *)
(* calls process_timeout(); the clock never stops.                         *)
(***************************************************************************)
FairSpec == Spec /\ WF_vars(process_timeout) /\ WF_vars(Tick)

-----------------------------------------------------------------------------
(* Properties.                                                             *)

\* Every variable, and every field of every queued message, has its type.
TypeOK ==
    /\ time_sorted_list \in Seq(Message)
    /\ file \in Seq(Saved)
    /\ register_call_seq \in 0..MaxRegister
    /\ spacing \in 0..(RateTicks + 1)
    /\ sent \subseteq SentRecord
    /\ running \in Runs
    /\ requests \in 0..MaxRequests
    /\ responses \in 0..MaxResponses

Each(P(_)) == \A i \in 1..Len(time_sorted_list) : P(time_sorted_list[i])

\* The switch in process_timeout() has a proper case for everything that is
\* ever queued: "Message timed out with bad state" is never logged.
NoBadState == Each(StateFitsKind)

\* "Don't bounce a message from us - it makes endless loops": whatever is
\* answered, refused or undeliverable, one accepted message makes smqueue
\* originate a chain of at most two (a reply or a REGISTER, and a bounce), over
\* restarts too.
NoBounceLoop == Each(ChainEnds)

\* SMS.MaxRetries bounds the datagrams that one process sends for one message,
\* through timeouts, relocations and rate limiting.
SendsBounded == MaxRetries # 0 => Each(LAMBDA m : m.sends <= MaxRetries)

\* process_timeout() looks at the head only, "thus the earliest one in time":
\* when some message is due, the head is.
HeadIsNext == Each(LAMBDA m : m.due <= 0 => First.due <= 0)

\* ... and so it is as long as no answer has changed a message where it stands
\* (RateLimited does it too): every set_state() and every insertion at the front
\* leaves the list such that a due message is not hidden behind one that waits,
\* reading a list that was saved in order included.
OrderedUntilAnswered == responses = 0 /\ RateLimit = 0 /\ SavedInOrder => HeadIsNext

\* A second answer to a registration comes "after we already handled the
\* original reg SMS.  Ignore it": a 2xx to a REGISTER restarts an SMS that still
\* waits for one, and changes the state of nothing else.
DuplicateRegisterIgnored ==
    [][NewResponse /\ Class = 2 /\ Answered # 0 /\ Others[Answered].method = "REGISTER" =>
         \A i \in 1..Len(time_sorted_list), j \in 1..Len(time_sorted_list') :
            /\ time_sorted_list[i].id = time_sorted_list'[j].id
            /\ time_sorted_list[i].state # time_sorted_list'[j].state
            => time_sorted_list[i].state \in Registering]_vars

\* "make sure messages eventually get discarded": every message leaves the
\* queue, as long as smqueue runs.
EventuallyDiscarded ==
    \A i \in Ids : i \in Queued(time_sorted_list)
                     ~> (i \notin Queued(time_sorted_list) \/ ~Up)

\* Requests that share a tag (a response carries the tag of its request).
SameTag(i, j) ==
    /\ time_sorted_list[i].method # "RESPONSE"
    /\ time_sorted_list[j].method # "RESPONSE"
    /\ time_sorted_list[i].qtag = time_sorted_list[j].qtag

\* If clients and random numbers keep tags apart, smqueue does it too within one
\* life, even while an earlier REGISTER for the same SMS is still queued: the only
\* requests that ever share a tag are a REGISTER read from the save file and one
\* that has been given its CSeq again since.
OnlyReloadedShareTag ==
    \A i, j \in 1..Len(time_sorted_list) :
        SameTag(i, j) /\ i # j =>
            /\ time_sorted_list[i].method = "REGISTER" /\ time_sorted_list[j].method = "REGISTER"
            /\ time_sorted_list[i].old \/ time_sorted_list[j].old

\* qtag: "Tag that identifies this msg uniquely in the queue".
QtagUnique == \A i, j \in 1..Len(time_sorted_list) : SameTag(i, j) => i = j

\* increase_acked_msg_timeout(): "we should increase the timeout because we
\* know the network worked".
AckNeverShortens ==
    [][NewResponse /\ RetryLater =>
         \A i \in 1..Len(time_sorted_list), j \in 1..Len(time_sorted_list') :
            time_sorted_list[i].id = time_sorted_list'[j].id
              => time_sorted_list'[j].due >= Earlier(time_sorted_list[i].due)]_vars

\* SMS.MaxRetries: a message is given up after that many attempts to send it.
GivenUpAfterMaxRetries ==
    MaxRetries # 0 =>
      Each(LAMBDA m : m.state = "DELETE_ME_STATE" /\ m.retries > MaxRetries
                        => m.sends = MaxRetries)

\* SCA_RETRY_AFTER_DELAY: "HLR is busy. Retry query later."  Such a message is
\* not routed to a subscriber as if it were ordinary.
RetriedIsNotRouted ==
    Each(LAMBDA m : m.again => m.state \notin
           {"REQUEST_DESTINATION_SIPURL", "REQUEST_MSG_DELIVERY",
            "ASKED_FOR_MSG_DELIVERY"})

\* DELETE_ME_STATE: "This message should quietly go away."
DeleteMeIsFinal ==
    [][\A i \in 1..Len(time_sorted_list), j \in 1..Len(time_sorted_list') :
         /\ time_sorted_list[i].id = time_sorted_list'[j].id
         /\ time_sorted_list[i].state = "DELETE_ME_STATE"
         => time_sorted_list'[j].state = "DELETE_ME_STATE"]_vars

RequestsTagged(q, tag) ==
    {i \in 1..Len(q) : q[i].qtag = tag /\ q[i].method # "RESPONSE"}

\* "If the response says the message is delivered, delete both the response
\* and the message."
DeliveredIsDeleted ==
    [][NewResponse /\ Class = 2 /\ First.id \notin Queued(time_sorted_list')
         /\ RequestsTagged(time_sorted_list, First.qtag) # {}
       => Cardinality(RequestsTagged(time_sorted_list', First.qtag))
            < Cardinality(RequestsTagged(time_sorted_list, First.qtag))]_vars

\* "Go back in and rerun the SMS message": nothing in INITIAL_STATE waits on
\* the NT timer, which is for "states where we will only time out if something
\* is really broken".
InitialIsRunnable ==
    Each(LAMBDA m : m.state = "INITIAL_STATE" => m.due < Ticks[NT])
=============================================================================
