------------------------------ MODULE SmqIntake ------------------------------
(***************************************************************************)
(* How a datagram gets in and what its sender is told: get_next_dgram(),   *)
(* main_loop(), validate_short_msg() with the check of what comes from the *)
(* global relay, set_qtag(), respond_sip_ack(), and the second validation  *)
(* when the save file is read back.                                        *)
(*                                                                         *)
(* Of a datagram only its method, its addresses, the destination that its  *)
(* body names and its flaws are kept.  The threads and the memory they     *)
(* share belong to SmqThreads, what happens to a message that is in to     *)
(* SmqQueue and SmqMessage; here it is routed, packed and sent in one step *)
(* and stays in the queue until it is dealt with.                          *)
(***************************************************************************)
EXTENDS Integers, Sequences, FiniteSets, SequencesExt

CONSTANTS
    Senders,     \* where datagrams come from
    Users,       \* subscribers that may be in the HLR
    Strangers,   \* numbers that are not
    MaxFlaws,    \* bound: flaws of one datagram
    MaxSent,     \* bound: datagrams from the network
    MaxChanges,  \* bound: changes of the HLR
    MaxCrashes   \* bound: times the process dies and is started again

\* "smq" is another smqueue, the peer that may answer what it gets.
ASSUME SenderAssumption == Senders \subseteq {"client", "relay", "smq"}
ASSUME UserAssumption ==
    Users \cap Strangers = {} /\ {"code", "smsc", "text", "noise"} \cap (Users \cup Strangers) = {}
ASSUME BoundAssumption == {MaxFlaws, MaxSent, MaxChanges, MaxCrashes} \subseteq Nat

VARIABLES
    net,         \* datagrams on their way to smqueue
    queue,       \* time_sorted_list, without its order: what came and its form now
    acks,        \* SIPAckMsg entries of the message queue, oldest first
    relay,       \* whether a global relay is set, RelaxedVerify, and its ContentType
    hlr,         \* the users that the HLR can translate into an IMSI
    file,        \* the save file
    up,          \* the process runs
    arrived, changes, crashes,
    received,    \* history: requests taken from the network
    answers,     \* history: the codes sent, in order
    relayed,     \* history: messages that went to the global relay, as they came
    forgotten    \* history: requests in the save file that were refused

vars == <<net, queue, acks, relay, hlr, file, up, arrived, changes, crashes,
          received, answers, relayed, forgotten>>
bounds == <<arrived, changes, crashes>>
history == <<received, answers, relayed, forgotten>>

-----------------------------------------------------------------------------
(* validate_short_msg(): the checks in their order, and what each answers. *)

\* parse(), of the SIP message and of the TPDU in it.
ParseChecks == << <<"sip", 400>>, <<"tpdu", 400>>, <<"version", 400>> >>
ResponseChecks == << <<"status", 400>>, <<"length", 400>>, <<"body", 400>> >>
UriChecks == << <<"uri", 400>>, <<"scheme", 416>>, <<"host", 484>> >>

\* Mutant of MessageChecks: the CSeq is left to set_qtag().
MessageChecksNoCseq == << <<"user", 484>>, <<"type", 415>>, <<"body", 413>> >>

MessageChecks == << <<"user", 484>>, <<"type", 415>>, <<"body", 413>>, <<"cseq", 400>> >>
RegisterChecks == << <<"cseq", 400>> >>
HeaderChecks == << <<"call_id", 400>>, <<"from", 400>>, <<"mime", 415>>, <<"to", 400>> >>

Checks(method) ==
    ParseChecks
    \o (CASE method = "RESPONSE" -> ResponseChecks
          [] method = "MESSAGE"  -> UriChecks \o MessageChecks
          [] method = "REGISTER" -> UriChecks \o RegisterChecks
          [] OTHER               -> UriChecks \o << <<"method", 405>> >>)
    \o HeaderChecks

\* What may be wrong with a datagram.  A From without a tag is none of the checks,
\* nor is the CSeq of a response.
FlawsOf(method) == {Checks(method)[i][1] : i \in 1..Len(Checks(method))} \cup {"tag", "cseq"}

\* The checks that d does not pass.
Failed(d) == {i \in 1..Len(Checks(d.method)) : Checks(d.method)[i][1] \in d.flaws}

Codes == {100, 200, 202, 400, 401, 402, 403, 404, 405, 413, 415, 416, 480, 484}
Died == -1

\* By its source address or, with RelaxedVerify, by a Via that names the relay.
relaxed_verify_relay(d) == relay.set /\ relay.relaxed /\ d.via
msg_is_from_relay(d) == relay.set /\ d.src = "relay"
FromRelay(d) == msg_is_from_relay(d) \/ relaxed_verify_relay(d)

\* Mutant of to_is_deliverable: the HLR is not asked.
DeliverableAlways(to) == TRUE

\* A short code, or a number that the HLR makes an IMSI of.
to_is_deliverable(to) == to \in {"code", "smsc"} \cup hlr

\* The tag is built from CSeq and From tag; strlen() of a tag that is not there
\* ends the process.
set_qtag(d) == IF "cseq" \in d.flaws THEN 402 ELSE IF "tag" \in d.flaws THEN Died ELSE 0

\* A From that is missing altogether is looked into by the line that logs it.
validate_short_msg(d, should_early_check) ==
    IF Failed(d) # {}
    THEN LET first == Checks(d.method)[Min(Failed(d))]
         IN  {first[2]} \cup (IF first[1] = "from" THEN {Died} ELSE {})
    ELSE IF should_early_check /\ d.method = "MESSAGE"
              /\ FromRelay(d) /\ ~to_is_deliverable(d.to)
         THEN {404} ELSE {set_qtag(d)}

-----------------------------------------------------------------------------
(* The network and the reader thread.                                      *)

Arrive(d) ==
    /\ arrived' = arrived + 1
    /\ net' = net \cup {d}
    /\ UNCHANGED <<queue, acks, relay, hlr, file, up, changes, crashes, history>>

\* Lost on the way, or longer than the buffer: get_next_dgram() returns -1.
Lost(d) ==
    /\ d \in net
    /\ net' = net \ {d}
    /\ UNCHANGED <<queue, acks, relay, hlr, file, up, bounds, history>>

\* Mutant of AckCode: the result of the validation is sent as it is.
AckCodeAsIs(code) == code

AckCode(code) == IF code = 0 THEN 202 ELSE code

\* main_loop(): validated, queued if good, and an answer asked for in any case.
main_loop(d) ==
    /\ up /\ d \in net
    /\ net' = net \ {d}
    /\ \E code \in validate_short_msg(d, TRUE) :
         /\ code # Died
         /\ queue' = IF code = 0 THEN queue \cup {[msg |-> d, form |-> "came"]} ELSE queue
         /\ acks' = Append(acks, [code |-> AckCode(code), msg |-> d])
    /\ received' = received + (IF d.method = "RESPONSE" THEN 0 ELSE 1)
    /\ UNCHANGED <<relay, hlr, file, up, bounds, answers, relayed, forgotten>>

Stop == up' = FALSE /\ queue' = {} /\ acks' = <<>>

main_loop_dies(d) ==
    /\ up /\ d \in net
    /\ net' = net \ {d}
    /\ Died \in validate_short_msg(d, TRUE)
    /\ Stop
    /\ UNCHANGED <<relay, hlr, file, bounds, history>>

-----------------------------------------------------------------------------
(* The writer thread.                                                      *)

\* Mutant of Answerable: responses are answered like requests.
AnswerableAll(d) == "sip" \notin d.flaws

\* What does not parse is not answered, nor a response, "or we loop!".
Answerable(d) == "sip" \notin d.flaws /\ d.method # "RESPONSE"

\* The headers of the answer are those of the request.
Response(d) ==
    [method |-> "RESPONSE", flaws |-> d.flaws \cap {"call_id", "from", "to", "cseq", "tag"},
     src |-> "smq", via |-> d.via, to |-> d.to, uri |-> d.uri, body |-> "text"]

respond_sip_ack ==
    /\ up /\ acks # <<>>
    /\ LET a == Head(acks)
       IN  /\ Answerable(a.msg)
           /\ answers' = Append(answers, a.code)
           /\ net' = IF a.msg.src = "smq" THEN net \cup {Response(a.msg)} ELSE net
    /\ acks' = Tail(acks)
    /\ UNCHANGED <<queue, relay, hlr, file, up, bounds, received, relayed, forgotten>>

\* Not to be answered, or send_dgram() finds no socket that takes it.
respond_nothing ==
    /\ up /\ acks # <<>>
    /\ acks' = Tail(acks)
    /\ UNCHANGED <<net, queue, relay, hlr, file, up, bounds, history>>

\* shortcode_smsc() sends a text on to the number in its To, an SMS-SUBMIT to the
\* one it is addressed to, and refuses what has no TPDU.
Destination(d) ==
    CASE d.uri # "smsc" -> d.uri
      [] d.uri = "smsc" /\ d.body = "text" -> d.to
      [] d.uri = "smsc" /\ d.body = "noise" -> "smsc"
      [] OTHER -> d.body

\* Short codes answer themselves.
Here(d) == Destination(d) \in {"code", "smsc"}

Untried(e) == up /\ e \in queue /\ e.form = "came" /\ e.msg.method = "MESSAGE" /\ ~Here(e.msg)

\* A message in the form in which it goes out, and stays queued for the next try.
Pack(e, form) == queue' = (queue \ {e}) \cup {[e EXCEPT !.form = form]}

\* To a handset: a text as it is, an SMS-SUBMIT as SMS-DELIVER; nothing else packs.
Delivered(e) ==
    /\ Untried(e) /\ Destination(e.msg) \in hlr
    /\ e.msg.body # "noise"
    /\ Pack(e, IF e.msg.body = "text" THEN "text" ELSE "deliver")
    /\ UNCHANGED <<net, acks, relay, hlr, file, up, bounds, history>>

\* A destination that is not known here goes to the global relay, as it expects it.
Relayed(e) ==
    /\ Untried(e) /\ Destination(e.msg) \notin hlr
    /\ relay.set
    /\ Pack(e, relay.type)
    /\ relayed' = relayed \cup {e.msg}
    /\ UNCHANGED <<net, acks, relay, hlr, file, up, bounds, received, answers, forgotten>>

\* Answered, given up, bounced, mailed, or dealt with by a short code.
Handled(e) ==
    /\ up /\ e \in queue
    /\ \/ e.form # "came" \/ e.msg.method # "MESSAGE" \/ Here(e.msg)
       \/ Destination(e.msg) \in hlr \/ ~relay.set
       \/ e.msg.uri = "smsc" /\ e.msg.body # "text"
    /\ queue' = queue \ {e}
    /\ UNCHANGED <<net, acks, relay, hlr, file, up, bounds, history>>

-----------------------------------------------------------------------------
(* The HLR, saving and starting again.                                     *)

Provision(u) ==
    /\ changes < MaxChanges
    /\ changes' = changes + 1
    /\ hlr' \in {hlr \cup {u}, hlr \ {u}}
    /\ UNCHANGED <<net, queue, acks, relay, file, up, arrived, crashes, history>>

save_queue_to_file ==
    /\ up
    /\ file' = queue
    /\ UNCHANGED <<net, queue, acks, relay, hlr, up, bounds, history>>

Crash ==
    /\ up
    /\ Stop
    /\ UNCHANGED <<net, relay, hlr, file, bounds, history>>

\* The text of a message is saved in the form it has.  An SMS-DELIVER is a TPDU that
\* parseTPDU() does not read.
AsSaved(e) == IF e.form = "deliver" THEN [e.msg EXCEPT !.flaws = @ \cup {"tpdu"}] ELSE e.msg

\* Mutant of Revalidated: with the check of the relay.
RevalidatedEarly(e) == 0 \in validate_short_msg(AsSaved(e), TRUE)

Revalidated(e) == 0 \in validate_short_msg(AsSaved(e), FALSE)

\* Responses in the file are not taken back.
read_queue_from_file ==
    /\ ~up /\ crashes < MaxCrashes
    /\ crashes' = crashes + 1
    /\ up' = TRUE
    /\ LET requests == {e \in file : e.msg.method # "RESPONSE"}
       IN  /\ queue' = {e \in requests : Revalidated(e)}
           /\ forgotten' = forgotten \cup {e \in requests : ~Revalidated(e)}
    /\ UNCHANGED <<net, acks, relay, hlr, file, arrived, changes, received, answers, relayed>>

-----------------------------------------------------------------------------
Init ==
    /\ net = {} /\ queue = {} /\ acks = <<>> /\ file = {}
    /\ relay \in [set : BOOLEAN, relaxed : BOOLEAN, type : {"text", "deliver"}]
    /\ hlr \in SUBSET Users
    /\ up = TRUE
    /\ arrived = 0 /\ changes = 0 /\ crashes = 0
    /\ received = 0 /\ answers = <<>> /\ relayed = {} /\ forgotten = {}

Methods == {"MESSAGE", "REGISTER", "OTHER", "RESPONSE"}
Numbers == Users \cup Strangers \cup {"code"}

\* A method that is not known is a flaw of its own; a body of unknown type has no TPDU.
FlawSets(method) ==
    LET known == FlawsOf(method) \ {"method"}
        some == {f \in UNION {kSubset(k, known) : k \in 0..MaxFlaws} : ~({"type", "tpdu"} \subseteq f)}
    IN  {f \cup (FlawsOf(method) \ known) : f \in some}

\* Where to, and what the body is, matter for a MESSAGE only: a text, no TPDU, or an
\* SMS-SUBMIT for a number.  The body of what is refused does not matter.
Datagrams ==
    {d \in UNION {[method : {m}, flaws : FlawSets(m), src : Senders, via : BOOLEAN, to : Numbers,
                   uri : IF m = "MESSAGE" THEN Numbers \cup {"smsc"} ELSE {"code"},
                   body : IF m = "MESSAGE" THEN Numbers \cup {"text", "noise"} ELSE {"text"}] :
                     m \in Methods} :
        d.flaws # {} => d.body = "text"}

Next ==
    \/ arrived < MaxSent /\ \E d \in Datagrams : Arrive(d)
    \/ \E d \in net : Lost(d) \/ main_loop(d) \/ main_loop_dies(d)
    \/ respond_sip_ack \/ respond_nothing
    \/ \E e \in queue : Delivered(e) \/ Relayed(e) \/ Handled(e)
    \/ \E u \in Users : Provision(u)
    \/ save_queue_to_file \/ Crash \/ read_queue_from_file

Spec == Init /\ [][Next]_vars

-----------------------------------------------------------------------------
(* Properties.                                                             *)

\* Every code that is to be answered is one of respond_sip_ack()'s or set_qtag()'s,
\* and the counters keep their bounds.
TypeOK ==
    /\ \A i \in 1..Len(acks) : acks[i].code \in Codes
    /\ hlr \subseteq Users /\ up \in BOOLEAN
    /\ arrived \in 0..MaxSent /\ changes \in 0..MaxChanges /\ crashes \in 0..MaxCrashes

\* "Don't ack a response message, or we loop!": between two smqueues there are
\* never more answers than requests, whatever is wrong with what they exchange.
AnswersEnd == Len(answers) <= received

\* No sender reads "Error Message Table Needs Updating": the one code without a
\* phrase, 402, is only found in what is not answered.
PhraseKnown == \A i \in 1..Len(answers) : answers[i] # 402

\* As long as the HLR does not change, a message from the global relay that is for
\* the number in its To is never sent back to the relay, not even after a restart.
NotRelayedBack ==
    \A d \in relayed : FromRelay(d) /\ Destination(d) = d.to => changes > 0

\* "We cannot deliver the message since we cannot resolve the TO": the check keeps
\* whatever comes from the relay from going back to it.
NeverEchoed == \A d \in relayed : FromRelay(d) => changes > 0

\* A request that was accepted is accepted again when it is read back, even if the
\* HLR has lost its destination since, unless it has been packed as SMS-DELIVER.
AcceptedAgain == \A e \in forgotten : e.form = "deliver"

\* "No from tag" is "valid": the process survives every datagram.
TagIsOptional == [][up /\ ~up' => \A d \in net \ net' : "tag" \notin d.flaws]_vars
=============================================================================
