----------------------------- MODULE SmqRegister -----------------------------
(***************************************************************************)
(* How a phone gets its number: the short code SC.Register.Code of         *)
(* smcommands.cpp, the subscriber registry it asks, and the SIP REGISTER   *)
(* that follows.                                                           *)
(*                                                                         *)
(* A handset sends an SMS with the number it wants.  shortcode_register()  *)
(* books the number in the registry (addUser), register_handset() then     *)
(* tells Asterisk at which cell the handset is, and when that is answered  *)
(* the SMS is run once more, finds its own number and replies "Welcome".   *)
(* The queue in which this happens is SmqQueue; here the SMS carry texts   *)
(* and senders, the registry has contents, and time is left out.           *)
(***************************************************************************)
EXTENDS Integers, Sequences, FiniteSets, SequencesExt

CONSTANTS
    Imsis,          \* handsets
    Texts,          \* what they send, as sequences of characters
    MaxSms,         \* bound: SMS that arrive
    MaxRegister,    \* bound: REGISTERs originated
    DigitsMin,      \* SC.Register.Digits.Min
    DigitsMax,      \* SC.Register.Digits.Max
    DigitsOverride, \* SC.Register.Digits.Override
    AddResults      \* what addUser() may return

ASSUME BoundAssumption == MaxSms \in Nat /\ MaxRegister \in Nat
ASSUME TextAssumption == \A t \in Texts : t \in Seq(STRING)
ASSUME DigitsAssumption ==
    DigitsMin \in Nat /\ DigitsMax \in Nat /\ DigitsOverride \in BOOLEAN
ASSUME ResultAssumption == AddResults \subseteq {"SUCCESS", "DELAYED", "FAILURE", "TRYAGAIN"}

VARIABLES
    sms,        \* the SMS that came, oldest first, and what became of each
    registers,  \* REGISTERs in the queue: number and the SMS they are linked to
    originated, \* REGISTERs originated so far
    accepted,   \* REGISTERs that Asterisk has answered with 2xx
    located,    \* handsets that Asterisk knows the cell of
    registry,   \* bookings that the registry shows
    delayed     \* bookings made that it does not show yet

vars == <<sms, registers, originated, accepted, located, registry, delayed>>
asterisk == <<accepted, located>>

-----------------------------------------------------------------------------
(* The subscriber registry.                                                *)

\* The numbers of a handset; none is a NULL.
getCLIDLocal(imsi) == {b.number : b \in {c \in registry : c.imsi = imsi}}
getIMSI2(number) == {b.imsi : b \in {c \in registry : c.number = number}}

\* A booking shows at once, or later (DELAYED), or is not made.
addUser(imsi, number, did) ==
    LET b == [imsi |-> imsi, number |-> number, late |-> did = "DELAYED"]
    IN  /\ registry' = IF did = "SUCCESS" THEN registry \cup {b} ELSE registry
        /\ delayed' = IF did = "DELAYED" THEN delayed \cup {b} ELSE delayed

-----------------------------------------------------------------------------
(* The text of the SMS.                                                    *)

Digits == {"0", "1", "2", "3", "4", "5", "6", "7", "8", "9"}
\* A space, brackets and the ends of a line.
Blanks == {"space", "(", ")", "CR", "LF"}

\* One character of "Simple parse", unless an earlier one was bad.
Scan(a, c) ==
    CASE a.badnum -> a
      [] ~a.badnum /\ c \in Digits ->
           [a EXCEPT !.phonenum = Append(@, c), !.seendig = @ + 1]
      [] ~a.badnum /\ c = "+" ->
           IF a.seendig = 0 /\ ~a.seenplus
           THEN [a EXCEPT !.phonenum = Append(@, c), !.seenplus = TRUE]
           ELSE [a EXCEPT !.badnum = TRUE]
      [] ~a.badnum /\ c = "!" -> [a EXCEPT !.exclaim = @ + 1]
      [] ~a.badnum /\ c \in Blanks -> a
      [] OTHER -> [a EXCEPT !.badnum = TRUE]

Nothing == [phonenum |-> <<>>, seendig |-> 0, seenplus |-> FALSE,
            exclaim |-> 0, badnum |-> FALSE]

Parsed(text) ==
    LET scanned[n \in 0..Len(text)] ==
            IF n = 0 THEN Nothing ELSE Scan(scanned[n - 1], text[n])
    IN  scanned[Len(text)]

\* What the registry keeps: the number that a text asked for.
Booking == [imsi : Imsis, number : {Parsed(t).phonenum : t \in Texts}, late : BOOLEAN]

\* Mutant of Acceptable: the number of digits is compared the wrong way.
AcceptableLoosely(a) == ~a.badnum /\ a.seendig <= DigitsMax

Acceptable(a) ==
    /\ ~a.badnum
    /\ \/ DigitsOverride /\ a.exclaim = 3
       \/ a.seendig \in DigitsMin..DigitsMax

-----------------------------------------------------------------------------
(* The short code.                                                         *)

\* AWAITING_REGISTER_HANDSET and ASKED_TO_REGISTER_HANDSET: booked, and waiting.
Waiting == {"AWAITING", "ASKED"}
States == {"INITIAL", "DONE", "FAILED", "ORDINARY"} \cup Waiting
Answers == {"bad", "welcome", "already", "taken", "error"}

\* A registration SMS.  "booked" and "replies" are history.
NewSms(imsi, text) ==
    [imsi |-> imsi, text |-> text, state |-> "INITIAL", booked |-> FALSE, replies |-> <<>>]

In(s, states) == s \in DOMAIN sms /\ sms[s].state \in states
SetState(s, state) == sms' = [sms EXCEPT ![s].state = state]

Receive(imsi, text) ==
    /\ Len(sms) < MaxSms
    /\ sms' = Append(sms, NewSms(imsi, text))
    /\ UNCHANGED <<registers, originated, asterisk, registry, delayed>>

\* SCA_REPLY: the answer is queued for the sender, or could not be made.
Reply(s, answer) ==
    /\ \/ sms' = [sms EXCEPT ![s].state = "DONE", ![s].replies = Append(@, answer)]
       \/ SetState(s, "FAILED")
    /\ UNCHANGED <<registers, originated, asterisk>>

\* Mutants of register_handset: no linktag; the SMS does not wait for the answer.
RegisterUnlinked(s) ==
    /\ originated < MaxRegister
    /\ originated' = originated + 1
    /\ registers' = registers \cup {[seq |-> originated + 1, link |-> 0]}
    /\ sms' = [sms EXCEPT ![s].state = "ASKED", ![s].booked = TRUE]
    /\ UNCHANGED asterisk
RegisterAndForget(s) ==
    /\ originated < MaxRegister
    /\ originated' = originated + 1
    /\ registers' = registers \cup {[seq |-> originated + 1, link |-> s]}
    /\ sms' = [sms EXCEPT ![s].state = "INITIAL", ![s].booked = TRUE]
    /\ UNCHANGED asterisk

\* The REGISTER is queued, linked to the SMS; or it is not valid.
register_handset(s) ==
    /\ originated < MaxRegister
    /\ originated' = originated + 1
    /\ \/ /\ registers' = registers \cup {[seq |-> originated + 1, link |-> s]}
          /\ sms' = [sms EXCEPT ![s].state = "ASKED", ![s].booked = TRUE]
       \/ /\ sms' = [sms EXCEPT ![s].state = "DONE", ![s].booked = TRUE]
          /\ UNCHANGED registers
    /\ UNCHANGED asterisk

BadNumber(s) ==
    /\ In(s, {"INITIAL"})
    /\ ~Acceptable(Parsed(sms[s].text))
    /\ Reply(s, "bad")
    /\ UNCHANGED <<registry, delayed>>

Asks(s) == In(s, {"INITIAL"}) /\ Acceptable(Parsed(sms[s].text))
Asked(s) == Parsed(sms[s].text).phonenum
Existing(s) == getCLIDLocal(sms[s].imsi)

\* The handset has a number: this one (perhaps since the last run), or another.
HasNumber(s) ==
    /\ Asks(s)
    /\ \E number \in Existing(s) :
         Reply(s, IF number = Asked(s) THEN "welcome" ELSE "already")
    /\ UNCHANGED <<registry, delayed>>

NumberTaken(s) ==
    /\ Asks(s) /\ Existing(s) = {}
    /\ getIMSI2(Asked(s)) # {}
    /\ Reply(s, "taken")
    /\ UNCHANGED <<registry, delayed>>

\* Mutant of FreeToBook: the number is not looked up.
FreeToBookUnchecked(s) == Asks(s) /\ Existing(s) = {}

\* "Neither the IMSI nor the phonenum is in use."
FreeToBook(s) == Asks(s) /\ Existing(s) = {} /\ getIMSI2(Asked(s)) = {}

Book(s, did) ==
    /\ FreeToBook(s)
    /\ addUser(sms[s].imsi, Asked(s), did)
    /\ CASE did = "SUCCESS" -> register_handset(s)
         [] did = "DELAYED" ->
              /\ sms' = [sms EXCEPT ![s].state = "AWAITING", ![s].booked = TRUE]
              /\ UNCHANGED <<registers, originated, asterisk>>
         [] did = "FAILURE" -> Reply(s, "error")
         [] did = "TRYAGAIN" ->
              SetState(s, "ORDINARY") /\ UNCHANGED <<registers, originated, asterisk>>

\* The registry has reloaded.
RegistryReloads ==
    /\ delayed # {}
    /\ registry' = registry \cup delayed
    /\ delayed' = {}
    /\ UNCHANGED <<sms, registers, originated, asterisk>>

-----------------------------------------------------------------------------
(* The REGISTER and its answers.                                           *)

\* ready_to_register(): "See if the IMSI maps to a caller ID yet."
Register(s) ==
    /\ In(s, {"AWAITING"})
    /\ Existing(s) # {}
    /\ register_handset(s)
    /\ UNCHANGED <<registry, delayed>>

RegisterTimeout(s) ==
    /\ In(s, {"ASKED"})
    /\ SetState(s, "AWAITING")
    /\ UNCHANGED <<registers, originated, asterisk, registry, delayed>>

\* Asterisk learns the cell; its answer may come late, twice or never.
Accepts(r) ==
    /\ accepted' = accepted \cup {r.seq}
    /\ located' = located \cup {sms[r.link].imsi}
    /\ UNCHANGED <<sms, registers, originated, registry, delayed>>

\* Mutant of RerunLinked: the state of the SMS is not looked at.
RerunAny(s) == SetState(s, "INITIAL")

\* "Go back in and rerun the SMS message", if it still waits.
RerunLinked(s) ==
    IF sms[s].state \in Waiting THEN SetState(s, "INITIAL") ELSE UNCHANGED sms

\* A 2xx: the REGISTER leaves the queue.  (A second one finds no REGISTER.)
AnswerAccepted(r) ==
    /\ r.seq \in accepted
    /\ registers' = registers \ {r}
    /\ RerunLinked(r.link)
    /\ UNCHANGED <<originated, asterisk, registry, delayed>>

\* Refused, or given up after SMS.MaxRetries: the SMS waits on.
RegisterEnds(r) ==
    /\ registers' = registers \ {r}
    /\ UNCHANGED <<sms, originated, asterisk, registry, delayed>>

-----------------------------------------------------------------------------
Init ==
    /\ sms = <<>>
    /\ registers = {}
    /\ originated = 0
    /\ accepted = {} /\ located = {}
    /\ registry = {} /\ delayed = {}

Next ==
    \/ \E i \in Imsis, t \in Texts : Receive(i, t)
    \/ \E s \in DOMAIN sms :
         \/ BadNumber(s) \/ HasNumber(s) \/ NumberTaken(s)
         \/ \E did \in AddResults : Book(s, did)
         \/ Register(s) \/ RegisterTimeout(s)
    \/ RegistryReloads
    \/ \E r \in registers : Accepts(r) \/ AnswerAccepted(r) \/ RegisterEnds(r)

Spec == Init /\ [][Next]_vars

-----------------------------------------------------------------------------
(* Properties.                                                             *)

Sms == [imsi : Imsis, text : Texts, state : States, booked : BOOLEAN, replies : Seq(Answers)]

\* Every variable has its type, and every REGISTER is linked to an SMS.
TypeOK ==
    /\ sms \in Seq(Sms)
    /\ registers \subseteq [seq : 1..MaxRegister, link : DOMAIN sms]
    /\ originated \in 0..MaxRegister
    /\ accepted \subseteq 1..originated
    /\ located \subseteq Imsis
    /\ registry \cup delayed \subseteq Booking

Booked == registry \cup delayed
Clash(b, c) == (b.imsi = c.imsi) # (b.number = c.number)

\* "Neither the IMSI nor the phonenum is in use.  Book 'em": however many ask
\* for it, a number has one owner and a handset one number; two bookings can
\* clash only if the registry did not show one of them at once.
OneOwner == \A b, c \in Booked : Clash(b, c) => b.late \/ c.late

\* ... and not even then.
OneOwnerAlways == \A b, c \in Booked : ~Clash(b, c)

\* Where the characters of a set are among the first n of a text, and how many.
Places(text, chars, n) == {i \in 1..n : text[i] \in chars}
CountTo(text, chars, n) == Cardinality(Places(text, chars, n))
Count(text, chars) == CountTo(text, chars, Len(text))

\* The number is what is left of the text when all else is struck out: each
\* character is where the count of those that are kept says.
KeptOf(number, text) ==
    LET kept == Digits \cup {"+"}
    IN  /\ Len(number) = Count(text, kept)
        /\ \A i \in Places(text, kept, Len(text)) : number[CountTo(text, kept, i)] = text[i]
WellFormed(number) == \A i \in 2..Len(number) : number[i] # "+"
ProperLength(text) ==
    \/ Count(text, Digits) \in DigitsMin..DigitsMax
    \/ DigitsOverride /\ Count(text, {"!"}) = 3

\* Everything booked was asked for: the number is what is left of a text that its
\* owner sent, of a proper length, with a plus in front or nowhere.
BookedAsAsked ==
    \A b \in Booked : WellFormed(b.number) /\
        \E s \in DOMAIN sms : /\ sms[s].imsi = b.imsi
                              /\ KeptOf(b.number, sms[s].text)
                              /\ ProperLength(sms[s].text)

\* An SMS is run two times or more, and REGISTERs for it may be answered twice;
\* its sender gets one reply.
OneReply == \A s \in DOMAIN sms : Len(sms[s].replies) <= 1

Welcomed(s) == "welcome" \in Range(sms[s].replies)

\* "rerun the SMS message, now that we think we can reply to it": the SMS that
\* booked the number says "Welcome" only when Asterisk knows where the handset is.
WelcomeReaches ==
    \A s \in DOMAIN sms : Welcomed(s) /\ sms[s].booked => sms[s].imsi \in located

\* "There are two ways to get here": a handset that already registered asks
\* again, or the SMS was run again after the final registration.
WelcomeIsFinal == \A s \in DOMAIN sms : Welcomed(s) => sms[s].imsi \in located
=============================================================================
