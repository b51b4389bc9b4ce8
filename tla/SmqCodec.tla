------------------------------ MODULE SmqCodec ------------------------------
(***************************************************************************)
(* The SMS codec of src/SMS and src/GSM as far as smqueue uses it: an      *)
(* SMS-SUBMIT in an RP-DATA is read when it comes from a handset, and an   *)
(* SMS-DELIVER in an RP-DATA is written for the handset it goes to, with   *)
(* the user data of the SUBMIT or with the text of a text/plain message.   *)
(*                                                                         *)
(* A frame is a sequence of bits.  The other side of the radio is the      *)
(* handset of GSM 03.40 and 04.11: HandsetRpdu says how it writes and      *)
(* HandsetRead how it reads, from the standard and not from this code.     *)
(***************************************************************************)
EXTENDS Integers, Sequences, SequencesExt

CONSTANTS
    ToNumbers,      \* numbers that handsets dial
    FromNumbers,    \* numbers that messages come from
    Smscs,          \* SMS.FakeSrcSMSC
    Texts,          \* texts, as sequences of ISO-8859-1 codes
    HeaderOctets,   \* lengths of user-data headers (0: there is none)
    Schemes,        \* data coding schemes of the SUBMITs
    PeriodFormats,  \* validity period formats (VPF) of the SUBMITs
    ProtocolIds,    \* TP-PIDs of the SUBMITs
    Times,          \* local times, with the offset from UTC in seconds
    None            \* no message

\* A phone number: a leading plus or not, then digits (10 is '*', 11 is '#').
Number == [plus : BOOLEAN, digits : Seq(0..11)]

ASSUME NumberAssumption ==
    \A n \in ToNumbers \cup FromNumbers \cup Smscs :
        n \in Number /\ Len(n.digits) \in 1..(IF n.plus THEN 19 ELSE 20)
ASSUME TextAssumption == \A t \in Texts : t \in Seq(1..255)
ASSUME TimeAssumption ==
    Times \subseteq [year : Nat, month : 1..12, day : 1..31, hour : 0..23, min : 0..59,
                     sec : 0..60, gmtoff : {900 * q : q \in -56..56}]
ASSUME SubmitAssumption ==
    /\ HeaderOctets \subseteq 0..139
    /\ Schemes \subseteq 0..255 /\ ProtocolIds \subseteq 0..255
    /\ PeriodFormats \subseteq 0..3

UserData == [dcs : 0..255, udhi : BOOLEAN, length : Nat, raw : Seq({0, 1})]
Submit == [to : Number, pi : 0..255, ud : UserData]
Delivery == [reference : 0..255, from : Number, smsc : Number, time : Times, pid : Nat, ud : UserData]
ASSUME NoneAssumption == None \notin Submit /\ None \notin Delivery

VARIABLES
    sms,        \* history: what was submitted, or the text message that came
    rpdu,       \* the RP-DATA on the wire
    submit,     \* the parsed SMS-SUBMIT (tl_message), or None
    delivered,  \* history: what create_sms_delivery() was to deliver, or None
    stage       \* "idle", "received", "text", "parsed" or "packed"

vars == <<sms, rpdu, submit, delivered, stage>>

-----------------------------------------------------------------------------
(* BitVector, of the library CommonLibs.                                   *)

Bit(v, k) == (v \div 2^k) % 2

\* The number that digits stand for, the highest one first.
Value(digits, base) ==
    LET value[n \in 0..Len(digits)] ==
            IF n = 0 THEN 0 ELSE base * value[n - 1] + digits[n]
    IN  value[Len(digits)]

writeField(v, w) == [i \in 1..w |-> Bit(v, w - i)]
writeFieldReversed(v, w) == [i \in 1..w |-> Bit(v, i - 1)]
readField(src, rp, w) == Value(SubSeq(src, rp + 1, rp + w), 2)
readFieldReversed(src, rp, w) == Value(Reverse(SubSeq(src, rp + 1, rp + w)), 2)

\* Fields of one width, one behind the other.
Fields(values, w) ==
    [i \in 1..(w * Len(values)) |->
        Bit(values[((i - 1) \div w) + 1], w - 1 - ((i - 1) % w))]

\* Reverses the bits of every whole octet.
LSB8MSB(bits) ==
    [i \in 1..Len(bits) |->
        LET k == (i - 1) \div 8
        IN  IF i > 8 * (Len(bits) \div 8) THEN bits[i]
            ELSE bits[(8 * k + 8) - ((i - 1) % 8)]]

Zeros(w) == writeField(0, w)

-----------------------------------------------------------------------------
(* The 7-bit alphabet, in ISO-8859-1.  Greek letters and the escape are    *)
(* replaced by letters and a space that occur a second time.               *)

gGSMAlphabet ==
    <<64, 163, 36, 165, 232, 233, 249, 236, 242, 231, 10, 216, 248, 13, 197, 229,
      68, 95, 70, 71, 76, 79, 80, 67, 83, 84, 90, 32, 198, 230, 223, 201>>
    \o [i \in 1..4 |-> 31 + i] \o <<164>> \o [i \in 1..27 |-> 36 + i] \o <<161>>
    \o [i \in 1..26 |-> 64 + i] \o <<196, 214, 209, 220, 167, 191>>
    \o [i \in 1..26 |-> 96 + i] \o <<228, 246, 241, 252, 225>>

decodeGSMChar(c) == gGSMAlphabet[c + 1]

\* reverseTable: the last code that stands for the character.  What the
\* alphabet does not have keeps the 0 of the table, which is '@'.
encodeGSMChar(c) ==
    LET codes == {i \in 0..127 : decodeGSMChar(i) = c}
    IN  IF codes = {} THEN 0 ELSE Max(codes)

-----------------------------------------------------------------------------
(* Addresses.                                                              *)

E164Plan == 1
International == 1
TypeOfNumber(n) == IF n.plus THEN International ELSE 2

maxDigits == 20

\* strlen(mDigits): the plus counts.
L3BCDDigits_size(n) == Len(n.digits) + (IF n.plus THEN 1 ELSE 0)

\* Mutant of L3BCDDigits_lengthV: an odd digit gets no octet.
LengthRoundedDown(n) == Len(n.digits) \div 2

L3BCDDigits_lengthV(n) == (Len(n.digits) \div 2) + (Len(n.digits) % 2)

\* Two digits to an octet, the second one first, 15 for one that is missing.
L3BCDDigits_write(n) ==
    LET digit(j) == IF j <= Len(n.digits) THEN n.digits[j] ELSE 15
    IN  Fields([j \in 1..(2 * ((Len(n.digits) + 1) \div 2)) |->
                   digit(IF j % 2 = 1 THEN j + 1 ELSE j - 1)], 4)

\* The digits of one octet: the second one may be missing.
OctetDigits(src, rp) ==
    LET d2 == readField(src, rp, 4)
        d1 == readField(src, rp + 4, 4)
    IN  IF d2 = 15 THEN <<d1>> ELSE <<d1, d2>>

L3BCDDigits_parse(src, rp, octets, international) ==
    LET digits[k \in 0..octets] ==
            IF k = 0 THEN <<>> ELSE digits[k - 1] \o OctetDigits(src, rp + 8 * (k - 1))
    IN  [plus |-> international, digits |-> digits[octets]]

TLAddress_length(n) == 2 + L3BCDDigits_lengthV(n)

TLAddress_write(n) ==
    writeField(L3BCDDigits_size(n), 8) \o writeField(1, 1)
    \o writeField(TypeOfNumber(n), 3) \o writeField(E164Plan, 4) \o L3BCDDigits_write(n)

TLAddress_parse(src, rp) ==
    LET count == readField(src, rp, 8)
        octets == (count \div 2) + (count % 2)
        number == L3BCDDigits_parse(src, rp + 16, octets,
                                    readField(src, rp + 9, 3) = International)
    IN  [ok |-> readField(src, rp + 8, 1) = 1 /\ L3BCDDigits_size(number) <= maxDigits,
         number |-> number, rp |-> rp + 16 + 8 * octets]

\* RPAddress is an L3CalledPartyBCDNumber: type and plan, then the digits.
RPAddress_lengthV(n) == IF L3BCDDigits_lengthV(n) = 0 THEN 0 ELSE 1 + L3BCDDigits_lengthV(n)

RPAddress_writeV(n) ==
    writeField(1, 1) \o writeField(TypeOfNumber(n), 3) \o writeField(E164Plan, 4)
    \o L3BCDDigits_write(n)

NoNumber == [plus |-> FALSE, digits |-> <<>>]

\* L3ProtocolElement::writeLV, for an address.
RPAddress_writeLV(n) ==
    writeField(RPAddress_lengthV(n), 8)
    \o (IF RPAddress_lengthV(n) = 0 THEN <<>> ELSE RPAddress_writeV(n))

\* L3ProtocolElement::parseLV, for an address: one of length 0 is left alone.
RPAddress_parseLV(src, rp) ==
    LET length == readField(src, rp, 8)
    IN  IF length = 0 THEN [ok |-> TRUE, number |-> NoNumber, rp |-> rp + 8]
        ELSE LET number == L3BCDDigits_parse(src, rp + 16, length - 1,
                               readField(src, rp + 9, 3) = International)
             IN  [ok |-> readField(src, rp + 8, 1) = 1
                           /\ L3BCDDigits_size(number) <= maxDigits,
                  number |-> number, rp |-> rp + 8 + 8 * length]

-----------------------------------------------------------------------------
(* User data: coding scheme, header indicator, length and packed bits.     *)

SevenBit == {0, 244, 245, 246, 247}

\* The characters, seven bits each with the lowest one first, and filler bits.
SevenBits(text, n) ==
    [p \in 1..n |-> IF p > 7 * Len(text) THEN 0
                    ELSE Bit(encodeGSMChar(text[((p - 1) \div 7) + 1]), (p - 1) % 7)]

\* Mutant of TLUserData_encode7bit: no filler bits.
EncodeUnpadded(text) ==
    [dcs |-> 0, udhi |-> FALSE, length |-> Len(text), raw |-> SevenBits(text, 7 * Len(text))]

TLUserData_encode7bit(text) ==
    LET bytes == (Len(text) * 7 + 7) \div 8
    IN  [dcs |-> 0, udhi |-> FALSE, length |-> Len(text), raw |-> SevenBits(text, 8 * bytes)]

\* Mutant of UdhSeptets: the octet that holds the header's length is forgotten.
UdhWithoutLength(ud) == (readFieldReversed(ud.raw, 0, 8) * 8 + 6) \div 7

\* The header, its length octet and its fill bits, in septets.
UdhSeptets(ud) == (readFieldReversed(ud.raw, 0, 8) * 8 + 8 + 6) \div 7

\* The text, or None where decode() throws SMSReadError.
TLUserData_decode(ud) ==
    IF ud.dcs \notin SevenBit \/ ud.length * 7 > Len(ud.raw) THEN None
    ELSE LET skip == IF ud.udhi THEN UdhSeptets(ud) ELSE 0
         IN  [i \in 1..(ud.length - skip) |->
                decodeGSMChar(readFieldReversed(ud.raw, 7 * (skip + i - 1), 7))]

TLUserData_length(ud) == 1 + (Len(ud.raw) + 7) \div 8

\* Mutant of TLUserData_write: the bits stay in the order of the septets.
WriteUnreversed(ud) == writeField(ud.length, 8) \o ud.raw

TLUserData_write(ud) == writeField(ud.length, 8) \o LSB8MSB(ud.raw)

TLUserData_parse(src, rp, dcs, udhi) ==
    [dcs |-> dcs, udhi |-> udhi, length |-> readField(src, rp, 8),
     raw |-> LSB8MSB(SubSeq(src, rp + 9, Len(src)))]

-----------------------------------------------------------------------------
(* Times.                                                                  *)

BCD(v) == writeField(v % 10, 4) \o writeField(v \div 10, 4)

\* zone / (15*60) of the C++ code rounds towards zero.
Quarters(offset) == IF offset < 0 THEN -((-offset) \div 900) ELSE offset \div 900

L3TimeZoneAndTime_writeV(t) ==
    LET zone == Quarters(t.gmtoff)
        size == IF zone < 0 THEN -zone ELSE zone
    IN  BCD(t.year % 100) \o BCD(t.month) \o BCD(t.day)
        \o BCD(t.hour) \o BCD(t.min) \o BCD(t.sec)
        \o writeField(size % 10, 4) \o writeField(IF zone < 0 THEN 1 ELSE 0, 1)
        \o writeField(size \div 10, 3)

\* L3TimeZoneAndTime::parseV reads twelve digits, and 4 + 1 + 4 bits of zone.
L3TimeZoneAndTime_parseV(rp) == rp + 12 * 4 + 4 + 1 + 4

\* Mutant of TLValidityPeriod_parse: formats 1 and 2 as in length().
PeriodAsInLength(vpf, rp) ==
    CASE vpf = 0 -> rp
      [] vpf = 1 -> rp + 8
      [] vpf = 2 -> rp + 7
      [] vpf = 3 -> L3TimeZoneAndTime_parseV(rp)

\* Where parsing goes on; the period itself is never used.  The enhanced format
\* has seven octets, of which seven bits are skipped.
TLValidityPeriod_parse(vpf, rp) ==
    CASE vpf = 0 -> rp
      [] vpf = 1 -> rp + 7
      [] vpf = 2 -> rp + 8
      [] vpf = 3 -> L3TimeZoneAndTime_parseV(rp)

-----------------------------------------------------------------------------
(* Messages of the transfer layer and of the relay layer.                  *)

TLSubmit_parse(src) ==
    LET da == TLAddress_parse(src, 16)
        dcs == readField(src, da.rp + 8, 8)
        rp == TLValidityPeriod_parse(readField(src, 3, 2), da.rp + 16)
    IN  IF ~da.ok THEN None
        ELSE [to |-> da.number, pi |-> readField(src, da.rp, 8),
              ud |-> TLUserData_parse(src, rp, dcs, src[2] = 1)]

SUBMIT == 1
\* parseTPDU: only an SMS-SUBMIT is understood.
parseTPDU(src) == IF readField(src, 6, 2) = SUBMIT THEN TLSubmit_parse(src) ELSE None

TLDeliver_length(d) ==
    1 + TLAddress_length(d.from) + 1 + 1 + 7 + TLUserData_length(d.ud)

\* The first octet: reply path, header indicator, status report, two unused
\* bits, "no more messages", message type DELIVER.
TLDeliver_write(d) ==
    <<0, IF d.ud.udhi THEN 1 ELSE 0, 0, 0, 0, 1, 0, 0>>
    \o TLAddress_write(d.from) \o writeField(d.pid, 8) \o writeField(d.ud.dcs, 8)
    \o L3TimeZoneAndTime_writeV(d.time) \o TLUserData_write(d.ud)

\* A reference octet is written by every RP message.
RPData_write(d) ==
    LET tpdu == TLDeliver_write(d)
    IN  writeField(0, 5) \o writeField(1, 3) \o writeField(d.reference, 8)
        \o RPAddress_writeLV(d.smsc) \o RPAddress_writeLV(NoNumber)
        \o writeField((Len(tpdu) + 7) \div 8, 8) \o tpdu

RPData_bitsNeeded(d) ==
    8 * (2 + (1 + RPAddress_lengthV(d.smsc)) + 1 + (1 + TLDeliver_length(d)))

\* The addresses and the bits of the TPDU, unless one of them does not parse.
RPData_parse(src) ==
    LET orig == RPAddress_parseLV(src, 16)
        dest == RPAddress_parseLV(src, orig.rp)
        length == readField(src, dest.rp, 8)
    IN  IF ~orig.ok \/ ~dest.ok \/ dest.rp + 8 + 8 * length > Len(src)
        THEN [ok |-> FALSE]
        ELSE [ok |-> TRUE, originator |-> orig.number, destination |-> dest.number,
              tpdu |-> SubSeq(src, dest.rp + 9, dest.rp + 8 + 8 * length)]

\* The read errors are caught, and there is no RP-DATA: ok is FALSE.
decodeRPData(src) == RPData_parse(src)

-----------------------------------------------------------------------------
(* The handset, from the standard.  A submitted message is the number      *)
(* dialled, the format of its validity period, a TP-PID, a coding scheme,  *)
(* the length of a user-data header (0: none) and a text.                  *)

Sms == [to : ToNumbers, vpf : PeriodFormats, pi : ProtocolIds, dcs : Schemes,
        header : HeaderOctets, text : Texts]

Ceil(n, d) == (n + d - 1) \div d
HeaderOctet(h, k) == IF k = 0 THEN h ELSE 160 + k
HeaderSeptets(h) == IF h = 0 THEN 0 ELSE Ceil(8 * (h + 1), 7)
InHeader(h, p) == h > 0 /\ p < 8 * (h + 1)

\* Bit p of packed septets, numbered from the lowest bit of the first octet.
SeptetBit(s, p) ==
    LET q == p - 7 * HeaderSeptets(s.header)
    IN  IF InHeader(s.header, p) THEN Bit(HeaderOctet(s.header, p \div 8), p % 8)
        ELSE IF q < 0 \/ q >= 7 * Len(s.text) THEN 0
        ELSE Bit(encodeGSMChar(s.text[(q \div 7) + 1]), q % 7)

\* Bit p where a character is an octet.
OctetBit(s, p) ==
    LET k == (p \div 8) - (IF s.header = 0 THEN 0 ELSE s.header + 1)
    IN  IF InHeader(s.header, p) THEN Bit(HeaderOctet(s.header, p \div 8), p % 8)
        ELSE Bit(s.text[k + 1], p % 8)

Septets(s) == s.dcs \in SevenBit
DataLength(s) ==
    Len(s.text) + (IF Septets(s) THEN HeaderSeptets(s.header)
                   ELSE IF s.header = 0 THEN 0 ELSE s.header + 1)
DataOctets(s) == IF Septets(s) THEN Ceil(7 * DataLength(s), 8) ELSE DataLength(s)

\* TP-UD on the wire: octets with the highest bit first.
HandsetData(s) ==
    [i \in 1..(8 * DataOctets(s)) |->
        LET p == (8 * ((i - 1) \div 8) + 7) - ((i - 1) % 8)
        IN  IF Septets(s) THEN SeptetBit(s, p) ELSE OctetBit(s, p)]

\* TP-VP: absent, enhanced (7 octets), relative (1) or absolute (7).
HandsetPeriod(vpf) ==
    Fields([i \in 1..(CASE vpf = 0 -> 0 [] vpf = 1 -> 7 [] vpf = 2 -> 1 [] vpf = 3 -> 7)
              |-> 17 * i], 8)

\* Two digits to an octet, the first in the lower half; 15 fills the last.
HandsetDigits(n) ==
    Fields([k \in 1..Ceil(Len(n.digits), 2) |->
               n.digits[2 * k - 1]
               + 16 * (IF 2 * k > Len(n.digits) THEN 15 ELSE n.digits[2 * k])], 8)
HandsetType(n) == writeField(IF n.plus THEN 145 ELSE 161, 8)

\* An address counts its digits.
HandsetTpdu(s) ==
    <<0, IF s.header = 0 THEN 0 ELSE 1, 0>> \o writeField(s.vpf, 2) \o <<0, 0, 1>>
    \o writeField(5, 8)
    \o writeField(Len(s.to.digits), 8) \o HandsetType(s.to) \o HandsetDigits(s.to)
    \o writeField(s.pi, 8) \o writeField(s.dcs, 8) \o HandsetPeriod(s.vpf)
    \o writeField(DataLength(s), 8) \o HandsetData(s)

\* RP-DATA from the handset: no originator, the service centre as destination.
HandsetRpdu(s, smsc) ==
    LET tpdu == HandsetTpdu(s)
    IN  writeField(0, 8) \o writeField(9, 8) \o writeField(0, 8)
        \o writeField(1 + Ceil(Len(smsc.digits), 2), 8) \o HandsetType(smsc)
        \o HandsetDigits(smsc) \o writeField(Len(tpdu) \div 8, 8) \o tpdu

Octet(f, k) == readField(f, 8 * (k - 1), 8)
\* Semi-octet i of the number whose digits begin at octet k.
SemiOctet(f, k, i) ==
    LET o == Octet(f, k + (i - 1) \div 2) IN IF i % 2 = 1 THEN o % 16 ELSE o \div 16
Swapped(f, k) == 10 * SemiOctet(f, k, 1) + SemiOctet(f, k, 2)

\* What the handset makes of an RP-DATA with an SMS-DELIVER.
HandsetRead(f) ==
    LET smsc == Octet(f, 3)
        b == smsc + 6
        n == Octet(f, b + 1)
        a == b + 3 + Ceil(n, 2)
        udl == Octet(f, a + 9)
        zone == 10 * (Octet(f, a + 8) % 8) + Octet(f, a + 8) \div 16
    IN  [rpType |-> Octet(f, 1), tpdu |-> Octet(f, b - 1),
         first |-> Octet(f, b),
         from |-> [plus |-> (Octet(f, b + 2) \div 16) % 8 = International,
                   digits |-> [i \in 1..n |-> SemiOctet(f, b + 3, i)]],
         pid |-> Octet(f, a), dcs |-> Octet(f, a + 1),
         time |-> [i \in 1..6 |-> Swapped(f, a + 1 + i)],
         zone |-> IF (Octet(f, a + 8) \div 8) % 2 = 1 THEN -zone ELSE zone,
         length |-> udl, data |-> SubSeq(f, 8 * (a + 9) + 1, Len(f))]

\* The text that the handset shows, where there is no user-data header.
HandsetText(r) ==
    [i \in 1..r.length |->
        gGSMAlphabet[1 + Value([j \in 1..7 |->
            LET p == 7 * (i - 1) + 7 - j IN r.data[(8 * (p \div 8) + 8) - (p % 8)]], 2)]]

-----------------------------------------------------------------------------
(* What smqueue does.                                                      *)

\* A handset submits what fits the 140 octets of user data.
ReceiveSubmit(s, smsc) ==
    /\ stage = "idle"
    /\ DataOctets(s) <= 140
    /\ sms' = s
    /\ rpdu' = HandsetRpdu(s, smsc)
    /\ stage' = "received"
    /\ UNCHANGED <<submit, delivered>>

ReceiveText(t) ==
    /\ stage = "idle"
    /\ sms' = [text |-> t]
    /\ stage' = "text"
    /\ UNCHANGED <<rpdu, submit, delivered>>

\* short_msg::parse(): decodeRPData() and parseTPDU().
Parse ==
    /\ stage = "received"
    /\ submit' = IF decodeRPData(rpdu).ok THEN parseTPDU(decodeRPData(rpdu).tpdu) ELSE None
    /\ stage' = "parsed"
    /\ UNCHANGED <<sms, rpdu, delivered>>

\* How many characters of C a text begins with, and a text without its first n.
Leading(s, C) == SelectInSeq(s \o <<0>>, LAMBDA c : c \notin C) - 1
Skipping(s, n) == SubSeq(s, n + 1, Len(s))

\* sscanf()'s "%d": white space, a sign and digits, and no number without a digit.
Blanks == 9..13 \cup {32}
Digits == 48..57
Signs == {43, 45}
Scanned(s) ==
    LET signed == Skipping(s, Leading(s, Blanks))
        number == Skipping(signed, IF Len(signed) > 0 /\ signed[1] \in Signs THEN 1 ELSE 0)
        n == Leading(number, Digits)
        value == Value([i \in 1..n |-> number[i] - 48], 10)
    IN  [some |-> n > 0, value |-> IF n > 0 /\ signed[1] = 45 THEN -value ELSE value]

\* "#!TLPID" and a number in front of the text: the TP-PID is the 8 bits of it
\* that are written.
EasterEgg == <<35, 33, 84, 76, 80, 73, 68>>
TLPID(body, pi) ==
    LET number == Scanned(Skipping(body, Len(EasterEgg)))
    IN  IF IsPrefix(EasterEgg, body) /\ number.some THEN number.value % 256
        ELSE IF pi = 64 THEN 64 ELSE 0

\* create_sms_delivery() and pack_tpdu(): the sender's number, the current
\* local time, and TP-PID 0x40 if the SUBMIT had it.
create_sms_delivery(body, ud, pi, from, smsc, time) ==
    /\ delivered' = [reference |-> 77, from |-> from, smsc |-> smsc, time |-> time,
                     pid |-> TLPID(body, pi), ud |-> ud]
    /\ rpdu' = RPData_write(delivered')
    /\ stage' = "packed"
    /\ UNCHANGED <<sms, submit>>

\* The text, or an empty one where the user data cannot be decoded.
get_text == IF TLUserData_decode(submit.ud) = None THEN <<>> ELSE TLUserData_decode(submit.ud)

recode_tpdu(from, smsc, time) ==
    /\ stage = "parsed" /\ submit # None
    /\ create_sms_delivery(get_text, submit.ud, submit.pi, from, smsc, time)

pack_text_to_tpdu(from, smsc, time) ==
    /\ stage = "text"
    /\ create_sms_delivery(sms.text, TLUserData_encode7bit(sms.text), 0, from, smsc, time)

\* The message has gone; the next one comes.
Sent ==
    /\ stage = "packed"
    /\ sms' = None /\ rpdu' = <<>> /\ submit' = None /\ delivered' = None
    /\ stage' = "idle"

Init ==
    /\ sms = None
    /\ rpdu = <<>>
    /\ submit = None
    /\ delivered = None
    /\ stage = "idle"

Next ==
    \/ \E s \in Sms, smsc \in Smscs : ReceiveSubmit(s, smsc)
    \/ \E t \in Texts : ReceiveText(t)
    \/ Parse
    \/ \E from \in FromNumbers, smsc \in Smscs, time \in Times :
         recode_tpdu(from, smsc, time) \/ pack_text_to_tpdu(from, smsc, time)
    \/ Sent

Spec == Init /\ [][Next]_vars

-----------------------------------------------------------------------------
(* Properties.                                                             *)

\* Every variable has its type: frames are whole octets.
TypeOK ==
    /\ rpdu \in Seq({0, 1}) /\ Len(rpdu) % 8 = 0
    /\ stage \in {"idle", "received", "text", "parsed", "packed"}
    /\ submit # None => stage \in {"parsed", "packed"}
    /\ delivered # None <=> stage = "packed"

\* "This parses an incoming SMS message from the MS": the number dialled, the
\* TP-PID and the text that smqueue reads are those the handset sent, whatever
\* the validity period, the header and the packing in front of them.
SubmitUnderstood ==
    stage = "parsed" =>
        /\ submit # None
        /\ submit.to = sms.to /\ submit.pi = sms.pi
        /\ TLUserData_decode(submit.ud) = IF Septets(sms) THEN sms.text ELSE None

\* The handset that gets the SMS-DELIVER reads the sender's number, the time and
\* the user data: bit for bit that of the SUBMIT, header included, or the text
\* of the text/plain message.
DeliverUnderstood ==
    stage = "packed" =>
        LET r == HandsetRead(rpdu)
            t == delivered.time
        IN  /\ r.rpType = 1 /\ r.first = (IF delivered.ud.udhi THEN 68 ELSE 4)
            /\ r.from = delivered.from
            /\ r.pid = delivered.pid % 256
            /\ r.time = <<t.year % 100, t.month, t.day, t.hour, t.min, t.sec>>
            /\ 900 * r.zone = t.gmtoff
            /\ IF submit = None THEN r.dcs = 0 /\ HandsetText(r) = sms.text
               ELSE /\ r.dcs = sms.dcs /\ delivered.ud.udhi = (sms.header > 0)
                    /\ r.length = DataLength(sms) /\ r.data = HandsetData(sms)

\* write() resizes the frame to bitsNeeded() and then fills it: what is written
\* is exactly what the length() functions of the elements add up to, and the
\* lengths inside fit.
FrameFilled ==
    stage = "packed" =>
        /\ Len(rpdu) = RPData_bitsNeeded(delivered)
        /\ RPData_parse(rpdu) = [ok |-> TRUE, originator |-> delivered.smsc,
                                 destination |-> NoNumber,
                                 tpdu |-> TLDeliver_write(delivered)]
=============================================================================
