------------------------- MODULE SmqRegister_proofs -------------------------
(***************************************************************************)
(* Proofs about SmqRegister, for every set of handsets and of texts, every *)
(* bound and every setting of the number of digits.                        *)
(***************************************************************************)
EXTENDS SmqRegister, SmqLists, FiniteSetTheorems

-----------------------------------------------------------------------------
(* The text of the SMS.                                                    *)

Scans == [phonenum : Seq(STRING), seendig : Nat, seenplus : BOOLEAN, exclaim : Nat,
          badnum : BOOLEAN]

\* One character of the text leaves a scan.
LEMMA ScanType ==
    ASSUME NEW a \in Scans, NEW c \in STRING
    PROVE  Scan(a, c) \in Scans
<1> DEFINE Set(v, w, x, y, z) ==
             [phonenum |-> v, seendig |-> w, seenplus |-> x, exclaim |-> y, badnum |-> z]
<1>1. /\ a = Set(a.phonenum, a.seendig, a.seenplus, a.exclaim, a.badnum)
      /\ a.phonenum \in Seq(STRING) /\ a.seendig \in Nat /\ a.exclaim \in Nat
      /\ a.seenplus \in BOOLEAN /\ a.badnum \in BOOLEAN
    BY DEF Scans
<1>2. Append(a.phonenum, c) \in Seq(STRING) /\ a.seendig + 1 \in Nat /\ a.exclaim + 1 \in Nat
    BY <1>1
<1>3. [a EXCEPT !.badnum = TRUE] \in Scans
    <2>1. ASSUME NEW v \in BOOLEAN PROVE [a EXCEPT !.badnum = v] \in Scans
        BY <1>1 DEF Scans
    <2>2. QED
        BY <2>1, Zenon
<1>4. [a EXCEPT !.exclaim = @ + 1] \in Scans
    BY <1>1, <1>2 DEF Scans
<1>5. [a EXCEPT !.phonenum = Append(@, c), !.seendig = @ + 1] \in Scans
    BY <1>1, <1>2 DEF Scans
<1>6. [a EXCEPT !.phonenum = Append(@, c), !.seenplus = TRUE] \in Scans
    BY <1>1, <1>2 DEF Scans
<1>7. QED
    BY <1>1, <1>3, <1>4, <1>5, <1>6 DEF Scan

\* What "Simple parse" has after each character.
ScansOf(text, f) ==
    /\ f \in [0..Len(text) -> Scans]
    /\ f[0] = Nothing
    /\ \A n \in 1..Len(text) : f[n] = Scan(f[n - 1], text[n])
    /\ Parsed(text) = f[Len(text)]

\* The loop over the text has its partial results.
LEMMA ParsedScans ==
    ASSUME NEW text \in Seq(STRING)
    PROVE  \E f : ScansOf(text, f)
<1> DEFINE N == Len(text)
           step == [p \in (1..N) \X Scans |-> Scan(p[2], text[p[1]])]
           Loop(f) == f = [n \in 0..N |-> IF n = 0 THEN Nothing ELSE Scan(f[n - 1], text[n])]
           f == CHOOSE f : Loop(f)
<1>1. N \in Nat
    OBVIOUS
<1>2. N \in Nat /\ \A n \in 1..N : text[n] \in STRING
    OBVIOUS
<1>3. step \in [(1..N) \X Scans -> Scans]
    BY <1>2, ScanType
<1>4. Nothing \in Scans
    BY DEF Nothing, Scans
<1>5. \A n \in 1..N, a \in Scans : step[<<n, a>>] = Scan(a, text[n])
    OBVIOUS
<1>6. Parsed(text) = f[N]
    BY DEF Parsed
<1> HIDE DEF step, N
<1>7. PICK g : LoopValues(g, N, Scans, Nothing, step)
    BY <1>1, <1>3, <1>4, LoopExists, Zenon
<1>8. /\ g \in [0..N -> Scans] /\ g[0] = Nothing
      /\ \A n \in 1..N : g[n] = Scan(g[n - 1], text[n])
    BY <1>2, <1>5, <1>7 DEF LoopValues
<1>9. Loop(g)
    BY <1>2, <1>8
<1>10. Loop(f)
    BY <1>9, Zenon
<1> HIDE DEF f
<1>11. f[0] = Nothing /\ \A n \in 1..N : f[n] = Scan(f[n - 1], text[n])
    BY <1>2, <1>10
<1> DEFINE P == {n \in 0..N : f[n] \in Scans}
<1>12. 0 \in P
    BY <1>2, <1>4, <1>11
<1>13. ASSUME NEW n \in 1..N, n - 1 \in P PROVE n \in P
    <2>1. f[n - 1] \in Scans /\ text[n] \in STRING
        BY <1>2, <1>13
    <2>2. f[n] \in Scans
        BY <1>11, <2>1, ScanType
    <2>3. QED
        BY <1>2, <2>2
<1> HIDE DEF P
<1>14. 0..N \subseteq P
    BY <1>2, <1>12, <1>13, LoopInduction
<1>15. f \in [0..N -> Scans]
    BY <1>10, <1>14 DEF P
<1>16. QED
    BY <1>6, <1>11, <1>15 DEF ScansOf, N

\* One character further there is one place more, or none.
LEMMA CountStep ==
    ASSUME NEW text \in Seq(STRING), NEW chars, NEW n \in 1..Len(text)
    PROVE  /\ CountTo(text, chars, n - 1) \in Nat
           /\ CountTo(text, chars, n) =
                CountTo(text, chars, n - 1) + (IF text[n] \in chars THEN 1 ELSE 0)
<1> DEFINE A == Places(text, chars, n - 1)
           B == Places(text, chars, n)
<1>1. IsFiniteSet(A) /\ Cardinality(A) \in Nat
    <2>1. IsFiniteSet(1..(n - 1))
        BY FS_Interval
    <2>2. A \subseteq 1..(n - 1)
        BY DEF Places
    <2>3. QED
        BY <2>1, <2>2, FS_Subset, FS_CardinalityType
<1>2. CASE text[n] \in chars
    <2>1. B = A \cup {n} /\ n \notin A
        BY <1>2 DEF Places
    <2>2. Cardinality(B) = Cardinality(A) + 1
        BY <1>1, <2>1, FS_AddElement
    <2>3. QED
        BY <1>1, <1>2, <2>2 DEF CountTo
<1>3. CASE text[n] \notin chars
    <2>1. B = A
        BY <1>3 DEF Places
    <2>2. QED
        BY <1>1, <1>3, <2>1 DEF CountTo
<1>4. QED
    BY <1>2, <1>3

\* Nothing is counted in no characters.
LEMMA CountNothing ==
    ASSUME NEW text, NEW chars
    PROVE  CountTo(text, chars, 0) = 0
<1>1. Places(text, chars, 0) = {}
    BY DEF Places
<1>2. QED
    BY <1>1, FS_EmptySet DEF CountTo

\* Counting further never counts less.
LEMMA CountGrows ==
    ASSUME NEW text \in Seq(STRING), NEW chars, NEW n \in 0..Len(text), NEW i \in 1..n
    PROVE  /\ CountTo(text, chars, i) \in Nat /\ CountTo(text, chars, n) \in Nat
           /\ CountTo(text, chars, i) <= CountTo(text, chars, n)
           /\ text[i] \in chars => CountTo(text, chars, i) >= 1
<1> DEFINE A == Places(text, chars, i)
           B == Places(text, chars, n)
<1>1. A \subseteq B /\ B \subseteq 1..n
    BY DEF Places
<1>2. IsFiniteSet(B)
    <2>1. Len(text) \in Nat /\ 1 \in Int /\ n \in Int
        OBVIOUS
    <2>2. IsFiniteSet(1..n)
        BY <2>1, FS_Interval, Zenon
    <2>3. QED
        BY <1>1, <2>2, FS_Subset, Zenon
<1>3. IsFiniteSet(A) /\ Cardinality(A) <= Cardinality(B)
    BY <1>1, <1>2, FS_Subset
<1>4. Cardinality(A) \in Nat /\ Cardinality(B) \in Nat
    BY <1>2, <1>3, FS_CardinalityType
<1>5. ASSUME text[i] \in chars PROVE Cardinality(A) >= 1
    <2>1. i \in A
        BY <1>5 DEF Places
    <2>2. Cardinality(A) # 0
        BY <1>3, <2>1, FS_EmptySet
    <2>3. QED
        BY <1>4, <2>2
<1>6. QED
    BY <1>3, <1>4, <1>5 DEF CountTo

\* What a scan of the first n characters that found none bad has kept.
ScannedOK(text, a, n) ==
    LET kept == Digits \cup {"+"}
    IN  /\ a.seendig = CountTo(text, Digits, n)
        /\ a.exclaim = CountTo(text, {"!"}, n)
        /\ Len(a.phonenum) = CountTo(text, kept, n)
        /\ \A i \in Places(text, kept, n) : a.phonenum[CountTo(text, kept, i)] = text[i]
        /\ ~a.seenplus => Len(a.phonenum) = a.seendig
        /\ WellFormed(a.phonenum)

\* A character that is kept is the last of the number.
LEMMA KeptStep ==
    ASSUME NEW text \in Seq(STRING), NEW n \in 1..Len(text), NEW a \in Scans,
           NEW number, number = Append(a.phonenum, text[n]),
           ScannedOK(text, a, n - 1), text[n] \in Digits \cup {"+"},
           text[n] = "+" => Len(a.phonenum) = 0
    PROVE  LET kept == Digits \cup {"+"}
           IN  /\ Len(number) = Len(a.phonenum) + 1
               /\ Len(number) = CountTo(text, kept, n)
               /\ \A i \in Places(text, kept, n) : number[CountTo(text, kept, i)] = text[i]
               /\ WellFormed(number)
<1> DEFINE kept == Digits \cup {"+"}
<1>1. text[n] \in STRING /\ a.phonenum \in Seq(STRING) /\ Len(a.phonenum) \in Nat
    BY DEF Scans
<1>2. /\ Len(number) = Len(a.phonenum) + 1
      /\ \A i \in 1..Len(a.phonenum) : number[i] = a.phonenum[i]
      /\ number[Len(a.phonenum) + 1] = text[n]
    BY <1>1
<1>3. CountTo(text, kept, n) = Len(a.phonenum) + 1
    BY CountStep DEF ScannedOK
<1>4. ASSUME NEW i \in Places(text, kept, n) PROVE number[CountTo(text, kept, i)] = text[i]
    <2>1. CASE i = n
        BY <1>2, <1>3, <2>1
    <2>2. CASE i # n
        <3>1. i \in 1..(n - 1) /\ n - 1 \in 0..Len(text) /\ text[i] \in kept
              /\ i \in Places(text, kept, n - 1)
            BY <2>2 DEF Places
        <3> HIDE DEF kept
        <3>2. /\ CountTo(text, kept, i) \in Nat /\ CountTo(text, kept, n - 1) \in Nat
              /\ CountTo(text, kept, i) <= CountTo(text, kept, n - 1)
              /\ text[i] \in kept => CountTo(text, kept, i) >= 1
            BY <3>1, CountGrows
        <3>3. CountTo(text, kept, i) \in 1..CountTo(text, kept, n - 1)
            BY <3>1, <3>2
        <3> USE DEF kept
        <3>4. CountTo(text, kept, i) \in 1..Len(a.phonenum)
              /\ a.phonenum[CountTo(text, kept, i)] = text[i]
            BY <3>1, <3>3 DEF ScannedOK
        <3>5. QED
            BY <1>2, <3>4
    <2>3. QED
        BY <2>1, <2>2
<1>5. WellFormed(number)
    <2> SUFFICES ASSUME NEW i \in 2..Len(number) PROVE number[i] # "+"
        BY DEF WellFormed
    <2>1. CASE i \in 2..Len(a.phonenum)
        <3>1. WellFormed(a.phonenum)
            BY DEF ScannedOK
        <3>2. i \in 1..Len(a.phonenum) /\ a.phonenum[i] # "+"
            BY <1>1, <2>1, <3>1 DEF WellFormed
        <3>3. QED
            BY <1>2, <3>2
    <2>2. CASE i = Len(a.phonenum) + 1
        BY <1>1, <1>2, <2>2
    <2>3. QED
        BY <1>1, <1>2, <2>1, <2>2
<1>6. QED
    BY <1>2, <1>3, <1>4, <1>5

\* One character keeps what is collected and what is counted together.
LEMMA ScannedStep ==
    ASSUME NEW text \in Seq(STRING), NEW n \in 1..Len(text), NEW a \in Scans,
           ~a.badnum => ScannedOK(text, a, n - 1), ~Scan(a, text[n]).badnum
    PROVE  ScannedOK(text, Scan(a, text[n]), n)
<1> DEFINE kept == Digits \cup {"+"}
           c == text[n]
           b == Scan(a, c)
<1>1. ~a.badnum /\ ScannedOK(text, a, n - 1)
    BY DEF Scan
<1>2. /\ CountTo(text, Digits, n) = CountTo(text, Digits, n - 1) + (IF c \in Digits THEN 1 ELSE 0)
      /\ CountTo(text, {"!"}, n) = CountTo(text, {"!"}, n - 1) + (IF c \in {"!"} THEN 1 ELSE 0)
      /\ CountTo(text, kept, n) = CountTo(text, kept, n - 1) + (IF c \in kept THEN 1 ELSE 0)
      /\ CountTo(text, Digits, n - 1) \in Nat /\ CountTo(text, {"!"}, n - 1) \in Nat
      /\ CountTo(text, kept, n - 1) \in Nat
    BY CountStep, ZenonT(60)
<1>3. a.seendig \in Nat /\ Len(a.phonenum) \in Nat /\ a.seenplus \in BOOLEAN
    BY DEF Scans
<1>4. CASE c \in Digits
    <2>1. c # "+" /\ c # "!" /\ c \notin Blanks /\ c \in kept
        BY <1>4 DEF Digits, Blanks
    <2>2. b = [a EXCEPT !.phonenum = Append(@, c), !.seendig = @ + 1]
        BY <1>1, <1>4, <2>1 DEF Scan
    <2>3. /\ b.phonenum = Append(a.phonenum, c) /\ b.seendig = a.seendig + 1
          /\ b.exclaim = a.exclaim /\ b.seenplus = a.seenplus
        BY <2>2 DEF Scans
    <2>4. /\ Len(b.phonenum) = Len(a.phonenum) + 1
          /\ Len(b.phonenum) = CountTo(text, kept, n)
          /\ \A i \in Places(text, kept, n) : b.phonenum[CountTo(text, kept, i)] = text[i]
          /\ WellFormed(b.phonenum)
        BY <1>1, <2>1, <2>3, KeptStep
    <2> HIDE DEF b
    <2>5. /\ b.seendig = CountTo(text, Digits, n) /\ b.exclaim = CountTo(text, {"!"}, n)
          /\ ~b.seenplus => Len(b.phonenum) = b.seendig
        BY <1>1, <1>2, <1>3, <1>4, <2>1, <2>3, <2>4 DEF ScannedOK
    <2>6. QED
        BY <2>4, <2>5 DEF ScannedOK, b
<1>5. CASE c = "+"
    <2>1. c \notin Digits /\ c # "!" /\ c \notin Blanks /\ c \in kept
        BY <1>5 DEF Digits, Blanks
    <2>2. b = IF a.seendig = 0 /\ ~a.seenplus
              THEN [a EXCEPT !.phonenum = Append(@, c), !.seenplus = TRUE]
              ELSE [a EXCEPT !.badnum = TRUE]
        BY <1>1, <1>5, <2>1 DEF Scan
    <2>3. [a EXCEPT !.badnum = TRUE].badnum
        BY DEF Scans
    <2>4. a.seendig = 0 /\ ~a.seenplus /\ b = [a EXCEPT !.phonenum = Append(@, c), !.seenplus = TRUE]
        <3> HIDE DEF b
        <3>1. ~b.badnum
            BY DEF b
        <3>2. QED
            BY <2>2, <2>3, <3>1
    <2>5. /\ b.phonenum = Append(a.phonenum, c) /\ b.seendig = a.seendig
          /\ b.exclaim = a.exclaim /\ b.seenplus = TRUE
        BY <2>4 DEF Scans
    <2>6. Len(a.phonenum) = 0
        BY <1>1, <2>4 DEF ScannedOK
    <2>7. /\ Len(b.phonenum) = Len(a.phonenum) + 1
          /\ Len(b.phonenum) = CountTo(text, kept, n)
          /\ \A i \in Places(text, kept, n) : b.phonenum[CountTo(text, kept, i)] = text[i]
          /\ WellFormed(b.phonenum)
        BY <1>1, <2>1, <2>5, <2>6, KeptStep
    <2> HIDE DEF b
    <2>8. /\ b.seendig = CountTo(text, Digits, n) /\ b.exclaim = CountTo(text, {"!"}, n)
          /\ ~b.seenplus => Len(b.phonenum) = b.seendig
        BY <1>1, <1>2, <1>3, <2>1, <2>4, <2>5, <2>7, <2>6 DEF ScannedOK
    <2>9. QED
        BY <2>7, <2>8 DEF ScannedOK, b
<1>6. CASE c \notin kept
    <2>1. "!" \notin Blanks /\ [a EXCEPT !.badnum = TRUE].badnum
        BY DEF Blanks, Scans
    <2>2. b = CASE c = "!" -> [a EXCEPT !.exclaim = @ + 1]
                [] c \in Blanks -> a
                [] OTHER -> [a EXCEPT !.badnum = TRUE]
        BY <1>1, <1>6, <2>1 DEF Scan
    <2>3. \/ c = "!" /\ b = [a EXCEPT !.exclaim = @ + 1]
          \/ c # "!" /\ b = a
        <3> HIDE DEF b
        <3>1. ~b.badnum
            BY DEF b
        <3>2. QED
            BY <2>1, <2>2, <3>1
    <2>4. /\ b.phonenum = a.phonenum /\ b.seendig = a.seendig /\ b.seenplus = a.seenplus
          /\ b.exclaim = a.exclaim + (IF c = "!" THEN 1 ELSE 0)
        BY <2>3 DEF Scans
    <2>5. Places(text, kept, n) = Places(text, kept, n - 1)
        BY <1>6 DEF Places
    <2> HIDE DEF b
    <2>6. /\ CountTo(text, Digits, n) = CountTo(text, Digits, n - 1)
          /\ CountTo(text, kept, n) = CountTo(text, kept, n - 1)
          /\ CountTo(text, {"!"}, n) = CountTo(text, {"!"}, n - 1) + (IF c = "!" THEN 1 ELSE 0)
        BY <1>2, <1>6
    <2>7. b.seendig = CountTo(text, Digits, n) /\ b.exclaim = CountTo(text, {"!"}, n)
        BY <1>1, <2>4, <2>6 DEF ScannedOK
    <2>8. /\ Len(b.phonenum) = CountTo(text, kept, n) /\ WellFormed(b.phonenum)
           /\ \A i \in Places(text, kept, n) : b.phonenum[CountTo(text, kept, i)] = text[i]
        BY <1>1, <2>4, <2>5, <2>6 DEF ScannedOK
    <2>9. ~b.seenplus => Len(b.phonenum) = b.seendig
        BY <1>1, <2>4 DEF ScannedOK
    <2>10. ScannedOK(text, b, n)
        BY <2>7, <2>8, <2>9 DEF ScannedOK
    <2>11. QED
        BY <2>10 DEF b
<1>7. QED
    BY <1>4, <1>5, <1>6

\* "Simple parse" of a text that it accepts: the number is what is left of the
\* text, with a plus in front or nowhere, and the digits and exclamation marks
\* are counted.
LEMMA ParsedIsKept ==
    ASSUME NEW text \in Seq(STRING), ~Parsed(text).badnum
    PROVE  /\ KeptOf(Parsed(text).phonenum, text)
           /\ WellFormed(Parsed(text).phonenum)
           /\ Parsed(text).seendig = Count(text, Digits)
           /\ Parsed(text).exclaim = Count(text, {"!"})
<1>1. PICK f : ScansOf(text, f)
    BY ParsedScans
<1>2. /\ f \in [0..Len(text) -> Scans] /\ f[0] = Nothing /\ Parsed(text) = f[Len(text)]
      /\ \A n \in 1..Len(text) : f[n] = Scan(f[n - 1], text[n])
      /\ Len(text) \in Nat
    BY <1>1 DEF ScansOf
<1> DEFINE P == {n \in 0..Len(text) : ~f[n].badnum => ScannedOK(text, f[n], n)}
<1>3. 0 \in P
    <2>1. Places(text, Digits \cup {"+"}, 0) = {}
        BY DEF Places
    <2>2. Nothing.phonenum = <<>> /\ Nothing.seendig = 0 /\ Nothing.exclaim = 0 /\ ~Nothing.seenplus
          /\ Len(<<>>) = 0
        BY DEF Nothing
    <2>3. /\ CountTo(text, Digits, 0) = 0 /\ CountTo(text, {"!"}, 0) = 0
          /\ CountTo(text, Digits \cup {"+"}, 0) = 0
        BY CountNothing
    <2>4. WellFormed(<<>>)
        BY DEF WellFormed
    <2>5. ScannedOK(text, Nothing, 0)
        BY <2>1, <2>2, <2>3, <2>4 DEF ScannedOK
    <2>6. QED
        BY <1>2, <2>5
<1>4. ASSUME NEW n \in 1..Len(text), n - 1 \in P PROVE n \in P
    <2>1. f[n - 1] \in Scans /\ f[n] = Scan(f[n - 1], text[n])
          /\ (~f[n - 1].badnum => ScannedOK(text, f[n - 1], n - 1))
        BY <1>2, <1>4
    <2>2. ~f[n].badnum => ScannedOK(text, f[n], n)
        BY <2>1, ScannedStep
    <2>3. QED
        BY <2>2
<1> HIDE DEF P
<1>5. 0..Len(text) \subseteq P
    BY <1>2, <1>3, <1>4, LoopInduction
<1>6. ScannedOK(text, Parsed(text), Len(text))
    BY <1>2, <1>5 DEF P
<1>7. QED
    BY <1>6 DEF ScannedOK, KeptOf, Count

-----------------------------------------------------------------------------
(* The inductive invariant.                                                *)

\* An SMS is replied to when it is done and not before.  One that booked its
\* number is back in its initial state, or welcomes its sender, only after
\* Asterisk has learned where the handset is.
SmsOK(m, loc) ==
    /\ m.state # "DONE" => m.replies = <<>>
    /\ Len(m.replies) <= 1
    /\ m.booked /\ m.state = "INITIAL" => m.imsi \in loc
    /\ m.booked /\ "welcome" \in Range(m.replies) => m.imsi \in loc

SmsInv == sms \in Seq(Sms) /\ \A s \in DOMAIN sms : SmsOK(sms[s], located)

\* REGISTERs have different CSeqs, so that one that was accepted has told
\* Asterisk about the handset of its own SMS.
QueuedInv ==
    /\ registers \subseteq [seq : 1..MaxRegister, link : DOMAIN sms]
    /\ originated \in 0..MaxRegister
    /\ accepted \subseteq 1..originated
    /\ located \subseteq Imsis
    /\ \A r, q \in registers : r.seq = q.seq => r = q
    /\ \A r \in registers : r.seq <= originated
    /\ \A r \in registers : r.seq \in accepted => sms[r.link].imsi \in located

\* A booking that the registry does not show was made late.
RegistryInv ==
    /\ registry \subseteq Booking /\ delayed \subseteq Booking
    /\ \A b \in delayed : b.late
    /\ OneOwner

RegisterInv == SmsInv /\ QueuedInv /\ RegistryInv

-----------------------------------------------------------------------------
(* The SMS.                                                                *)

\* Replacing one SMS changes no other, and not how many there are.
LEMMA ReplaceSms ==
    ASSUME SmsInv, NEW s \in DOMAIN sms, NEW m \in Sms, sms' = [sms EXCEPT ![s] = m]
    PROVE  /\ sms' \in Seq(Sms)
           /\ DOMAIN sms' = DOMAIN sms
           /\ sms'[s] = m
           /\ \A t \in DOMAIN sms : t # s => sms'[t] = sms[t]
BY DEF SmsInv

\* One SMS that keeps its sender and is in order replaces another.
LEMMA ReplaceOK ==
    ASSUME RegisterInv, NEW s \in DOMAIN sms, NEW m \in Sms, m.imsi = sms[s].imsi,
           SmsOK(m, located), sms' = [sms EXCEPT ![s] = m], UNCHANGED located
    PROVE  SmsInv' /\ DOMAIN sms' = DOMAIN sms /\ \A t \in DOMAIN sms : sms'[t].imsi = sms[t].imsi
<1> USE DEF RegisterInv
<1>1. /\ sms' \in Seq(Sms) /\ DOMAIN sms' = DOMAIN sms
      /\ sms'[s] = m /\ \A t \in DOMAIN sms : t # s => sms'[t] = sms[t]
    BY ReplaceSms
<1>2. \A t \in DOMAIN sms : SmsOK(sms'[t], located) /\ sms'[t].imsi = sms[t].imsi
    BY <1>1 DEF SmsInv
<1>3. QED
    BY <1>1, <1>2 DEF SmsInv

\* The four ways in which the short code leaves an SMS.
LEMMA SetStateOK ==
    ASSUME RegisterInv, NEW s \in DOMAIN sms, NEW state \in States \ {"INITIAL", "DONE"},
           sms[s].state # "DONE", SetState(s, state), UNCHANGED located
    PROVE  SmsInv' /\ DOMAIN sms' = DOMAIN sms /\ \A t \in DOMAIN sms : sms'[t].imsi = sms[t].imsi
<1> DEFINE m == [sms[s] EXCEPT !.state = state]
<1>1. sms[s] \in Sms /\ SmsOK(sms[s], located)
    BY DEF RegisterInv, SmsInv
<1>2. m \in Sms /\ m.imsi = sms[s].imsi
    BY <1>1 DEF Sms
<1>3. SmsOK(m, located)
    BY <1>1 DEF SmsOK, Sms
<1>4. sms' = [sms EXCEPT ![s] = m]
    BY DEF SetState
<1> HIDE DEF m
<1>5. QED
    BY <1>2, <1>3, <1>4, ReplaceOK

\* An SMS whose handset is located may run again.
LEMMA RerunOK ==
    ASSUME RegisterInv, NEW s \in DOMAIN sms, sms[s].imsi \in located,
           sms[s].state # "DONE", SetState(s, "INITIAL"), UNCHANGED located
    PROVE  SmsInv' /\ DOMAIN sms' = DOMAIN sms /\ \A t \in DOMAIN sms : sms'[t].imsi = sms[t].imsi
<1> DEFINE m == [sms[s] EXCEPT !.state = "INITIAL"]
<1>1. sms[s] \in Sms /\ SmsOK(sms[s], located)
    BY DEF RegisterInv, SmsInv
<1>2. m \in Sms /\ m.imsi = sms[s].imsi
    BY <1>1 DEF Sms, States
<1>3. SmsOK(m, located)
    BY <1>1 DEF SmsOK, Sms
<1>4. sms' = [sms EXCEPT ![s] = m]
    BY DEF SetState
<1> HIDE DEF m
<1>5. QED
    BY <1>2, <1>3, <1>4, ReplaceOK

\* An SMS that runs gets its first reply.
LEMMA ReplyOK ==
    ASSUME RegisterInv, NEW s \in DOMAIN sms, sms[s].state = "INITIAL",
           NEW answer \in Answers, Reply(s, answer)
    PROVE  SmsInv' /\ DOMAIN sms' = DOMAIN sms /\ \A t \in DOMAIN sms : sms'[t].imsi = sms[t].imsi
<1> DEFINE m == [sms[s] EXCEPT !.state = "DONE", !.replies = Append(@, answer)]
<1>1. sms[s] \in Sms /\ SmsOK(sms[s], located)
    BY DEF RegisterInv, SmsInv
<1>2. UNCHANGED located
    BY DEF Reply, asterisk
<1>3. CASE SetState(s, "FAILED")
    BY <1>2, <1>3, SetStateOK DEF States
<1>4. CASE sms' = [sms EXCEPT ![s].state = "DONE", ![s].replies = Append(@, answer)]
    <2>1. sms[s].replies = <<>>
        BY <1>1 DEF SmsOK
    <2>2. Append(sms[s].replies, answer) = <<answer>> /\ <<answer>> \in Seq(Answers)
        BY <2>1
    <2>3. m \in Sms /\ m.imsi = sms[s].imsi /\ m.booked = sms[s].booked
          /\ m.state = "DONE" /\ m.replies = <<answer>>
        BY <1>1, <2>2 DEF Sms, States
    <2>4. sms' = [sms EXCEPT ![s] = m]
        BY <1>4
    <2> HIDE DEF m
    <2>5. SmsOK(m, located)
        BY <1>1, <2>3 DEF SmsOK
    <2>6. QED
        BY <1>2, <2>3, <2>4, <2>5, ReplaceOK
<1>5. QED
    BY <1>3, <1>4 DEF Reply

\* An SMS that has booked waits for its REGISTER.
LEMMA BookedOK ==
    ASSUME RegisterInv, NEW s \in DOMAIN sms, NEW state \in States \ {"INITIAL"},
           sms[s].state # "DONE", UNCHANGED located,
           sms' = [sms EXCEPT ![s].state = state, ![s].booked = TRUE]
    PROVE  SmsInv' /\ DOMAIN sms' = DOMAIN sms /\ \A t \in DOMAIN sms : sms'[t].imsi = sms[t].imsi
<1> DEFINE m == [sms[s] EXCEPT !.state = state, !.booked = TRUE]
<1>1. sms[s] \in Sms /\ SmsOK(sms[s], located)
    BY DEF RegisterInv, SmsInv
<1>2. m \in Sms /\ m.imsi = sms[s].imsi /\ m.replies = sms[s].replies
      /\ m.state = state /\ m.booked = TRUE
    BY <1>1 DEF Sms
<1>3. sms' = [sms EXCEPT ![s] = m]
    OBVIOUS
<1> HIDE DEF m
<1>4. sms[s].replies = <<>>
    BY <1>1 DEF SmsOK
<1>5. "welcome" \notin Range(<<>>)
    BY DEF Range
<1>6. SmsOK(m, located)
    BY <1>2, <1>4, <1>5 DEF SmsOK
<1>7. QED
    BY <1>2, <1>3, <1>6, ReplaceOK

\* Receive: a new SMS has not booked anything and has no reply.
LEMMA ReceiveOK ==
    ASSUME RegisterInv, NEW imsi \in Imsis, NEW text \in Texts, Receive(imsi, text)
    PROVE  /\ SmsInv'
           /\ DOMAIN sms \subseteq DOMAIN sms'
           /\ \A t \in DOMAIN sms : sms'[t].imsi = sms[t].imsi
<1> DEFINE m == NewSms(imsi, text)
<1>1. m \in Sms /\ SmsOK(m, located)
    <2>1. "welcome" \notin Range(<<>>) /\ Len(<<>>) = 0 /\ <<>> \in Seq(Answers)
        BY DEF Range
    <2>2. QED
        BY <2>1 DEF NewSms, Sms, States, SmsOK
<1>2. sms' = Append(sms, m) /\ UNCHANGED located /\ sms \in Seq(Sms)
    BY DEF Receive, asterisk, RegisterInv, SmsInv
<1> HIDE DEF m
<1>3. /\ sms' \in Seq(Sms) /\ DOMAIN sms = 1..Len(sms) /\ DOMAIN sms' = 1..(Len(sms) + 1)
      /\ Len(sms) \in Nat
      /\ \A t \in 1..Len(sms) : sms'[t] = sms[t]
      /\ sms'[Len(sms) + 1] = m
    BY <1>1, <1>2
<1>4. \A t \in DOMAIN sms' : SmsOK(sms'[t], located)
    <2> SUFFICES ASSUME NEW t \in DOMAIN sms' PROVE SmsOK(sms'[t], located)
        OBVIOUS
    <2>1. CASE t \in DOMAIN sms
        BY <2>1, <1>3 DEF RegisterInv, SmsInv
    <2>2. CASE t = Len(sms) + 1
        BY <2>2, <1>1, <1>3
    <2>3. QED
        BY <2>1, <2>2, <1>3
<1>5. QED
    BY <1>2, <1>3, <1>4 DEF SmsInv

-----------------------------------------------------------------------------
(* The REGISTERs.                                                          *)

\* No step but Accepts and register_handset can disturb QueuedInv.
LEMMA QueuedKept ==
    ASSUME QueuedInv, DOMAIN sms \subseteq DOMAIN sms',
           \A t \in DOMAIN sms : sms'[t].imsi = sms[t].imsi,
           registers' \subseteq registers, UNCHANGED <<originated, accepted, located>>
    PROVE  QueuedInv'
BY DEF QueuedInv

\* A new REGISTER has a CSeq that no other has and that was never accepted.
LEMMA HandsetRegistered ==
    ASSUME RegisterInv, NEW s \in DOMAIN sms, sms[s].state # "DONE", register_handset(s)
    PROVE  SmsInv' /\ QueuedInv'
<1> DEFINE r == [seq |-> originated + 1, link |-> s]
<1>1. UNCHANGED <<accepted, located>> /\ originated < MaxRegister /\ originated' = originated + 1
    BY DEF register_handset, asterisk
<1>2. /\ originated \in Nat /\ originated' \in 0..MaxRegister /\ accepted \subseteq 1..originated'
      /\ originated + 1 \in 1..MaxRegister
    BY <1>1, BoundAssumption DEF RegisterInv, QueuedInv
<1>3. CASE /\ registers' = registers \cup {r}
           /\ sms' = [sms EXCEPT ![s].state = "ASKED", ![s].booked = TRUE]
    <2>1. "ASKED" \in States \ {"INITIAL"}
        BY DEF States, Waiting
    <2>2. SmsInv' /\ DOMAIN sms' = DOMAIN sms /\ \A t \in DOMAIN sms : sms'[t].imsi = sms[t].imsi
        BY <1>1, <1>3, <2>1, BookedOK
    <2>3. r \in [seq : 1..MaxRegister, link : DOMAIN sms] /\ r.seq = originated + 1
        BY <1>2
    <2>4. \A q \in registers : q.seq # r.seq /\ q.seq <= originated'
        BY <1>1, <1>2, <2>3 DEF RegisterInv, QueuedInv
    <2>5. r.seq \notin accepted
        BY <1>2, <2>3 DEF RegisterInv, QueuedInv
    <2> HIDE DEF r
    <2>6. /\ registers' \subseteq [seq : 1..MaxRegister, link : DOMAIN sms']
          /\ \A p, q \in registers' : p.seq = q.seq => p = q
          /\ \A q \in registers' : q.seq <= originated'
        BY <1>1, <1>2, <1>3, <2>2, <2>3, <2>4 DEF RegisterInv, QueuedInv
    <2>7. \A q \in registers' : q.seq \in accepted' => sms'[q.link].imsi \in located'
        BY <1>1, <1>3, <2>2, <2>5 DEF RegisterInv, QueuedInv
    <2>8. QED
        BY <1>1, <1>2, <2>2, <2>6, <2>7 DEF RegisterInv, QueuedInv
<1>4. CASE /\ sms' = [sms EXCEPT ![s].state = "DONE", ![s].booked = TRUE]
           /\ UNCHANGED registers
    <2>1. "DONE" \in States \ {"INITIAL"}
        BY DEF States
    <2>2. SmsInv' /\ DOMAIN sms' = DOMAIN sms /\ \A t \in DOMAIN sms : sms'[t].imsi = sms[t].imsi
        BY <1>1, <1>4, <2>1, BookedOK
    <2>3. \A q \in registers : q.seq <= originated'
        BY <1>1, <1>2 DEF RegisterInv, QueuedInv
    <2>4. QED
        BY <1>1, <1>2, <1>4, <2>2, <2>3 DEF RegisterInv, QueuedInv
<1>5. QED
    BY <1>3, <1>4 DEF register_handset

-----------------------------------------------------------------------------
(* The registry.                                                           *)

\* A number that the registry shows as free, and a handset that it shows
\* without a number: the booking can clash only with a delayed one.
LEMMA BookingOK ==
    ASSUME RegisterInv, NEW s \in DOMAIN sms, FreeToBook(s), NEW did,
           addUser(sms[s].imsi, Asked(s), did)
    PROVE  RegistryInv'
<1> DEFINE b == [imsi |-> sms[s].imsi, number |-> Asked(s), late |-> did = "DELAYED"]
<1>1. sms[s].imsi \in Imsis /\ sms[s].text \in Texts
    <2>1. sms[s] \in Sms
        BY DEF RegisterInv, SmsInv
    <2>2. QED
        BY <2>1 DEF Sms
<1>2. Asked(s) \in {Parsed(t).phonenum : t \in Texts}
    BY <1>1 DEF Asked
<1>3. b \in Booking
    BY <1>1, <1>2 DEF Booking
<1>4. b.imsi = sms[s].imsi /\ b.number = Asked(s) /\ b.late = (did = "DELAYED")
    OBVIOUS
<1>5. \A c \in registry : c.imsi # b.imsi /\ c.number # b.number
    BY <1>4 DEF FreeToBook, Existing, getCLIDLocal, getIMSI2
<1>6. /\ registry' = IF did = "SUCCESS" THEN registry \cup {b} ELSE registry
      /\ delayed' = IF did = "DELAYED" THEN delayed \cup {b} ELSE delayed
    BY DEF addUser
<1> HIDE DEF b
<1>7. /\ registry' \subseteq Booking /\ delayed' \subseteq Booking
      /\ \A c \in delayed' : c.late
    BY <1>3, <1>4, <1>6 DEF RegisterInv, RegistryInv
<1>8. \A c \in Booked : (Clash(b, c) => c.late) /\ (Clash(c, b) => c.late)
    BY <1>5 DEF RegisterInv, RegistryInv, Booked, Clash
<1>9. ~Clash(b, b) /\ Booked' \subseteq Booked \cup {b}
    BY <1>6 DEF Clash, Booked
<1>10. OneOwner'
    <2> SUFFICES ASSUME NEW c \in Booked', NEW d \in Booked', Clash(c, d)
                 PROVE  c.late \/ d.late
        BY DEF OneOwner, Clash
    <2>1. CASE c \in Booked /\ d \in Booked
        BY <2>1 DEF RegisterInv, RegistryInv, OneOwner
    <2>2. QED
        BY <2>1, <1>8, <1>9
<1>11. QED
    BY <1>7, <1>10 DEF RegistryInv

\* A booking that shows late is a booking.
LEMMA ReloadOK ==
    ASSUME RegistryInv, RegistryReloads
    PROVE  RegistryInv'
<1>1. registry' = registry \cup delayed /\ delayed' = {}
    BY DEF RegistryReloads
<1>2. Booked' = Booked
    BY <1>1 DEF Booked
<1>3. QED
    BY <1>1, <1>2 DEF RegistryInv, OneOwner, Clash

-----------------------------------------------------------------------------
(* The steps.                                                              *)

\* The short code, run on an SMS in its initial state.
LEMMA ShortCodeStep ==
    ASSUME RegisterInv, NEW s \in DOMAIN sms,
           \/ BadNumber(s) \/ HasNumber(s) \/ NumberTaken(s)
           \/ \E did \in AddResults : Book(s, did)
    PROVE  RegisterInv'
<1>1. sms[s].state = "INITIAL"
    BY DEF BadNumber, HasNumber, NumberTaken, Book, FreeToBook, Asks, In
<1>2. ASSUME NEW answer \in Answers, Reply(s, answer) PROVE SmsInv' /\ QueuedInv'
    <2>1. SmsInv' /\ DOMAIN sms' = DOMAIN sms /\ \A t \in DOMAIN sms : sms'[t].imsi = sms[t].imsi
        BY <1>1, <1>2, ReplyOK
    <2>2. UNCHANGED <<registers, originated, accepted, located>>
        BY <1>2 DEF Reply, asterisk
    <2>3. QED
        BY <2>1, <2>2, QueuedKept DEF RegisterInv
<1>3. ASSUME UNCHANGED <<registry, delayed>> PROVE RegistryInv'
    BY <1>3 DEF RegisterInv, RegistryInv, OneOwner, Booked, Clash
<1>4. CASE BadNumber(s)
    BY <1>2, <1>3, <1>4 DEF BadNumber, Answers, RegisterInv
<1>5. CASE HasNumber(s)
    BY <1>2, <1>3, <1>5 DEF HasNumber, Answers, RegisterInv
<1>6. CASE NumberTaken(s)
    BY <1>2, <1>3, <1>6 DEF NumberTaken, Answers, RegisterInv
<1>7. ASSUME NEW did \in AddResults, Book(s, did) PROVE RegisterInv'
    <2>1. RegistryInv'
        BY <1>7, BookingOK DEF Book
    <2>2. CASE did = "SUCCESS"
        BY <1>1, <1>7, <2>1, <2>2, HandsetRegistered DEF Book, RegisterInv
    <2>3. CASE did = "DELAYED"
        <3>1. sms' = [sms EXCEPT ![s].state = "AWAITING", ![s].booked = TRUE]
              /\ UNCHANGED <<registers, originated, accepted, located>>
            BY <1>7, <2>3 DEF Book, asterisk
        <3>2. "AWAITING" \in States \ {"INITIAL"}
            BY DEF States, Waiting
        <3>3. SmsInv' /\ DOMAIN sms' = DOMAIN sms
              /\ \A t \in DOMAIN sms : sms'[t].imsi = sms[t].imsi
            BY <1>1, <3>1, <3>2, BookedOK
        <3>4. QED
            BY <2>1, <3>1, <3>3, QueuedKept DEF RegisterInv
    <2>4. CASE did = "FAILURE"
        BY <1>2, <1>7, <2>1, <2>4 DEF Book, Answers, RegisterInv
    <2>5. CASE did = "TRYAGAIN"
        <3>1. SetState(s, "ORDINARY") /\ UNCHANGED <<registers, originated, accepted, located>>
            BY <1>7, <2>5 DEF Book, asterisk
        <3>2. "ORDINARY" \in States \ {"INITIAL", "DONE"}
            BY DEF States
        <3>3. SmsInv' /\ DOMAIN sms' = DOMAIN sms
              /\ \A t \in DOMAIN sms : sms'[t].imsi = sms[t].imsi
            BY <1>1, <3>1, <3>2, SetStateOK
        <3>4. QED
            BY <2>1, <3>1, <3>3, QueuedKept DEF RegisterInv
    <2>6. QED
        BY <2>2, <2>3, <2>4, <2>5, ResultAssumption
<1>8. QED
    BY <1>4, <1>5, <1>6, <1>7

\* Waiting for the REGISTER: originated when the number shows, or timed out.
LEMMA WaitingStep ==
    ASSUME RegisterInv, NEW s \in DOMAIN sms, Register(s) \/ RegisterTimeout(s)
    PROVE  RegisterInv'
<1>1. RegistryInv'
    BY DEF Register, RegisterTimeout, RegisterInv, RegistryInv, OneOwner, Booked, Clash
<1>2. CASE Register(s)
    BY <1>1, <1>2, HandsetRegistered DEF Register, In, RegisterInv
<1>3. CASE RegisterTimeout(s)
    <2>1. SetState(s, "AWAITING") /\ UNCHANGED <<registers, originated, accepted, located>>
          /\ sms[s].state # "DONE"
        BY <1>3 DEF RegisterTimeout, asterisk, In
    <2>2. "AWAITING" \in States \ {"INITIAL", "DONE"}
        BY DEF States, Waiting
    <2>3. SmsInv' /\ DOMAIN sms' = DOMAIN sms /\ \A t \in DOMAIN sms : sms'[t].imsi = sms[t].imsi
        BY <2>1, <2>2, SetStateOK
    <2>4. QED
        BY <1>1, <2>1, <2>3, QueuedKept DEF RegisterInv
<1>4. QED
    BY <1>2, <1>3

\* Accepts: whoever has the CSeq of r is r, whose handset is located now.
LEMMA AcceptsStep ==
    ASSUME RegisterInv, NEW r \in registers, Accepts(r)
    PROVE  RegisterInv'
<1>1. /\ accepted' = accepted \cup {r.seq} /\ located' = located \cup {sms[r.link].imsi}
      /\ UNCHANGED <<sms, registers, originated, registry, delayed>>
    BY DEF Accepts
<1>2. RegistryInv'
    BY <1>1 DEF RegisterInv, RegistryInv, OneOwner, Booked, Clash
<1>3. /\ r.link \in DOMAIN sms /\ r.seq \in 1..MaxRegister /\ r.seq <= originated
      /\ originated \in 0..MaxRegister
    BY DEF RegisterInv, QueuedInv
<1>4. sms[r.link].imsi \in Imsis
    <2>1. sms[r.link] \in Sms
        BY <1>3 DEF RegisterInv, SmsInv
    <2>2. QED
        BY <2>1 DEF Sms
<1>5. SmsInv'
    BY <1>1 DEF RegisterInv, SmsInv, SmsOK
<1>6. r.seq \in 1..originated
    BY <1>3, BoundAssumption
<1>7. QueuedInv'
    BY <1>1, <1>4, <1>6 DEF RegisterInv, QueuedInv
<1>8. QED
    BY <1>2, <1>5, <1>7 DEF RegisterInv

\* The answer to the REGISTER, or its end without one.
LEMMA RegisterLeaves ==
    ASSUME RegisterInv, NEW r \in registers, AnswerAccepted(r) \/ RegisterEnds(r)
    PROVE  RegisterInv'
<1>1. /\ registers' \subseteq registers
      /\ UNCHANGED <<originated, accepted, located, registry, delayed>>
    BY DEF AnswerAccepted, RegisterEnds, asterisk
<1>2. RegistryInv'
    BY <1>1 DEF RegisterInv, RegistryInv, OneOwner, Booked, Clash
<1>3. CASE UNCHANGED sms
    <2>1. SmsInv'
        BY <1>1, <1>3 DEF RegisterInv, SmsInv
    <2>2. QED
        BY <1>1, <1>2, <1>3, <2>1, QueuedKept DEF RegisterInv
<1>4. CASE AnswerAccepted(r) /\ sms[r.link].state \in Waiting
    <2>1. SetState(r.link, "INITIAL") /\ sms[r.link].state # "DONE"
        BY <1>4 DEF AnswerAccepted, RerunLinked, Waiting
    <2>2. r.link \in DOMAIN sms /\ sms[r.link].imsi \in located
        BY <1>4 DEF AnswerAccepted, RegisterInv, QueuedInv
    <2>3. SmsInv' /\ DOMAIN sms' = DOMAIN sms /\ \A t \in DOMAIN sms : sms'[t].imsi = sms[t].imsi
        BY <1>1, <2>1, <2>2, RerunOK
    <2>4. QED
        BY <1>1, <1>2, <2>3, QueuedKept DEF RegisterInv
<1>5. QED
    BY <1>3, <1>4 DEF AnswerAccepted, RegisterEnds, RerunLinked

\* Before anything is received, the invariant holds.
LEMMA RegisterInvInit == Init => RegisterInv
<1> SUFFICES ASSUME Init PROVE RegisterInv
    OBVIOUS
<1>1. sms = <<>> /\ sms \in Seq(Sms) /\ DOMAIN sms = {}
    BY DEF Init
<1>2. SmsInv
    BY <1>1 DEF SmsInv
<1>3. QueuedInv
    BY BoundAssumption DEF Init, QueuedInv
<1>4. RegistryInv
    BY DEF Init, RegistryInv, OneOwner, Booked
<1>5. QED
    BY <1>2, <1>3, <1>4 DEF RegisterInv

\* Each step keeps the invariant.
LEMMA RegisterInvNext == RegisterInv /\ [Next]_vars => RegisterInv'
<1> SUFFICES ASSUME RegisterInv, [Next]_vars PROVE RegisterInv'
    OBVIOUS
<1>1. ASSUME NEW i \in Imsis, NEW t \in Texts, Receive(i, t) PROVE RegisterInv'
    <2>1. UNCHANGED <<registers, originated, accepted, located, registry, delayed>>
        BY <1>1 DEF Receive, asterisk
    <2>2. RegistryInv'
        BY <2>1 DEF RegisterInv, RegistryInv, OneOwner, Booked, Clash
    <2>3. QED
        BY <1>1, <2>1, <2>2, ReceiveOK, QueuedKept DEF RegisterInv
<1>2. CASE RegistryReloads
    <2>1. UNCHANGED <<sms, registers, originated, accepted, located>>
        BY <1>2 DEF RegistryReloads, asterisk
    <2>2. SmsInv'
        BY <2>1 DEF RegisterInv, SmsInv
    <2>3. QueuedInv'
        BY <2>1, QueuedKept DEF RegisterInv
    <2>4. QED
        BY <1>2, <2>2, <2>3, ReloadOK DEF RegisterInv
<1>3. CASE UNCHANGED vars
    <2>1. SmsInv' /\ QueuedInv'
        BY <1>3 DEF vars, RegisterInv, SmsInv, QueuedInv
    <2>2. RegistryInv'
        BY <1>3 DEF vars, RegisterInv, RegistryInv, OneOwner, Booked, Clash
    <2>3. QED
        BY <2>1, <2>2 DEF RegisterInv
<1>4. QED
    BY <1>1, <1>2, <1>3, ShortCodeStep, WaitingStep, AcceptsStep, RegisterLeaves DEF Next

-----------------------------------------------------------------------------
(* What is booked was asked for.                                           *)

\* Every booking has an SMS of its owner whose text "Simple parse" accepts.
AskedFor(b, s) ==
    /\ sms[s].imsi = b.imsi
    /\ b.number = Parsed(sms[s].text).phonenum
    /\ Acceptable(Parsed(sms[s].text))

AskedInv == \A b \in Booked : \E s \in DOMAIN sms : AskedFor(b, s)

\* No step changes who sent an SMS or what it says.
SmsKept ==
    /\ DOMAIN sms \subseteq DOMAIN sms'
    /\ \A t \in DOMAIN sms : sms'[t].imsi = sms[t].imsi /\ sms'[t].text = sms[t].text

\* A change of an SMS's state leaves its handset and its text.
LEMMA ExceptKept ==
    ASSUME SmsInv, NEW s \in DOMAIN sms,
           \/ \E state \in States : SetState(s, state)
           \/ \E state \in States : sms' = [sms EXCEPT ![s].state = state, ![s].booked = TRUE]
           \/ \E answer \in Answers :
                sms' = [sms EXCEPT ![s].state = "DONE", ![s].replies = Append(@, answer)]
           \/ UNCHANGED sms
    PROVE  SmsKept
<1>1. \A t \in DOMAIN sms : sms[t] \in Sms
    <2>1. sms \in Seq(Sms)
        BY DEF SmsInv
    <2>2. QED
        BY ONLY <2>1
<1>2. DOMAIN sms' = DOMAIN sms /\ \A t \in DOMAIN sms : t # s => sms'[t] = sms[t]
    BY DEF SetState, SmsInv
<1>3. sms'[s].imsi = sms[s].imsi /\ sms'[s].text = sms[s].text
    BY <1>1, ZenonT(60) DEF SetState, Sms, SmsInv
<1>4. QED
    BY <1>2, <1>3 DEF SmsKept

\* Every step leaves the handset and the text of each SMS.
LEMMA NextKeepsSms ==
    ASSUME RegisterInv, Next
    PROVE  SmsKept
<1>1. SmsInv
    BY DEF RegisterInv
<1>2. ASSUME NEW i \in Imsis, NEW t \in Texts, Receive(i, t) PROVE SmsKept
    <2>1. sms' = Append(sms, NewSms(i, t)) /\ sms \in Seq(Sms)
        BY <1>1, <1>2 DEF Receive, SmsInv
    <2>2. DOMAIN sms \subseteq DOMAIN sms' /\ \A u \in DOMAIN sms : sms'[u] = sms[u]
        BY <2>1
    <2>3. QED
        BY <2>2 DEF SmsKept
<1>3. ASSUME UNCHANGED sms PROVE SmsKept
    BY <1>3 DEF SmsKept
<1>4. ASSUME NEW s \in DOMAIN sms, NEW answer \in Answers, Reply(s, answer) PROVE SmsKept
    <2>1. "FAILED" \in States
        BY DEF States
    <2>2. QED
        BY <1>1, <1>4, <2>1, ExceptKept DEF Reply
<1>5. ASSUME NEW s \in DOMAIN sms, register_handset(s) PROVE SmsKept
    <2>1. "ASKED" \in States /\ "DONE" \in States
        BY DEF States, Waiting
    <2>2. QED
        BY <1>1, <1>5, <2>1, ExceptKept DEF register_handset
<1>6. ASSUME NEW s \in DOMAIN sms, BadNumber(s) \/ HasNumber(s) \/ NumberTaken(s) PROVE SmsKept
    BY <1>4, <1>6 DEF BadNumber, HasNumber, NumberTaken, Answers
<1>7. ASSUME NEW s \in DOMAIN sms, NEW did \in AddResults, Book(s, did) PROVE SmsKept
    <2>1. "AWAITING" \in States /\ "ORDINARY" \in States /\ "error" \in Answers
        BY DEF States, Waiting, Answers
    <2>2. CASE did = "SUCCESS"
        BY <1>5, <1>7, <2>2 DEF Book
    <2>3. CASE did = "DELAYED"
        <3>1. sms' = [sms EXCEPT ![s].state = "AWAITING", ![s].booked = TRUE]
            BY <1>7, <2>3 DEF Book
        <3>2. QED
            BY <1>1, <2>1, <3>1, ExceptKept
    <2>4. CASE did = "FAILURE"
        BY <1>4, <1>7, <2>1, <2>4 DEF Book
    <2>5. CASE did = "TRYAGAIN"
        <3>1. SetState(s, "ORDINARY")
            BY <1>7, <2>5 DEF Book
        <3>2. QED
            BY <1>1, <2>1, <3>1, ExceptKept
    <2>6. QED
        BY <2>2, <2>3, <2>4, <2>5, ResultAssumption
<1>8. ASSUME NEW s \in DOMAIN sms, Register(s) \/ RegisterTimeout(s) PROVE SmsKept
    <2>1. "AWAITING" \in States
        BY DEF States, Waiting
    <2>2. CASE Register(s)
        BY <1>5, <2>2 DEF Register
    <2>3. CASE RegisterTimeout(s)
        BY <1>1, <2>1, <2>3, ExceptKept DEF RegisterTimeout
    <2>4. QED
        BY <1>8, <2>2, <2>3
<1>9. ASSUME NEW r \in registers, Accepts(r) \/ AnswerAccepted(r) \/ RegisterEnds(r) PROVE SmsKept
    <2>1. "INITIAL" \in States /\ r.link \in DOMAIN sms
        BY DEF States, RegisterInv, QueuedInv
    <2>2. CASE AnswerAccepted(r)
        BY <1>1, <2>1, <2>2, ExceptKept DEF AnswerAccepted, RerunLinked
    <2>3. QED
        BY <1>3, <1>9, <2>2 DEF Accepts, RegisterEnds
<1>10. CASE RegistryReloads
    BY <1>3, <1>10 DEF RegistryReloads
<1>11. QED
    BY <1>2, <1>6, <1>7, <1>8, <1>9, <1>10 DEF Next

\* Only Book adds to what is booked, and it books what its own SMS asks for.
LEMMA BookedByAsking ==
    ASSUME Next, NEW b \in Booked', b \notin Booked
    PROVE  \E s \in DOMAIN sms : AskedFor(b, s)
<1>1. PICK s \in DOMAIN sms, did \in AddResults : Book(s, did)
    <2>1. CASE \E s \in DOMAIN sms : \E did \in AddResults : Book(s, did)
        BY <2>1
    <2>2. CASE UNCHANGED <<registry, delayed>> \/ RegistryReloads
        BY <2>2 DEF Booked, RegistryReloads
    <2>3. ASSUME NEW s \in DOMAIN sms, \/ BadNumber(s) \/ HasNumber(s) \/ NumberTaken(s)
                                       \/ Register(s) \/ RegisterTimeout(s)
          PROVE  UNCHANGED <<registry, delayed>>
        BY <2>3 DEF BadNumber, HasNumber, NumberTaken, Register, RegisterTimeout
    <2>4. ASSUME NEW r \in registers, Accepts(r) \/ AnswerAccepted(r) \/ RegisterEnds(r)
          PROVE  UNCHANGED <<registry, delayed>>
        BY <2>4 DEF Accepts, AnswerAccepted, RegisterEnds
    <2>5. QED
        BY <2>1, <2>2, <2>3, <2>4 DEF Next, Receive
<1>2. /\ b = [imsi |-> sms[s].imsi, number |-> Asked(s), late |-> did = "DELAYED"]
      /\ Acceptable(Parsed(sms[s].text))
    BY <1>1 DEF Book, addUser, Booked, FreeToBook, Asks
<1>3. b.imsi = sms[s].imsi /\ b.number = Parsed(sms[s].text).phonenum
    BY <1>2 DEF Asked
<1>4. QED
    BY <1>2, <1>3 DEF AskedFor

\* Each step keeps every booking one that an SMS asked for.
LEMMA AskedStep ==
    ASSUME RegisterInv, AskedInv, [Next]_vars
    PROVE  AskedInv'
<1>1. CASE UNCHANGED vars
    BY <1>1 DEF vars, AskedInv, AskedFor, Booked
<1>2. CASE Next
    <2>1. SmsKept
        BY <1>2, NextKeepsSms
    <2>2. \A b : \A s \in DOMAIN sms : AskedFor(b, s) => s \in DOMAIN sms' /\ AskedFor(b, s)'
        BY <2>1 DEF SmsKept, AskedFor
    <2>3. ASSUME NEW b \in Booked' PROVE \E s \in DOMAIN sms : AskedFor(b, s)
        BY <1>2, <2>3, BookedByAsking DEF AskedInv
    <2>4. QED
        BY <2>2, <2>3 DEF AskedInv
<1>3. QED
    BY <1>1, <1>2

\* What the text asks for is what BookedAsAsked says in terms of the text alone.
LEMMA AskedIsKept ==
    ASSUME RegisterInv, AskedInv
    PROVE  BookedAsAsked
<1> SUFFICES ASSUME NEW b \in Booked
             PROVE  /\ WellFormed(b.number)
                    /\ \E s \in DOMAIN sms : /\ sms[s].imsi = b.imsi
                                             /\ KeptOf(b.number, sms[s].text)
                                             /\ ProperLength(sms[s].text)
    BY DEF BookedAsAsked
<1>1. PICK s \in DOMAIN sms : AskedFor(b, s)
    BY DEF AskedInv
<1>2. sms[s].text \in Seq(STRING)
    <2>1. sms[s] \in Sms
        BY DEF RegisterInv, SmsInv
    <2>2. QED
        BY <2>1, TextAssumption DEF Sms
<1>3. ~Parsed(sms[s].text).badnum
    BY <1>1 DEF AskedFor, Acceptable
<1>4. /\ KeptOf(Parsed(sms[s].text).phonenum, sms[s].text)
      /\ WellFormed(Parsed(sms[s].text).phonenum)
      /\ Parsed(sms[s].text).seendig = Count(sms[s].text, Digits)
      /\ Parsed(sms[s].text).exclaim = Count(sms[s].text, {"!"})
    BY <1>2, <1>3, ParsedIsKept
<1>5. ProperLength(sms[s].text)
    BY <1>1, <1>4 DEF AskedFor, Acceptable, ProperLength
<1>6. QED
    BY <1>1, <1>4, <1>5 DEF AskedFor

-----------------------------------------------------------------------------
(* Theorems.                                                               *)

\* What the short code, the registry and Asterisk keep between them, in every
\* order of SMS, reloads, REGISTERs and answers.
THEOREM RegisterInvariant == Spec => []RegisterInv
BY RegisterInvInit, RegisterInvNext, PTL DEF Spec

\* Every variable has its type, and every REGISTER is linked to an SMS.
THEOREM TypeCorrect == Spec => []TypeOK
<1>1. RegisterInv => TypeOK
    BY DEF RegisterInv, SmsInv, QueuedInv, RegistryInv, TypeOK
<1>2. QED
    BY <1>1, RegisterInvariant, PTL

\* However many ask at the same time, two bookings of one number or by one
\* handset clash only if the registry did not show one of them at once.
THEOREM NumbersHaveOneOwner == Spec => []OneOwner
<1>1. RegisterInv => OneOwner
    BY DEF RegisterInv, RegistryInv
<1>2. QED
    BY <1>1, RegisterInvariant, PTL

\* However often an SMS is run again, its sender gets one reply at most.
THEOREM OneReplyEach == Spec => []OneReply
<1>1. RegisterInv => OneReply
    BY DEF RegisterInv, SmsInv, SmsOK, OneReply
<1>2. QED
    BY <1>1, RegisterInvariant, PTL

\* The SMS that booked a number says "Welcome" only when the handset can be
\* reached, whichever REGISTER was answered and however late.
THEOREM WelcomeIsTrue == Spec => []WelcomeReaches
<1>1. RegisterInv => WelcomeReaches
    BY DEF RegisterInv, SmsInv, SmsOK, WelcomeReaches, Welcomed
<1>2. QED
    BY <1>1, RegisterInvariant, PTL

\* Everything booked was asked for, in any text: the number is what is left of a
\* text that its owner sent, of a proper length, with a plus in front or nowhere.
THEOREM BookedWasAsked == Spec => []BookedAsAsked
<1>1. Init => AskedInv
    BY DEF Init, AskedInv, Booked
<1>2. RegisterInv /\ AskedInv /\ [Next]_vars => AskedInv'
    BY AskedStep
<1>3. RegisterInv /\ AskedInv => BookedAsAsked
    BY AskedIsKept
<1>4. QED
    BY <1>1, <1>2, <1>3, RegisterInvariant, PTL DEF Spec
=============================================================================
