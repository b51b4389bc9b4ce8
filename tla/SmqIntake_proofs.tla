-------------------------- MODULE SmqIntake_proofs --------------------------
(***************************************************************************)
(* Proofs about SmqIntake: what is answered, with which code and how       *)
(* often, and what happens to a message that was accepted.                 *)
(*                                                                         *)
(* The inductive invariant says of every datagram in the queue and in the  *)
(* save file that it passed all checks as it came, counts the answers that *)
(* are still owed, and keeps 402 away from whatever can be answered.       *)
(***************************************************************************)
EXTENDS SmqIntake, SmqLists, FiniteSetTheorems

\* What the checks look at, and what set_qtag() looks for.
Flaws == {"sip", "tpdu", "version", "status", "length", "body", "uri", "scheme", "host", "user",
          "type", "cseq", "call_id", "from", "mime", "to", "method", "tag"}

\* What can be on the network: the answers of a peer too.
Datagram == [method : Methods, flaws : SUBSET Flaws, src : Senders \cup {"smq"},
             via : BOOLEAN, to : Numbers, uri : Numbers \cup {"smsc"},
             body : Numbers \cup {"text", "noise"}]

\* A method that is not known is always noticed.
Sound(d) == d \in Datagram /\ (d.method = "OTHER" => "method" \in d.flaws)

\* What set_qtag() and every check let pass.
Valid(d) == Failed(d) = {} /\ set_qtag(d) = 0

TypeInv ==
    /\ \A d \in net : Sound(d)
    /\ acks \in Seq([code : Codes, msg : Datagram])
    /\ answers \in Seq(Codes)
    /\ received \in Nat
    /\ hlr \subseteq Users /\ up \in BOOLEAN
    /\ arrived \in 0..MaxSent /\ changes \in 0..MaxChanges /\ crashes \in 0..MaxCrashes

\* 402 is found in what is not answered.
CodesInv ==
    /\ \A i \in 1..Len(acks) : Answerable(acks[i].msg) => acks[i].code # 402
    /\ PhraseKnown

\* The answers that are still to be given.
Owed == {i \in 1..Len(acks) : Answerable(acks[i].msg)}
CountInv == Len(answers) + Cardinality(Owed) <= received

\* What is queued or saved passed every check, and only an SMS-DELIVER is refused.
ValidInv ==
    /\ \A e \in queue \cup file : Valid(e.msg)
    /\ AcceptedAgain

\* What came from the relay can be delivered here.
RelayInv ==
    /\ changes = 0 => \A e \in queue \cup file :
                        e.msg.method = "MESSAGE" /\ FromRelay(e.msg) => to_is_deliverable(e.msg.to)
    /\ NotRelayedBack

IntakeInv == TypeInv /\ CodesInv /\ CountInv /\ ValidInv /\ RelayInv

-----------------------------------------------------------------------------
(* The checks of validate_short_msg().                                     *)

CheckCodes == {400, 405, 413, 415, 416, 484}
Check == Flaws \X CheckCodes

\* Some check looks at f.
Tests(s, f) == \E i \in 1..Len(s) : s[i][1] = f

\* What one of two lists of checks looks for, the two together look for.
LEMMA TestsOfConcat ==
    ASSUME NEW s \in Seq(Check), NEW t \in Seq(Check), NEW f, Tests(s, f) \/ Tests(t, f)
    PROVE  Tests(s \o t, f)
<1>1. /\ Len(s) \in Nat /\ Len(t) \in Nat /\ Len(s \o t) = Len(s) + Len(t)
      /\ \A i \in 1..Len(s) + Len(t) :
           (s \o t)[i] = IF i <= Len(s) THEN s[i] ELSE t[i - Len(s)]
    BY ConcatProperties, LenProperties
<1>2. CASE Tests(s, f)
    <2>1. PICK i \in 1..Len(s) : s[i][1] = f
        BY <1>2 DEF Tests
    <2>2. i \in 1..Len(s \o t) /\ (s \o t)[i] = s[i]
        BY <1>1, <2>1
    <2>3. QED
        BY <2>1, <2>2 DEF Tests
<1>3. CASE Tests(t, f)
    <2>1. PICK i \in 1..Len(t) : t[i][1] = f
        BY <1>3 DEF Tests
    <2>2. Len(s) + i \in 1..Len(s \o t) /\ (s \o t)[Len(s) + i] = t[i]
        BY <1>1, <2>1
    <2>3. QED
        BY <2>1, <2>2 DEF Tests
<1>4. QED
    BY <1>2, <1>3

\* Three checks make a list.
LEMMA ThreeChecks ==
    ASSUME NEW a \in Check, NEW b \in Check, NEW c \in Check
    PROVE  <<a, b, c>> \in Seq(Check)
OBVIOUS

\* The lists that validate_short_msg() goes through are lists of checks.
LEMMA PartsAreChecks ==
    /\ ParseChecks \in Seq(Check) /\ ResponseChecks \in Seq(Check)
    /\ UriChecks \in Seq(Check) /\ MessageChecks \in Seq(Check)
    /\ RegisterChecks \in Seq(Check) /\ HeaderChecks \in Seq(Check)
    /\ << <<"method", 405>> >> \in Seq(Check)
<1>1. \A f \in Flaws, c \in CheckCodes : <<f, c>> \in Check
    BY DEF Check
<1>2. /\ 400 \in CheckCodes /\ 405 \in CheckCodes /\ 413 \in CheckCodes
      /\ 415 \in CheckCodes /\ 416 \in CheckCodes /\ 484 \in CheckCodes
    BY DEF CheckCodes
<1>3. /\ \A a \in Check : <<a>> \in Seq(Check)
      /\ \A a, b, c, e \in Check : <<a, b, c, e>> \in Seq(Check)
    OBVIOUS
<1>4. ParseChecks \in Seq(Check)
    <2>1. <<"sip", 400>> \in Check /\ <<"tpdu", 400>> \in Check /\ <<"version", 400>> \in Check
        BY <1>1, <1>2 DEF Flaws
    <2>2. << <<"sip", 400>>, <<"tpdu", 400>>, <<"version", 400>> >> \in Seq(Check)
        BY <2>1, ThreeChecks
    <2>3. QED
        BY <2>2 DEF ParseChecks
<1>5. ResponseChecks \in Seq(Check)
    <2>1. <<"status", 400>> \in Check /\ <<"length", 400>> \in Check /\ <<"body", 400>> \in Check
        BY <1>1, <1>2 DEF Flaws
    <2>2. << <<"status", 400>>, <<"length", 400>>, <<"body", 400>> >> \in Seq(Check)
        BY <2>1, ThreeChecks
    <2>3. QED
        BY <2>2 DEF ResponseChecks
<1>6. UriChecks \in Seq(Check)
    <2>1. <<"uri", 400>> \in Check /\ <<"scheme", 416>> \in Check /\ <<"host", 484>> \in Check
        BY <1>1, <1>2 DEF Flaws
    <2>2. << <<"uri", 400>>, <<"scheme", 416>>, <<"host", 484>> >> \in Seq(Check)
        BY <2>1, ThreeChecks
    <2>3. QED
        BY <2>2 DEF UriChecks
<1>7. MessageChecks \in Seq(Check)
    <2>1. /\ <<"user", 484>> \in Check /\ <<"type", 415>> \in Check /\ <<"body", 413>> \in Check
          /\ <<"cseq", 400>> \in Check
        BY <1>1, <1>2 DEF Flaws
    <2>2. QED
        BY <1>3, <2>1 DEF MessageChecks
<1>8. HeaderChecks \in Seq(Check)
    <2>1. /\ <<"call_id", 400>> \in Check /\ <<"from", 400>> \in Check /\ <<"mime", 415>> \in Check
          /\ <<"to", 400>> \in Check
        BY <1>1, <1>2 DEF Flaws
    <2>2. QED
        BY <1>3, <2>1 DEF HeaderChecks
<1>9. RegisterChecks \in Seq(Check) /\ << <<"method", 405>> >> \in Seq(Check)
    <2>1. <<"cseq", 400>> \in Check /\ <<"method", 405>> \in Check
        BY <1>1, <1>2 DEF Flaws
    <2>2. QED
        BY <1>3, <2>1, ZenonT(60) DEF RegisterChecks
<1>10. QED
    BY <1>4, <1>5, <1>6, <1>7, <1>8, <1>9

\* Whatever the method, the checks are checks; the CSeq of a request is one of
\* them and a method that is not known does not pass.
LEMMA ChecksKnown ==
    ASSUME NEW m \in Methods
    PROVE  /\ Checks(m) \in Seq(Check)
           /\ m \in {"MESSAGE", "REGISTER"} => Tests(Checks(m), "cseq")
           /\ m = "OTHER" => Tests(Checks(m), "method")
<1> DEFINE M == << <<"method", 405>> >>
<1>1. /\ ParseChecks \in Seq(Check) /\ ResponseChecks \in Seq(Check)
      /\ UriChecks \in Seq(Check) /\ MessageChecks \in Seq(Check)
      /\ RegisterChecks \in Seq(Check) /\ HeaderChecks \in Seq(Check)
      /\ M \in Seq(Check)
    BY PartsAreChecks
<1>2. ASSUME NEW s \in Seq(Check), NEW t \in Seq(Check)
      PROVE  s \o t \in Seq(Check)
    BY <1>2, ConcatProperties
<1>3. ASSUME NEW s \in Seq(Check)
      PROVE  /\ (ParseChecks \o s) \o HeaderChecks \in Seq(Check)
             /\ \A f : Tests(s, f) => Tests((ParseChecks \o s) \o HeaderChecks, f)
    <2>1. ParseChecks \o s \in Seq(Check)
        BY <1>1, <1>2
    <2>2. (ParseChecks \o s) \o HeaderChecks \in Seq(Check)
        BY <1>1, <1>2, <2>1
    <2>3. ASSUME NEW f, Tests(s, f)
          PROVE  Tests((ParseChecks \o s) \o HeaderChecks, f)
        <3>1. Tests(ParseChecks \o s, f)
            BY <1>1, <2>3, TestsOfConcat
        <3>2. QED
            BY <1>1, <2>1, <3>1, TestsOfConcat
    <2>4. QED
        BY <2>2, <2>3
<1>4. CASE m = "RESPONSE"
    <2>1. Checks(m) = (ParseChecks \o ResponseChecks) \o HeaderChecks
        BY <1>4 DEF Checks
    <2>2. (ParseChecks \o ResponseChecks) \o HeaderChecks \in Seq(Check)
        BY <1>1, <1>3
    <2>3. m \notin {"MESSAGE", "REGISTER"} /\ m # "OTHER"
        BY <1>4
    <2>4. QED
        BY <2>1, <2>2, <2>3
<1>5. CASE m = "MESSAGE"
    <2>1. Checks(m) = (ParseChecks \o (UriChecks \o MessageChecks)) \o HeaderChecks
        BY <1>5 DEF Checks
    <2>2. MessageChecks[4][1] = "cseq" /\ Len(MessageChecks) = 4
        BY DEF MessageChecks
    <2>3. Tests(MessageChecks, "cseq")
        BY <2>2 DEF Tests
    <2>4. Tests(UriChecks \o MessageChecks, "cseq")
        BY <1>1, <2>3, TestsOfConcat
    <2>5. UriChecks \o MessageChecks \in Seq(Check)
        BY <1>1, <1>2
    <2>6. QED
        BY <1>3, <1>5, <2>1, <2>4, <2>5
<1>6. CASE m = "REGISTER"
    <2>1. Checks(m) = (ParseChecks \o (UriChecks \o RegisterChecks)) \o HeaderChecks
        BY <1>6 DEF Checks
    <2>2. RegisterChecks[1][1] = "cseq" /\ Len(RegisterChecks) = 1
        BY DEF RegisterChecks
    <2>3. Tests(RegisterChecks, "cseq")
        BY <2>2 DEF Tests
    <2>4. Tests(UriChecks \o RegisterChecks, "cseq")
        BY <1>1, <2>3, TestsOfConcat
    <2>5. UriChecks \o RegisterChecks \in Seq(Check)
        BY <1>1, <1>2
    <2>6. QED
        BY <1>3, <1>6, <2>1, <2>4, <2>5
<1>7. CASE m = "OTHER"
    <2>1. Checks(m) = (ParseChecks \o (UriChecks \o M)) \o HeaderChecks
        BY <1>7 DEF Checks
    <2>2. M[1][1] = "method" /\ Len(M) = 1
        OBVIOUS
    <2> HIDE DEF M
    <2>3. Tests(M, "method")
        BY <2>2 DEF Tests
    <2>4. Tests(UriChecks \o M, "method")
        BY <1>1, <2>3, TestsOfConcat
    <2>5. UriChecks \o M \in Seq(Check)
        BY <1>1, <1>2
    <2>6. QED
        BY <1>3, <1>7, <2>1, <2>4, <2>5
<1>8. QED
    BY <1>4, <1>5, <1>6, <1>7 DEF Methods

\* How main_loop() calls validate_short_msg().
Result(d) == validate_short_msg(d, TRUE)

\* What validate_short_msg() can return, and what it means.
LEMMA Validated ==
    ASSUME NEW d \in Datagram, NEW code, code \in Result(d)
    PROVE  /\ code \in CheckCodes \cup {Died, 404, 402, 0}
           /\ code = 0 => /\ Valid(d)
                          /\ d.method = "MESSAGE" /\ FromRelay(d) => to_is_deliverable(d.to)
           /\ code = 402 => Failed(d) = {} /\ "cseq" \in d.flaws
<1>1. d.method \in Methods
    BY DEF Datagram
<1>2. CASE Failed(d) # {}
    <2> DEFINE k == Min(Failed(d))
               first == Checks(d.method)[k]
    <2>1. Failed(d) \in SUBSET Nat
        BY DEF Failed
    <2>2. k \in Failed(d)
        BY <1>2, <2>1, MinIsMember
    <2>3. k \in 1..Len(Checks(d.method))
        BY <2>2 DEF Failed
    <2>4. Checks(d.method) \in Seq(Check)
        BY <1>1, ChecksKnown
    <2>5. first \in Check
        BY <2>3, <2>4, ElementOfSeq
    <2>6. code = first[2] \/ code = Died
        BY <1>2 DEF Result, validate_short_msg
    <2> HIDE DEF first
    <2>7. first[2] \in CheckCodes
        BY <2>5 DEF Check
    <2>8. QED
        BY <2>6, <2>7 DEF CheckCodes, Died
<1>3. CASE Failed(d) = {}
    <2>1. CASE d.method = "MESSAGE" /\ FromRelay(d) /\ ~to_is_deliverable(d.to)
        <3>1. code = 404
            BY <1>3, <2>1 DEF Result, validate_short_msg
        <3>2. QED
            BY <3>1
    <2>2. CASE ~(d.method = "MESSAGE" /\ FromRelay(d) /\ ~to_is_deliverable(d.to))
        <3>1. code = set_qtag(d)
            BY <1>3, <2>2 DEF Result, validate_short_msg
        <3>2. QED
            BY <1>3, <2>2, <3>1 DEF Valid, set_qtag, Died
    <2>3. QED
        BY <2>1, <2>2
<1>4. QED
    BY <1>2, <1>3

\* What is answered has its CSeq checked before set_qtag() looks for it.
LEMMA CSeqChecked ==
    ASSUME NEW d, Sound(d), Answerable(d), Failed(d) = {}
    PROVE  "cseq" \notin d.flaws
<1>1. d.method \in Methods /\ d.method # "RESPONSE"
    BY DEF Sound, Datagram, Answerable
<1>2. ASSUME NEW f, Tests(Checks(d.method), f)
      PROVE  f \notin d.flaws
    <2>1. PICK i \in 1..Len(Checks(d.method)) : Checks(d.method)[i][1] = f
        BY <1>2 DEF Tests
    <2>2. QED
        BY <2>1 DEF Failed
<1>3. d.method # "OTHER"
    BY <1>1, <1>2, ChecksKnown DEF Sound
<1>4. QED
    BY <1>1, <1>2, <1>3, ChecksKnown DEF Methods

\* What is taken back from the file does not depend on the HLR any more, only on
\* the form that the text has there.
LEMMA ValidStays ==
    ASSUME NEW e, Valid(e.msg), e.form # "deliver"
    PROVE  Revalidated(e)
BY DEF Valid, Revalidated, AsSaved, validate_short_msg

\* The datagrams that arrive are sound, and so are the answers to them.
LEMMA ArrivalsSound ==
    ASSUME NEW d \in Datagrams
    PROVE  Sound(d)
<1>1. PICK m \in Methods :
        d \in [method : {m}, flaws : FlawSets(m), src : Senders, via : BOOLEAN, to : Numbers,
               uri : IF m = "MESSAGE" THEN Numbers \cup {"smsc"} ELSE {"code"},
               body : IF m = "MESSAGE" THEN Numbers \cup {"text", "noise"} ELSE {"text"}]
    BY DEF Datagrams
<1>2. Checks(m) \in Seq(Check) /\ (m = "OTHER" => Tests(Checks(m), "method"))
    BY ChecksKnown
<1>3. ASSUME NEW i \in 1..Len(Checks(m))
      PROVE  Checks(m)[i][1] \in Flaws
    BY <1>2, <1>3, ElementOfSeq DEF Check
<1>4. FlawsOf(m) \subseteq Flaws /\ (m = "OTHER" => "method" \in FlawsOf(m))
    <2>1. FlawsOf(m) \subseteq Flaws
        BY <1>3 DEF FlawsOf, Flaws
    <2>2. ASSUME m = "OTHER"
          PROVE  "method" \in FlawsOf(m)
        <3>1. PICK i \in 1..Len(Checks(m)) : Checks(m)[i][1] = "method"
            BY <1>2, <2>2 DEF Tests
        <3>2. QED
            BY <3>1 DEF FlawsOf
    <2>3. QED
        BY <2>1, <2>2
<1>5. PICK f \in SUBSET (FlawsOf(m) \ {"method"}) :
        d.flaws = f \cup (FlawsOf(m) \ (FlawsOf(m) \ {"method"}))
    <2> DEFINE known == FlawsOf(m) \ {"method"}
               some == {f \in UNION {kSubset(k, known) : k \in 0..MaxFlaws} :
                          ~({"type", "tpdu"} \subseteq f)}
    <2>1. d.flaws \in {f \cup (FlawsOf(m) \ known) : f \in some}
        BY <1>1 DEF FlawSets
    <2>2. \A k : kSubset(k, known) \subseteq SUBSET known
        BY DEF kSubset
    <2>3. some \subseteq SUBSET known
        <3>1. ASSUME NEW f \in some PROVE f \in SUBSET known
            <4>1. PICK k \in 0..MaxFlaws : f \in kSubset(k, known)
                OBVIOUS
            <4>2. QED
                BY <2>2, <4>1
        <3>2. QED
            BY <3>1
    <2> HIDE DEF some, known
    <2>4. \E f \in SUBSET known : d.flaws = f \cup (FlawsOf(m) \ known)
        BY <2>1, <2>3
    <2>5. QED
        BY <2>4 DEF known
<1>6. d.flaws \in SUBSET Flaws /\ (m = "OTHER" => "method" \in d.flaws)
    BY <1>4, <1>5
<1>7. "code" \in Numbers
    BY DEF Numbers
<1>8. d \in Datagram
    BY <1>1, <1>6, <1>7 DEF Datagram
<1>9. QED
    BY <1>1, <1>6, <1>8 DEF Sound

\* An answer from another smqueue is a datagram without flaws.
LEMMA ResponseSound ==
    ASSUME NEW d \in Datagram
    PROVE  Sound(Response(d))
BY DEF Sound, Response, Datagram, Methods

-----------------------------------------------------------------------------
(* Every step preserves the invariant.                                     *)

Ack == [code : Codes, msg : Datagram]

\* What main_loop() asks for.
LEMMA AckMade ==
    ASSUME NEW d, Sound(d), NEW code, code \in Result(d), code # Died
    PROVE  /\ [code |-> AckCode(code), msg |-> d] \in Ack
           /\ Answerable(d) => AckCode(code) # 402
           /\ code = 0 => /\ Valid(d)
                          /\ d.method = "MESSAGE" /\ FromRelay(d) => to_is_deliverable(d.to)
<1>1. d \in Datagram
    BY DEF Sound
<1>2. /\ code \in CheckCodes \cup {Died, 404, 402, 0}
      /\ code = 0 => /\ Valid(d)
                     /\ d.method = "MESSAGE" /\ FromRelay(d) => to_is_deliverable(d.to)
      /\ code = 402 => Failed(d) = {} /\ "cseq" \in d.flaws
    BY <1>1, Validated
<1>3. AckCode(code) \in Codes
    BY <1>2 DEF AckCode, Codes, CheckCodes
<1>4. Answerable(d) => AckCode(code) # 402
    BY <1>2, CSeqChecked DEF AckCode
<1>5. QED
    BY <1>1, <1>2, <1>3, <1>4 DEF Ack

\* The oldest entry of the message queue and the others.
LEMMA AcksSplit ==
    ASSUME acks \in Seq(Ack), acks # <<>>
    PROVE  /\ Len(acks) \in Nat \ {0} /\ Head(acks) = acks[1] /\ acks[1] \in Ack
           /\ Tail(acks) \in Seq(Ack) /\ Len(Tail(acks)) = Len(acks) - 1
           /\ \A i \in 1..Len(acks) - 1 : Tail(acks)[i] = acks[i + 1]
<1>1. /\ Head(acks) \in Ack /\ Tail(acks) \in Seq(Ack) /\ Len(Tail(acks)) = Len(acks) - 1
      /\ \A i \in 1..Len(Tail(acks)) : Tail(acks)[i] = acks[i + 1]
    BY HeadTailProperties
<1>2. Len(acks) \in Nat /\ Len(acks) # 0 /\ Head(acks) = acks[1]
    BY EmptySeq, LenProperties
<1>3. QED
    BY <1>1, <1>2

\* Each step keeps the types.
LEMMA TypeStep ==
    ASSUME TypeInv, [Next]_vars
    PROVE  TypeInv'
<1>1. acks \in Seq(Ack)
    BY DEF TypeInv, Ack
<1>2. <<>> \in Seq(Ack)
    BY EmptySeq
<1>3. CASE arrived < MaxSent /\ \E d \in Datagrams : Arrive(d)
    <2>1. PICK d \in Datagrams : Arrive(d)
        BY <1>3
    <2>2. Sound(d)
        BY ArrivalsSound
    <2>3. arrived' \in 0..MaxSent
        BY <1>3, <2>1, BoundAssumption DEF TypeInv, Arrive
    <2>4. QED
        BY <2>1, <2>2, <2>3 DEF TypeInv, Arrive, history
<1>4. ASSUME NEW d \in net, Lost(d)
      PROVE  TypeInv'
    BY <1>4 DEF TypeInv, Lost, bounds, history
<1>5. ASSUME NEW d \in net, main_loop(d)
      PROVE  TypeInv'
    <2>1. PICK code \in Result(d) :
            code # Died /\ acks' = Append(acks, [code |-> AckCode(code), msg |-> d])
        BY <1>5 DEF main_loop, Result
    <2>2. Sound(d)
        BY DEF TypeInv
    <2>3. [code |-> AckCode(code), msg |-> d] \in Ack
        BY <2>1, <2>2, AckMade
    <2>4. acks' \in Seq(Ack)
        BY <1>1, <2>1, <2>3, AppendProperties
    <2>5. received' \in Nat
        BY <1>5 DEF main_loop, TypeInv
    <2>6. QED
        BY <1>5, <2>4, <2>5 DEF TypeInv, main_loop, bounds, Ack
<1>6. ASSUME NEW d \in net, main_loop_dies(d)
      PROVE  TypeInv'
    BY <1>2, <1>6 DEF TypeInv, main_loop_dies, Stop, bounds, history, Ack
<1>7. CASE respond_sip_ack
    <2>1. acks[1] \in Ack /\ Head(acks) = acks[1] /\ Tail(acks) \in Seq(Ack)
        BY <1>1, <1>7, AcksSplit DEF respond_sip_ack
    <2>2. acks[1].msg \in Datagram /\ acks[1].code \in Codes
        BY <2>1 DEF Ack
    <2>3. Sound(Response(acks[1].msg))
        BY <2>2, ResponseSound
    <2>4. \A d \in net' : Sound(d)
        BY <1>7, <2>1, <2>3 DEF respond_sip_ack, TypeInv
    <2>5. answers' \in Seq(Codes)
        BY <1>7, <2>1, <2>2, AppendProperties DEF respond_sip_ack, TypeInv
    <2>6. acks' \in Seq(Ack)
        BY <1>7, <2>1 DEF respond_sip_ack
    <2>7. QED
        BY <1>7, <2>4, <2>5, <2>6 DEF TypeInv, respond_sip_ack, bounds, Ack
<1>8. CASE respond_nothing
    <2>1. acks' \in Seq(Ack)
        BY <1>1, <1>8, AcksSplit DEF respond_nothing
    <2>2. QED
        BY <1>8, <2>1 DEF TypeInv, respond_nothing, bounds, history, Ack
<1>9. ASSUME NEW e \in queue, Delivered(e) \/ Relayed(e) \/ Handled(e)
      PROVE  TypeInv'
    BY <1>9 DEF TypeInv, Delivered, Relayed, Handled, bounds, history
<1>10. ASSUME NEW u \in Users, Provision(u)
       PROVE  TypeInv'
    <2>1. changes' \in 0..MaxChanges
        BY <1>10, BoundAssumption DEF TypeInv, Provision
    <2>2. QED
        BY <1>10, <2>1 DEF TypeInv, Provision, history
<1>11. CASE save_queue_to_file
    BY <1>11 DEF TypeInv, save_queue_to_file, bounds, history
<1>12. CASE Crash
    BY <1>2, <1>12 DEF TypeInv, Crash, Stop, bounds, history, Ack
<1>13. CASE read_queue_from_file
    <2>1. crashes' \in 0..MaxCrashes
        BY <1>13, BoundAssumption DEF TypeInv, read_queue_from_file
    <2>2. QED
        BY <1>13, <2>1 DEF TypeInv, read_queue_from_file
<1>14. CASE UNCHANGED vars
    BY <1>14 DEF TypeInv, vars
<1>15. QED
    BY <1>3, <1>4, <1>5, <1>6, <1>7, <1>8, <1>9, <1>10, <1>11, <1>12, <1>13, <1>14 DEF Next

\* The steps, by what they do to the entries of the message queue: none is
\* added or taken, all are dropped, one is added, or the oldest is taken.
AcksKept == acks' = acks /\ answers' = answers /\ received' = received
AcksDropped == acks' = <<>> /\ answers' = answers /\ received' = received
AckTaken ==
    /\ acks # <<>> /\ acks' = Tail(acks) /\ received' = received
    /\ \/ answers' = answers
       \/ Answerable(Head(acks).msg) /\ answers' = Append(answers, Head(acks).code)

\* What a step may do to the answers that are owed.
LEMMA AckSteps ==
    ASSUME [Next]_vars
    PROVE  \/ AcksKept \/ AcksDropped \/ AckTaken
           \/ \E d \in net : main_loop(d)
<1>1. CASE \E d \in Datagrams : Arrive(d)
    BY <1>1 DEF Arrive, history, AcksKept
<1>2. ASSUME NEW d \in net, Lost(d) \/ main_loop(d) \/ main_loop_dies(d)
      PROVE  AcksKept \/ AcksDropped \/ main_loop(d)
    BY <1>2 DEF Lost, main_loop_dies, Stop, history, AcksKept, AcksDropped
<1>3. CASE respond_sip_ack \/ respond_nothing
    BY <1>3 DEF respond_sip_ack, respond_nothing, history, AckTaken
<1>4. ASSUME NEW e \in queue, Delivered(e) \/ Relayed(e) \/ Handled(e)
      PROVE  AcksKept
    BY <1>4 DEF Delivered, Relayed, Handled, history, AcksKept
<1>5. ASSUME NEW u \in Users, Provision(u)
      PROVE  AcksKept
    BY <1>5 DEF Provision, history, AcksKept
<1>6. CASE save_queue_to_file \/ Crash \/ read_queue_from_file
    BY <1>6 DEF save_queue_to_file, Crash, Stop, read_queue_from_file, history,
                AcksKept, AcksDropped
<1>7. CASE UNCHANGED vars
    BY <1>7 DEF vars, AcksKept
<1>8. QED
    BY <1>1, <1>2, <1>3, <1>4, <1>5, <1>6, <1>7 DEF Next

\* Each step keeps the codes that may wait for an answer.
LEMMA CodesStep ==
    ASSUME TypeInv, CodesInv, [Next]_vars
    PROVE  CodesInv'
<1>1. /\ acks \in Seq(Ack) /\ answers \in Seq(Codes)
      /\ Len(acks) \in Nat /\ Len(answers) \in Nat
    BY LenProperties DEF TypeInv, Ack
<1>2. CASE AcksKept
    BY <1>2 DEF AcksKept, CodesInv, PhraseKnown, Answerable
<1>3. CASE AcksDropped
    BY <1>3, EmptySeq DEF AcksDropped, CodesInv, PhraseKnown
<1>4. CASE AckTaken
    <2>1. /\ Len(acks) \in Nat \ {0} /\ Head(acks) = acks[1]
          /\ Len(acks') = Len(acks) - 1
          /\ \A i \in 1..Len(acks) - 1 : acks'[i] = acks[i + 1]
        BY <1>1, <1>4, AcksSplit DEF AckTaken
    <2>2. \A i \in 1..Len(acks') : Answerable(acks'[i].msg) => acks'[i].code # 402
        BY <2>1 DEF CodesInv
    <2>3. PhraseKnown'
        <3>1. CASE answers' = answers
            BY <3>1 DEF CodesInv, PhraseKnown
        <3>2. CASE Answerable(Head(acks).msg) /\ answers' = Append(answers, Head(acks).code)
            <4>1. Answerable(acks[1].msg) /\ answers' = Append(answers, acks[1].code)
                BY <2>1, <3>2
            <4>2. acks[1].code # 402
                BY <2>1, <4>1 DEF CodesInv
            <4>3. acks[1].code \in Codes
                BY <1>1, <1>4, AcksSplit DEF AckTaken, Ack
            <4>4. /\ Len(answers') = Len(answers) + 1
                  /\ \A i \in 1..Len(answers) : answers'[i] = answers[i]
                  /\ answers'[Len(answers) + 1] = acks[1].code
                BY <1>1, <4>1, <4>3, AppendProperties
            <4>5. ASSUME NEW i \in 1..Len(answers')
                  PROVE  answers'[i] # 402
                <5>1. i \in 1..Len(answers) \/ i = Len(answers) + 1
                    BY <1>1, <4>4
                <5>2. QED
                    BY <4>2, <4>4, <5>1 DEF CodesInv, PhraseKnown
            <4>6. QED
                BY <4>5 DEF PhraseKnown
        <3>3. QED
            BY <1>4, <3>1, <3>2 DEF AckTaken
    <2>4. QED
        BY <2>2, <2>3 DEF CodesInv, Answerable
<1>5. ASSUME NEW d \in net, main_loop(d)
      PROVE  CodesInv'
    <2>1. PICK code \in Result(d) :
            code # Died /\ acks' = Append(acks, [code |-> AckCode(code), msg |-> d])
        BY <1>5 DEF main_loop, Result
    <2> DEFINE a == [code |-> AckCode(code), msg |-> d]
    <2>2. Sound(d)
        BY DEF TypeInv
    <2>3. a \in Ack /\ (Answerable(a.msg) => a.code # 402)
        <3>1. a.msg = d /\ a.code = AckCode(code)
            OBVIOUS
        <3>2. [code |-> AckCode(code), msg |-> d] \in Ack /\ (Answerable(d) => AckCode(code) # 402)
            BY <2>1, <2>2, AckMade
        <3> HIDE DEF a
        <3>3. QED
            BY <3>1, <3>2 DEF a
    <2> HIDE DEF a
    <2>4. acks' = Append(acks, a)
        BY <2>1 DEF a
    <2>5. /\ Len(acks') = Len(acks) + 1 /\ acks'[Len(acks) + 1] = a
          /\ \A i \in 1..Len(acks) : acks'[i] = acks[i]
        BY <1>1, <2>3, <2>4, AppendProperties
    <2>6. ASSUME NEW i \in 1..Len(acks'), Answerable(acks'[i].msg)
          PROVE  acks'[i].code # 402
        <3>1. i \in 1..Len(acks) \/ i = Len(acks) + 1
            BY <1>1, <2>5
        <3>2. QED
            BY <2>3, <2>5, <2>6, <3>1 DEF CodesInv
    <2>7. answers' = answers
        BY <1>5 DEF main_loop, Result
    <2>8. QED
        BY <2>6, <2>7 DEF CodesInv, PhraseKnown, Answerable
<1>6. QED
    BY <1>2, <1>3, <1>4, <1>5, AckSteps

\* An answer that is given was owed, and a request that comes in is owed one.
LEMMA CountStep ==
    ASSUME TypeInv, CountInv, [Next]_vars
    PROVE  CountInv'
<1> DEFINE n == Len(acks)
<1>1. /\ acks \in Seq(Ack) /\ answers \in Seq(Codes) /\ received \in Nat
      /\ n \in Nat /\ Len(answers) \in Nat
    BY LenProperties DEF TypeInv, Ack
<1>2. IsFiniteSet(Owed) /\ Cardinality(Owed) \in Nat
    <2>1. Owed \subseteq 1..n
        BY DEF Owed
    <2>2. IsFiniteSet(1..n)
        BY <1>1, FS_Interval
    <2>3. QED
        BY <2>1, <2>2, FS_Subset, FS_CardinalityType
<1>3. CASE AcksKept
    <2>1. Owed' = Owed
        BY <1>3 DEF AcksKept, Owed, Answerable
    <2>2. QED
        BY <1>3, <2>1 DEF AcksKept, CountInv
<1>4. CASE AcksDropped
    <2>1. Owed' = {}
        BY <1>4, EmptySeq DEF AcksDropped, Owed
    <2>2. Cardinality({}) = 0
        BY FS_EmptySet
    <2>3. QED
        BY <1>1, <1>2, <1>4, <2>1, <2>2 DEF AcksDropped, CountInv
<1>5. CASE AckTaken
    <2>1. /\ n \in Nat \ {0} /\ Head(acks) = acks[1] /\ acks[1] \in Ack
          /\ Len(acks') = n - 1
          /\ \A i \in 1..n - 1 : acks'[i] = acks[i + 1]
        BY <1>1, <1>5, AcksSplit DEF AckTaken
    <2> DEFINE S == Owed \ {1}
               T == {i \in 1..n - 1 : Answerable(acks[i + 1].msg)}
               f == [j \in S |-> j - 1]
    <2>2. Owed' = T
        BY <2>1 DEF Owed, Answerable
    <2>3. S = {j \in 2..n : Answerable(acks[j].msg)}
        BY <1>1 DEF Owed
    <2>4. f \in Surjection(S, T)
        <3>1. ASSUME NEW j \in S PROVE j - 1 \in T
            BY <1>1, <2>3
        <3>2. f \in [S -> T]
            BY <3>1
        <3>3. ASSUME NEW i \in T PROVE i + 1 \in S /\ f[i + 1] = i
            <4>1. i \in 1..n - 1 /\ Answerable(acks[i + 1].msg)
                OBVIOUS
            <4>2. i + 1 \in 2..n /\ (i + 1) - 1 = i
                BY <1>1, <4>1
            <4>3. i + 1 \in S
                BY <2>3, <4>1, <4>2
            <4>4. QED
                BY <4>2, <4>3
        <3> HIDE DEF S, T, f
        <3>4. QED
            BY <3>2, <3>3 DEF Surjection
    <2>5. IsFiniteSet(S) /\ Cardinality(S) = IF 1 \in Owed THEN Cardinality(Owed) - 1
                                             ELSE Cardinality(Owed)
        BY <1>2, FS_RemoveElement
    <2> HIDE DEF S, T, f
    <2>6. IsFiniteSet(T) /\ Cardinality(T) <= Cardinality(S)
        BY <2>4, <2>5, FS_Surjection
    <2>7. Cardinality(T) \in Nat /\ Cardinality(S) \in Nat
        BY <2>5, <2>6, FS_CardinalityType
    <2>8. CASE answers' = answers
        <3>1. Cardinality(S) <= Cardinality(Owed)
            BY <1>2, <2>5
        <3>2. QED
            BY <1>1, <1>2, <1>5, <2>2, <2>6, <2>7, <2>8, <3>1 DEF AckTaken, CountInv
    <2>9. CASE Answerable(Head(acks).msg) /\ answers' = Append(answers, Head(acks).code)
        <3>1. 1 \in Owed
            BY <2>1, <2>9 DEF Owed
        <3>2. Len(answers') = Len(answers) + 1
            <4>1. Head(acks).code \in Codes
                BY <2>1 DEF Ack
            <4>2. QED
                BY <1>1, <2>9, <4>1, AppendProperties
        <3>3. Cardinality(S) = Cardinality(Owed) - 1
            BY <2>5, <3>1
        <3>4. QED
            BY <1>1, <1>2, <1>5, <2>2, <2>6, <2>7, <3>2, <3>3 DEF AckTaken, CountInv
    <2>10. QED
        BY <1>5, <2>8, <2>9 DEF AckTaken
<1>6. ASSUME NEW d \in net, main_loop(d)
      PROVE  CountInv'
    <2>1. PICK code \in Result(d) :
            code # Died /\ acks' = Append(acks, [code |-> AckCode(code), msg |-> d])
        BY <1>6 DEF main_loop, Result
    <2> DEFINE a == [code |-> AckCode(code), msg |-> d]
    <2>2. a \in Ack /\ a.msg = d
        <3>1. Sound(d)
            BY DEF TypeInv
        <3>2. [code |-> AckCode(code), msg |-> d] \in Ack
            BY <2>1, <3>1, AckMade
        <3>3. QED
            BY <3>2
    <2>3. acks' = Append(acks, a)
        BY <2>1
    <2> HIDE DEF a
    <2>4. /\ Len(acks') = n + 1 /\ acks'[n + 1] = a
          /\ \A i \in 1..n : acks'[i] = acks[i]
        BY <1>1, <2>2, <2>3, AppendProperties
    <2>5. n + 1 \notin Owed
        BY <1>1 DEF Owed
    <2>6. /\ Cardinality(Owed \cup {n + 1}) = Cardinality(Owed) + 1
        BY <1>2, <2>5, FS_AddElement
    <2>7. answers' = answers
        BY <1>6 DEF main_loop
    <2>8. CASE Answerable(d)
        <3>1. Owed' = Owed \cup {n + 1}
            BY <1>1, <2>2, <2>4, <2>8 DEF Owed, Answerable
        <3>2. received' = received + 1
            BY <1>6, <2>8 DEF main_loop, Answerable
        <3>3. QED
            BY <1>1, <1>2, <2>6, <2>7, <3>1, <3>2 DEF CountInv
    <2>9. CASE ~Answerable(d)
        <3>1. Owed' = Owed
            BY <1>1, <2>2, <2>4, <2>9 DEF Owed, Answerable
        <3>2. received' \in Nat /\ received' >= received
            BY <1>1, <1>6 DEF main_loop
        <3>3. QED
            BY <1>1, <1>2, <2>7, <3>1, <3>2 DEF CountInv
    <2>10. QED
        BY <2>8, <2>9
<1>7. QED
    BY <1>3, <1>4, <1>5, <1>6, AckSteps

\* The steps, by what they do to the queue and the save file.
QueueKept ==
    /\ queue' \cup file' \subseteq queue \cup file
    /\ forgotten' = forgotten /\ relayed' = relayed
    /\ relay' = relay /\ hlr' = hlr /\ changes' = changes

\* One entry takes another form; what goes to the relay has no destination here.
Packed(e) ==
    /\ \A q \in queue' : \E p \in queue : q.msg = p.msg
    /\ file' = file /\ forgotten' = forgotten
    /\ relay' = relay /\ hlr' = hlr /\ changes' = changes
    /\ \/ relayed' = relayed
       \/ /\ relayed' = relayed \cup {e.msg} /\ e.msg.method = "MESSAGE"
          /\ ~to_is_deliverable(Destination(e.msg))

\* What a step may do to the queue, the file and the registry.
LEMMA QueueSteps ==
    ASSUME [Next]_vars
    PROVE  \/ QueueKept
           \/ \E d \in net : main_loop(d)
           \/ \E e \in queue : Packed(e)
           \/ \E u \in Users : Provision(u)
           \/ read_queue_from_file
<1>1. CASE \E d \in Datagrams : Arrive(d)
    BY <1>1 DEF Arrive, history, QueueKept
<1>2. ASSUME NEW d \in net, Lost(d) \/ main_loop_dies(d)
      PROVE  QueueKept
    BY <1>2 DEF Lost, main_loop_dies, Stop, bounds, history, QueueKept
<1>3. CASE respond_sip_ack \/ respond_nothing
    BY <1>3 DEF respond_sip_ack, respond_nothing, bounds, history, QueueKept
<1>4. ASSUME NEW e \in queue, Handled(e)
      PROVE  QueueKept
    BY <1>4 DEF Handled, bounds, history, QueueKept
<1>5. ASSUME NEW e \in queue, Delivered(e) \/ Relayed(e)
      PROVE  Packed(e)
    <2>1. ASSUME NEW form, Pack(e, form)
          PROVE  \A q \in queue' : \E p \in queue : q.msg = p.msg
        <3>1. [e EXCEPT !.form = form].msg = e.msg
            OBVIOUS
        <3>2. QED
            BY <2>1, <3>1 DEF Pack
    <2>2. CASE Delivered(e)
        BY <2>1, <2>2 DEF Delivered, bounds, history, Packed
    <2>3. CASE Relayed(e)
        BY <2>1, <2>3 DEF Relayed, Untried, Here, bounds, Packed, to_is_deliverable
    <2>4. QED
        BY <1>5, <2>2, <2>3
<1>6. CASE save_queue_to_file \/ Crash
    BY <1>6 DEF save_queue_to_file, Crash, Stop, bounds, history, QueueKept
<1>7. CASE UNCHANGED vars
    BY <1>7 DEF vars, QueueKept
<1>8. QED
    BY <1>1, <1>2, <1>3, <1>4, <1>6, <1>7, <1>5 DEF Next

\* What is read back, and what is not.
LEMMA ReadBackAll ==
    ASSUME ValidInv, read_queue_from_file
    PROVE  queue' \subseteq file /\ file' = file /\ AcceptedAgain'
<1>1. \A e \in file : e.form # "deliver" => Revalidated(e)
    BY ValidStays DEF ValidInv
<1>2. QED
    BY <1>1 DEF ValidInv, AcceptedAgain, read_queue_from_file

\* What main_loop() puts into the queue.
LEMMA Queued ==
    ASSUME TypeInv, NEW d \in net, main_loop(d)
    PROVE  /\ \A e \in queue' \ queue : e.msg = d
           /\ file' = file
           /\ forgotten' = forgotten /\ relayed' = relayed
           /\ relay' = relay /\ hlr' = hlr /\ changes' = changes
           /\ queue' \ queue # {} => /\ Valid(d)
                                     /\ d.method = "MESSAGE" /\ FromRelay(d)
                                          => to_is_deliverable(d.to)
<1>1. PICK code \in Result(d) :
        /\ code # Died
        /\ queue' = IF code = 0 THEN queue \cup {[msg |-> d, form |-> "came"]} ELSE queue
    BY DEF main_loop, Result
<1>2. Sound(d)
    BY DEF TypeInv
<1>3. code = 0 => /\ Valid(d)
                  /\ d.method = "MESSAGE" /\ FromRelay(d) => to_is_deliverable(d.to)
    BY <1>1, <1>2, AckMade
<1>4. QED
    BY <1>1, <1>3 DEF main_loop, bounds

\* Each step keeps what is queued and saved valid.
LEMMA ValidStep ==
    ASSUME TypeInv, ValidInv, [Next]_vars
    PROVE  ValidInv'
<1>1. CASE QueueKept
    BY <1>1 DEF QueueKept, ValidInv, AcceptedAgain
<1>2. ASSUME NEW d \in net, main_loop(d)
      PROVE  ValidInv'
    <2>1. \A e \in queue' : e \in queue \/ (Valid(d) /\ e.msg = d)
        BY <1>2, Queued
    <2>2. QED
        BY <1>2, <2>1, Queued DEF ValidInv, AcceptedAgain
<1>3. ASSUME NEW e \in queue, Packed(e)
      PROVE  ValidInv'
    BY <1>3 DEF Packed, ValidInv, AcceptedAgain
<1>4. ASSUME NEW u \in Users, Provision(u)
      PROVE  ValidInv'
    BY <1>4 DEF Provision, history, ValidInv, AcceptedAgain
<1>5. CASE read_queue_from_file
    BY <1>5, ReadBackAll DEF ValidInv, AcceptedAgain
<1>6. QED
    BY <1>1, <1>2, <1>3, <1>4, <1>5, QueueSteps

\* Each step keeps away from the relay what came from it.
LEMMA RelayStep ==
    ASSUME TypeInv, ValidInv, RelayInv, [Next]_vars
    PROVE  RelayInv'
<1> USE DEF FromRelay, msg_is_from_relay, relaxed_verify_relay, to_is_deliverable
<1>1. CASE QueueKept
    BY <1>1 DEF QueueKept, RelayInv, NotRelayedBack
<1>2. ASSUME NEW d \in net, main_loop(d)
      PROVE  RelayInv'
    <2>1. \A e \in queue' : \/ e \in queue
                            \/ /\ e.msg = d
                               /\ d.method = "MESSAGE" /\ FromRelay(d) => to_is_deliverable(d.to)
        BY <1>2, Queued
    <2>2. QED
        BY <1>2, <2>1, Queued DEF RelayInv, NotRelayedBack
<1>3. ASSUME NEW e \in queue, Packed(e)
      PROVE  RelayInv'
    <2>1. changes = 0 /\ FromRelay(e.msg) /\ relayed' # relayed => Destination(e.msg) # e.msg.to
        BY <1>3 DEF Packed, RelayInv
    <2>2. changes \in Nat
        BY DEF TypeInv
    <2>3. NotRelayedBack'
        BY <1>3, <2>1, <2>2 DEF Packed, RelayInv, NotRelayedBack, Destination
    <2>4. changes' = 0 => \A q \in queue' \cup file' :
            q.msg.method = "MESSAGE" /\ FromRelay(q.msg)' => to_is_deliverable(q.msg.to)'
        BY <1>3 DEF Packed, RelayInv
    <2>5. QED
        BY <2>3, <2>4 DEF RelayInv
<1>4. ASSUME NEW u \in Users, Provision(u)
      PROVE  RelayInv'
    <2>1. changes' > 0 /\ changes' # 0
        BY <1>4 DEF Provision, TypeInv
    <2>2. QED
        BY <2>1 DEF RelayInv, NotRelayedBack
<1>5. CASE read_queue_from_file
    <2>1. /\ queue' \subseteq file /\ file' = file
          /\ relay' = relay /\ hlr' = hlr /\ changes' = changes /\ relayed' = relayed
        BY <1>5, ReadBackAll DEF read_queue_from_file
    <2>2. QED
        BY <2>1 DEF RelayInv, NotRelayedBack
<1>6. QED
    BY <1>1, <1>2, <1>3, <1>4, <1>5, QueueSteps

-----------------------------------------------------------------------------
(* The theorems.                                                           *)

\* What the network, the queue, the save file and the entries of the message
\* queue can hold: what is queued or saved passed every check when it came.
THEOREM IntakeInvariant == Spec => []IntakeInv
<1>1. Init => IntakeInv
    <2> SUFFICES ASSUME Init PROVE IntakeInv
        OBVIOUS
    <2>1. TypeInv
        BY BoundAssumption, EmptySeq DEF Init, TypeInv
    <2>2. Owed = {} /\ Cardinality({}) = 0
        BY FS_EmptySet, EmptySeq DEF Init, Owed
    <2>3. CountInv
        BY <2>2 DEF Init, CountInv
    <2>4. CodesInv /\ ValidInv /\ RelayInv
        BY DEF Init, CodesInv, PhraseKnown, ValidInv, AcceptedAgain, RelayInv, NotRelayedBack
    <2>5. QED
        BY <2>1, <2>3, <2>4 DEF IntakeInv
<1>2. IntakeInv /\ [Next]_vars => IntakeInv'
    BY TypeStep, CodesStep, CountStep, ValidStep, RelayStep DEF IntakeInv
<1>3. QED
    BY <1>1, <1>2, PTL DEF Spec

\* Every code that respond_sip_ack() is given is one that it or set_qtag() knows.
THEOREM TypeCorrect == Spec => []TypeOK
<1>1. IntakeInv => TypeOK
    <2> SUFFICES ASSUME IntakeInv, NEW i \in 1..Len(acks) PROVE acks[i].code \in Codes
        BY DEF IntakeInv, TypeInv, TypeOK
    <2>1. acks \in Seq(Ack)
        BY DEF IntakeInv, TypeInv, Ack
    <2>2. acks[i] \in Ack
        BY <2>1, ElementOfSeq
    <2>3. QED
        BY <2>2 DEF Ack
<1>2. QED
    BY <1>1, IntakeInvariant, PTL

\* Two smqueues that answer each other stop: no more answers than requests.
THEOREM NoAnswerLoop == Spec => []AnswersEnd
<1>1. IntakeInv => AnswersEnd
    <2> SUFFICES ASSUME IntakeInv PROVE AnswersEnd
        OBVIOUS
    <2>1. acks \in Seq(Ack) /\ answers \in Seq(Codes) /\ received \in Nat
        BY DEF IntakeInv, TypeInv, Ack
    <2>2. Len(acks) \in Nat /\ Len(answers) \in Nat
        BY <2>1, LenProperties
    <2>3. IsFiniteSet(1..Len(acks)) /\ Owed \subseteq 1..Len(acks)
        BY <2>2, FS_Interval DEF Owed
    <2>4. Cardinality(Owed) \in Nat
        BY <2>3, FS_Subset, FS_CardinalityType
    <2>5. QED
        BY <2>1, <2>2, <2>4 DEF IntakeInv, CountInv, AnswersEnd
<1>2. QED
    BY <1>1, IntakeInvariant, PTL

\* respond_sip_ack() has a phrase for every code it sends.
THEOREM PhraseAlwaysKnown == Spec => []PhraseKnown
<1>1. IntakeInv => PhraseKnown
    BY DEF IntakeInv, CodesInv
<1>2. QED
    BY <1>1, IntakeInvariant, PTL

\* What validate_short_msg() lets in from the global relay for the number in its To
\* is not sent back to it.
THEOREM RelayNotEchoed == Spec => []NotRelayedBack
<1>1. IntakeInv => NotRelayedBack
    BY DEF IntakeInv, RelayInv
<1>2. QED
    BY <1>1, IntakeInvariant, PTL

\* read_queue_from_file() refuses no request that main_loop() accepted, except what
\* was packed as SMS-DELIVER in between.
THEOREM OnlyDeliverRefused == Spec => []AcceptedAgain
<1>1. IntakeInv => AcceptedAgain
    BY DEF IntakeInv, ValidInv
<1>2. QED
    BY <1>1, IntakeInvariant, PTL
=============================================================================
