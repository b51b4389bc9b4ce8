--------------------------- MODULE SmqQueue_proofs ---------------------------
(***************************************************************************)
(* Proofs about SmqQueue, for every value of its constants; and, in the    *)
(* second half, that SmqQueue implements SmqService for every value of     *)
(* them for which tags identify messages.                                  *)
(***************************************************************************)
EXTENDS SmqQueueService, SmqLists

-----------------------------------------------------------------------------
(* The inductive invariant: every queued message satisfies it by itself.   *)

\* Retries count at least the datagrams sent, and what smqueue originates at
\* the second remove is a bounce, which is not bounced again.
Bounded(m) ==
    /\ m.sends <= m.retries
    /\ MaxRetries # 0 => m.sends <= MaxRetries
    /\ m.gen <= 1 \/ (m.gen = 2 /\ m.from = "bounce")

\* Message m may be in state s: StateFitsKind, and what has yet to run as a
\* short code or to have its sender looked up came from outside.
Fits(m, s) ==
    /\ s \notin BadStates \cup {"REGISTER_HANDSET"}
    /\ m.method = "RESPONSE" =>
         s \in {"INITIAL_STATE", "REQUEST_DESTINATION_IMSI",
                "NO_STATE", "DELETE_ME_STATE"}
    /\ m.method = "REGISTER" => s # "REQUEST_FROM_ADDRESS_LOOKUP"
    /\ s \in Registering => m.method = "MESSAGE" /\ m.gen = 0
    /\ s \in {"INITIAL_STATE", "REQUEST_FROM_ADDRESS_LOOKUP"}
         => m.method = "RESPONSE" \/ m.gen = 0

Good == {m \in Message : Bounded(m) /\ Fits(m, m.state)}

\* What may be saved.
Saveable == {r \in Saved : StateFitsKind(r) /\ ChainEnds(r)}

SentOK(s) == s \in SentRecord /\ (s.gen <= 1 \/ (s.gen = 2 /\ s.from = "bounce"))

QueueInv ==
    /\ time_sorted_list \in Seq(Good)
    /\ file \in Seq(Saveable)
    /\ register_call_seq \in 0..MaxRegister
    /\ spacing \in 0..(RateTicks + 1)
    /\ \A s \in sent : SentOK(s)
    /\ running \in Runs
    /\ requests \in 0..MaxRequests
    /\ responses \in 0..MaxResponses

-----------------------------------------------------------------------------
(* What the operations on the list preserve.                               *)

\* The searches return a position of the list, or 0; the slot is one of the
\* places between two messages or at either end.
LEMMA FindInRange ==
    ASSUME NEW S, NEW q \in Seq(S), NEW tag
    PROVE  find_queued_msg_by_tag(q, tag) \in 0..Len(q)
<1> DEFINE I == {i \in 1..Len(q) : q[i].qtag = tag}
<1>1. Len(q) \in Nat
    BY LenProperties
<1>2. CASE I = {}
    BY <1>1, <1>2 DEF find_queued_msg_by_tag, SelectInSeq
<1>3. CASE I # {}
    <2>1. I \in SUBSET Nat
        BY <1>1
    <2>2. Min(I) \in I
        BY <2>1, <1>3, MinIsMember
    <2>3. QED
        BY <1>1, <1>3, <2>2 DEF find_queued_msg_by_tag, SelectInSeq
<1>4. QED
    BY <1>2, <1>3

\* set_state() finds a place in the list or at its end.
LEMMA SlotInRange ==
    ASSUME NEW S, NEW q \in Seq(S), NEW d
    PROVE  Slot(q, d) \in 1..(Len(q) + 1)
<1> DEFINE I == {i \in 1..Len(q) : q[i].due >= d}
<1>1. Len(q) \in Nat
    BY LenProperties
<1>2. CASE I = {}
    BY <1>1, <1>2 DEF Slot
<1>3. CASE I # {}
    <2>1. I \in SUBSET Nat
        BY <1>1
    <2>2. Min(I) \in I
        BY <2>1, <1>3, MinIsMember
    <2>3. QED
        BY <1>1, <1>3, <2>2 DEF Slot
<1>4. QED
    BY <1>2, <1>3

\* short_msg_pending::set_state changes the state and the time only.
LEMMA RestateType ==
    ASSUME NEW m \in Message, NEW s \in sm_state
    PROVE  /\ Restate(m, s) \in Message
           /\ Restate(m, s).state = s
           /\ Restate(m, s).method = m.method
           /\ Restate(m, s).from = m.from
           /\ Restate(m, s).gen = m.gen
           /\ Restate(m, s).sends = m.sends
           /\ Restate(m, s).retries = m.retries
<1>1. m.state \in sm_state
    BY DEF Message
<1>2. Timeout(m.state, s) \in Int
    BY <1>1, TimeoutAssumption
<1>3. QED
    BY <1>2 DEF Restate, Message

\* A message in a state that fits it is good.
LEMMA RestateGood ==
    ASSUME NEW m \in Message, Bounded(m), NEW s \in sm_state, Fits(m, s)
    PROVE  Restate(m, s) \in Good
<1> DEFINE r == Restate(m, s)
<1>1. /\ r \in Message /\ r.state = s /\ r.method = m.method /\ r.from = m.from
      /\ r.gen = m.gen /\ r.sends = m.sends /\ r.retries = m.retries
    BY RestateType
<1> HIDE DEF r
<1>2. Bounded(r) /\ Fits(r, r.state)
    BY <1>1 DEF Bounded, Fits
<1>3. r \in Good
    BY <1>1, <1>2 DEF Good
<1>4. QED
    BY <1>3 DEF r

\* SMq::set_state and insert_new_message keep the list good.
LEMMA SetStateGood ==
    ASSUME NEW q \in Seq(Good), NEW m \in Message, Bounded(m),
           NEW s \in sm_state, Fits(m, s)
    PROVE  set_state(q, m, s) \in Seq(Good)
<1>1. Restate(m, s) \in Good
    BY RestateGood
<1>2. Slot(q, Restate(m, s).due) \in 1..(Len(q) + 1)
    BY SlotInRange
<1>3. QED
    BY <1>1, <1>2, InsertAtInSeq DEF set_state

\* insert_new_message() keeps the list good.
LEMMA InsertGood ==
    ASSUME NEW q \in Seq(Good), NEW m \in Message, Bounded(m),
           NEW s \in sm_state, Fits(m, s)
    PROVE  insert_new_message(q, m, s) \in Seq(Good)
BY RestateGood, ConsInSeq DEF insert_new_message

-----------------------------------------------------------------------------
(* What is originated, and the head of the list.                           *)

\* A new message is a message.
LEMMA NewMessageType ==
    ASSUME NEW id \in Ids, NEW method \in RequestMethods \cup {"RESPONSE"},
           NEW from \in Address, NEW uri \in Address, NEW qtag \in Tags,
           NEW gen \in Nat, gen <= 1 \/ (gen = 2 /\ from = "bounce")
    PROVE  /\ NewMessage(id, method, from, uri, qtag, gen) \in Message
           /\ NewMessage(id, method, from, uri, qtag, gen).method = method
           /\ NewMessage(id, method, from, uri, qtag, gen).gen = gen
           /\ Bounded(NewMessage(id, method, from, uri, qtag, gen))
<1>1. "NO_STATE" \in sm_state
    BY DEF sm_state
<1>2. NewMessage(id, method, from, uri, qtag, gen) \in Message
    BY <1>1 DEF NewMessage, Message
<1>3. QED
    BY <1>2, MaxRetriesAssumption DEF NewMessage, Bounded

\* new short_msg_p_list(1): the node is not one of those in the queue.
LEMMA NewIdInIds ==
    ASSUME QueueInv, CanAllocate
    PROVE  NewId \in Ids
<1>1. \A i \in 1..Len(time_sorted_list) : time_sorted_list[i].id \in Ids
    <2>1. time_sorted_list \in Seq(Good)
        BY DEF QueueInv
    <2>2. \A i \in 1..Len(time_sorted_list) : time_sorted_list[i] \in Good
        BY <2>1, ElementOfSeq
    <2>3. \A m \in Good : m.id \in Ids
        BY DEF Good, Message
    <2>4. QED
        BY <2>2, <2>3
<1>2. Queued(time_sorted_list) \subseteq Ids
    BY <1>1 DEF Queued
<1>3. \E i \in Ids : i \notin Queued(time_sorted_list)
    BY <1>2 DEF CanAllocate
<1>4. QED
    BY <1>3 DEF NewId

\* originate_sm() keeps the list good.
LEMMA OriginateSmGood ==
    ASSUME QueueInv, CanAllocate, NEW q \in Seq(Good),
           NEW from \in Address, NEW to \in Address, NEW n \in OwnNumbers,
           NEW gen \in Nat, gen <= 1 \/ (gen = 2 /\ from = "bounce"),
           NEW s \in {"REQUEST_DESTINATION_SIPURL", "REQUEST_DESTINATION_IMSI"}
    PROVE  originate_sm(q, from, to, n, gen, s) \in Seq(Good)
<1> DEFINE m == NewMessage(NewId, "MESSAGE", from, to, n, gen)
<1>1. n \in Tags /\ "MESSAGE" \in RequestMethods \cup {"RESPONSE"} /\ NewId \in Ids
    BY NewIdInIds DEF Tags, RequestMethods
<1>2. m \in Message /\ m.method = "MESSAGE" /\ m.gen = gen /\ Bounded(m)
    BY <1>1, NewMessageType
<1> HIDE DEF m
<1>3. s \in sm_state /\ Fits(m, s)
    BY <1>2 DEF Fits, sm_state, BadStates, Registering
<1>4. insert_new_message(q, m, s) \in Seq(Good)
    BY <1>2, <1>3, InsertGood
<1>5. QED
    BY <1>4 DEF originate_sm, m

\* bounce_message(): the notice for a message that is not a bounce is good.
LEMMA BounceGood ==
    ASSUME QueueInv, CanAllocate, NEW q \in Seq(Good), NEW m \in Good,
           MayBounce(m), NEW n \in OwnNumbers
    PROVE  originate_bounce(q, m, n) \in Seq(Good)
<1>1. m.from \in Address /\ m.gen \in Nat /\ m.gen <= 1
    BY DEF Good, Message, Bounded, MayBounce
<1>2. /\ m.gen + 1 \in Nat /\ "bounce" \in Address
      /\ m.gen + 1 <= 1 \/ (m.gen + 1 = 2 /\ "bounce" = "bounce")
    BY <1>1 DEF Address
<1> DEFINE s == IF IsImsi(m.from) THEN "REQUEST_DESTINATION_SIPURL"
                                  ELSE "REQUEST_DESTINATION_IMSI"
<1>3. s \in {"REQUEST_DESTINATION_SIPURL", "REQUEST_DESTINATION_IMSI"}
    OBVIOUS
<1> HIDE DEF s
<1>4. originate_sm(q, "bounce", m.from, n, m.gen + 1, s) \in Seq(Good)
    BY <1>1, <1>2, <1>3, OriginateSmGood
<1>5. QED
    BY <1>4 DEF originate_bounce, s

\* register_handset(): the REGISTER for an SMS from outside is good.
LEMMA RegisterGood ==
    ASSUME QueueInv, CanAllocate, NEW q \in Seq(Good), NEW m \in Message,
           m.gen = 0, register_call_seq < MaxRegister
    PROVE  originate_register(q, m) \in Seq(Good)
<1> DEFINE b == NewMessage(NewId, "REGISTER", m.from, "none", register_call_seq + 1,
                           m.gen + 1)
           r == [b EXCEPT !.linktag = m.qtag]
<1>1. /\ m.from \in Address /\ m.qtag \in Tags /\ "none" \in Address
      /\ NewId \in Ids /\ "REGISTER" \in RequestMethods \cup {"RESPONSE"}
    BY NewIdInIds DEF Message, Address, RequestMethods
<1>2. m.gen + 1 \in Nat /\ m.gen + 1 = 1 /\ register_call_seq + 1 \in Tags
    BY BoundsAssumption DEF QueueInv, Tags
<1>3. b \in Message /\ b.method = "REGISTER" /\ b.gen = m.gen + 1 /\ Bounded(b)
    BY <1>1, <1>2, NewMessageType
<1> HIDE DEF b
<1>4. r \in Message /\ r.method = "REGISTER" /\ Bounded(r)
    BY <1>1, <1>3 DEF Message, Bounded
<1> HIDE DEF r
<1>5. "REQUEST_MSG_DELIVERY" \in sm_state /\ Fits(r, "REQUEST_MSG_DELIVERY")
    BY <1>4 DEF Fits, sm_state, BadStates, Registering
<1>6. insert_new_message(q, r, "REQUEST_MSG_DELIVERY") \in Seq(Good)
    BY <1>4, <1>5, InsertGood
<1>7. QED
    BY <1>6 DEF originate_register, r, b

\* The head and the others are good.
LEMMA HeadGood ==
    ASSUME QueueInv, time_sorted_list # <<>>
    PROVE  /\ First \in Good
           /\ Others \in Seq(Good)
BY HeadTailProperties DEF QueueInv, First, Others

\* A step that changes only the list keeps the invariant if the list stays good.
LEMMA ListStep ==
    ASSUME QueueInv, ListOnly, time_sorted_list' \in Seq(Good)
    PROVE  QueueInv'
BY DEF QueueInv, ListOnly, SentOK

\* The head, with fields other than its state changed, moves to state s.
LEMMA MoveStep ==
    ASSUME QueueInv, time_sorted_list # <<>>, NEW m \in Message, Bounded(m),
           NEW s \in sm_state, Fits(m, s), Move(Others, m, s), ListOnly
    PROVE  QueueInv'
BY HeadGood, SetStateGood, ListStep DEF Move

\* Every message may end in error, or be deleted.
LEMMA FitsEnd ==
    ASSUME NEW m
    PROVE  /\ Fits(m, "NO_STATE") /\ Fits(m, "DELETE_ME_STATE")
           /\ Fits(m, "REQUEST_DESTINATION_IMSI")
           /\ "NO_STATE" \in sm_state /\ "DELETE_ME_STATE" \in sm_state
           /\ "REQUEST_DESTINATION_IMSI" \in sm_state
BY DEF Fits, BadStates, Registering, sm_state

\* Handling may end a message.
LEMMA EndStep ==
    ASSUME QueueInv, time_sorted_list # <<>>, ListOnly,
           NEW s \in {"NO_STATE", "DELETE_ME_STATE"}, Move(Others, First, s)
    PROVE  QueueInv'
<1>1. First \in Message /\ Bounded(First)
    BY HeadGood DEF Good
<1>2. s \in sm_state /\ Fits(First, s)
    BY FitsEnd
<1>3. QED
    BY <1>1, <1>2, MoveStep

-----------------------------------------------------------------------------
(* One lemma per group of actions.                                         *)

\* What is known of the head when a case of process_timeout() is entered.
LEMMA HeadFacts ==
    ASSUME QueueInv, NEW S, HeadIn(S)
    PROVE  /\ time_sorted_list # <<>> /\ First.state \in S
           /\ First \in Good /\ First \in Message
           /\ Bounded(First) /\ Fits(First, First.state)
           /\ Others \in Seq(Good)
BY HeadGood DEF HeadIn, Good

\* Re-entering a good list leaves a good list.
LEMMA MoveGood ==
    ASSUME NEW rest \in Seq(Good), NEW m \in Message, Bounded(m),
           NEW s \in sm_state, Fits(m, s), Move(rest, m, s)
    PROVE  time_sorted_list' \in Seq(Good)
BY SetStateGood DEF Move

\* What is read from the save file is what the list could hold when it was saved.
LEMMA RestoredGood ==
    ASSUME QueueInv, CanAllocate, NEW r \in Saveable
    PROVE  Restored(r) \in Good
<1> DEFINE b == NewMessage(NewId, r.method, r.from, r.uri, r.qtag, r.gen)
           m == [b EXCEPT !.state = r.state, !.due = r.due, !.old = TRUE]
<1>1. /\ r.method \in RequestMethods /\ r.from \in Address /\ r.uri \in Address
      /\ r.qtag \in Tags /\ r.gen \in 0..2 /\ r.state \in sm_state /\ r.due \in Int
      /\ StateFitsKind(r) /\ BounceIsLast(r) /\ ChainEnds(r)
    BY DEF Saveable, Saved, ChainEnds
<1>2. b \in Message /\ Bounded(b)
    BY <1>1, NewIdInIds, NewMessageType DEF BounceIsLast
<1>3. /\ b.method = r.method /\ b.from = r.from /\ b.gen = r.gen
    BY DEF NewMessage
<1> HIDE DEF b
<1>4. /\ m \in Message /\ m.method = r.method /\ m.gen = r.gen /\ m.state = r.state
      /\ m.from = b.from /\ m.sends = b.sends /\ m.retries = b.retries
    BY <1>1, <1>2, <1>3 DEF Message
<1> HIDE DEF m
<1>5. Bounded(m)
    BY <1>2, <1>3, <1>4 DEF Bounded
<1>6. Fits(m, m.state)
    BY <1>1, <1>4 DEF Fits, StateFitsKind, ChainEnds
<1>7. m \in Good
    BY <1>4, <1>5, <1>6 DEF Good
<1>8. QED
    BY <1>7 DEF Restored, m, b

\* The reader loads a record.
LEMMA ReadInv ==
    ASSUME QueueInv, read_queue_from_file
    PROVE  QueueInv'
<1>1. Head(file) \in Saveable /\ Tail(file) \in Seq(Saveable)
    BY HeadTailProperties DEF QueueInv, read_queue_from_file
<1>2. Restored(Head(file)) \in Good
    BY <1>1, RestoredGood DEF read_queue_from_file
<1>3. time_sorted_list' \in Seq(Good)
    BY <1>2, ConsInSeq DEF read_queue_from_file, QueueInv
<1>4. QED
    BY <1>1, <1>3 DEF read_queue_from_file, QueueInv, SentOK

\* The reader: a request starts a chain, a response continues that of the
\* request it answers.
LEMMA ReceiveRequestInv ==
    ASSUME QueueInv, NEW method \in Methods, NEW from \in Froms, NEW uri \in Targets,
           NEW tag \in UserTags, ReceiveRequest(method, from, uri, tag)
    PROVE  QueueInv'
<1> DEFINE m == NewMessage(NewId, method, from, uri, tag, 0)
<1>1. /\ NewId \in Ids /\ method \in RequestMethods \cup {"RESPONSE"}
      /\ from \in Address /\ uri \in Address /\ tag \in Tags
    BY NewIdInIds, AddressAssumption DEF ReceiveRequest, Address, Tags
<1>2. m \in Message /\ m.method = method /\ m.gen = 0 /\ Bounded(m)
    BY <1>1, NewMessageType
<1> HIDE DEF m
<1>3. "INITIAL_STATE" \in sm_state /\ Fits(m, "INITIAL_STATE")
    BY <1>2 DEF Fits, sm_state, BadStates, Registering
<1>4. time_sorted_list \in Seq(Good)
    BY DEF QueueInv
<1>5. insert_new_message(time_sorted_list, m, "INITIAL_STATE") \in Seq(Good)
    BY <1>2, <1>3, <1>4, InsertGood
<1>6. time_sorted_list' \in Seq(Good)
    BY <1>5 DEF ReceiveRequest, m
<1>7. requests' \in 0..MaxRequests
    BY BoundsAssumption DEF ReceiveRequest, QueueInv
<1>8. QED
    BY <1>6, <1>7 DEF ReceiveRequest, QueueInv, SentOK

\* An answer that is queued keeps the list good.
LEMMA ResponseGood ==
    ASSUME QueueInv, CanAllocate, NEW from \in Address, NEW qtag \in Tags,
           NEW gen \in Nat, gen <= 1 \/ (gen = 2 /\ from = "bounce"),
           NEW status \in Statuses
    PROVE  insert_new_message(time_sorted_list,
             [NewMessage(NewId, "RESPONSE", from, "none", qtag, gen)
                EXCEPT !.status = status], "INITIAL_STATE") \in Seq(Good)
<1> DEFINE b == NewMessage(NewId, "RESPONSE", from, "none", qtag, gen)
           m == [b EXCEPT !.status = status]
<1>1. /\ NewId \in Ids /\ "RESPONSE" \in RequestMethods \cup {"RESPONSE"}
      /\ "none" \in Address
    BY NewIdInIds DEF Address
<1>2. b \in Message /\ b.method = "RESPONSE" /\ b.gen = gen /\ Bounded(b)
    BY <1>1, NewMessageType
<1> HIDE DEF b
<1>3. m \in Message /\ m.method = "RESPONSE" /\ Bounded(m)
    BY <1>2 DEF Message, Bounded
<1> HIDE DEF m
<1>4. "INITIAL_STATE" \in sm_state /\ Fits(m, "INITIAL_STATE")
    BY <1>3 DEF Fits, sm_state, BadStates, Registering
<1>5. time_sorted_list \in Seq(Good)
    BY DEF QueueInv
<1>6. insert_new_message(time_sorted_list, m, "INITIAL_STATE") \in Seq(Good)
    BY <1>3, <1>4, <1>5, InsertGood
<1>7. QED
    BY <1>6 DEF m, b

\* An answer comes.
LEMMA ReceiveResponseInv ==
    ASSUME QueueInv, NEW s \in sent, NEW status \in Statuses, ReceiveResponse(s, status)
    PROVE  QueueInv'
<1>1. /\ s.from \in Address /\ s.qtag \in Tags /\ s.gen \in Nat
      /\ s.gen <= 1 \/ (s.gen = 2 /\ s.from = "bounce")
    BY DEF QueueInv, SentOK, SentRecord
<1>2. CanAllocate
    BY DEF ReceiveResponse
<1>3. insert_new_message(time_sorted_list,
        [NewMessage(NewId, "RESPONSE", s.from, "none", s.qtag, s.gen)
           EXCEPT !.status = status], "INITIAL_STATE") \in Seq(Good)
    BY <1>1, <1>2, ResponseGood, Zenon
<1>4. time_sorted_list' \in Seq(Good)
    BY <1>3 DEF ReceiveResponse
<1>5. responses' \in 0..MaxResponses
    BY BoundsAssumption DEF ReceiveResponse, QueueInv
<1>6. QED
    BY <1>4, <1>5 DEF ReceiveResponse, QueueInv, SentOK

\* Each case of process_timeout() that gives the head, as m, the state s.
LEMMA PlainMoves ==
    ASSUME QueueInv,
           \/ InvalidMethod \/ ShortCodeError \/ ShortCodeDone
           \/ lookup_from_address_error \/ lookup_uri_imsi_error
           \/ lookup_uri_imsi_punt
    PROVE  QueueInv'
<1>1. ASSUME InvalidMethod PROVE QueueInv'
    BY <1>1, HeadFacts, EndStep DEF InvalidMethod, NewRequest
<1>2. ASSUME ShortCodeError PROVE QueueInv'
    BY <1>2, HeadFacts, EndStep DEF ShortCodeError, ShortCode, NewRequest
<1>3. ASSUME ShortCodeDone PROVE QueueInv'
    BY <1>3, HeadFacts, EndStep DEF ShortCodeDone, ShortCode, NewRequest
<1>4. ASSUME lookup_from_address_error PROVE QueueInv'
    <2>1. /\ time_sorted_list # <<>> /\ Fits(First, First.state)
          /\ First.state \in BadStates \cup {"REQUEST_FROM_ADDRESS_LOOKUP"}
        BY <1>4, HeadFacts DEF lookup_from_address_error
    <2>2. FromLookupHead = First
        BY <2>1 DEF FromLookupHead, Fits
    <2>3. QED
        BY <1>4, <2>1, <2>2, EndStep DEF lookup_from_address_error
<1>5. ASSUME lookup_uri_imsi_error PROVE QueueInv'
    BY <1>5, HeadFacts, EndStep DEF lookup_uri_imsi_error, UriLookup
<1>6. ASSUME lookup_uri_imsi_punt PROVE QueueInv'
    BY <1>6, HeadFacts, EndStep DEF lookup_uri_imsi_punt, UnknownNumber, UriLookup
<1>7. QED
    BY <1>1, <1>2, <1>3, <1>4, <1>5, <1>6

\* A message from outside may run as a short code or wait for a registration.
LEMMA FitsFresh ==
    ASSUME NEW m, m.method = "MESSAGE", m.gen = 0,
           NEW s \in {"INITIAL_STATE", "REQUEST_FROM_ADDRESS_LOOKUP",
                      "AWAITING_REGISTER_HANDSET", "ASKED_TO_REGISTER_HANDSET"}
    PROVE  s \in sm_state /\ Fits(m, s)
BY DEF Fits, BadStates, Registering, sm_state

\* What is not a response may be on its way out.
LEMMA FitsOutgoing ==
    ASSUME NEW m, m.method # "RESPONSE",
           NEW s \in {"REQUEST_DESTINATION_SIPURL", "REQUEST_MSG_DELIVERY",
                      "ASKED_FOR_MSG_DELIVERY", "AWAITING_TRY_MSG_DELIVERY"}
    PROVE  s \in sm_state /\ Fits(m, s)
BY DEF Fits, BadStates, Registering, sm_state

\* A message that is about to run as a short code came from outside.
LEMMA ShortCodeHead ==
    ASSUME QueueInv, NewRequest
    PROVE  First.gen = 0
<1>1. Fits(First, First.state) /\ First.state = "INITIAL_STATE"
    BY HeadFacts DEF NewRequest
<1>2. QED
    BY <1>1 DEF Fits, NewRequest

\* The moves of a message that is being run for the first time.
LEMMA FreshMoves ==
    ASSUME QueueInv,
           OrdinaryMessage \/ ShortCodeRetry \/ ShortCodeAwaitRegister
    PROVE  QueueInv'
<1>1. ASSUME OrdinaryMessage PROVE QueueInv'
    BY <1>1, HeadFacts, ShortCodeHead, FitsFresh, MoveStep
       DEF OrdinaryMessage, NewRequest
<1>2. ASSUME ShortCodeRetry PROVE QueueInv'
    <2> DEFINE a == [First EXCEPT !.retries = @ + 1]
               m == [a EXCEPT !.again = TRUE]
    <2>1. /\ time_sorted_list # <<>> /\ First \in Message /\ Bounded(First)
          /\ First.method = "MESSAGE" /\ First.gen = 0
        BY <1>2, HeadFacts, ShortCodeHead DEF ShortCodeRetry, ShortCode, NewRequest
    <2>2. a \in Message /\ Bounded(a) /\ a.method = "MESSAGE" /\ a.gen = 0
        BY <2>1, MaxRetriesAssumption DEF Message, Bounded
    <2>3. m = [First EXCEPT !.retries = @ + 1, !.again = TRUE]
        BY <2>1 DEF Message
    <2> HIDE DEF a
    <2>4. m \in Message /\ Bounded(m) /\ m.method = "MESSAGE" /\ m.gen = 0
        BY <2>2 DEF Message, Bounded
    <2>5. Move(Others, m, "REQUEST_FROM_ADDRESS_LOOKUP") /\ ListOnly
        BY <1>2, <2>3 DEF ShortCodeRetry
    <2> HIDE DEF m
    <2>6. QED
        BY <2>1, <2>4, <2>5, FitsFresh, MoveStep
<1>3. ASSUME ShortCodeAwaitRegister PROVE QueueInv'
    BY <1>3, HeadFacts, ShortCodeHead, FitsFresh, MoveStep
       DEF ShortCodeAwaitRegister, ShortCode, NewRequest
<1>4. QED
    BY <1>1, <1>2, <1>3

\* SCA_RESTART_PROCESSING: the message goes on as one to another recipient.
LEMMA ShortCodeRestartInv ==
    ASSUME QueueInv, NEW uri \in Targets, ShortCodeRestart(uri)
    PROVE  QueueInv'
<1> DEFINE m == [First EXCEPT !.uri = uri]
<1>1. /\ time_sorted_list # <<>> /\ First \in Message /\ Bounded(First)
      /\ First.method = "MESSAGE" /\ First.gen = 0
    BY HeadFacts, ShortCodeHead DEF ShortCodeRestart, ShortCode, NewRequest
<1>2. m \in Message /\ Bounded(m) /\ m.method = "MESSAGE" /\ m.gen = 0
    BY <1>1, AddressAssumption, MaxRetriesAssumption DEF Message, Bounded
<1>3. Move(Others, m, "INITIAL_STATE") /\ ListOnly
    BY DEF ShortCodeRestart
<1> HIDE DEF m
<1>4. QED
    BY <1>1, <1>2, <1>3, FitsFresh, MoveStep

\* The reply of a short code to what came from outside.
LEMMA ReplyGood ==
    ASSUME QueueInv, NewRequest, First.uri \in ShortCodes, CanAllocate,
           NEW q \in Seq(Good), NEW n \in OwnNumbers
    PROVE  Reply(q, n) \in Seq(Good)
<1>1. First \in Message /\ First.gen = 0
    BY HeadFacts, ShortCodeHead DEF NewRequest
<1>2. First.uri \in Address /\ First.from \in Address
    BY <1>1 DEF Message
<1>3. First.gen + 1 \in Nat /\ First.gen + 1 <= 1
    BY <1>1
<1>4. QED
    BY <1>2, <1>3, OriginateSmGood DEF Reply

\* SCA_REPLY: the command is answered.
LEMMA ShortCodeReplyInv ==
    ASSUME QueueInv, NEW n \in OwnNumbers, ShortCodeReply(n)
    PROVE  QueueInv'
<1>1. NewRequest /\ First.uri \in ShortCodes /\ CanAllocate /\ ListOnly
    BY DEF ShortCodeReply, ShortCode
<1>2. First \in Message /\ Bounded(First) /\ Others \in Seq(Good)
    BY <1>1, HeadFacts DEF NewRequest
<1>3. Reply(Others, n) \in Seq(Good)
    BY <1>1, <1>2, ReplyGood
<1>4. Move(Reply(Others, n), First, "DELETE_ME_STATE")
    BY DEF ShortCodeReply
<1>5. time_sorted_list' \in Seq(Good)
    BY <1>2, <1>3, <1>4, FitsEnd, MoveGood
<1>6. QED
    BY <1>1, <1>5, ListStep

\* The zap command deletes another message.
LEMMA ShortCodeZapInv ==
    ASSUME QueueInv, NEW tag \in Tags, NEW n \in OwnNumbers, ShortCodeZap(tag, n)
    PROVE  QueueInv'
<1> DEFINE j == find_queued_msg_by_tag(Others, tag)
           rest == RemoveAt(Others, j)
<1>1. NewRequest /\ First.uri \in ShortCodes /\ ListOnly /\ j # 0
    BY DEF ShortCodeZap, ShortCode
<1>2. First \in Message /\ Bounded(First) /\ Others \in Seq(Good)
    BY <1>1, HeadFacts DEF NewRequest
<1>3. j \in 1..Len(Others)
    BY <1>1, <1>2, FindInRange, LenProperties
<1>4. rest \in Seq(Good)
    BY <1>2, <1>3, RemoveAtInSeq
<1>5. \/ Move(rest, First, "DELETE_ME_STATE")
      \/ CanAllocate /\ Move(Reply(rest, n), First, "DELETE_ME_STATE")
    BY DEF ShortCodeZap
<1> HIDE DEF rest
<1>6. CanAllocate => Reply(rest, n) \in Seq(Good)
    BY <1>1, <1>4, ReplyGood
<1>7. time_sorted_list' \in Seq(Good)
    BY <1>2, <1>4, <1>5, <1>6, FitsEnd, MoveGood
<1>8. QED
    BY <1>1, <1>7, ListStep

\* register_handset() for the head, as m, which came from outside.
LEMMA RegisterHandsetInv ==
    ASSUME QueueInv, time_sorted_list # <<>>, NEW m \in Message, Bounded(m),
           m.method = "MESSAGE", m.gen = 0, register_handset(m)
    PROVE  QueueInv'
<1>1. Others \in Seq(Good)
    BY HeadGood
<1>2. register_call_seq < MaxRegister
    BY DEF register_handset
<1>3. CASE CanAllocate /\ Move(originate_register(Others, m), m, "ASKED_TO_REGISTER_HANDSET")
    <2>1. originate_register(Others, m) \in Seq(Good)
        BY <1>1, <1>2, <1>3, RegisterGood
    <2>2. time_sorted_list' \in Seq(Good)
        BY <1>3, <2>1, FitsFresh, MoveGood
    <2>3. QED
        BY <2>2, <1>2, BoundsAssumption DEF register_handset, QueueInv, SentOK
<1>4. CASE Move(Others, m, "DELETE_ME_STATE")
    <2>1. time_sorted_list' \in Seq(Good)
        BY <1>1, <1>4, FitsEnd, MoveGood
    <2>2. QED
        BY <2>1, <1>2, BoundsAssumption DEF register_handset, QueueInv, SentOK
<1>5. QED
    BY <1>3, <1>4 DEF register_handset

\* Only a user's own MESSAGE waits for a registration.
LEMMA RegisteringHead ==
    ASSUME QueueInv, NEW S \in SUBSET Registering, HeadIn(S)
    PROVE  First.method = "MESSAGE" /\ First.gen = 0
<1>1. First.state \in S /\ Fits(First, First.state)
    BY HeadFacts
<1>2. QED
    BY <1>1 DEF Fits

\* The steps of a registration, up to its REGISTER.
LEMMA RegistrationMoves ==
    ASSUME QueueInv,
           \/ ShortCodeRegister \/ NotReadyToRegister
           \/ RegisterHandset \/ RegisterTimeout
    PROVE  QueueInv'
<1>1. ASSUME ShortCodeRegister PROVE QueueInv'
    BY <1>1, HeadFacts, ShortCodeHead, RegisterHandsetInv
       DEF ShortCodeRegister, ShortCode, NewRequest
<1>2. ASSUME NotReadyToRegister PROVE QueueInv'
    <2>1. First.method = "MESSAGE" /\ First.gen = 0
        BY <1>2, RegisteringHead DEF NotReadyToRegister, Registering
    <2>2. QED
        BY <1>2, <2>1, HeadFacts, FitsFresh, MoveStep DEF NotReadyToRegister
<1>3. ASSUME RegisterHandset PROVE QueueInv'
    <2> DEFINE m == IF First.state = "AWAITING_REGISTER_HANDSET"
                    THEN Restate(First, "REGISTER_HANDSET") ELSE First
    <2>1. /\ First.method = "MESSAGE" /\ First.gen = 0
          /\ time_sorted_list # <<>> /\ First \in Message /\ Bounded(First)
        BY <1>3, HeadFacts, RegisteringHead DEF RegisterHandset, Registering
    <2>2. "REGISTER_HANDSET" \in sm_state
        BY DEF sm_state
    <2> DEFINE r == Restate(First, "REGISTER_HANDSET")
    <2>3. /\ r \in Message /\ r.method = "MESSAGE" /\ r.gen = 0 /\ r.from = First.from
          /\ r.sends = First.sends /\ r.retries = First.retries
        BY <2>1, <2>2, RestateType
    <2> HIDE DEF r
    <2>4. Bounded(r)
        BY <2>1, <2>3 DEF Bounded
    <2>5. m \in Message /\ Bounded(m) /\ m.method = "MESSAGE" /\ m.gen = 0
        BY <2>1, <2>3, <2>4 DEF r
    <2>6. register_handset(m)
        BY <1>3 DEF RegisterHandset
    <2> HIDE DEF m
    <2>7. QED
        BY <2>1, <2>5, <2>6, RegisterHandsetInv
<1>4. ASSUME RegisterTimeout PROVE QueueInv'
    <2>1. First.method = "MESSAGE" /\ First.gen = 0
        BY <1>4, RegisteringHead DEF RegisterTimeout, Registering
    <2>2. QED
        BY <1>4, <2>1, HeadFacts, FitsFresh, MoveStep DEF RegisterTimeout
<1>5. QED
    BY <1>1, <1>2, <1>3, <1>4

\* The From becomes a phone number, or stays what it is.
LEMMA SenderLookupInv ==
    ASSUME QueueInv, NEW from \in Address, lookup_from_address(from)
    PROVE  QueueInv'
<1> DEFINE m == [First EXCEPT !.from = from]
<1>1. /\ time_sorted_list # <<>> /\ First \in Message /\ Bounded(First)
      /\ Fits(First, First.state)
      /\ First.state \in BadStates \cup {"REQUEST_FROM_ADDRESS_LOOKUP"}
    BY HeadFacts DEF lookup_from_address
<1>2. FromLookupHead = First
    BY <1>1 DEF FromLookupHead, Fits
<1>3. from = First.from \/ First.from = "imsi"
    BY DEF lookup_from_address, IsImsi
<1>4. m \in Message /\ Bounded(m)
    BY <1>1, <1>3, MaxRetriesAssumption DEF Message, Bounded
<1>5. Move(Others, m, "REQUEST_DESTINATION_IMSI") /\ ListOnly
    BY <1>2 DEF lookup_from_address
<1> HIDE DEF m
<1>6. QED
    BY <1>1, <1>4, <1>5, FitsEnd, MoveStep

\* The destination is not here: the message goes to the relay.
LEMMA RelayInv ==
    ASSUME QueueInv, NEW from \in Address, lookup_uri_imsi_relay(from)
    PROVE  QueueInv'
<1> DEFINE m == [First EXCEPT !.from = from]
<1>1. /\ time_sorted_list # <<>> /\ First \in Message /\ Bounded(First)
      /\ First.method # "RESPONSE"
    BY HeadFacts DEF lookup_uri_imsi_relay, UnknownNumber, UriLookup
<1>2. from = First.from \/ First.from = "imsi"
    BY DEF lookup_uri_imsi_relay
<1>3. m \in Message /\ Bounded(m) /\ m.method # "RESPONSE"
    BY <1>1, <1>2, MaxRetriesAssumption DEF Message, Bounded
<1>4. Move(Others, m, "REQUEST_DESTINATION_SIPURL") /\ ListOnly
    BY DEF lookup_uri_imsi_relay
<1> HIDE DEF m
<1>5. QED
    BY <1>1, <1>3, <1>4, FitsOutgoing, MoveStep

\* The destination has been found.
LEMMA DestinationMoves ==
    ASSUME QueueInv, lookup_uri_imsi \/ lookup_uri_hostport
    PROVE  QueueInv'
<1>1. ASSUME lookup_uri_imsi PROVE QueueInv'
    <2> DEFINE m == [First EXCEPT !.uri = "imsi"]
    <2>1. /\ time_sorted_list # <<>> /\ First \in Message /\ Bounded(First)
          /\ First.method # "RESPONSE"
        BY <1>1, HeadFacts DEF lookup_uri_imsi, UriLookup
    <2>2. m \in Message /\ Bounded(m) /\ m.method # "RESPONSE"
        BY <2>1, MaxRetriesAssumption DEF Message, Bounded, Address
    <2>3. Move(Others, m, "REQUEST_DESTINATION_SIPURL") /\ ListOnly
        BY <1>1 DEF lookup_uri_imsi
    <2> HIDE DEF m
    <2>4. QED
        BY <2>1, <2>2, <2>3, FitsOutgoing, MoveStep
<1>2. ASSUME lookup_uri_hostport PROVE QueueInv'
    <2>1. /\ time_sorted_list # <<>> /\ First \in Message /\ Bounded(First)
          /\ Fits(First, "REQUEST_DESTINATION_SIPURL")
        BY <1>2, HeadFacts DEF lookup_uri_hostport
    <2>2. First.method # "RESPONSE"
        BY <2>1 DEF Fits
    <2> DEFINE s == IF First.uri = "none" THEN "NO_STATE" ELSE "REQUEST_MSG_DELIVERY"
    <2>3. Move(Others, First, s) /\ ListOnly
        BY <1>2 DEF lookup_uri_hostport
    <2>4. s \in sm_state /\ Fits(First, s)
        BY <2>2, FitsOutgoing, FitsEnd
    <2> HIDE DEF s
    <2>5. QED
        BY <2>1, <2>3, <2>4, MoveStep
<1>3. QED
    BY <1>1, <1>2

\* bounce_message() from the Request-URI lookup.
LEMMA LookupBounceInv ==
    ASSUME QueueInv, NEW n \in OwnNumbers, lookup_uri_imsi_bounce(n)
    PROVE  QueueInv'
<1>1. MayBounce(First) /\ CanAllocate /\ ListOnly
    BY DEF lookup_uri_imsi_bounce
<1>2. First \in Good /\ First \in Message /\ Bounded(First) /\ Others \in Seq(Good)
    BY HeadFacts DEF lookup_uri_imsi_bounce, UnknownNumber, UriLookup
<1>3. originate_bounce(Others, First, n) \in Seq(Good)
    BY <1>1, <1>2, BounceGood
<1>4. Move(originate_bounce(Others, First, n), First, "DELETE_ME_STATE")
    BY DEF lookup_uri_imsi_bounce
<1>5. time_sorted_list' \in Seq(Good)
    BY <1>2, <1>3, <1>4, FitsEnd, MoveGood
<1>6. QED
    BY <1>1, <1>5, ListStep

\* The head as it stands when its try has been counted.
LEMMA TryFacts ==
    ASSUME QueueInv, Delivery
    PROVE  /\ time_sorted_list # <<>> /\ First \in Message /\ Others \in Seq(Good)
           /\ Bounded(First) /\ First.method # "RESPONSE"
           /\ Try \in Message /\ Bounded(Try) /\ Try.method # "RESPONSE"
           /\ Try.from = First.from /\ Try.gen = First.gen
           /\ Try.sends < Try.retries
           /\ Try.state = "REQUEST_MSG_DELIVERY" /\ Fits(Try, Try.state)
<1>1. /\ time_sorted_list # <<>> /\ First \in Message /\ Others \in Seq(Good)
      /\ Bounded(First) /\ Fits(First, First.state)
      /\ First.state \in {"AWAITING_TRY_MSG_DELIVERY", "REQUEST_MSG_DELIVERY"}
    BY HeadFacts DEF Delivery
<1>2. First.method # "RESPONSE"
    BY <1>1 DEF Fits
<1> DEFINE r == Restate(First, "REQUEST_MSG_DELIVERY")
           m == IF First.state = "AWAITING_TRY_MSG_DELIVERY" THEN r ELSE First
<1>3. /\ r \in Message /\ r.state = "REQUEST_MSG_DELIVERY" /\ r.method = First.method
      /\ r.gen = First.gen /\ r.from = First.from
      /\ r.sends = First.sends /\ r.retries = First.retries
    BY <1>1, FitsOutgoing, <1>2, RestateType
<1> HIDE DEF r
<1>4. /\ m \in Message /\ m.state = "REQUEST_MSG_DELIVERY" /\ m.method = First.method
      /\ m.gen = First.gen /\ m.from = First.from
      /\ m.sends = First.sends /\ m.retries = First.retries
    BY <1>1, <1>3
<1>5. Try = [m EXCEPT !.retries = @ + 1]
    BY DEF Try, r
<1> HIDE DEF m
<1>6. /\ Try \in Message /\ Try.state = "REQUEST_MSG_DELIVERY"
      /\ Try.method = First.method /\ Try.gen = First.gen /\ Try.from = First.from
      /\ Try.sends = First.sends /\ Try.retries = First.retries + 1
    BY <1>4, <1>5 DEF Message
<1>7. First.sends \in Nat /\ First.retries \in Nat /\ First.sends <= First.retries
    BY <1>1 DEF Message, Bounded
<1>8. Bounded(Try) /\ Try.sends < Try.retries
    BY <1>1, <1>6, <1>7, MaxRetriesAssumption DEF Bounded
<1>9. Fits(Try, Try.state)
    BY <1>2, <1>6, FitsOutgoing
<1>10. QED
    BY <1>1, <1>2, <1>6, <1>8, <1>9

\* A message cannot be packed, or its retries are used up.
LEMMA DeliveryEnds ==
    ASSUME QueueInv, pack_sms_for_delivery_error \/ GiveUp
    PROVE  QueueInv'
<1>1. ASSUME pack_sms_for_delivery_error PROVE QueueInv'
    BY <1>1, TryFacts, FitsEnd, MoveStep DEF pack_sms_for_delivery_error
<1>2. ASSUME GiveUp PROVE QueueInv'
    BY <1>2, TryFacts, FitsEnd, MoveStep DEF GiveUp
<1>3. QED
    BY <1>1, <1>2

\* A message that is held back by the rate limiter keeps its state.
LEMMA RateLimitedInv ==
    ASSUME QueueInv, RateLimited
    PROVE  QueueInv'
<1> DEFINE at == IF First.state = "REQUEST_MSG_DELIVERY" THEN 1
                 ELSE Slot(Others, Try.due)
<1>1. Delivery /\ ListOnly
    BY DEF RateLimited
<1>2. /\ Others \in Seq(Good) /\ Try \in Message /\ Bounded(Try)
      /\ Fits(Try, Try.state)
    BY <1>1, TryFacts
<1>3. at \in 1..(Len(Others) + 1)
    <2>1. 1 \in 1..(Len(Others) + 1)
        BY <1>2, LenProperties
    <2>2. Slot(Others, Try.due) \in 1..(Len(Others) + 1)
        BY <1>2, SlotInRange
    <2>3. QED
        BY <2>1, <2>2
<1>4. Try.due \in Int /\ RateTicks \in Nat
    BY <1>2, TimeoutAssumption DEF Message
<1>5. PICK due \in (IF Try.due < 0 THEN -1 ELSE RateTicks)..(Try.due + RateTicks) :
        time_sorted_list' = InsertAt(Others, at, [Try EXCEPT !.due = due])
    BY DEF RateLimited
<1>6. due \in Int
    BY <1>4, <1>5
<1> DEFINE m == [Try EXCEPT !.due = due]
<1>7. /\ m \in Message /\ m.state = Try.state /\ m.method = Try.method
      /\ m.gen = Try.gen /\ m.from = Try.from
      /\ m.sends = Try.sends /\ m.retries = Try.retries
    BY <1>2, <1>6 DEF Message
<1> HIDE DEF m, at
<1>8. Bounded(m) /\ Fits(m, m.state)
    BY <1>2, <1>7 DEF Bounded, Fits
<1>9. m \in Good
    BY <1>7, <1>8 DEF Good
<1>10. InsertAt(Others, at, m) \in Seq(Good)
    BY <1>2, <1>3, <1>9, InsertAtInSeq
<1>11. time_sorted_list' \in Seq(Good)
    BY <1>5, <1>10 DEF m
<1>12. QED
    BY <1>1, <1>11, ListStep

\* The datagram sent is one of the tries that SMS.MaxRetries allows.
LEMMA DeliverInv ==
    ASSUME QueueInv, deliver_msg_datagram
    PROVE  QueueInv'
<1> DEFINE m == [Try EXCEPT !.sends = @ + 1]
<1>1. Delivery /\ ~RetriesExceeded
    BY DEF deliver_msg_datagram
<1>2. /\ Others \in Seq(Good) /\ First \in Message /\ Bounded(First)
      /\ Try \in Message /\ Bounded(Try) /\ Try.method # "RESPONSE"
      /\ Try.sends < Try.retries
    BY <1>1, TryFacts
<1>3. Try.sends \in Nat /\ Try.retries \in Nat
    BY <1>2 DEF Message
<1>4. /\ m \in Message /\ m.method # "RESPONSE" /\ m.gen = Try.gen
      /\ m.from = Try.from /\ m.retries = Try.retries /\ m.sends = Try.sends + 1
    <2>1. Try.sends + 1 \in Nat
        BY <1>3
    <2>2. m \in Message
        BY <1>2, <2>1 DEF Message
    <2>3. QED
        BY <1>2, <2>2 DEF Message
<1>5. Move(Others, m, "ASKED_FOR_MSG_DELIVERY")
    BY DEF deliver_msg_datagram
<1> HIDE DEF m
<1>6. MaxRetries # 0 => Try.retries <= MaxRetries
    BY <1>1, <1>3, MaxRetriesAssumption DEF RetriesExceeded
<1>7. Bounded(m)
    BY <1>2, <1>3, <1>4, <1>6, MaxRetriesAssumption DEF Bounded
<1>8. time_sorted_list' \in Seq(Good)
    BY <1>2, <1>4, <1>5, <1>7, FitsOutgoing, MoveGood
<1> DEFINE b == First.old /\ First.method = "REGISTER"
           r == [qtag |-> First.qtag, from |-> First.from, gen |-> First.gen, stale |-> b]
<1>9. SentOK(r)
    <2>1. b \in BOOLEAN
        BY Zenon
    <2> HIDE DEF b
    <2>2. QED
        BY <1>2, <2>1 DEF SentOK, SentRecord, Message, Bounded
<1>10. sent' = sent \cup {r}
    BY DEF deliver_msg_datagram
<1> HIDE DEF r
<1>11. \A s \in sent' : SentOK(s)
    BY <1>9, <1>10 DEF QueueInv
<1>12. spacing' \in 0..(RateTicks + 1)
    BY TimeoutAssumption DEF deliver_msg_datagram, QueueInv
<1>13. QED
    BY <1>8, <1>11, <1>12 DEF deliver_msg_datagram, QueueInv, SentOK

\* A message without an answer is tried again.
LEMMA NoAnswerInv ==
    ASSUME QueueInv, NoAnswer
    PROVE  QueueInv'
<1>1. /\ time_sorted_list # <<>> /\ First \in Message /\ Bounded(First)
      /\ Fits(First, "ASKED_FOR_MSG_DELIVERY")
    BY HeadFacts DEF NoAnswer
<1>2. First.method # "RESPONSE"
    BY <1>1 DEF Fits
<1>3. QED
    BY <1>1, <1>2, FitsOutgoing, MoveStep DEF NoAnswer

\* A message of the list is good, and may be replaced by a good one.
LEMMA ReplaceGood ==
    ASSUME NEW q \in Seq(Good), NEW k \in 1..Len(q)
    PROVE  /\ q[k] \in Good /\ q[k] \in Message
           /\ Bounded(q[k]) /\ Fits(q[k], q[k].state)
           /\ \A e \in Good : /\ [q EXCEPT ![k] = e] \in Seq(Good)
                              /\ Len([q EXCEPT ![k] = e]) = Len(q)
BY ElementOfSeq, ExceptSeq DEF Good

\* The request that a response is matched with is one of the others.
LEMMA AnsweredFacts ==
    ASSUME QueueInv, NewResponse, Answered # 0
    PROVE  Others \in Seq(Good) /\ Answered \in 1..Len(Others)
<1>1. Others \in Seq(Good)
    BY HeadFacts DEF NewResponse
<1>2. Answered \in 0..Len(Others) /\ Len(Others) \in Nat
    BY <1>1, FindInRange, LenProperties DEF Answered
<1>3. QED
    BY <1>1, <1>2

\* Restating the answered request where it stands.
LEMMA RestateAnswered ==
    ASSUME QueueInv, NewResponse, Answered # 0,
           NEW s \in {"NO_STATE", "DELETE_ME_STATE", "REQUEST_DESTINATION_IMSI"}
    PROVE  [Others EXCEPT ![Answered] = Restate(@, s)] \in Seq(Good)
<1>1. /\ Others \in Seq(Good) /\ Answered \in 1..Len(Others)
      /\ Others[Answered] \in Message /\ Bounded(Others[Answered])
    BY AnsweredFacts, ReplaceGood
<1>2. s \in sm_state /\ Fits(Others[Answered], s)
    BY FitsEnd
<1>3. Restate(Others[Answered], s) \in Good
    BY <1>1, <1>2, RestateGood
<1>4. QED
    BY <1>1, <1>3, ReplaceGood

\* An answer that is for nothing in the queue, and a message that is to be deleted.
LEMMA ResponseDrops ==
    ASSUME QueueInv, ResponseUnmatched \/ ResponseUnknown \/ Discard
    PROVE  QueueInv'
<1>1. ASSUME ResponseUnmatched PROVE QueueInv'
    BY <1>1, HeadFacts, ListStep DEF ResponseUnmatched, NewResponse
<1>2. ASSUME ResponseUnknown PROVE QueueInv'
    BY <1>2, HeadFacts, ListStep DEF ResponseUnknown, NewResponse
<1>3. ASSUME Discard PROVE QueueInv'
    BY <1>3, HeadFacts, ListStep DEF Discard
<1>4. QED
    BY <1>1, <1>2, <1>3

\* A provisional answer makes its message wait.
LEMMA AckInv ==
    ASSUME QueueInv, increase_acked_msg_timeout
    PROVE  QueueInv'
<1>1. NewResponse /\ Answered # 0 /\ ListOnly
    BY DEF increase_acked_msg_timeout
<1> DEFINE k == Answered
           m == Others[k]
           e == [m EXCEPT !.due = AckedTimeout]
<1>2. /\ Others \in Seq(Good) /\ k \in 1..Len(Others)
      /\ m \in Message /\ Bounded(m) /\ Fits(m, m.state)
    BY <1>1, AnsweredFacts, ReplaceGood
<1> HIDE DEF k
<1>3. [Others EXCEPT ![k].due = AckedTimeout] = [Others EXCEPT ![k] = e]
    OBVIOUS
<1> HIDE DEF m
<1>4. /\ e \in Message /\ e.state = m.state /\ e.method = m.method /\ e.gen = m.gen
      /\ e.from = m.from /\ e.sends = m.sends /\ e.retries = m.retries
    BY <1>2, TimeoutAssumption DEF Message
<1> HIDE DEF e
<1>5. Bounded(e) /\ Fits(e, e.state)
    BY <1>2, <1>4 DEF Bounded, Fits
<1>6. e \in Good
    BY <1>4, <1>5 DEF Good
<1>7. [Others EXCEPT ![k] = e] \in Seq(Good)
    BY <1>2, <1>6, ReplaceGood
<1>8. time_sorted_list' = [Others EXCEPT ![k].due = AckedTimeout]
    BY DEF increase_acked_msg_timeout, k
<1>9. QED
    BY <1>1, <1>3, <1>7, <1>8, ListStep

\* Running a registered handset's SMS again keeps the list good, and its length.
LEMMA RerunGood ==
    ASSUME NEW q \in Seq(Good), NEW m
    PROVE  RerunLinked(q, m) \in Seq(Good) /\ Len(RerunLinked(q, m)) = Len(q)
<1> DEFINE k == find_queued_msg_by_tag(q, m.linktag)
           e == Restate(q[k], "INITIAL_STATE")
<1>1. k \in 0..Len(q) /\ Len(q) \in Nat
    BY FindInRange, LenProperties
<1>2. CASE m.method = "REGISTER" /\ k # 0 /\ q[k].state \in Registering
    <2>1. k \in 1..Len(q)
        BY <1>1, <1>2
    <2>2. q[k] \in Message /\ Bounded(q[k]) /\ Fits(q[k], q[k].state)
        BY <2>1, ReplaceGood
    <2>3. q[k].method = "MESSAGE" /\ q[k].gen = 0
        BY <1>2, <2>2 DEF Fits
    <2>4. e \in Good
        BY <2>2, <2>3, FitsFresh, RestateGood
    <2>5. RerunLinked(q, m) = [q EXCEPT ![k] = e]
        BY <1>2 DEF RerunLinked
    <2> HIDE DEF e, k
    <2>6. QED
        BY <2>1, <2>4, <2>5, ReplaceGood
<1>3. CASE ~(m.method = "REGISTER" /\ k # 0 /\ q[k].state \in Registering)
    BY <1>3 DEF RerunLinked
<1>4. QED
    BY <1>2, <1>3

\* A final answer ends its message, or sends it elsewhere.
LEMMA ResponseMoves ==
    ASSUME QueueInv, ResponseDelivered \/ ResponsePunt \/ ResponseRelocate
    PROVE  QueueInv'
<1>1. ASSUME ResponseDelivered PROVE QueueInv'
    <2> DEFINE q == RerunLinked(Others, Others[Answered])
    <2>1. NewResponse /\ Answered # 0 /\ ListOnly
        BY <1>1 DEF ResponseDelivered
    <2>2. Others \in Seq(Good) /\ Answered \in 1..Len(Others)
        BY <2>1, AnsweredFacts
    <2>3. q \in Seq(Good) /\ Len(q) = Len(Others)
        BY <2>2, RerunGood
    <2>4. time_sorted_list' = RemoveAt(q, Answered)
        BY <1>1 DEF ResponseDelivered
    <2> HIDE DEF q
    <2>5. RemoveAt(q, Answered) \in Seq(Good)
        BY <2>2, <2>3, RemoveAtInSeq
    <2>6. QED
        BY <2>1, <2>4, <2>5, ListStep
<1>2. ASSUME ResponsePunt PROVE QueueInv'
    BY <1>2, RestateAnswered, ListStep DEF ResponsePunt, Refused
<1>3. ASSUME ResponseRelocate PROVE QueueInv'
    BY <1>3, RestateAnswered, ListStep DEF ResponseRelocate
<1>4. QED
    BY <1>1, <1>2, <1>3

\* A refusal bounces its message.
LEMMA ResponseBounceInv ==
    ASSUME QueueInv, NEW n \in OwnNumbers, ResponseBounce(n)
    PROVE  QueueInv'
<1> DEFINE q == [Others EXCEPT ![Answered] = Restate(@, "DELETE_ME_STATE")]
<1>1. /\ NewResponse /\ Answered # 0 /\ ListOnly
      /\ MayBounce(Others[Answered]) /\ CanAllocate
    BY DEF ResponseBounce, Refused
<1>2. q \in Seq(Good)
    BY <1>1, RestateAnswered
<1>3. Others[Answered] \in Good
    BY <1>1, AnsweredFacts, ReplaceGood
<1>4. time_sorted_list' = originate_bounce(q, Others[Answered], n)
    BY DEF ResponseBounce
<1> HIDE DEF q
<1>5. QED
    BY <1>1, <1>2, <1>3, <1>4, BounceGood, ListStep

\* The process stops or dies.
LEMMA StopInv ==
    ASSUME QueueInv,
           \/ ShortCodeStop \/ ShortCodeInfoCrash \/ ShortCodeZapCrash
           \/ lookup_uri_imsi_crash
    PROVE  QueueInv'
<1>1. ASSUME ShortCodeStop PROVE QueueInv'
    <2>1. First \in Message /\ Bounded(First) /\ Others \in Seq(Good)
        BY <1>1, HeadFacts DEF ShortCodeStop, ShortCode, NewRequest
    <2>2. time_sorted_list' \in Seq(Good)
        BY <1>1, <2>1, FitsEnd, MoveGood DEF ShortCodeStop
    <2>3. QED
        BY <1>1, <2>2 DEF ShortCodeStop, QueueInv, SentOK, Runs
<1>2. ASSUME ShortCodeInfoCrash PROVE QueueInv'
    BY <1>2 DEF ShortCodeInfoCrash, QueueInv, SentOK, Runs
<1>3. ASSUME ShortCodeZapCrash PROVE QueueInv'
    BY <1>3 DEF ShortCodeZapCrash, QueueInv, SentOK, Runs
<1>4. ASSUME lookup_uri_imsi_crash PROVE QueueInv'
    BY <1>4 DEF lookup_uri_imsi_crash, QueueInv, SentOK, Runs
<1>5. QED
    BY <1>1, <1>2, <1>3, <1>4

\* Time passes for what is still to be read, too.
LEMMA FileAges ==
    ASSUME QueueInv, Tick
    PROVE  /\ file' \in Seq(Saveable) /\ Len(file') = Len(file)
           /\ \A i \in 1..Len(file) : file'[i] = [file[i] EXCEPT !.due = Earlier(file[i].due)]
<1> DEFINE e(i) == [file[i] EXCEPT !.due = Earlier(@)]
<1>1. file \in Seq(Saveable) /\ Len(file) \in Nat /\ DOMAIN file = 1..Len(file)
    BY LenProperties DEF QueueInv
<1>2. ASSUME NEW i \in 1..Len(file) PROVE e(i) \in Saveable
    <2> DEFINE m == file[i]
               r == [m EXCEPT !.due = Earlier(@)]
    <2>1. m \in Saved /\ StateFitsKind(m) /\ ChainEnds(m)
        BY <1>1, ElementOfSeq DEF Saveable
    <2> HIDE DEF m
    <2>2. Earlier(m.due) \in Int
        BY <2>1 DEF Saved, Earlier
    <2>3. /\ r \in Saved /\ r.state = m.state /\ r.method = m.method /\ r.gen = m.gen
          /\ r.from = m.from
        BY <2>1, <2>2 DEF Saved
    <2> HIDE DEF r
    <2>4. StateFitsKind(r) /\ ChainEnds(r)
        BY <2>1, <2>3 DEF StateFitsKind, ChainEnds, BounceIsLast
    <2>5. r \in Saveable
        BY <2>3, <2>4 DEF Saveable
    <2>6. QED
        BY <2>5 DEF r, m
<1>3. file' = [i \in 1..Len(file) |-> e(i)]
    BY <1>1 DEF Tick
<1>4. \A i \in 1..Len(file) : e(i) = [file[i] EXCEPT !.due = Earlier(file[i].due)]
    OBVIOUS
<1> HIDE DEF e
<1>5. file' \in Seq(Saveable) /\ Len(file') = Len(file)
    BY <1>1, <1>2, <1>3
<1>6. QED
    BY <1>3, <1>4, <1>5

\* Time passes.
LEMMA TickInv ==
    ASSUME QueueInv, Tick
    PROVE  QueueInv'
<1> DEFINE q == time_sorted_list
           e(i) == [q[i] EXCEPT !.due = Earlier(@)]
<1>1. q \in Seq(Good) /\ Len(q) \in Nat /\ DOMAIN q = 1..Len(q)
    BY LenProperties DEF QueueInv
<1>2. ASSUME NEW i \in 1..Len(q) PROVE e(i) \in Good
    <2> DEFINE m == q[i]
               r == [m EXCEPT !.due = Earlier(@)]
    <2>1. m \in Message /\ Bounded(m) /\ Fits(m, m.state)
        BY <1>1, ReplaceGood
    <2> HIDE DEF m
    <2>2. Earlier(m.due) \in Int
        BY <2>1 DEF Message, Earlier
    <2>3. /\ r \in Message /\ r.state = m.state /\ r.method = m.method /\ r.gen = m.gen
          /\ r.from = m.from /\ r.sends = m.sends /\ r.retries = m.retries
        BY <2>1, <2>2 DEF Message
    <2> HIDE DEF r
    <2>4. Bounded(r) /\ Fits(r, r.state)
        BY <2>1, <2>3 DEF Bounded, Fits
    <2>5. r \in Good
        BY <2>3, <2>4 DEF Good
    <2>6. QED
        BY <2>5 DEF r, m
<1>3. time_sorted_list' = [i \in 1..Len(q) |-> e(i)]
    BY <1>1 DEF Tick
<1> HIDE DEF e
<1>4. time_sorted_list' \in Seq(Good)
    BY <1>1, <1>2, <1>3
<1>5. spacing' \in 0..(RateTicks + 1)
    <2>1. spacing' = IF RateLimit > 0 /\ RateTicks >= spacing THEN spacing + 1 ELSE spacing
        BY DEF Tick, TooSoon
    <2>2. RateTicks \in Nat /\ spacing \in 0..(RateTicks + 1)
        BY TimeoutAssumption DEF QueueInv
    <2>3. QED
        BY <2>1, <2>2
<1>6. file' \in Seq(Saveable)
    BY FileAges
<1>7. QED
    BY <1>4, <1>5, <1>6 DEF Tick, QueueInv, SentOK

-----------------------------------------------------------------------------
(* QueueInv is inductive.                                                  *)

\* The empty queue, and what an earlier process has left.
LEMMA InitInv == Init => QueueInv
<1> SUFFICES ASSUME Init PROVE QueueInv
    OBVIOUS
<1>1. time_sorted_list \in Seq(Good)
    BY EmptySeq DEF Init
<1>2. PICK l \in Legacies :
        file = l.file /\ sent = l.sent /\ requests = l.requests /\ responses = l.responses
    BY DEF Init
<1>3. /\ file \in Seq(Saved) /\ sent \subseteq SentRecord
      /\ requests \in 0..MaxRequests /\ responses \in 0..MaxResponses
      /\ \A i \in 1..Len(file) : StateFitsKind(file[i]) /\ ChainEnds(file[i])
      /\ \A s \in sent : BounceIsLast(s)
    BY <1>2, LegacyAssumption
<1>4. file \in Seq(Saveable)
    <2>1. ASSUME NEW i \in 1..Len(file) PROVE file[i] \in Saveable
        BY <1>3, <2>1, ElementOfSeq DEF Saveable
    <2>2. QED
        BY <1>3, <2>1, SeqDef, LenProperties
<1>5. \A s \in sent : SentOK(s)
    BY <1>3 DEF SentOK, BounceIsLast
<1>6. QED
    BY <1>1, <1>3, <1>4, <1>5, TimeoutAssumption, BoundsAssumption DEF Init, QueueInv, Runs

\* The reader loads a record, or queues a request or an answer.
LEMMA ReceiveInv ==
    ASSUME QueueInv, Receive
    PROVE  QueueInv'
BY ReadInv, ReceiveRequestInv, ReceiveResponseInv DEF Receive

\* The writer handles the head, in any of its states.
LEMMA ProcessTimeoutInv ==
    ASSUME QueueInv, process_timeout
    PROVE  QueueInv'
<1>1. CASE \/ InvalidMethod \/ ShortCodeError \/ ShortCodeDone
           \/ lookup_from_address_error \/ lookup_uri_imsi_error
           \/ lookup_uri_imsi_punt
    BY <1>1, PlainMoves
<1>2. CASE OrdinaryMessage \/ ShortCodeRetry \/ ShortCodeAwaitRegister
    BY <1>2, FreshMoves
<1>3. CASE \E n \in OwnNumbers :
             ShortCodeReply(n) \/ lookup_uri_imsi_bounce(n) \/ ResponseBounce(n)
    BY <1>3, ShortCodeReplyInv, LookupBounceInv, ResponseBounceInv
<1>4. CASE \E u \in Targets : ShortCodeRestart(u)
    BY <1>4, ShortCodeRestartInv
<1>5. CASE \E t \in Tags, n \in OwnNumbers : ShortCodeZap(t, n)
    BY <1>5, ShortCodeZapInv
<1>6. CASE \E f \in Address : lookup_from_address(f) \/ lookup_uri_imsi_relay(f)
    BY <1>6, SenderLookupInv, RelayInv
<1>7. CASE lookup_uri_imsi \/ lookup_uri_hostport
    BY <1>7, DestinationMoves
<1>8. CASE \/ ShortCodeStop \/ ShortCodeInfoCrash \/ ShortCodeZapCrash
           \/ lookup_uri_imsi_crash
    BY <1>8, StopInv
<1>9. CASE \/ pack_sms_for_delivery_error \/ GiveUp \/ RateLimited
           \/ deliver_msg_datagram \/ NoAnswer
    BY <1>9, DeliveryEnds, RateLimitedInv, DeliverInv, NoAnswerInv
<1>10. CASE \/ ShortCodeRegister \/ NotReadyToRegister
            \/ RegisterHandset \/ RegisterTimeout
    BY <1>10, RegistrationMoves
<1>11. CASE ResponseUnmatched \/ ResponseUnknown \/ Discard
    BY <1>11, ResponseDrops
<1>12. CASE increase_acked_msg_timeout
    BY <1>12, AckInv
<1>13. CASE ResponseDelivered \/ ResponsePunt \/ ResponseRelocate
    BY <1>13, ResponseMoves
<1>14. QED
    BY <1>1, <1>2, <1>3, <1>4, <1>5, <1>6, <1>7, <1>8, <1>9, <1>10, <1>11,
       <1>12, <1>13 DEF process_timeout

\* Each step keeps the invariant.
LEMMA StepInv == QueueInv /\ [Next]_vars => QueueInv'
<1> SUFFICES ASSUME QueueInv, [Next]_vars PROVE QueueInv'
    OBVIOUS
<1>1. CASE Receive
    BY <1>1, ReceiveInv
<1>2. CASE process_timeout
    BY <1>2, ProcessTimeoutInv
<1>3. CASE Tick
    BY <1>3, TickInv
<1>4. CASE UNCHANGED vars
    BY <1>4 DEF vars, QueueInv, SentOK
<1>5. QED
    BY <1>1, <1>2, <1>3, <1>4 DEF Next

\* QueueInv holds of every message at all times, however the reader, the writer
\* and the clock interleave.
THEOREM QueueInvariant == Spec => []QueueInv
<1>1. Init => QueueInv
    BY InitInv
<1>2. QueueInv /\ [Next]_vars => QueueInv'
    BY StepInv
<1>3. QED
    BY <1>1, <1>2, PTL DEF Spec

-----------------------------------------------------------------------------
(* The properties the runs check, for every value of the constants.        *)

\* The list holds messages only, and the counters stay within their bounds.
THEOREM TypeCorrect == Spec => []TypeOK
<1>1. QueueInv => TypeOK
    <2> SUFFICES ASSUME QueueInv PROVE TypeOK
        OBVIOUS
    <2>1. Len(time_sorted_list) \in Nat /\ time_sorted_list \in Seq(Good)
        BY LenProperties DEF QueueInv
    <2>2. \A i \in 1..Len(time_sorted_list) : time_sorted_list[i] \in Message
        BY <2>1, ReplaceGood
    <2>3. time_sorted_list \in Seq(Message)
        BY <2>1, <2>2, SeqDef, LenProperties
    <2>4. sent \subseteq SentRecord
        BY DEF QueueInv, SentOK
    <2>5. file \in Seq(Saved)
        <3>1. Saveable \subseteq Saved
            BY DEF Saveable
        <3>2. \A i \in 1..Len(file) : file[i] \in Saved
            BY <3>1, ElementOfSeq DEF QueueInv
        <3>3. QED
            BY <3>2, SeqDef, LenProperties DEF QueueInv
    <2>6. QED
        BY <2>3, <2>4, <2>5 DEF QueueInv, TypeOK
<1>2. QED
    BY <1>1, QueueInvariant, PTL

\* process_timeout() never meets a message in a state its switch has no case
\* for, and a message is never in a state that is not for its kind.
THEOREM StatesFit == Spec => []NoBadState
<1>1. QueueInv => NoBadState
    BY ReplaceGood DEF QueueInv, NoBadState, Each, StateFitsKind, Fits
<1>2. QED
    BY <1>1, QueueInvariant, PTL

\* bounce_message() and the short codes make no endless loops.
THEOREM BouncesEnd == Spec => []NoBounceLoop
<1>1. QueueInv => NoBounceLoop
    BY ReplaceGood DEF QueueInv, NoBounceLoop, Each, ChainEnds, BounceIsLast, Bounded, Fits
<1>2. QED
    BY <1>1, QueueInvariant, PTL

\* No message is handed to the network more than SMS.MaxRetries times.
THEOREM RetriesBoundSends == Spec => []SendsBounded
<1>1. QueueInv => SendsBounded
    BY ReplaceGood DEF QueueInv, SendsBounded, Each, Bounded
<1>2. QED
    BY <1>1, QueueInvariant, PTL

-----------------------------------------------------------------------------
(* The order of the list.  It need not be sorted: what is overdue may stand *)
(* anywhere before what waits.                                              *)

\* The columns of the table of timeouts in which a new message may enter.
LEMMA Columns ==
    /\ Column("INITIAL_STATE") = 2
    /\ Column("REQUEST_DESTINATION_IMSI") = 6
    /\ Column("REQUEST_DESTINATION_SIPURL") = 9
    /\ Column("REQUEST_MSG_DELIVERY") = 12
<1>1. Column("INITIAL_STATE") = 2
    BY DEF Column, sm_states
<1>2. Column("REQUEST_DESTINATION_IMSI") = 6
    BY DEF Column, sm_states
<1>3. Column("REQUEST_DESTINATION_SIPURL") = 9
    BY DEF Column, sm_states
<1>4. Column("REQUEST_MSG_DELIVERY") = 12
    BY DEF Column, sm_states
<1>5. QED
    BY <1>1, <1>2, <1>3, <1>4

\* A new message enters each of them as due at once.
LEMMA FreshIsDue ==
    ASSUME NEW s \in {"INITIAL_STATE", "REQUEST_DESTINATION_IMSI",
                      "REQUEST_DESTINATION_SIPURL", "REQUEST_MSG_DELIVERY"}
    PROVE  Timeout("NO_STATE", s) = 0
<1>1. Ticks[0] = 0
    BY TimeoutAssumption
<1>2. timeouts["NO_STATE"] = <<NT,  0,  0, NT,  NT,  0, NT,  NT,  0, NT,  NT,  0, NT,   0,  NT, NT, NT>>
    BY DEF timeouts
<1> DEFINE row == timeouts["NO_STATE"]
<1>3. row[2] = 0 /\ row[6] = 0 /\ row[9] = 0 /\ row[12] = 0
    BY <1>2
<1> HIDE DEF row
<1>4. row[Column(s)] = 0
    BY <1>3, Columns
<1>5. QED
    BY <1>4, <1>1 DEF Timeout, row

\* Nothing that waits stands before something that is due earlier.
Ordered(q) == \A i, j \in 1..Len(q) : i < j => q[i].due <= 0 \/ q[i].due <= q[j].due

\* A list in order, in which no answer waits to be looked at.
InOrder(q) == Ordered(q) /\ \A i \in 1..Len(q) : q[i].method # "RESPONSE"

\* What is still to be read of the save file goes in front of what was read.
FileInOrder ==
    /\ \A i, j \in 1..Len(file) : i < j => file[j].due <= 0 \/ file[j].due <= file[i].due
    /\ \A i \in 1..Len(file), j \in 1..Len(time_sorted_list) :
         file[i].due <= 0 \/ file[i].due <= time_sorted_list[j].due

OrderInv ==
    responses = 0 /\ RateLimit = 0 /\ SavedInOrder => InOrder(time_sorted_list) /\ FileInOrder

\* The times of the messages are numbers.
LEMMA DueIsInt ==
    ASSUME NEW q \in Seq(Good)
    PROVE  Len(q) \in Nat /\ \A i \in 1..Len(q) : q[i] \in Message /\ q[i].due \in Int
BY ReplaceGood, LenProperties DEF Message

\* Taking the head, or another message, out of the list.
LEMMA InOrderTail ==
    ASSUME NEW q \in Seq(Good), q # <<>>, InOrder(q)
    PROVE  InOrder(Tail(q))
<1>1. /\ Len(q) \in Nat /\ Len(Tail(q)) = Len(q) - 1
      /\ \A j \in 1..Len(Tail(q)) : Tail(q)[j] = q[j + 1]
    BY HeadTailProperties, LenProperties
<1>2. QED
    BY <1>1 DEF InOrder, Ordered

\* A list in order is in order without one of its messages.
LEMMA InOrderRemoveAt ==
    ASSUME NEW q \in Seq(Good), NEW k \in 1..Len(q), InOrder(q)
    PROVE  InOrder(RemoveAt(q, k))
<1> DEFINE r == RemoveAt(q, k)
           at(j) == IF j < k THEN j ELSE j + 1
<1>1. Len(q) \in Nat /\ Len(r) = Len(q) - 1
    BY LenProperties, RemoveAtProperties
<1>2. \A j \in 1..(Len(q) - 1) : RemoveAt(q, k)[j] = IF j < k THEN q[j] ELSE q[j + 1]
    BY RemoveAtProperties
<1>3. \A j \in 1..Len(r) : at(j) \in 1..Len(q) /\ r[j] = q[at(j)]
    BY <1>1, <1>2
<1>4. \A i, j \in 1..Len(r) : i < j => at(i) < at(j)
    BY <1>1
<1> HIDE DEF r, at
<1>5. InOrder(r)
    BY <1>1, <1>3, <1>4 DEF InOrder, Ordered
<1>6. QED
    BY <1>5 DEF r

\* insert_new_message() may put at the front what is due at once, or not later than
\* the others.
LEMMA InOrderInsert ==
    ASSUME NEW q \in Seq(Good), InOrder(q), NEW e \in Message,
           \A i \in 1..Len(q) : e.due <= 0 \/ e.due <= q[i].due,
           e.method # "RESPONSE"
    PROVE  InOrder(Cons(e, q))
<1> DEFINE r == Cons(e, q)
<1>1. Len(q) \in Nat /\ q \in Seq(Message)
    <2>1. Len(q) \in Nat /\ \A i \in 1..Len(q) : q[i] \in Message
        BY DueIsInt
    <2>2. QED
        BY <2>1, SeqDef, LenProperties
<1>2. Len(r) = Len(q) + 1
    BY <1>1, ConsProperties
<1>3. \A j \in 1..(Len(q) + 1) : Cons(e, q)[j] = IF j = 1 THEN e ELSE q[j - 1]
    BY <1>1, ConsProperties
<1>4. r[1] = e /\ \A j \in 2..Len(r) : j - 1 \in 1..Len(q) /\ r[j] = q[j - 1]
    BY <1>1, <1>2, <1>3
<1> HIDE DEF r
<1>5. ASSUME NEW i \in 1..Len(r), NEW j \in 1..Len(r), i < j
      PROVE  r[i].due <= 0 \/ r[i].due <= r[j].due
    <2>1. CASE i = 1
        <3>1. j - 1 \in 1..Len(q) /\ r[j] = q[j - 1] /\ r[i] = e
            BY <1>1, <1>2, <1>4, <1>5, <2>1
        <3>2. QED
            BY <3>1
    <2>2. CASE i > 1
        <3>1. /\ i - 1 \in 1..Len(q) /\ j - 1 \in 1..Len(q) /\ i - 1 < j - 1
              /\ r[i] = q[i - 1] /\ r[j] = q[j - 1]
            BY <1>1, <1>2, <1>4, <1>5, <2>2
        <3>2. QED
            BY <3>1 DEF InOrder, Ordered
    <2>3. QED
        BY <1>1, <1>2, <2>1, <2>2
<1>6. \A j \in 1..Len(r) : j = 1 \/ j \in 2..Len(r)
    BY <1>1, <1>2
<1>7. \A j \in 1..Len(r) : r[j].method # "RESPONSE"
    BY <1>4, <1>6 DEF InOrder
<1>8. QED
    BY <1>5, <1>7 DEF InOrder, Ordered, r

\* SMq::set_state() looks for the first message that is not due earlier; those
\* behind it are not due earlier either, unless the message is due at once.
LEMMA InOrderSlot ==
    ASSUME NEW q \in Seq(Good), InOrder(q), NEW e \in Message, e.due \in Nat,
           e.method # "RESPONSE"
    PROVE  InOrder(InsertAt(q, Slot(q, e.due), e))
<1> DEFINE d == e.due
           p == Slot(q, d)
           I == {i \in 1..Len(q) : q[i].due >= d}
           r == InsertAt(q, p, e)
<1>1. /\ Len(q) \in Nat /\ \A i \in 1..Len(q) : q[i].due \in Int
      /\ q \in Seq(Message)
    <2>1. Len(q) \in Nat /\ \A i \in 1..Len(q) : q[i] \in Message /\ q[i].due \in Int
        BY DueIsInt
    <2>2. QED
        BY <2>1, SeqDef, LenProperties
<1>2. p \in 1..(Len(q) + 1)
    BY SlotInRange
<1>3. /\ \A i \in 1..Len(q) : i < p => q[i].due < d
      /\ p <= Len(q) => q[p].due >= d
    <2>1. CASE I = {}
        BY <1>1, <2>1 DEF Slot
    <2>2. CASE I # {}
        <3>1. I \in SUBSET Nat
            BY <1>1
        <3>2. Min(I) \in I /\ \A y \in I : Min(I) <= y
            BY <2>2, <3>1, MinIsLeast
        <3>3. p = Min(I)
            BY <2>2 DEF Slot
        <3> HIDE DEF p
        <3>4. p \in 1..Len(q) /\ q[p].due >= d
            BY <3>2, <3>3
        <3>5. ASSUME NEW i \in 1..Len(q), i < p PROVE q[i].due < d
            <4>1. i \notin I
                BY <1>1, <3>2, <3>3, <3>4, <3>5
            <4>2. d \in Int /\ ~(q[i].due >= d)
                BY <4>1
            <4>3. QED
                BY <1>1, <4>2
        <3>6. QED
            BY <3>4, <3>5
    <2>3. QED
        BY <2>1, <2>2
<1>4. Len(r) = Len(q) + 1
    BY <1>1, <1>2, InsertAtProperties
<1>5. \A j \in 1..(Len(q) + 1) :
        InsertAt(q, p, e)[j] = IF j < p THEN q[j] ELSE IF j = p THEN e ELSE q[j - 1]
    BY <1>1, <1>2, InsertAtProperties, SMTT(60)
<1> HIDE DEF p
<1>6. /\ r[p] = e
      /\ \A j \in 1..Len(r) : j < p => j \in 1..Len(q) /\ r[j] = q[j]
      /\ \A j \in 1..Len(r) : j > p => j - 1 \in 1..Len(q) /\ r[j] = q[j - 1]
    BY <1>1, <1>2, <1>4, <1>5
<1> HIDE DEF r, d
<1>7. \A i \in 1..Len(q) : i >= p => d <= 0 \/ d <= q[i].due
    <2> SUFFICES ASSUME NEW i \in 1..Len(q), i >= p, d > 0 PROVE d <= q[i].due
        BY <1>1 DEF d
    <2>1. p \in 1..Len(q) /\ q[p].due >= d /\ q[p].due \in Int /\ d \in Nat
        BY <1>1, <1>2, <1>3 DEF d
    <2>2. CASE i = p
        BY <2>1, <2>2
    <2>3. CASE i > p
        <3>1. q[p].due <= 0 \/ q[p].due <= q[i].due
            BY <2>1, <2>3 DEF InOrder, Ordered
        <3>2. QED
            BY <1>1, <2>1, <3>1
    <2>4. QED
        BY <1>1, <2>1, <2>2, <2>3
<1>8. ASSUME NEW i \in 1..Len(r), NEW j \in 1..Len(r), i < j
      PROVE  r[i].due <= 0 \/ r[i].due <= r[j].due
    <2>1. CASE j < p
        BY <1>1, <1>2, <1>4, <1>6, <1>8, <2>1, SMTT(60) DEF InOrder, Ordered
    <2>2. CASE j = p
        <3>1. i \in 1..Len(q) /\ r[i] = q[i] /\ q[i].due < d /\ r[j].due = d
            BY <1>1, <1>2, <1>3, <1>4, <1>6, <1>8, <2>2 DEF d
        <3>2. QED
            BY <1>1, <3>1 DEF d
    <2>3. CASE j > p /\ i < p
        BY <1>1, <1>2, <1>4, <1>6, <1>8, <2>3 DEF InOrder, Ordered
    <2>4. CASE j > p /\ i = p
        <3>1. j - 1 \in 1..Len(q) /\ r[j] = q[j - 1] /\ r[i].due = d /\ j - 1 >= p
            BY <1>1, <1>2, <1>4, <1>6, <1>8, <2>4 DEF d
        <3>2. QED
            BY <1>7, <3>1
    <2>5. CASE j > p /\ i > p
        BY <1>1, <1>2, <1>4, <1>6, <1>8, <2>5 DEF InOrder, Ordered
    <2>6. QED
        BY <1>1, <1>2, <1>4, <2>1, <2>2, <2>3, <2>4, <2>5
<1>9. \A j \in 1..Len(r) : r[j].method # "RESPONSE"
    <2> SUFFICES ASSUME NEW j \in 1..Len(r) PROVE r[j].method # "RESPONSE"
        OBVIOUS
    <2>1. j < p \/ j = p \/ j > p
        BY <1>1, <1>2, <1>4
    <2>2. QED
        BY <1>6, <2>1 DEF InOrder
<1>10. InOrder(r)
    BY <1>8, <1>9 DEF InOrder, Ordered
<1>11. QED
    BY <1>10 DEF r, p, d

\* The clock ages every message alike.
LEMMA EarlierInOrder ==
    ASSUME NEW c \in Int, NEW d \in Int, c <= 0 \/ c <= d
    PROVE  Earlier(c) <= 0 \/ Earlier(c) <= Earlier(d)
BY DEF Earlier

\* Time passes for all messages alike.
LEMMA TickOrder ==
    ASSUME QueueInv, InOrder(time_sorted_list), Tick
    PROVE  InOrder(time_sorted_list')
<1> DEFINE q == time_sorted_list
           r == time_sorted_list'
<1>1. /\ Len(q) \in Nat /\ \A i \in 1..Len(q) : q[i] \in Message /\ q[i].due \in Int
      /\ DOMAIN q = 1..Len(q)
    BY DueIsInt, LenProperties DEF QueueInv
<1>2. r = [i \in 1..Len(q) |-> [q[i] EXCEPT !.due = Earlier(@)]]
    BY <1>1 DEF Tick
<1>3. Len(r) = Len(q)
    BY <1>1, <1>2
<1>4. \A i \in 1..Len(q) : r[i].due = Earlier(q[i].due) /\ r[i].method = q[i].method
    BY <1>1, <1>2 DEF Message
<1> HIDE DEF q, r
<1>5. InOrder(q)
    BY DEF q
<1>6. ASSUME NEW i \in 1..Len(q), NEW j \in 1..Len(q), i < j
      PROVE  r[i].due <= 0 \/ r[i].due <= r[j].due
    <2>1. q[i].due <= 0 \/ q[i].due <= q[j].due
        BY <1>5, <1>6 DEF InOrder, Ordered
    <2>2. QED
        BY <1>1, <1>4, <2>1, EarlierInOrder
<1>7. InOrder(r)
    BY <1>3, <1>4, <1>5, <1>6 DEF InOrder, Ordered
<1>8. QED
    BY <1>7 DEF r

\* SMq::set_state() keeps the order.
LEMMA MoveInOrder ==
    ASSUME NEW q \in Seq(Good), InOrder(q), NEW m \in Message,
           m.method # "RESPONSE", NEW s \in sm_state, Move(q, m, s)
    PROVE  InOrder(time_sorted_list')
<1> DEFINE e == Restate(m, s)
<1>1. m.state \in sm_state
    BY DEF Message
<1>2. Timeout(m.state, s) \in Nat
    BY <1>1, TimeoutAssumption
<1>3. e \in Message /\ e.method # "RESPONSE" /\ e.due \in Nat
    <2>1. e \in Message /\ e.method = m.method
        BY RestateType
    <2>2. e.due = Timeout(m.state, s)
        BY DEF Restate, Message
    <2>3. QED
        BY <1>2, <2>1, <2>2
<1>4. time_sorted_list' = InsertAt(q, Slot(q, e.due), e)
    BY DEF Move, set_state
<1> HIDE DEF e
<1>5. QED
    BY <1>3, <1>4, InOrderSlot

\* So does insert_new_message(), for what is new and enters as due at once.
LEMMA InsertInOrder ==
    ASSUME NEW q \in Seq(Good), InOrder(q), NEW m \in Message,
           m.method # "RESPONSE", m.state = "NO_STATE",
           NEW s \in {"INITIAL_STATE", "REQUEST_DESTINATION_IMSI",
                      "REQUEST_DESTINATION_SIPURL", "REQUEST_MSG_DELIVERY"}
    PROVE  InOrder(insert_new_message(q, m, s))
<1> DEFINE e == Restate(m, s)
<1>1. s \in sm_state
    BY DEF sm_state
<1>2. Timeout(m.state, s) = 0
    BY FreshIsDue
<1>3. e \in Message /\ e.method # "RESPONSE"
    BY <1>1, RestateType
<1>4. e.due <= 0
    BY <1>2 DEF Restate, Message
<1> HIDE DEF e
<1>5. InOrder(Cons(e, q))
    BY <1>3, <1>4, InOrderInsert
<1>6. QED
    BY <1>5 DEF insert_new_message, e

\* A new message goes to the front, and is due.
LEMMA OriginateSmInOrder ==
    ASSUME QueueInv, CanAllocate, NEW q \in Seq(Good), InOrder(q),
           NEW from \in Address, NEW to \in Address, NEW n \in OwnNumbers,
           NEW gen \in Nat, gen <= 1 \/ (gen = 2 /\ from = "bounce"),
           NEW s \in {"REQUEST_DESTINATION_SIPURL", "REQUEST_DESTINATION_IMSI"}
    PROVE  InOrder(originate_sm(q, from, to, n, gen, s))
<1> DEFINE m == NewMessage(NewId, "MESSAGE", from, to, n, gen)
<1>1. n \in Tags /\ "MESSAGE" \in RequestMethods \cup {"RESPONSE"} /\ NewId \in Ids
    BY NewIdInIds DEF Tags, RequestMethods
<1>2. m \in Message /\ m.method # "RESPONSE"
    BY <1>1, NewMessageType
<1>3. m.state = "NO_STATE"
    BY DEF NewMessage
<1> HIDE DEF m
<1>4. InOrder(insert_new_message(q, m, s))
    BY <1>2, <1>3, InsertInOrder
<1>5. QED
    BY <1>4 DEF originate_sm, m

\* So does a bounce.
LEMMA BounceInOrder ==
    ASSUME QueueInv, CanAllocate, NEW q \in Seq(Good), InOrder(q), NEW m \in Good,
           MayBounce(m), NEW n \in OwnNumbers
    PROVE  InOrder(originate_bounce(q, m, n))
<1>1. m.from \in Address /\ m.gen \in Nat /\ m.gen <= 1
    BY DEF Good, Message, Bounded, MayBounce
<1>2. /\ m.gen + 1 \in Nat /\ "bounce" \in Address
      /\ m.gen + 1 <= 1 \/ (m.gen + 1 = 2 /\ "bounce" = "bounce")
    BY <1>1 DEF Address
<1> DEFINE s == IF IsImsi(m.from) THEN "REQUEST_DESTINATION_SIPURL"
                                  ELSE "REQUEST_DESTINATION_IMSI"
<1>3. s \in {"REQUEST_DESTINATION_SIPURL", "REQUEST_DESTINATION_IMSI"}
    OBVIOUS
<1> HIDE DEF s
<1>4. InOrder(originate_sm(q, "bounce", m.from, n, m.gen + 1, s))
    BY <1>1, <1>2, <1>3, OriginateSmInOrder
<1>5. QED
    BY <1>4 DEF originate_bounce, s

\* So does a REGISTER.
LEMMA RegisterInOrder ==
    ASSUME QueueInv, CanAllocate, NEW q \in Seq(Good), InOrder(q), NEW m \in Message,
           m.gen = 0, register_call_seq < MaxRegister
    PROVE  InOrder(originate_register(q, m))
<1> DEFINE b == NewMessage(NewId, "REGISTER", m.from, "none", register_call_seq + 1,
                           m.gen + 1)
           r == [b EXCEPT !.linktag = m.qtag]
<1>1. /\ m.from \in Address /\ m.qtag \in Tags /\ "none" \in Address
      /\ NewId \in Ids /\ "REGISTER" \in RequestMethods \cup {"RESPONSE"}
    BY NewIdInIds DEF Message, Address, RequestMethods
<1>2. m.gen + 1 \in Nat /\ m.gen + 1 = 1 /\ register_call_seq + 1 \in Tags
    BY BoundsAssumption DEF QueueInv, Tags
<1>3. b \in Message /\ b.method = "REGISTER"
    BY <1>1, <1>2, NewMessageType
<1>4. b.state = "NO_STATE"
    BY DEF NewMessage
<1> HIDE DEF b
<1>5. r \in Message /\ r.method # "RESPONSE" /\ r.state = "NO_STATE"
    BY <1>1, <1>3, <1>4 DEF Message
<1> HIDE DEF r
<1>6. InOrder(insert_new_message(q, r, "REQUEST_MSG_DELIVERY"))
    BY <1>5, InsertInOrder
<1>7. QED
    BY <1>6 DEF originate_register, r, b

\* What is known of a head that is not an answer, and of the rest.
LEMMA HeadInOrder ==
    ASSUME QueueInv, InOrder(time_sorted_list), NEW S, HeadIn(S)
    PROVE  /\ First \in Message /\ First.method # "RESPONSE"
           /\ Others \in Seq(Good) /\ InOrder(Others)
<1>1. /\ time_sorted_list # <<>> /\ First \in Message /\ Others \in Seq(Good)
      /\ time_sorted_list \in Seq(Good)
    BY HeadFacts DEF QueueInv
<1>2. First = time_sorted_list[1] /\ 1 \in 1..Len(time_sorted_list)
    BY <1>1, EmptySeq, LenProperties DEF First
<1>3. QED
    BY <1>1, <1>2, InOrderTail DEF InOrder, Others

\* The reader's new request.
LEMMA ReceiveRequestOrder ==
    ASSUME QueueInv, InOrder(time_sorted_list),
           NEW method \in Methods, NEW from \in Froms, NEW uri \in Targets,
           NEW tag \in UserTags, ReceiveRequest(method, from, uri, tag)
    PROVE  InOrder(time_sorted_list')
<1> DEFINE m == NewMessage(NewId, method, from, uri, tag, 0)
<1>1. /\ NewId \in Ids /\ method \in RequestMethods \cup {"RESPONSE"}
      /\ method # "RESPONSE"
      /\ from \in Address /\ uri \in Address /\ tag \in Tags
    BY NewIdInIds, AddressAssumption
       DEF ReceiveRequest, Address, Tags, RequestMethods
<1>2. m \in Message /\ m.method # "RESPONSE"
    BY <1>1, NewMessageType
<1>3. m.state = "NO_STATE"
    BY DEF NewMessage
<1>4. time_sorted_list' = insert_new_message(time_sorted_list, m, "INITIAL_STATE")
    BY DEF ReceiveRequest
<1>5. time_sorted_list \in Seq(Good)
    BY DEF QueueInv
<1> HIDE DEF m
<1>6. QED
    BY <1>2, <1>3, <1>4, <1>5, InsertInOrder

\* The head goes to another state as it is.
LEMMA PlainOrder ==
    ASSUME QueueInv, InOrder(time_sorted_list), NEW S, HeadIn(S),
           NEW s \in sm_state, Move(Others, First, s)
    PROVE  InOrder(time_sorted_list')
BY HeadInOrder, MoveInOrder

\* The states that the handlers name.
LEMMA StateNames ==
    {"NO_STATE", "DELETE_ME_STATE", "INITIAL_STATE", "REQUEST_FROM_ADDRESS_LOOKUP",
     "REQUEST_DESTINATION_IMSI", "REQUEST_DESTINATION_SIPURL", "REQUEST_MSG_DELIVERY",
     "ASKED_FOR_MSG_DELIVERY", "AWAITING_TRY_MSG_DELIVERY", "REGISTER_HANDSET",
     "AWAITING_REGISTER_HANDSET", "ASKED_TO_REGISTER_HANDSET"} \subseteq sm_state
BY DEF sm_state

\* The handlers that only change the state of the head.
LEMMA PlainMovesOrder ==
    ASSUME QueueInv, InOrder(time_sorted_list),
           \/ InvalidMethod \/ OrdinaryMessage \/ ShortCodeError \/ ShortCodeDone
           \/ ShortCodeStop \/ ShortCodeAwaitRegister
           \/ lookup_from_address_error \/ lookup_uri_imsi_error
           \/ lookup_uri_imsi_punt \/ lookup_uri_hostport \/ NoAnswer
           \/ NotReadyToRegister \/ RegisterTimeout
    PROVE  InOrder(time_sorted_list')
<1> USE StateNames
<1>1. CASE InvalidMethod
    BY <1>1, PlainOrder DEF InvalidMethod, NewRequest
<1>2. CASE OrdinaryMessage
    BY <1>2, PlainOrder DEF OrdinaryMessage, NewRequest
<1>3. CASE ShortCodeError
    BY <1>3, PlainOrder DEF ShortCodeError, ShortCode, NewRequest
<1>4. CASE ShortCodeDone
    BY <1>4, PlainOrder DEF ShortCodeDone, ShortCode, NewRequest
<1>5. CASE ShortCodeStop
    BY <1>5, PlainOrder DEF ShortCodeStop, ShortCode, NewRequest
<1>6. CASE ShortCodeAwaitRegister
    BY <1>6, PlainOrder DEF ShortCodeAwaitRegister, ShortCode, NewRequest
<1>7. CASE lookup_from_address_error
    <2>1. /\ Fits(First, First.state)
          /\ First.state \in BadStates \cup {"REQUEST_FROM_ADDRESS_LOOKUP"}
        BY <1>7, HeadFacts DEF lookup_from_address_error
    <2>2. FromLookupHead = First
        BY <2>1 DEF FromLookupHead, Fits
    <2>3. QED
        BY <1>7, <2>2, PlainOrder DEF lookup_from_address_error
<1>8. CASE lookup_uri_imsi_error
    BY <1>8, PlainOrder DEF lookup_uri_imsi_error, UriLookup
<1>9. CASE lookup_uri_imsi_punt
    BY <1>9, PlainOrder DEF lookup_uri_imsi_punt, UnknownNumber, UriLookup
<1>10. CASE lookup_uri_hostport
    <2> DEFINE s == IF First.uri = "none" THEN "NO_STATE" ELSE "REQUEST_MSG_DELIVERY"
    <2>1. s \in sm_state /\ Move(Others, First, s)
        BY <1>10 DEF lookup_uri_hostport
    <2> HIDE DEF s
    <2>2. QED
        BY <1>10, <2>1, PlainOrder DEF lookup_uri_hostport
<1>11. CASE NoAnswer
    BY <1>11, PlainOrder DEF NoAnswer
<1>12. CASE NotReadyToRegister
    BY <1>12, PlainOrder DEF NotReadyToRegister
<1>13. CASE RegisterTimeout
    BY <1>13, PlainOrder DEF RegisterTimeout
<1>14. QED
    BY <1>1, <1>2, <1>3, <1>4, <1>5, <1>6, <1>7, <1>8, <1>9, <1>10, <1>11,
       <1>12, <1>13

\* The head goes to another state with an address or a count changed.
LEMMA ChangedMovesOrder ==
    ASSUME QueueInv, InOrder(time_sorted_list),
           \/ ShortCodeRetry \/ lookup_uri_imsi
           \/ \E u \in Targets : ShortCodeRestart(u)
           \/ \E f \in Address : lookup_from_address(f) \/ lookup_uri_imsi_relay(f)
    PROVE  InOrder(time_sorted_list')
<1> USE StateNames
<1>1. CASE ShortCodeRetry
    <2> DEFINE a == [First EXCEPT !.retries = @ + 1]
               m == [a EXCEPT !.again = TRUE]
    <2>1. /\ First \in Message /\ First.method # "RESPONSE"
          /\ Others \in Seq(Good) /\ InOrder(Others)
        BY <1>1, HeadInOrder DEF ShortCodeRetry, ShortCode, NewRequest
    <2>2. a \in Message /\ a.method # "RESPONSE"
        BY <2>1 DEF Message
    <2>3. m = [First EXCEPT !.retries = @ + 1, !.again = TRUE]
        BY <2>1 DEF Message
    <2>4. Move(Others, m, "REQUEST_FROM_ADDRESS_LOOKUP")
        BY <1>1, <2>3 DEF ShortCodeRetry
    <2> HIDE DEF a
    <2>5. m \in Message /\ m.method # "RESPONSE"
        BY <2>2 DEF Message
    <2> HIDE DEF m
    <2>6. QED
        BY <2>1, <2>4, <2>5, MoveInOrder
<1>2. CASE lookup_uri_imsi
    <2> DEFINE m == [First EXCEPT !.uri = "imsi"]
    <2>1. /\ First \in Message /\ First.method # "RESPONSE"
          /\ Others \in Seq(Good) /\ InOrder(Others)
        BY <1>2, HeadInOrder DEF lookup_uri_imsi, UriLookup
    <2>2. m \in Message /\ m.method # "RESPONSE"
        BY <2>1 DEF Message, Address
    <2>3. Move(Others, m, "REQUEST_DESTINATION_SIPURL")
        BY <1>2 DEF lookup_uri_imsi
    <2> HIDE DEF m
    <2>4. QED
        BY <2>1, <2>2, <2>3, MoveInOrder
<1>3. ASSUME NEW u \in Targets, ShortCodeRestart(u) PROVE InOrder(time_sorted_list')
    <2> DEFINE m == [First EXCEPT !.uri = u]
    <2>1. /\ First \in Message /\ First.method # "RESPONSE"
          /\ Others \in Seq(Good) /\ InOrder(Others)
        BY <1>3, HeadInOrder DEF ShortCodeRestart, ShortCode, NewRequest
    <2>2. m \in Message /\ m.method # "RESPONSE"
        BY <2>1, AddressAssumption DEF Message
    <2>3. Move(Others, m, "INITIAL_STATE")
        BY <1>3 DEF ShortCodeRestart
    <2> HIDE DEF m
    <2>4. QED
        BY <2>1, <2>2, <2>3, MoveInOrder
<1>4. ASSUME NEW f \in Address, lookup_from_address(f) PROVE InOrder(time_sorted_list')
    <2> DEFINE m == [First EXCEPT !.from = f]
    <2>1. /\ First \in Message /\ First.method # "RESPONSE"
          /\ Others \in Seq(Good) /\ InOrder(Others)
        BY <1>4, HeadInOrder DEF lookup_from_address
    <2>2. /\ Fits(First, First.state)
          /\ First.state \in BadStates \cup {"REQUEST_FROM_ADDRESS_LOOKUP"}
        BY <1>4, HeadFacts DEF lookup_from_address
    <2>3. FromLookupHead = First
        BY <2>2 DEF FromLookupHead, Fits
    <2>4. m \in Message /\ m.method # "RESPONSE"
        BY <2>1 DEF Message
    <2>5. Move(Others, m, "REQUEST_DESTINATION_IMSI")
        BY <1>4, <2>3 DEF lookup_from_address
    <2> HIDE DEF m
    <2>6. QED
        BY <2>1, <2>4, <2>5, MoveInOrder
<1>5. ASSUME NEW f \in Address, lookup_uri_imsi_relay(f) PROVE InOrder(time_sorted_list')
    <2> DEFINE m == [First EXCEPT !.from = f]
    <2>1. /\ First \in Message /\ First.method # "RESPONSE"
          /\ Others \in Seq(Good) /\ InOrder(Others)
        BY <1>5, HeadInOrder DEF lookup_uri_imsi_relay, UnknownNumber, UriLookup
    <2>2. m \in Message /\ m.method # "RESPONSE"
        BY <2>1 DEF Message
    <2>3. Move(Others, m, "REQUEST_DESTINATION_SIPURL")
        BY <1>5 DEF lookup_uri_imsi_relay
    <2> HIDE DEF m
    <2>4. QED
        BY <2>1, <2>2, <2>3, MoveInOrder
<1>6. QED
    BY <1>1, <1>2, <1>3, <1>4, <1>5

\* The head is tried, and sent, refused for delivery or given up.
LEMMA DeliveryOrder ==
    ASSUME QueueInv, InOrder(time_sorted_list),
           pack_sms_for_delivery_error \/ GiveUp \/ deliver_msg_datagram
    PROVE  InOrder(time_sorted_list')
<1> USE StateNames
<1>1. /\ Others \in Seq(Good) /\ InOrder(Others)
      /\ Try \in Message /\ Try.method # "RESPONSE"
    <2>1. Delivery
        BY DEF pack_sms_for_delivery_error, GiveUp, deliver_msg_datagram
    <2>2. QED
        BY <2>1, HeadInOrder, TryFacts DEF Delivery
<1>2. CASE pack_sms_for_delivery_error
    BY <1>1, <1>2, MoveInOrder DEF pack_sms_for_delivery_error
<1>3. CASE GiveUp
    BY <1>1, <1>3, MoveInOrder DEF GiveUp
<1>4. CASE deliver_msg_datagram
    <2> DEFINE m == [Try EXCEPT !.sends = @ + 1]
    <2>1. m \in Message /\ m.method # "RESPONSE"
      <3>1. Try.sends + 1 \in Nat
        BY <1>1 DEF Message
      <3>2. m \in Message
        BY <1>1, <3>1, SMTT(60) DEF Message
      <3>3. m.method = Try.method
        BY <1>1 DEF Message
      <3>4. QED
        BY <1>1, <3>2, <3>3
    <2>2. Move(Others, m, "ASKED_FOR_MSG_DELIVERY")
        BY <1>4 DEF deliver_msg_datagram
    <2> HIDE DEF m
    <2>3. QED
        BY <1>1, <2>1, <2>2, MoveInOrder
<1>5. QED
    BY <1>2, <1>3, <1>4

\* A reply goes to the front, and is due.
LEMMA ReplyInOrder ==
    ASSUME QueueInv, NewRequest, First.uri \in ShortCodes, CanAllocate,
           NEW q \in Seq(Good), InOrder(q), NEW n \in OwnNumbers
    PROVE  InOrder(Reply(q, n))
<1>1. First \in Message /\ First.gen = 0
    BY HeadFacts, ShortCodeHead DEF NewRequest
<1>2. First.uri \in Address /\ First.from \in Address
    BY <1>1 DEF Message
<1>3. First.gen + 1 \in Nat /\ First.gen + 1 <= 1
    BY <1>1
<1>4. QED
    BY <1>2, <1>3, OriginateSmInOrder DEF Reply

\* The head is answered, told about or zaps another: something new enters too.
LEMMA TellOrder ==
    ASSUME QueueInv, InOrder(time_sorted_list), NEW n \in OwnNumbers,
           ShortCodeReply(n) \/ lookup_uri_imsi_bounce(n)
    PROVE  InOrder(time_sorted_list')
<1> USE StateNames
<1>1. CASE ShortCodeReply(n)
    <2>1. NewRequest /\ First.uri \in ShortCodes /\ CanAllocate
        BY <1>1 DEF ShortCodeReply, ShortCode
    <2>2. /\ First \in Message /\ First.method # "RESPONSE"
          /\ Others \in Seq(Good) /\ InOrder(Others)
        BY <2>1, HeadInOrder DEF NewRequest
    <2>3. Reply(Others, n) \in Seq(Good) /\ InOrder(Reply(Others, n))
        BY <2>1, <2>2, ReplyGood, ReplyInOrder
    <2>4. Move(Reply(Others, n), First, "DELETE_ME_STATE")
        BY <1>1 DEF ShortCodeReply
    <2>5. QED
        BY <2>2, <2>3, <2>4, MoveInOrder
<1>2. CASE lookup_uri_imsi_bounce(n)
    <2>1. MayBounce(First) /\ CanAllocate /\ First \in Good
        BY <1>2, HeadFacts DEF lookup_uri_imsi_bounce, UnknownNumber, UriLookup
    <2>2. /\ First \in Message /\ First.method # "RESPONSE"
          /\ Others \in Seq(Good) /\ InOrder(Others)
        BY <1>2, HeadInOrder DEF lookup_uri_imsi_bounce, UnknownNumber, UriLookup
    <2>3. /\ originate_bounce(Others, First, n) \in Seq(Good)
          /\ InOrder(originate_bounce(Others, First, n))
        BY <2>1, <2>2, BounceGood, BounceInOrder
    <2>4. Move(originate_bounce(Others, First, n), First, "DELETE_ME_STATE")
        BY <1>2 DEF lookup_uri_imsi_bounce
    <2>5. QED
        BY <2>2, <2>3, <2>4, MoveInOrder
<1>3. QED
    BY <1>1, <1>2

\* The zap command removes a message and replies.
LEMMA ZapOrder ==
    ASSUME QueueInv, InOrder(time_sorted_list), NEW tag \in Tags, NEW n \in OwnNumbers,
           ShortCodeZap(tag, n)
    PROVE  InOrder(time_sorted_list')
<1> USE StateNames
<1> DEFINE j == find_queued_msg_by_tag(Others, tag)
           rest == RemoveAt(Others, j)
<1>1. NewRequest /\ First.uri \in ShortCodes /\ j # 0
    BY DEF ShortCodeZap, ShortCode
<1>2. /\ First \in Message /\ First.method # "RESPONSE"
      /\ Others \in Seq(Good) /\ InOrder(Others)
    BY <1>1, HeadInOrder DEF NewRequest
<1>3. j \in 1..Len(Others)
    BY <1>1, <1>2, FindInRange, LenProperties
<1>4. rest \in Seq(Good) /\ InOrder(rest)
    BY <1>2, <1>3, RemoveAtInSeq, InOrderRemoveAt
<1>5. \/ Move(rest, First, "DELETE_ME_STATE")
      \/ CanAllocate /\ Move(Reply(rest, n), First, "DELETE_ME_STATE")
    BY DEF ShortCodeZap
<1> HIDE DEF rest
<1>6. CanAllocate => Reply(rest, n) \in Seq(Good) /\ InOrder(Reply(rest, n))
    BY <1>1, <1>4, ReplyGood, ReplyInOrder
<1>7. QED
    BY <1>2, <1>4, <1>5, <1>6, MoveInOrder

\* register_handset() puts the SMS at its place and the REGISTER in front.
LEMMA RegisterHandsetOrder ==
    ASSUME QueueInv, Others \in Seq(Good), InOrder(Others),
           NEW m \in Message, m.method = "MESSAGE", m.gen = 0, register_handset(m)
    PROVE  InOrder(time_sorted_list')
<1> USE StateNames
<1>1. register_call_seq < MaxRegister
    BY DEF register_handset
<1>2. CASE CanAllocate /\ Move(originate_register(Others, m), m, "ASKED_TO_REGISTER_HANDSET")
    <2>1. /\ originate_register(Others, m) \in Seq(Good)
          /\ InOrder(originate_register(Others, m))
        BY <1>1, <1>2, RegisterGood, RegisterInOrder
    <2>2. QED
        BY <1>2, <2>1, MoveInOrder
<1>3. CASE Move(Others, m, "DELETE_ME_STATE")
    BY <1>3, MoveInOrder
<1>4. QED
    BY <1>2, <1>3 DEF register_handset

\* The two ways to register_handset().
LEMMA RegistrationOrder ==
    ASSUME QueueInv, InOrder(time_sorted_list), ShortCodeRegister \/ RegisterHandset
    PROVE  InOrder(time_sorted_list')
<1>1. CASE ShortCodeRegister
    BY <1>1, HeadInOrder, ShortCodeHead, RegisterHandsetOrder
       DEF ShortCodeRegister, ShortCode, NewRequest
<1>2. CASE RegisterHandset
    <2> DEFINE r == Restate(First, "REGISTER_HANDSET")
               m == IF First.state = "AWAITING_REGISTER_HANDSET" THEN r ELSE First
    <2>1. /\ First.method = "MESSAGE" /\ First.gen = 0 /\ First \in Message
          /\ Others \in Seq(Good) /\ InOrder(Others)
        BY <1>2, HeadInOrder, RegisteringHead DEF RegisterHandset, Registering
    <2>2. r \in Message /\ r.method = "MESSAGE" /\ r.gen = 0
        BY <2>1, StateNames, RestateType
    <2>3. register_handset(m)
        BY <1>2 DEF RegisterHandset
    <2> HIDE DEF r
    <2>4. m \in Message /\ m.method = "MESSAGE" /\ m.gen = 0
        BY <2>1, <2>2
    <2> HIDE DEF m
    <2>5. QED
        BY <2>1, <2>3, <2>4, RegisterHandsetOrder
<1>3. QED
    BY <1>1, <1>2

\* Without answers, nothing else happens to the list.
LEMMA ProcessTimeoutOrder ==
    ASSUME QueueInv, RateLimit = 0, InOrder(time_sorted_list), process_timeout
    PROVE  InOrder(time_sorted_list')
<1>1. ~NewResponse
    BY HeadInOrder DEF NewResponse
<1>2. ~RateLimited
    BY DEF RateLimited, TooSoon
<1>3. CASE \/ InvalidMethod \/ OrdinaryMessage \/ ShortCodeError \/ ShortCodeDone
           \/ ShortCodeStop \/ ShortCodeAwaitRegister
           \/ lookup_from_address_error \/ lookup_uri_imsi_error
           \/ lookup_uri_imsi_punt \/ lookup_uri_hostport \/ NoAnswer
           \/ NotReadyToRegister \/ RegisterTimeout
    BY <1>3, PlainMovesOrder
<1>4. CASE \/ ShortCodeRetry \/ lookup_uri_imsi
           \/ \E u \in Targets : ShortCodeRestart(u)
           \/ \E f \in Address : lookup_from_address(f) \/ lookup_uri_imsi_relay(f)
    BY <1>4, ChangedMovesOrder
<1>5. CASE pack_sms_for_delivery_error \/ GiveUp \/ deliver_msg_datagram
    BY <1>5, DeliveryOrder
<1>6. CASE \E n \in OwnNumbers : ShortCodeReply(n) \/ lookup_uri_imsi_bounce(n)
    BY <1>6, TellOrder
<1>7. CASE \E t \in Tags, n \in OwnNumbers : ShortCodeZap(t, n)
    BY <1>7, ZapOrder
<1>8. CASE ShortCodeRegister \/ RegisterHandset
    BY <1>8, RegistrationOrder
<1>9. CASE Discard
    BY <1>9, HeadInOrder DEF Discard
<1>10. CASE ShortCodeInfoCrash \/ ShortCodeZapCrash \/ lookup_uri_imsi_crash
    BY <1>10 DEF ShortCodeInfoCrash, ShortCodeZapCrash, lookup_uri_imsi_crash
<1>11. ~( \/ ResponseUnmatched \/ increase_acked_msg_timeout \/ ResponseDelivered
          \/ \E n \in OwnNumbers : ResponseBounce(n)
          \/ ResponsePunt \/ ResponseRelocate \/ ResponseUnknown)
    BY <1>1 DEF ResponseUnmatched, increase_acked_msg_timeout, ResponseDelivered,
       ResponseBounce, ResponsePunt, ResponseRelocate, ResponseUnknown, Refused
<1>12. QED
    BY <1>2, <1>3, <1>4, <1>5, <1>6, <1>7, <1>8, <1>9, <1>10, <1>11
       DEF process_timeout

\* The reader puts a record of the save file in front of those it has read.
LEMMA ReadOrder ==
    ASSUME QueueInv, InOrder(time_sorted_list), FileInOrder, read_queue_from_file
    PROVE  InOrder(time_sorted_list') /\ FileInOrder'
<1> DEFINE q == time_sorted_list
           e == Restored(Head(file))
<1>1. /\ file \in Seq(Saveable) /\ file # <<>> /\ Len(file) \in Nat
      /\ q \in Seq(Good) /\ CanAllocate
    BY LenProperties DEF QueueInv, read_queue_from_file
<1>2. /\ Head(file) = file[1] /\ Head(file) \in Saveable /\ 1 \in 1..Len(file)
      /\ Len(Tail(file)) = Len(file) - 1
      /\ \A j \in 1..Len(Tail(file)) : Tail(file)[j] = file[j + 1]
    BY <1>1, HeadTailProperties, EmptySeq
<1>3. e \in Message /\ e.due = Head(file).due /\ e.method # "RESPONSE"
    <2>1. e \in Message
        BY <1>1, <1>2, RestoredGood DEF Good
    <2>2. Head(file).method \in RequestMethods
        BY <1>2 DEF Saveable, Saved
    <2>3. e.due = Head(file).due /\ e.method = Head(file).method
        BY DEF Restored, NewMessage
    <2>4. QED
        BY <2>1, <2>2, <2>3 DEF RequestMethods
<1> HIDE DEF e
<1>4. \A i \in 1..Len(q) : e.due <= 0 \/ e.due <= q[i].due
    BY <1>2, <1>3 DEF FileInOrder
<1>5. time_sorted_list' = Cons(e, q) /\ file' = Tail(file)
    BY DEF read_queue_from_file, e
<1>6. InOrder(Cons(e, q))
    BY <1>1, <1>3, <1>4, InOrderInsert
<1>7. /\ Len(Cons(e, q)) = Len(q) + 1 /\ Len(q) \in Nat
      /\ \A j \in 1..(Len(q) + 1) : Cons(e, q)[j] = IF j = 1 THEN e ELSE q[j - 1]
    <2>1. Len(q) \in Nat /\ \A i \in 1..Len(q) : q[i] \in Message
        BY <1>1, DueIsInt
    <2>2. q \in Seq(Message)
        BY <1>1, <2>1, SeqDef, LenProperties
    <2>3. QED
        BY <1>3, <2>1, <2>2, ConsProperties
<1> DEFINE r == Cons(e, q)
           f == Tail(file)
<1>8. /\ r[1].due = file[1].due
      /\ \A j \in 1..Len(r) : j = 1 \/ (j - 1 \in 1..Len(q) /\ r[j] = q[j - 1])
    BY <1>2, <1>3, <1>7
<1>9. \A i \in 1..Len(f) : i + 1 \in 1..Len(file) /\ 1 < i + 1 /\ f[i] = file[i + 1]
    BY <1>1, <1>2
<1>10. Len(f) \in Nat
    BY <1>1, <1>2, EmptySeq
<1> HIDE DEF q, r, f
<1>11. \A i, j \in 1..Len(f) : i < j => f[j].due <= 0 \/ f[j].due <= f[i].due
    <2> SUFFICES ASSUME NEW i \in 1..Len(f), NEW j \in 1..Len(f), i < j
                 PROVE  f[j].due <= 0 \/ f[j].due <= f[i].due
        OBVIOUS
    <2>1. i + 1 < j + 1
        BY <1>10
    <2>2. QED
        BY <1>9, <2>1 DEF FileInOrder
<1>12. \A i \in 1..Len(f), j \in 1..Len(r) : f[i].due <= 0 \/ f[i].due <= r[j].due
    <2> SUFFICES ASSUME NEW i \in 1..Len(f), NEW j \in 1..Len(r)
                 PROVE  f[i].due <= 0 \/ f[i].due <= r[j].due
        OBVIOUS
    <2>1. CASE j = 1
        <3>1. f[i].due <= 0 \/ f[i].due <= file[1].due
            BY <1>2, <1>9 DEF FileInOrder
        <3>2. QED
            BY <1>8, <2>1, <3>1
    <2>2. CASE j - 1 \in 1..Len(q) /\ r[j] = q[j - 1]
        BY <1>9, <2>2 DEF FileInOrder, q
    <2>3. QED
        BY <1>8, <2>1, <2>2
<1>13. QED
    BY <1>5, <1>6, <1>11, <1>12 DEF FileInOrder, q, r, f

\* What waits in the save file waits less long as well.
LEMMA TickFileOrder ==
    ASSUME QueueInv, FileInOrder, Tick
    PROVE  FileInOrder'
<1> DEFINE q == time_sorted_list
           r == time_sorted_list'
           f == file
           g == file'
<1>1. /\ Len(q) \in Nat /\ \A i \in 1..Len(q) : q[i] \in Message /\ q[i].due \in Int
      /\ DOMAIN q = 1..Len(q)
    BY DueIsInt, LenProperties DEF QueueInv
<1>2. Len(r) = Len(q) /\ \A i \in 1..Len(q) : r[i].due = Earlier(q[i].due)
    <2>1. r = [i \in 1..Len(q) |-> [q[i] EXCEPT !.due = Earlier(@)]]
        BY <1>1 DEF Tick
    <2>2. QED
        BY <1>1, <2>1 DEF Message
<1>3. /\ Len(g) = Len(f) /\ Len(f) \in Nat
      /\ \A i \in 1..Len(f) : f[i] \in Saved /\ f[i].due \in Int /\ g[i].due = Earlier(f[i].due)
    <2>1. f \in Seq(Saveable) /\ Len(f) \in Nat
        BY LenProperties DEF QueueInv
    <2>2. \A i \in 1..Len(f) : f[i] \in Saved
        BY <2>1, ElementOfSeq DEF Saveable
    <2>3. /\ Len(g) = Len(f)
          /\ \A i \in 1..Len(f) : g[i] = [f[i] EXCEPT !.due = Earlier(f[i].due)]
        BY FileAges
    <2>4. QED
        BY <2>1, <2>2, <2>3 DEF Saved
<1> HIDE DEF q, r, f, g
<1>4. \A i, j \in 1..Len(f) : i < j => g[j].due <= 0 \/ g[j].due <= g[i].due
    BY <1>3, EarlierInOrder DEF FileInOrder, f
<1>5. \A i \in 1..Len(f), j \in 1..Len(q) : g[i].due <= 0 \/ g[i].due <= r[j].due
    BY <1>1, <1>2, <1>3, EarlierInOrder DEF FileInOrder, f, q
<1>6. QED
    BY <1>2, <1>3, <1>4, <1>5 DEF FileInOrder, f, q, g, r

\* What process_timeout() looks at, and does not.
LEMMA TimeoutHead ==
    ASSUME process_timeout
    PROVE  /\ time_sorted_list # <<>> /\ First.due <= 0
           /\ file' = file /\ responses' = responses
<1> USE DEF HeadIn, NewRequest, ShortCode, UriLookup, UnknownNumber, Delivery, NewResponse,
           Refused, ListOnly
<1>1. CASE \/ InvalidMethod \/ OrdinaryMessage \/ ShortCodeError \/ ShortCodeDone
           \/ ShortCodeStop \/ ShortCodeRetry \/ ShortCodeAwaitRegister \/ ShortCodeRegister
           \/ ShortCodeInfoCrash \/ ShortCodeZapCrash
    BY <1>1 DEF InvalidMethod, OrdinaryMessage, ShortCodeError, ShortCodeDone, ShortCodeStop,
       ShortCodeRetry, ShortCodeAwaitRegister, ShortCodeRegister, register_handset,
       ShortCodeInfoCrash, ShortCodeZapCrash
<1>2. CASE \/ \E n \in OwnNumbers : ShortCodeReply(n) \/ lookup_uri_imsi_bounce(n)
           \/ \E u \in Targets : ShortCodeRestart(u)
           \/ \E t \in Tags, n \in OwnNumbers : ShortCodeZap(t, n)
           \/ \E f \in Address : lookup_from_address(f) \/ lookup_uri_imsi_relay(f)
    BY <1>2 DEF ShortCodeReply, lookup_uri_imsi_bounce, ShortCodeRestart, ShortCodeZap,
       lookup_from_address, lookup_uri_imsi_relay
<1>3. CASE \/ lookup_from_address_error \/ lookup_uri_imsi \/ lookup_uri_imsi_error
           \/ lookup_uri_imsi_punt \/ lookup_uri_imsi_crash \/ lookup_uri_hostport
    BY <1>3 DEF lookup_from_address_error, lookup_uri_imsi, lookup_uri_imsi_error,
       lookup_uri_imsi_punt, lookup_uri_imsi_crash, lookup_uri_hostport
<1>4. CASE \/ pack_sms_for_delivery_error \/ GiveUp \/ RateLimited
           \/ deliver_msg_datagram \/ NoAnswer \/ Discard
           \/ NotReadyToRegister \/ RegisterHandset \/ RegisterTimeout
    BY <1>4 DEF pack_sms_for_delivery_error, GiveUp, RateLimited, deliver_msg_datagram,
       NoAnswer, Discard, NotReadyToRegister, RegisterHandset, register_handset, RegisterTimeout
<1>5. CASE \/ ResponseUnmatched \/ increase_acked_msg_timeout \/ ResponseDelivered
           \/ \E n \in OwnNumbers : ResponseBounce(n)
           \/ ResponsePunt \/ ResponseRelocate \/ ResponseUnknown
    BY <1>5 DEF ResponseUnmatched, increase_acked_msg_timeout, ResponseDelivered,
       ResponseBounce, ResponsePunt, ResponseRelocate, ResponseUnknown
<1>6. QED
    BY <1>1, <1>2, <1>3, <1>4, <1>5 DEF process_timeout

\* When a message is due, so is all that is still to be read.
LEMMA TimeoutFileOrder ==
    ASSUME QueueInv, FileInOrder, process_timeout
    PROVE  FileInOrder'
<1>1. /\ time_sorted_list # <<>> /\ First.due <= 0 /\ file' = file
    BY TimeoutHead
<1>2. /\ First = time_sorted_list[1] /\ 1 \in 1..Len(time_sorted_list)
      /\ time_sorted_list[1].due \in Int
    <2>1. First = time_sorted_list[1] /\ 1 \in 1..Len(time_sorted_list)
        BY <1>1, EmptySeq, LenProperties DEF First, QueueInv
    <2>2. QED
        BY <2>1, DueIsInt DEF QueueInv
<1>3. \A i \in 1..Len(file) : file[i].due \in Int
    <2>1. \A i \in 1..Len(file) : file[i] \in Saved
        BY ElementOfSeq DEF QueueInv, Saveable
    <2>2. QED
        BY <2>1 DEF Saved
<1>4. \A i \in 1..Len(file) : file[i].due <= 0
    BY <1>1, <1>2, <1>3 DEF FileInOrder
<1>5. QED
    BY <1>1, <1>4 DEF FileInOrder

\* Only an answer that is accepted changes the count of answers.
LEMMA StepOrder == QueueInv /\ OrderInv /\ [Next]_vars => OrderInv'
<1> SUFFICES ASSUME QueueInv, OrderInv, [Next]_vars, responses' = 0, RateLimit = 0, SavedInOrder
             PROVE  InOrder(time_sorted_list') /\ FileInOrder'
    BY DEF OrderInv, SavedInOrder
<1>1. responses \in Nat
    BY DEF QueueInv
<1>2. CASE \E m \in Methods, f \in Froms, u \in Targets, t \in UserTags :
             ReceiveRequest(m, f, u, t)
    <2>1. responses = 0 /\ file' = <<>>
        BY <1>2 DEF ReceiveRequest
    <2>2. FileInOrder'
        BY <2>1, EmptySeq DEF FileInOrder
    <2>3. QED
        BY <1>2, <2>1, <2>2, ReceiveRequestOrder DEF OrderInv
<1>3. CASE \E s \in sent, status \in Statuses : ReceiveResponse(s, status)
    BY <1>1, <1>3 DEF ReceiveResponse
<1>4. CASE process_timeout
    <2>1. responses = 0
        BY <1>4, TimeoutHead
    <2>2. QED
        BY <1>4, <2>1, ProcessTimeoutOrder, TimeoutFileOrder DEF OrderInv
<1>5. CASE Tick
    <2>1. responses = 0
        BY <1>5 DEF Tick
    <2>2. QED
        BY <1>5, <2>1, TickOrder, TickFileOrder DEF OrderInv
<1>6. CASE UNCHANGED vars
    BY <1>6 DEF vars, OrderInv, FileInOrder
<1>7. CASE read_queue_from_file
    <2>1. responses = 0
        BY <1>7 DEF read_queue_from_file
    <2>2. QED
        BY <1>7, <2>1, ReadOrder DEF OrderInv
<1>8. QED
    BY <1>2, <1>3, <1>4, <1>5, <1>6, <1>7 DEF Next, Receive

\* As long as no answer has been accepted and there is no rate limit, looking at
\* the head is enough to find what is due, while the save file is read and after.
THEOREM HeadFirstUntilAnswered == Spec => []OrderedUntilAnswered
<1>1. Init => OrderInv
    BY DEF Init, OrderInv, InOrder, Ordered, FileInOrder, SavedInOrder
<1>2. Spec => []OrderInv
    BY <1>1, QueueInvariant, StepOrder, PTL DEF Spec
<1>3. QueueInv /\ OrderInv => OrderedUntilAnswered
    <2> SUFFICES ASSUME QueueInv, OrderInv, responses = 0, RateLimit = 0, SavedInOrder,
                        NEW i \in 1..Len(time_sorted_list),
                        time_sorted_list[i].due <= 0
                 PROVE  First.due <= 0
        BY DEF OrderedUntilAnswered, HeadIsNext, Each
    <2>1. /\ Len(time_sorted_list) \in Nat
          /\ \A j \in 1..Len(time_sorted_list) : time_sorted_list[j].due \in Int
        BY DueIsInt DEF QueueInv
    <2>2. 1 \in 1..Len(time_sorted_list) /\ First = time_sorted_list[1]
        BY <2>1 DEF First
    <2>3. i = 1 \/ 1 < i
        BY <2>1
    <2>4. QED
        BY <2>1, <2>2, <2>3 DEF OrderInv, InOrder, Ordered
<1>4. QED
    BY <1>2, <1>3, QueueInvariant, PTL

-----------------------------------------------------------------------------
(* SmqQueue implements SmqService.                                         *)
(*                                                                         *)
(* The argument does not depend on the order of the list: a step is looked *)
(* at as a change of the set of messages that the list holds.              *)

-----------------------------------------------------------------------------
(* The list as a set of messages, each at a node of its own.               *)

IdsApart(q) == \A i, j \in 1..Len(q) : q[i].id = q[j].id => i = j

Holds(q, S) ==
    /\ q \in Seq(Message)
    /\ IdsApart(q)
    /\ S = {q[i] : i \in 1..Len(q)}

\* A list that holds a set of messages.
LEMMA HoldsFacts ==
    ASSUME NEW q, NEW S, Holds(q, S)
    PROVE  /\ Len(q) \in Nat
           /\ S \subseteq Message
           /\ \A i \in 1..Len(q) : q[i] \in S /\ q[i] \in Message
           /\ \A m, n \in S : m.id = n.id => m = n
           /\ \A id : id \in Queued(q) <=> \E m \in S : m.id = id
<1>1. Len(q) \in Nat /\ \A i \in 1..Len(q) : q[i] \in Message
    BY LenProperties, ElementOfSeq DEF Holds
<1>2. QED
    BY <1>1 DEF Holds, IdsApart, Queued

\* A message is put at a place of the list, or at the front.
LEMMA HoldsInsertAt ==
    ASSUME NEW q, NEW S, Holds(q, S), NEW k \in 1..(Len(q) + 1), NEW e \in Message,
           \A m \in S : m.id # e.id
    PROVE  Holds(InsertAt(q, k, e), S \cup {e})
<1> DEFINE r == InsertAt(q, k, e)
<1>1. /\ Len(q) \in Nat /\ q \in Seq(Message)
      /\ \A i \in 1..Len(q) : q[i].id # e.id
    BY HoldsFacts DEF Holds
<1>2. r \in Seq(Message) /\ Len(r) = Len(q) + 1
    BY <1>1, InsertAtProperties
<1>3. \A j \in 1..(Len(q) + 1) :
        InsertAt(q, k, e)[j] = IF j < k THEN q[j] ELSE IF j = k THEN e ELSE q[j - 1]
    BY <1>1, InsertAtProperties
<1>4. \A j \in 1..(Len(q) + 1) :
        r[j] = IF j < k THEN q[j] ELSE IF j = k THEN e ELSE q[j - 1]
    BY <1>3
<1> HIDE DEF r
<1>5. IdsApart(r)
    <2> SUFFICES ASSUME NEW i \in 1..(Len(q) + 1), NEW j \in 1..(Len(q) + 1), i < j
                 PROVE  r[i].id # r[j].id
        BY <1>1, <1>2 DEF IdsApart
    <2>1. CASE j < k
        BY <1>1, <1>4, <2>1 DEF Holds, IdsApart
    <2>2. CASE j = k
        BY <1>1, <1>4, <2>2 DEF Holds, IdsApart
    <2>3. CASE j > k /\ i < k
        BY <1>1, <1>4, <2>3 DEF Holds, IdsApart
    <2>4. CASE j > k /\ i = k
        BY <1>1, <1>4, <2>4 DEF Holds, IdsApart
    <2>5. CASE j > k /\ i > k
        BY <1>1, <1>4, <2>5, SMTT(60) DEF Holds, IdsApart
    <2>6. QED
        BY <1>1, <2>1, <2>2, <2>3, <2>4, <2>5
<1>6. ASSUME NEW j \in 1..Len(r) PROVE r[j] \in S \cup {e}
    BY <1>1, <1>2, <1>4 DEF Holds
<1>7. ASSUME NEW m \in S PROVE \E j \in 1..Len(r) : r[j] = m
    <2>1. PICK i \in 1..Len(q) : q[i] = m
        BY DEF Holds
    <2>2. CASE i < k
        <3>1. i \in 1..Len(r) /\ r[i] = m
            BY <1>1, <1>2, <1>4, <2>1, <2>2
        <3>2. QED
            BY <3>1
    <2>3. CASE i >= k
        <3>1. i + 1 \in 1..Len(r) /\ r[i + 1] = m
            BY <1>1, <1>2, <1>4, <2>1, <2>3
        <3>2. QED
            BY <3>1
    <2>4. QED
        BY <1>1, <2>2, <2>3
<1>8. k \in 1..Len(r) /\ r[k] = e
    BY <1>1, <1>2, <1>4
<1>9. S \cup {e} = {r[j] : j \in 1..Len(r)}
    BY <1>6, <1>7, <1>8
<1>10. QED
    BY <1>2, <1>5, <1>9 DEF Holds, r

\* One more message in front is one more in the set.
LEMMA HoldsCons ==
    ASSUME NEW q, NEW S, Holds(q, S), NEW e \in Message, \A m \in S : m.id # e.id
    PROVE  Holds(Cons(e, q), S \cup {e})
<1>1. /\ Len(q) \in Nat /\ q \in Seq(Message)
      /\ \A i \in 1..Len(q) : q[i].id # e.id
    BY HoldsFacts DEF Holds
<1> DEFINE r == Cons(e, q)
<1>2. r \in Seq(Message) /\ Len(r) = Len(q) + 1
    BY <1>1, ConsProperties
<1>3. \A j \in 1..(Len(q) + 1) : Cons(e, q)[j] = IF j = 1 THEN e ELSE q[j - 1]
    BY <1>1, ConsProperties
<1>4. \A j \in 1..(Len(q) + 1) : r[j] = IF j = 1 THEN e ELSE q[j - 1]
    BY <1>3
<1> HIDE DEF r
<1>5. IdsApart(r)
    <2> SUFFICES ASSUME NEW i \in 1..(Len(q) + 1), NEW j \in 1..(Len(q) + 1), i < j
                 PROVE  r[i].id # r[j].id
        BY <1>1, <1>2 DEF IdsApart
    <2>1. CASE i = 1
        BY <1>1, <1>4, <2>1
    <2>2. CASE i > 1
        BY <1>1, <1>4, <2>2, SMTT(60) DEF Holds, IdsApart
    <2>3. QED
        BY <1>1, <2>1, <2>2
<1>6. ASSUME NEW j \in 1..Len(r) PROVE r[j] \in S \cup {e}
    BY <1>1, <1>2, <1>4 DEF Holds
<1>7. ASSUME NEW m \in S PROVE \E j \in 1..Len(r) : r[j] = m
    <2>1. PICK i \in 1..Len(q) : q[i] = m
        BY DEF Holds
    <2>2. i + 1 \in 1..Len(r) /\ r[i + 1] = m
        BY <1>1, <1>2, <1>4, <2>1
    <2>3. QED
        BY <2>2
<1>8. 1 \in 1..Len(r) /\ r[1] = e
    BY <1>1, <1>2, <1>4
<1>9. S \cup {e} = {r[j] : j \in 1..Len(r)}
    BY <1>6, <1>7, <1>8
<1>10. QED
    BY <1>2, <1>5, <1>9 DEF Holds, r

\* A message is taken out, or the head is.
LEMMA HoldsRemoveAt ==
    ASSUME NEW q, NEW S, Holds(q, S), NEW k \in 1..Len(q)
    PROVE  Holds(RemoveAt(q, k), S \ {q[k]})
<1> DEFINE r == RemoveAt(q, k)
<1>1. Len(q) \in Nat /\ q \in Seq(Message)
    BY HoldsFacts DEF Holds
<1>2. r \in Seq(Message) /\ Len(r) = Len(q) - 1
    BY <1>1, RemoveAtProperties
<1>3. \A j \in 1..(Len(q) - 1) : RemoveAt(q, k)[j] = IF j < k THEN q[j] ELSE q[j + 1]
    BY <1>1, RemoveAtProperties
<1>4. \A j \in 1..(Len(q) - 1) : r[j] = IF j < k THEN q[j] ELSE q[j + 1]
    BY <1>3
<1> HIDE DEF r
<1>5. IdsApart(r)
    <2> DEFINE was(h) == IF h < k THEN h ELSE h + 1
    <2>1. SUFFICES ASSUME NEW i \in 1..Len(r), NEW j \in 1..Len(r), r[i].id = r[j].id
                   PROVE  i = j
        BY DEF IdsApart
    <2>2. was(i) \in 1..Len(q) /\ r[i] = q[was(i)]
        BY <1>1, <1>2, <1>4
    <2>3. was(j) \in 1..Len(q) /\ r[j] = q[was(j)]
        BY <1>1, <1>2, <1>4
    <2>4. was(i) = was(j) => i = j
        BY <1>1, <1>2
    <2> HIDE DEF was
    <2>5. was(i) = was(j)
        BY <2>1, <2>2, <2>3 DEF Holds, IdsApart
    <2>6. QED
        BY <2>4, <2>5
<1>6. \A i, j \in 1..Len(q) : q[i] = q[j] => i = j
    BY DEF Holds, IdsApart
<1>7. ASSUME NEW j \in 1..Len(r) PROVE r[j] \in S \ {q[k]}
    <2>1. CASE j < k
        BY <1>1, <1>2, <1>4, <1>6, <2>1 DEF Holds
    <2>2. CASE j >= k
        <3>1. j + 1 \in 1..Len(q) /\ r[j] = q[j + 1] /\ j + 1 # k
            BY <1>1, <1>2, <1>4, <2>2
        <3>2. QED
            BY <1>6, <3>1 DEF Holds
    <2>3. QED
        BY <1>1, <1>2, <2>1, <2>2
<1>8. ASSUME NEW m \in S \ {q[k]} PROVE \E j \in 1..Len(r) : r[j] = m
    <2>1. PICK i \in 1..Len(q) : q[i] = m
        BY DEF Holds
    <2>2. CASE i < k
        <3>1. i \in 1..Len(r) /\ r[i] = m
            BY <1>1, <1>2, <1>4, <2>1, <2>2
        <3>2. QED
            BY <3>1
    <2>3. CASE i > k
        <3>1. i - 1 \in 1..Len(r) /\ r[i - 1] = m
            BY <1>1, <1>2, <1>4, <2>1, <2>3
        <3>2. QED
            BY <3>1
    <2>4. QED
        BY <1>1, <2>1, <2>2, <2>3
<1>9. S \ {q[k]} = {r[j] : j \in 1..Len(r)}
    BY <1>7, <1>8
<1>10. QED
    BY <1>2, <1>5, <1>9 DEF Holds, r

\* The head is of the set, and what follows holds the others.
LEMMA HoldsTail ==
    ASSUME NEW q, NEW S, Holds(q, S), q # <<>>
    PROVE  /\ Head(q) \in S /\ Head(q) \in Message
           /\ Holds(Tail(q), S \ {Head(q)})
<1>1. Len(q) \in Nat \ {0} /\ q \in Seq(Message) /\ Head(q) = q[1]
    BY EmptySeq, LenProperties DEF Holds
<1>2. Holds(RemoveAt(q, 1), S \ {q[1]})
    BY <1>1, HoldsRemoveAt
<1>3. Head(q) \in S /\ Head(q) \in Message
    BY <1>1, HoldsFacts
<1>4. RemoveAt(q, 1) = Tail(q)
    <2>1. /\ Tail(q) \in Seq(Message) /\ Len(Tail(q)) = Len(q) - 1
          /\ \A j \in 1..Len(Tail(q)) : Tail(q)[j] = q[j + 1]
        BY <1>1, HeadTailProperties
    <2>2. 1 \in 1..Len(q)
        BY <1>1
    <2>3. RemoveAt(q, 1) \in Seq(Message) /\ Len(RemoveAt(q, 1)) = Len(q) - 1
        BY <1>1, <2>2, RemoveAtProperties
    <2>4. \A j \in 1..(Len(q) - 1) :
            RemoveAt(q, 1)[j] = IF j < 1 THEN q[j] ELSE q[j + 1]
        BY <1>1, <2>2, RemoveAtProperties, Zenon
    <2>5. \A j \in 1..Len(RemoveAt(q, 1)) : RemoveAt(q, 1)[j] = Tail(q)[j]
        BY <1>1, <2>1, <2>3, <2>4
    <2>6. QED
        BY <1>1, <2>1, <2>3, <2>5, SeqEqual
<1>5. QED
    BY <1>1, <1>2, <1>3, <1>4

\* A message is changed where it stands.
LEMMA HoldsExcept ==
    ASSUME NEW q, NEW S, Holds(q, S), NEW k \in 1..Len(q), NEW e \in Message,
           e.id = q[k].id
    PROVE  Holds([q EXCEPT ![k] = e], (S \ {q[k]}) \cup {e})
<1> DEFINE r == [q EXCEPT ![k] = e]
<1>1. Len(q) \in Nat /\ q \in Seq(Message) /\ DOMAIN q = 1..Len(q)
    BY LenProperties DEF Holds
<1>2. /\ r \in Seq(Message) /\ Len(r) = Len(q)
      /\ \A j \in 1..Len(q) : r[j] = IF j = k THEN e ELSE q[j]
    BY <1>1, ExceptSeq
<1> HIDE DEF r
<1>3. IdsApart(r)
    BY <1>1, <1>2 DEF Holds, IdsApart
<1>4. \A i, j \in 1..Len(q) : q[i] = q[j] => i = j
    BY DEF Holds, IdsApart
<1>5. (S \ {q[k]}) \cup {e} = {r[j] : j \in 1..Len(r)}
    BY <1>2, <1>4 DEF Holds
<1>6. QED
    BY <1>2, <1>3, <1>5 DEF Holds, r

-----------------------------------------------------------------------------
(* What is seen of a message.                                              *)

View(m) == [kind |-> m.method, phase |-> Phase(m), sends |-> m.sends, gen |-> m.gen,
            old |-> m.old]

\* SmqService sees of a message its view, and of a free place nothing.
LEMMA SeenFacts ==
    ASSUME NEW q, NEW S, Holds(q, S)
    PROVE  /\ \A m \in S : Seen(q, m.id) = View(m)
           /\ \A id : (\A m \in S : m.id # id) => Seen(q, id) = Free
<1>1. ASSUME NEW m \in S PROVE Seen(q, m.id) = View(m)
    <2>1. PICK k \in 1..Len(q) : q[k] = m
        BY DEF Holds
    <2>2. (CHOOSE i \in 1..Len(q) : q[i].id = m.id) = k
        BY <2>1 DEF Holds, IdsApart
    <2>3. QED
        BY <2>1, <2>2 DEF Seen, View
<1>2. ASSUME NEW id, \A m \in S : m.id # id PROVE Seen(q, id) = Free
    BY <1>2 DEF Seen, Holds
<1>3. QED
    BY <1>1, <1>2

\* The parts of a view.
LEMMA ViewFacts ==
    ASSUME NEW m \in Message
    PROVE  /\ View(m) # Free
           /\ View(m).kind = m.method /\ View(m).phase = Phase(m)
           /\ View(m).sends = m.sends /\ View(m).gen = m.gen /\ View(m).old = m.old
           /\ Phase(m) \in {"held", "done", "failed"}
           /\ m.id \in Ids
<1>1. m.method \in {"MESSAGE", "REGISTER", "RESPONSE"} /\ m.id \in Ids
    BY DEF Message, RequestMethods
<1>2. Phase(m) \in {"held", "done", "failed"}
    BY DEF Phase
<1>3. View(m).kind # Free.kind
    BY <1>1 DEF View, Free
<1>4. QED
    BY <1>1, <1>2, <1>3 DEF View

\* e is message m after something that changes neither what it is nor what has
\* been done for it.
Kin(e, m) ==
    /\ e \in Message
    /\ e.id = m.id /\ e.method = m.method /\ e.qtag = m.qtag
    /\ e.gen = m.gen /\ e.sends = m.sends /\ e.old = m.old
    /\ m.method = "REGISTER" => e.uri = m.uri

-----------------------------------------------------------------------------
(* Steps of the service: what a change of the set of messages amounts to.  *)

\* The service sees nothing of a step.
Unseen == UNCHANGED Service!vars

\* If every view stays, SmqService sees nothing.
LEMMA SameView ==
    ASSUME NEW M, Holds(time_sorted_list, M), NEW N, Holds(time_sorted_list', N),
           \A m \in M : \E n \in N : n.id = m.id /\ View(n) = View(m),
           \A n \in N : \E m \in M : n.id = m.id,
           sent' = sent, Len(file') = Len(file), running' = running
    PROVE  Unseen
<1>1. ASSUME NEW id \in Ids PROVE Seen(time_sorted_list', id) = Seen(time_sorted_list, id)
    <2>1. CASE \E m \in M : m.id = id
        BY <2>1, SeenFacts
    <2>2. CASE \A m \in M : m.id # id
        BY <2>2, SeenFacts
    <2>3. QED
        BY <2>1, <2>2
<1>2. [id \in Ids |-> Seen(time_sorted_list', id)] = [id \in Ids |-> Seen(time_sorted_list, id)]
    BY <1>1
<1>3. QED
    BY <1>2 DEF Unseen, Service!vars, Up

\* A request that the service holds is worked on: it goes on, or it ends.
LEMMA WorkStep ==
    ASSUME NEW M, Holds(time_sorted_list, M), NEW h \in M, NEW e,
           Holds(time_sorted_list', (M \ {h}) \cup {e}),
           h.method # "RESPONSE", Phase(h) = "held", Kin(e, h), Up,
           sent' = sent, file' = file, running' = running
    PROVE  [Service!Next]_(Service!vars)
<1> DEFINE N == (M \ {h}) \cup {e}
           p == h.id
<1>1. /\ h \in Message /\ \A m, n \in M : m.id = n.id => m = n
      /\ \A n \in M \ {h} : n.id # p
    BY HoldsFacts
<1>2. /\ View(h) # Free /\ View(e) # Free /\ p \in Ids
      /\ View(h).kind = h.method /\ View(h).phase = "held"
    BY <1>1, ViewFacts DEF Kin
<1>3. Seen(time_sorted_list, p) = View(h) /\ Seen(time_sorted_list', p) = View(e)
    BY SeenFacts DEF Kin
<1>4. ASSUME NEW id \in Ids, id # p
      PROVE  Seen(time_sorted_list', id) = Seen(time_sorted_list, id)
    <2>1. CASE \E m \in M : m.id = id
        BY <1>4, <2>1, SeenFacts
    <2>2. CASE \A m \in M : m.id # id
        BY <1>4, <2>2, SeenFacts DEF Kin
    <2>3. QED
        BY <2>1, <2>2
<1>5. CASE Phase(e) = "held"
    <2>1. View(e) = View(h)
        BY <1>5 DEF View, Kin
    <2>2. [id \in Ids |-> Seen(time_sorted_list', id)] = [id \in Ids |-> Seen(time_sorted_list, id)]
        BY <1>3, <1>4, <2>1
    <2>3. QED
        BY <2>2 DEF Service!vars, Up
<1>6. ASSUME NEW how \in {"done", "failed"}, Phase(e) = how PROVE Service!Next
    <2>1. View(e) = [View(h) EXCEPT !.phase = how]
        BY <1>6 DEF View, Kin
    <2>2. Service!End(p, how)
        BY <1>2, <1>3, <1>4, <2>1 DEF Service!End, Service!Ended, Service!PlacesOnly, Up
    <2>3. p \in Service!Requests
        BY <1>2, <1>3 DEF Service!Requests, Service!Held, Service!Vacant
    <2>4. QED
        BY <2>2, <2>3 DEF Service!Next, Service!Work
<1>7. QED
    BY <1>5, <1>6, <1>1, ViewFacts DEF Kin

\* A node is seen as it was if nothing there has changed.
LEMMA SeenSame ==
    ASSUME NEW q, NEW M, Holds(q, M), NEW r, NEW N, Holds(r, N), NEW id,
           \A m \in M : m.id = id => m \in N,
           \A n \in N : n.id = id => n \in M
    PROVE  Seen(r, id) = Seen(q, id)
<1>1. CASE \E m \in M : m.id = id
    BY <1>1, SeenFacts
<1>2. CASE \A m \in M : m.id # id
    BY <1>2, SeenFacts
<1>3. QED
    BY <1>1, <1>2

\* What is there is seen, and a node without a message is vacant.
LEMMA SeenAt ==
    ASSUME NEW q, NEW M, Holds(q, M)
    PROVE  /\ \A m \in M : /\ m \in Message /\ m.id \in Ids
                           /\ Seen(q, m.id) = View(m) /\ View(m) # Free
                           /\ View(m).kind = m.method /\ View(m).phase = Phase(m)
                           /\ View(m).sends = m.sends /\ View(m).gen = m.gen
                           /\ View(m).old = m.old
           /\ \A id : (\A m \in M : m.id # id) => Seen(q, id) = Free
BY HoldsFacts, SeenFacts, ViewFacts

\* A new message is seen as New.
Newborn(n, M, kind, gen) ==
    /\ n \in Message /\ \A m \in M : m.id # n.id
    /\ n.method = kind /\ Phase(n) = "held" /\ n.sends = 0 /\ n.gen = gen /\ n.old = FALSE

\* A new message is seen as a new one.
LEMMA NewbornView ==
    ASSUME NEW n, NEW M, NEW kind, NEW gen, Newborn(n, M, kind, gen)
    PROVE  View(n) = Service!New(kind, gen) /\ n.id \in Ids
BY DEF Newborn, View, Service!New, Message

\* A message that is done leaves the queue: SmqService forgets it.
LEMMA ForgetStep ==
    ASSUME NEW M, Holds(time_sorted_list, M), NEW h \in M,
           Holds(time_sorted_list', M \ {h}), Phase(h) # "held", Up,
           sent' = sent, file' = file, running' = running
    PROVE  Service!Next
<1> DEFINE p == h.id
<1>1. \A n \in M \ {h} : n.id # p
    BY HoldsFacts
<1>2. /\ p \in Ids /\ Seen(time_sorted_list, p) = View(h) /\ View(h) # Free
      /\ View(h).phase # "held"
    BY SeenAt
<1>3. Seen(time_sorted_list', p) = Free
    BY <1>1, SeenAt
<1>4. ASSUME NEW id \in Ids, id # p
      PROVE  Seen(time_sorted_list', id) = Seen(time_sorted_list, id)
    BY <1>4, SeenSame
<1>5. Service!Forget(p)
    BY <1>2, <1>3, <1>4 DEF Service!Forget, Service!PlacesOnly, Up
<1>6. p \in Ids \ (Service!Vacant \cup Service!Held)
    BY <1>2 DEF Service!Held, Service!Vacant
<1>7. QED
    BY <1>5, <1>6 DEF Service!Next, Service!Work

\* A message is sent once more: SmqService offers it.
LEMMA OfferStep ==
    ASSUME NEW M, Holds(time_sorted_list, M), NEW h \in M, NEW e,
           Holds(time_sorted_list', (M \ {h}) \cup {e}),
           h.method # "RESPONSE", Phase(h) = "held", Phase(e) = "held",
           e \in Message, e.id = h.id, e.method = h.method, e.gen = h.gen, e.old = h.old,
           e.sends = h.sends + 1, MaxRetries # 0 => h.sends < MaxRetries,
           NEW r, sent' = sent \cup {r}, r.stale <=> h.old /\ h.method = "REGISTER",
           Up, file' = file, running' = running
    PROVE  Service!Next
<1> DEFINE p == h.id
<1>1. \A n \in M \ {h} : n.id # p
    BY HoldsFacts
<1>2. /\ p \in Ids /\ Seen(time_sorted_list, p) = View(h) /\ View(h) # Free
      /\ View(h).phase = "held" /\ View(h).kind = h.method /\ View(h).sends = h.sends
      /\ View(h).old = h.old
    BY SeenAt
<1>3. Seen(time_sorted_list', p) = View(e)
    BY SeenAt
<1>4. View(e) = [View(h) EXCEPT !.sends = @ + 1]
    BY DEF View
<1>5. ASSUME NEW id \in Ids, id # p
      PROVE  Seen(time_sorted_list', id) = Seen(time_sorted_list, id)
    BY <1>5, SeenSame
<1>6. (\E s \in sent' : s.stale)
        <=> (\E s \in sent : s.stale) \/ (h.old /\ h.method = "REGISTER")
    OBVIOUS
<1>7. sent' # {}
    OBVIOUS
<1>8. Service!Offer(p)
    <2> DEFINE place == [id \in Ids |-> Seen(time_sorted_list, id)]
               next == [id \in Ids |-> Seen(time_sorted_list', id)]
    <2>1. place[p] = View(h)
        BY <1>2
    <2>2. MaxRetries # 0 => place[p].sends < MaxRetries
        BY <1>2, <2>1
    <2>3. next = [place EXCEPT ![p].sends = @ + 1]
        BY <1>2, <1>3, <1>4, <1>5
    <2>4. (sent' # {}) = TRUE
        BY <1>7
    <2>5. (\E s \in sent : s.stale)'
            = ((\E s \in sent : s.stale) \/ (place[p].old /\ place[p].kind = "REGISTER"))
        <3>1. place[p].old = h.old /\ place[p].kind = h.method
            BY <1>2, <2>1
        <3> HIDE DEF place
        <3>2. QED
            BY <1>6, <3>1, Zenon
    <2>6. UNCHANGED <<Len(file), Up>>
        BY DEF Up
    <2>7. QED
        BY <2>2, <2>3, <2>4, <2>5, <2>6, Zenon DEF Service!Offer
<1>9. p \in Service!Requests
    BY <1>2 DEF Service!Requests, Service!Held, Service!Vacant
<1>10. QED
    BY <1>8, <1>9 DEF Service!Next, Service!Work

\* A message is done and its sender is told.
LEMMA TellStep ==
    ASSUME NEW M, Holds(time_sorted_list, M), NEW h \in M, NEW e, NEW n,
           Holds(time_sorted_list', (M \ {h}) \cup {e, n}),
           h.method = "MESSAGE", Phase(h) = "held", Kin(e, h), Phase(e) = "done",
           h.gen < 2, Newborn(n, M, "MESSAGE", h.gen + 1), Up,
           sent' = sent, file' = file, running' = running
    PROVE  Service!Next
<1> DEFINE p == h.id
           k == n.id
<1>1. (\A m \in M \ {h} : m.id # p) /\ k # p
    BY HoldsFacts DEF Newborn
<1>2. /\ p \in Ids /\ Seen(time_sorted_list, p) = View(h) /\ View(h) # Free
      /\ View(h).phase = "held" /\ View(h).kind = "MESSAGE" /\ View(h).gen = h.gen
    BY SeenAt
<1>3. Seen(time_sorted_list, k) = Free /\ k \in Ids
    BY SeenAt, NewbornView DEF Newborn
<1>4. Seen(time_sorted_list', p) = View(e) /\ Seen(time_sorted_list', k) = View(n)
    <2>1. e \in (M \ {h}) \cup {e, n} /\ n \in (M \ {h}) \cup {e, n} /\ e.id = p
        BY DEF Kin
    <2>2. QED
        BY <2>1, SeenAt
<1>5. View(e) = [View(h) EXCEPT !.phase = "done"]
    BY DEF View, Kin
<1>6. View(n) = Service!New("MESSAGE", h.gen + 1)
    BY NewbornView
<1>7. ASSUME NEW id \in Ids, id # p, id # k
      PROVE  Seen(time_sorted_list', id) = Seen(time_sorted_list, id)
    BY <1>7, SeenSame DEF Kin
<1>8. Service!EndAndTell(p, k)
    BY <1>1, <1>2, <1>3, <1>4, <1>5, <1>6, <1>7
       DEF Service!EndAndTell, Service!Ended, Service!PlacesOnly, Up
<1>9. p \in Service!Messages /\ k \in Service!Vacant
    BY <1>2, <1>3 DEF Service!Messages, Service!Held, Service!Vacant
<1>10. QED
    BY <1>8, <1>9 DEF Service!Next, Service!Work

\* A message waits and a REGISTER is made for it.
LEMMA RegisterStep ==
    ASSUME NEW M, Holds(time_sorted_list, M), NEW h \in M, NEW e, NEW n,
           Holds(time_sorted_list', (M \ {h}) \cup {e, n}),
           h.method = "MESSAGE", Phase(h) = "held", Kin(e, h), Phase(e) = "held",
           h.gen = 0, Newborn(n, M, "REGISTER", 1), Up,
           sent' = sent, file' = file, running' = running
    PROVE  Service!Next
<1> DEFINE p == h.id
           k == n.id
<1>1. (\A m \in M \ {h} : m.id # p) /\ k # p
    BY HoldsFacts DEF Newborn
<1>2. /\ p \in Ids /\ Seen(time_sorted_list, p) = View(h) /\ View(h) # Free
      /\ View(h).phase = "held" /\ View(h).kind = "MESSAGE" /\ View(h).gen = 0
    BY SeenAt
<1>3. Seen(time_sorted_list, k) = Free /\ k \in Ids
    BY SeenAt, NewbornView DEF Newborn
<1>4. Seen(time_sorted_list', p) = View(e) /\ Seen(time_sorted_list', k) = View(n)
    <2>1. e \in (M \ {h}) \cup {e, n} /\ n \in (M \ {h}) \cup {e, n} /\ e.id = p
        BY DEF Kin
    <2>2. QED
        BY <2>1, SeenAt
<1>5. View(e) = View(h)
    BY DEF View, Kin
<1>6. View(n) = Service!New("REGISTER", 1)
    BY NewbornView
<1>7. ASSUME NEW id \in Ids, id # p, id # k
      PROVE  Seen(time_sorted_list', id) = Seen(time_sorted_list, id)
    BY <1>7, SeenSame DEF Kin
<1>8. Service!Register(p, k)
    BY <1>1, <1>2, <1>3, <1>4, <1>5, <1>6, <1>7
       DEF Service!Register, Service!PlacesOnly, Up
<1>9. p \in Service!Messages /\ k \in Service!Vacant
    BY <1>2, <1>3 DEF Service!Messages, Service!Held, Service!Vacant
<1>10. QED
    BY <1>8, <1>9 DEF Service!Next, Service!Work

\* The command is done and another message is gone, without a reply.
LEMMA ZapStep ==
    ASSUME NEW M, Holds(time_sorted_list, M), NEW h \in M, NEW z \in M \ {h}, NEW e,
           Holds(time_sorted_list', (M \ {h, z}) \cup {e}),
           h.method = "MESSAGE", Phase(h) = "held", Kin(e, h), Phase(e) = "done", Up,
           sent' = sent, file' = file, running' = running
    PROVE  Service!Next
<1> DEFINE p == h.id
           k == z.id
<1>1. (\A m \in M \ {h} : m.id # p) /\ k # p /\ \A m \in M \ {z} : m.id # k
    BY HoldsFacts
<1>2. /\ p \in Ids /\ Seen(time_sorted_list, p) = View(h) /\ View(h) # Free
      /\ View(h).phase = "held" /\ View(h).kind = "MESSAGE"
      /\ k \in Ids /\ Seen(time_sorted_list, k) # Free
    BY SeenAt
<1>3. Seen(time_sorted_list', p) = View(e)
    BY SeenAt DEF Kin
<1>4. Seen(time_sorted_list', k) = Free
    BY <1>1, SeenAt DEF Kin
<1>5. View(e) = [View(h) EXCEPT !.phase = "done"]
    BY DEF View, Kin
<1>6. ASSUME NEW id \in Ids, id # p, id # k
      PROVE  Seen(time_sorted_list', id) = Seen(time_sorted_list, id)
    BY <1>6, SeenSame DEF Kin
<1>7. Service!Zap(p, k)
    BY <1>1, <1>2, <1>3, <1>4, <1>5, <1>6
       DEF Service!Zap, Service!Ended, Service!PlacesOnly, Up
<1>8. p \in Service!Messages /\ k \in Ids \ (Service!Vacant \cup {p})
    BY <1>1, <1>2 DEF Service!Messages, Service!Held, Service!Vacant
<1>9. QED
    BY <1>7, <1>8 DEF Service!Next, Service!Operate

\* The command is done, another message is gone, and the sender is told.
LEMMA ZapTellStep ==
    ASSUME NEW M, Holds(time_sorted_list, M), NEW h \in M, NEW z \in M \ {h},
           NEW e, NEW n, Holds(time_sorted_list', (M \ {h, z}) \cup {e, n}),
           h.method = "MESSAGE", Phase(h) = "held", Kin(e, h), Phase(e) = "done",
           h.gen < 2, Newborn(n, M, "MESSAGE", h.gen + 1), Up,
           sent' = sent, file' = file, running' = running
    PROVE  Service!Next
<1> DEFINE p == h.id
           k == z.id
           l == n.id
<1>1. /\ \A m \in M \ {h} : m.id # p
      /\ \A m \in M \ {z} : m.id # k
      /\ k # p /\ l # k /\ l # p
    BY HoldsFacts DEF Newborn
<1>2. /\ p \in Ids /\ Seen(time_sorted_list, p) = View(h) /\ View(h) # Free
      /\ View(h).phase = "held" /\ View(h).kind = "MESSAGE" /\ View(h).gen = h.gen
      /\ k \in Ids /\ Seen(time_sorted_list, k) # Free
    BY SeenAt
<1>3. Seen(time_sorted_list, l) = Free /\ l \in Ids
    BY SeenAt, NewbornView DEF Newborn
<1>4. Seen(time_sorted_list', p) = View(e) /\ Seen(time_sorted_list', l) = View(n)
    <2>1. e \in (M \ {h, z}) \cup {e, n} /\ n \in (M \ {h, z}) \cup {e, n} /\ e.id = p
        BY DEF Kin
    <2>2. QED
        BY <2>1, SeenAt
<1>5. Seen(time_sorted_list', k) = Free
    <2>1. \A m \in (M \ {h, z}) \cup {e, n} : m.id # k
        BY <1>1 DEF Kin
    <2>2. QED
        BY <2>1, SeenAt
<1>6. View(e) = [View(h) EXCEPT !.phase = "done"]
    BY DEF View, Kin
<1>7. View(n) = Service!New("MESSAGE", h.gen + 1)
    BY NewbornView
<1>8. ASSUME NEW id \in Ids, id # p, id # k, id # l
      PROVE  Seen(time_sorted_list', id) = Seen(time_sorted_list, id)
    BY <1>8, SeenSame DEF Kin
<1>9. Service!ZapAndTell(p, k, l)
    BY <1>1, <1>2, <1>3, <1>4, <1>5, <1>6, <1>7, <1>8
       DEF Service!ZapAndTell, Service!Ended, Service!PlacesOnly, Up
<1>10. /\ p \in Service!Messages /\ k \in Ids \ (Service!Vacant \cup {p})
       /\ l \in Service!Vacant
    BY <1>1, <1>2, <1>3 DEF Service!Messages, Service!Held, Service!Vacant
<1>11. QED
    BY <1>9, <1>10 DEF Service!Next, Service!Operate

\* The command is done and the process ends.
LEMMA StopStep ==
    ASSUME NEW M, Holds(time_sorted_list, M), NEW h \in M, NEW e,
           Holds(time_sorted_list', (M \ {h}) \cup {e}),
           h.method = "MESSAGE", Phase(h) = "held", Kin(e, h), Phase(e) = "done", Up,
           sent' = sent, file' = file, running' # "up"
    PROVE  Service!Next
<1> DEFINE p == h.id
<1>1. \A m \in M \ {h} : m.id # p
    BY HoldsFacts
<1>2. /\ p \in Ids /\ Seen(time_sorted_list, p) = View(h) /\ View(h) # Free
      /\ View(h).phase = "held" /\ View(h).kind = "MESSAGE"
    BY SeenAt
<1>3. Seen(time_sorted_list', p) = View(e)
    BY SeenAt DEF Kin
<1>4. View(e) = [View(h) EXCEPT !.phase = "done"]
    BY DEF View, Kin
<1>5. ASSUME NEW id \in Ids, id # p
      PROVE  Seen(time_sorted_list', id) = Seen(time_sorted_list, id)
    BY <1>5, SeenSame DEF Kin
<1>6. Service!Stop(p)
    BY <1>2, <1>3, <1>4, <1>5 DEF Service!Stop, Service!Ended, Up
<1>7. p \in Service!Messages
    BY <1>2 DEF Service!Messages, Service!Held, Service!Vacant
<1>8. QED
    BY <1>6, <1>7 DEF Service!Next, Service!Operate

\* The process dies during the command.
LEMMA CrashStep ==
    ASSUME NEW M, Holds(time_sorted_list, M), NEW h \in M, Phase(h) = "held", Up,
           time_sorted_list' = time_sorted_list, sent' = sent, file' = file, running' # "up"
    PROVE  Service!Next
<1>1. /\ h.id \in Ids /\ Seen(time_sorted_list, h.id) = View(h) /\ View(h) # Free
      /\ View(h).phase = "held"
    BY SeenAt
<1>2. Service!Held # {}
    BY <1>1 DEF Service!Held, Service!Vacant
<1>3. Service!Crash
    BY <1>2 DEF Service!Crash, Up
<1>4. QED
    BY <1>3 DEF Service!Next

\* What comes from the network is accepted.
LEMMA AcceptStep ==
    ASSUME NEW M, Holds(time_sorted_list, M), NEW n,
           Holds(time_sorted_list', M \cup {n}), Up, file = <<>>,
           sent' = sent, file' = file, running' = running,
           NEW kind, NEW gen, Newborn(n, M, kind, gen),
           \/ kind \in {"MESSAGE", "REGISTER"} /\ gen = 0
           \/ kind = "RESPONSE" /\ gen \in 0..2 /\ sent # {}
    PROVE  Service!Next
<1> DEFINE k == n.id
<1>1. Seen(time_sorted_list, k) = Free /\ k \in Ids
    BY SeenAt, NewbornView DEF Newborn
<1>2. Seen(time_sorted_list', k) = Service!New(kind, gen)
    BY SeenAt, NewbornView
<1>3. ASSUME NEW id \in Ids, id # k
      PROVE  Seen(time_sorted_list', id) = Seen(time_sorted_list, id)
    BY <1>3, SeenSame
<1>4. k \in Service!Vacant
    BY <1>1 DEF Service!Vacant
<1>5. CASE kind \in {"MESSAGE", "REGISTER"} /\ gen = 0
    <2>1. Service!Accept(k, kind)
        BY <1>1, <1>2, <1>3, <1>5 DEF Service!Accept, Service!PlacesOnly, Up
    <2>2. QED
        BY <1>4, <1>5, <2>1 DEF Service!Next, Service!Come
<1>6. CASE kind = "RESPONSE" /\ gen \in 0..2 /\ sent # {}
    <2>1. Service!AcceptAnswer(k, gen)
        BY <1>1, <1>2, <1>3, <1>6 DEF Service!AcceptAnswer, Service!PlacesOnly, Up
    <2>2. QED
        BY <1>4, <1>6, <2>1 DEF Service!Next, Service!Come
<1>7. QED
    BY <1>5, <1>6

\* What an earlier process has left is restored.
LEMMA RestoreStep ==
    ASSUME NEW M, Holds(time_sorted_list, M), NEW n \in Message,
           Holds(time_sorted_list', M \cup {n}), \A m \in M : m.id # n.id,
           n.method \in {"MESSAGE", "REGISTER"}, n.gen \in 0..2, n.sends = 0, n.old = TRUE,
           Up, Len(file) \in Nat, Len(file) > 0, Len(file') = Len(file) - 1,
           sent' = sent, running' = running
    PROVE  Service!Next
<1> DEFINE k == n.id
<1>1. Seen(time_sorted_list, k) = Free /\ k \in Ids
    BY SeenAt, ViewFacts
<1>2. Seen(time_sorted_list', k) = View(n)
    BY SeenAt
<1>3. View(n) = Service!Left(n.method, Phase(n), n.gen) /\ Phase(n) \in Service!Phases
    BY ViewFacts DEF View, Service!Left, Service!Phases
<1>4. ASSUME NEW id \in Ids, id # k
      PROVE  Seen(time_sorted_list', id) = Seen(time_sorted_list, id)
    BY <1>4, SeenSame
<1>5. k \in Service!Vacant
    BY <1>1 DEF Service!Vacant
<1>6. Service!Restore(k, n.method, Phase(n), n.gen)
    BY <1>1, <1>2, <1>3, <1>4 DEF Service!Restore, Up
<1>7. QED
    BY <1>3, <1>5, <1>6 DEF Service!Next, Service!Come

-----------------------------------------------------------------------------
(* Steps of the service that use an answer.                                *)

\* What SmqService lets an answer be about.
MayBeAnswered(x) ==
    \/ x.sends > 0 \/ x.method = "RESPONSE"
    \/ x.old \/ (x.method = "REGISTER" /\ \E s \in sent : s.stale)

\* An answer is noted: no view but its own changes.
LEMMA NoteStep ==
    ASSUME NEW M, Holds(time_sorted_list, M), NEW a \in M, NEW N,
           Holds(time_sorted_list', N), a.method = "RESPONSE", Phase(a) = "held",
           \A n \in N : n.id # a.id,
           \A m \in M \ {a} : \E n \in N : n.id = m.id /\ View(n) = View(m),
           \A n \in N : \E m \in M : n.id = m.id,
           Up, sent' = sent, file' = file, running' = running
    PROVE  Service!Next
<1> DEFINE p == a.id
<1>1. /\ p \in Ids /\ Seen(time_sorted_list, p) = View(a) /\ View(a) # Free
      /\ View(a).phase = "held" /\ View(a).kind = "RESPONSE"
    BY SeenAt
<1>2. Seen(time_sorted_list', p) = Free
    BY SeenAt
<1>3. ASSUME NEW id \in Ids, id # p
      PROVE  Seen(time_sorted_list', id) = Seen(time_sorted_list, id)
    <2>1. CASE \E m \in M : m.id = id
        BY <1>3, <2>1, SeenAt
    <2>2. CASE \A m \in M : m.id # id
        BY <2>2, SeenAt
    <2>3. QED
        BY <2>1, <2>2
<1>4. Service!NoteAnswer(p)
    BY <1>1, <1>2, <1>3 DEF Service!NoteAnswer, Service!PlacesOnly, Up
<1>5. p \in Service!Answers
    BY <1>1 DEF Service!Answers, Service!Held, Service!Vacant
<1>6. QED
    BY <1>4, <1>5 DEF Service!Next, Service!UseAnswer

\* An answer is noted and the message that it is for is gone.
LEMMA SettleStep ==
    ASSUME NEW M, Holds(time_sorted_list, M), NEW a \in M, NEW x \in M \ {a}, NEW N,
           Holds(time_sorted_list', N), a.method = "RESPONSE", Phase(a) = "held",
           MayBeAnswered(x),
           \A n \in N : n.id # a.id /\ n.id # x.id,
           \A m \in M \ {a, x} : \E n \in N : n.id = m.id /\ View(n) = View(m),
           \A n \in N : \E m \in M : n.id = m.id,
           Up, sent' = sent, file' = file, running' = running
    PROVE  Service!Next
<1> DEFINE p == a.id
           k == x.id
<1>1. /\ p \in Ids /\ Seen(time_sorted_list, p) = View(a) /\ View(a) # Free
      /\ View(a).phase = "held" /\ View(a).kind = "RESPONSE"
    BY SeenAt
<1>2. /\ k \in Ids /\ Seen(time_sorted_list, k) = View(x) /\ View(x) # Free
      /\ View(x).sends = x.sends /\ View(x).kind = x.method /\ View(x).old = x.old
      /\ k # p
    BY SeenAt, HoldsFacts
<1>3. Seen(time_sorted_list', p) = Free /\ Seen(time_sorted_list', k) = Free
    BY SeenAt
<1>4. ASSUME NEW id \in Ids, id # p, id # k
      PROVE  Seen(time_sorted_list', id) = Seen(time_sorted_list, id)
    <2>1. CASE \E m \in M : m.id = id
        BY <1>4, <2>1, SeenAt
    <2>2. CASE \A m \in M : m.id # id
        BY <2>2, SeenAt
    <2>3. QED
        BY <2>1, <2>2
<1>5. Service!Settle(p, k)
    BY <1>1, <1>2, <1>3, <1>4 DEF Service!Settle, Service!PlacesOnly, Up
<1>6. p \in Service!Answers /\ k \in Service!Answerable \ {p}
    BY <1>1, <1>2
       DEF Service!Answers, Service!Answerable, Service!Held, Service!Vacant, MayBeAnswered
<1>7. QED
    BY <1>5, <1>6 DEF Service!Next, Service!UseAnswer

\* An answer is noted and sends its message elsewhere.
LEMMA RedirectStep ==
    ASSUME NEW M, Holds(time_sorted_list, M), NEW a \in M, NEW x \in M \ {a}, NEW e,
           Holds(time_sorted_list', (M \ {a, x}) \cup {e}),
           a.method = "RESPONSE", Phase(a) = "held",
           MayBeAnswered(x),
           Kin(e, x), Phase(e) \in {"held", "failed"},
           Up, sent' = sent, file' = file, running' = running
    PROVE  Service!Next
<1> DEFINE p == a.id
           k == x.id
<1>1. /\ p \in Ids /\ Seen(time_sorted_list, p) = View(a) /\ View(a) # Free
      /\ View(a).phase = "held" /\ View(a).kind = "RESPONSE"
    BY SeenAt
<1>2. /\ k \in Ids /\ Seen(time_sorted_list, k) = View(x) /\ View(x) # Free
      /\ View(x).sends = x.sends /\ View(x).kind = x.method /\ View(x).old = x.old
      /\ k # p
      /\ \A m \in M \ {a} : m.id # p
    BY SeenAt, HoldsFacts
<1>3. Seen(time_sorted_list', p) = Free
    BY <1>2, SeenAt DEF Kin
<1>4. Seen(time_sorted_list', k) = View(e)
    BY SeenAt DEF Kin
<1>5. View(e) = [View(x) EXCEPT !.phase = Phase(e)]
    BY DEF View, Kin
<1>6. ASSUME NEW id \in Ids, id # p, id # k
      PROVE  Seen(time_sorted_list', id) = Seen(time_sorted_list, id)
    BY <1>6, SeenSame DEF Kin
<1>7. Service!Redirect(p, k, Phase(e))
    BY <1>1, <1>2, <1>3, <1>4, <1>5, <1>6
       DEF Service!Redirect, Service!Ended, Service!PlacesOnly, Up
<1>8. p \in Service!Answers /\ k \in Service!Answerable \ {p}
    BY <1>1, <1>2
       DEF Service!Answers, Service!Answerable, Service!Held, Service!Vacant, MayBeAnswered
<1>9. QED
    BY <1>7, <1>8 DEF Service!Next, Service!UseAnswer

\* An answer is noted, its message is done, and the sender is told.
LEMMA RefuseStep ==
    ASSUME NEW M, Holds(time_sorted_list, M), NEW a \in M, NEW x \in M \ {a},
           NEW e, NEW n, Holds(time_sorted_list', (M \ {a, x}) \cup {e, n}),
           a.method = "RESPONSE", Phase(a) = "held",
           MayBeAnswered(x),
           Kin(e, x), Phase(e) = "done", x.gen < 2,
           Newborn(n, M, "MESSAGE", x.gen + 1),
           Up, sent' = sent, file' = file, running' = running
    PROVE  Service!Next
<1> DEFINE p == a.id
           k == x.id
           l == n.id
<1>1. /\ p \in Ids /\ Seen(time_sorted_list, p) = View(a) /\ View(a) # Free
      /\ View(a).phase = "held" /\ View(a).kind = "RESPONSE"
    BY SeenAt
<1>2. /\ k \in Ids /\ Seen(time_sorted_list, k) = View(x) /\ View(x) # Free
      /\ View(x).sends = x.sends /\ View(x).kind = x.method /\ View(x).old = x.old
      /\ View(x).gen = x.gen
    BY SeenAt
<1>3. k # p /\ l # p /\ l # k /\ \A m \in M \ {a} : m.id # p
    BY HoldsFacts DEF Newborn
<1>4. Seen(time_sorted_list, l) = Free /\ l \in Ids
    BY SeenAt, NewbornView DEF Newborn
<1>5. Seen(time_sorted_list', p) = Free
    <2>1. \A m \in (M \ {a, x}) \cup {e, n} : m.id # p
        BY <1>3 DEF Kin
    <2>2. QED
        BY <2>1, SeenAt
<1>6. Seen(time_sorted_list', k) = View(e) /\ Seen(time_sorted_list', l) = View(n)
    <2>1. e \in (M \ {a, x}) \cup {e, n} /\ n \in (M \ {a, x}) \cup {e, n} /\ e.id = k
        BY DEF Kin
    <2>2. QED
        BY <2>1, SeenAt
<1>7. View(e) = [View(x) EXCEPT !.phase = "done"]
    BY DEF View, Kin
<1>8. View(n) = Service!New("MESSAGE", x.gen + 1)
    BY NewbornView
<1>9. ASSUME NEW id \in Ids, id # p, id # k, id # l
      PROVE  Seen(time_sorted_list', id) = Seen(time_sorted_list, id)
    BY <1>9, SeenSame DEF Kin
<1>10. Service!RefuseAndTell(p, k, l)
    BY <1>1, <1>2, <1>3, <1>4, <1>5, <1>6, <1>7, <1>8, <1>9
       DEF Service!RefuseAndTell, Service!Ended, Service!PlacesOnly, Up
<1>11. /\ p \in Service!Answers /\ k \in Service!Answerable \ {p}
       /\ l \in Service!Vacant
    BY <1>1, <1>2, <1>3, <1>4
       DEF Service!Answers, Service!Answerable, Service!Held, Service!Vacant, MayBeAnswered
<1>12. QED
    BY <1>10, <1>11 DEF Service!Next, Service!UseAnswer

-----------------------------------------------------------------------------
(* What has to be known of tags for an answer to be about what was sent.   *)

\* A client's own REGISTER is refused at once: it is never sent or looked up.
RegOK(m) ==
    m.method = "REGISTER" /\ m.uri # "none" =>
        /\ m.sends = 0 /\ m.state \in {"INITIAL_STATE", "NO_STATE", "DELETE_ME_STATE"}
        /\ m.qtag \notin 1..MaxRegister

\* Two requests may have the same tag: both are REGISTERs of smqueue, and the CSeq
\* of one that an earlier process made was given again.
Twins(m, n) ==
    /\ m.method = "REGISTER" /\ n.method = "REGISTER"
    /\ m.qtag \in 1..MaxRegister
    /\ m.old \/ n.old

\* Of the records F of the file, with the messages M and what the network has been
\* given, R: tags are kept apart but for the REGISTERs of smqueue, and a client's
\* REGISTER was not sent.
FileKnown(M, R, F) ==
    /\ \A i, j \in 1..Len(F) :
          F[i].qtag = F[j].qtag /\ i # j =>
             F[i].method = "REGISTER" /\ F[i].qtag \in 1..MaxRegister
    /\ \A i \in 1..Len(F), m \in M :
          m.method # "RESPONSE" /\ F[i].qtag = m.qtag =>
             /\ F[i].method = "REGISTER" /\ m.method = "REGISTER"
             /\ F[i].qtag \in 1..MaxRegister
    /\ \A i \in 1..Len(F) : F[i].qtag \in 1..MaxRegister => F[i].method = "REGISTER"
    /\ \A i \in 1..Len(F) :
          F[i].method = "REGISTER" /\ F[i].uri # "none" =>
             /\ F[i].state \in {"INITIAL_STATE", "NO_STATE", "DELETE_ME_STATE"}
             /\ F[i].qtag \notin 1..MaxRegister
             /\ \A s \in R : s.qtag # F[i].qtag

\* Of the messages M, the requests R that the network has been given, the records F
\* that are still to be read and the last CSeq c: a tag belongs to one request, but
\* for a CSeq given again; a request has been sent if the network knows its tag, or
\* this is from an earlier process; an answer has the tag of something that was sent;
\* no CSeq of a REGISTER is used before its time.
Known(M, R, F, c) ==
    /\ \A m, n \in M : /\ m.method # "RESPONSE" /\ n.method # "RESPONSE"
                       /\ m.qtag = n.qtag
                       => m = n \/ Twins(m, n)
    /\ \A m \in M, s \in R :
          m.method # "RESPONSE" /\ m.qtag = s.qtag =>
             /\ m.sends > 0 \/ m.old \/ (m.method = "REGISTER" /\ s.stale)
             /\ ~(m.method = "REGISTER" /\ m.uri # "none")
    /\ \A m \in M : m.method = "RESPONSE" => \E s \in R : s.qtag = m.qtag
    /\ \A m \in M : m.method # "RESPONSE" /\ m.qtag \in 1..MaxRegister =>
          m.method = "REGISTER" /\ (m.qtag <= c \/ m.old)
    /\ \A s \in R : s.qtag \in 1..MaxRegister => s.qtag <= c \/ s.stale
    /\ \A m \in M : RegOK(m)
    /\ FileKnown(M, R, F)

\* A request n may join them.
Joins(n, M, R, F, c) ==
    /\ n.method # "RESPONSE" /\ RegOK(n)
    /\ \A m \in M : m.method # "RESPONSE" /\ m.qtag = n.qtag => Twins(m, n)
    /\ \A s \in R : s.qtag = n.qtag =>
          /\ n.old \/ (n.method = "REGISTER" /\ s.stale)
          /\ ~(n.method = "REGISTER" /\ n.uri # "none")
    /\ n.qtag \in 1..MaxRegister => n.method = "REGISTER" /\ (n.qtag <= c \/ n.old)
    /\ \A i \in 1..Len(F) :
          F[i].qtag = n.qtag =>
             /\ F[i].method = "REGISTER" /\ n.method = "REGISTER"
             /\ n.qtag \in 1..MaxRegister

Stored == {time_sorted_list[i] : i \in 1..Len(time_sorted_list)}

ServiceInv ==
    /\ Holds(time_sorted_list, Stored)
    /\ Known(Stored, sent, file, register_call_seq)

\* The step keeps ServiceInv, and is a step of the service.
Simulated == ServiceInv' /\ [Service!Next]_(Service!vars)

\* What is known of the messages after a step is the invariant after it.
LEMMA StoredAfter ==
    ASSUME NEW N, Holds(time_sorted_list', N), Known(N, sent', file', register_call_seq')
    PROVE  ServiceInv'
<1>1. Stored' = N
    BY DEF Stored, Holds
<1>2. QED
    BY <1>1 DEF ServiceInv

\* Fewer messages are known as well.
LEMMA KnownLess ==
    ASSUME NEW M, NEW R, NEW F, NEW c, Known(M, R, F, c), NEW N, N \subseteq M
    PROVE  Known(N, R, F, c)
<1>1. FileKnown(N, R, F)
    BY DEF Known, FileKnown
<1>2. QED
    BY <1>1 DEF Known

\* A message may take the place of its kin.
LEMMA KnownKin ==
    ASSUME NEW M, NEW R, NEW F, NEW c, Known(M, R, F, c), NEW x \in M, NEW e, Kin(e, x),
           RegOK(e)
    PROVE  Known((M \ {x}) \cup {e}, R, F, c)
<1> DEFINE N == (M \ {x}) \cup {e}
<1>1. \A m, n \in N : /\ m.method # "RESPONSE" /\ n.method # "RESPONSE"
                      /\ m.qtag = n.qtag
                      => m = n \/ Twins(m, n)
    BY DEF Known, Kin, Twins
<1>2. \A m \in N, s \in R :
         m.method # "RESPONSE" /\ m.qtag = s.qtag =>
            /\ m.sends > 0 \/ m.old \/ (m.method = "REGISTER" /\ s.stale)
            /\ ~(m.method = "REGISTER" /\ m.uri # "none")
    BY DEF Known, Kin
<1>3. /\ \A m \in N : m.method = "RESPONSE" => \E s \in R : s.qtag = m.qtag
      /\ \A m \in N : m.method # "RESPONSE" /\ m.qtag \in 1..MaxRegister =>
            m.method = "REGISTER" /\ (m.qtag <= c \/ m.old)
      /\ \A s \in R : s.qtag \in 1..MaxRegister => s.qtag <= c \/ s.stale
      /\ \A m \in N : RegOK(m)
    BY DEF Known, Kin
<1>4. FileKnown(N, R, F)
    BY DEF Known, FileKnown, Kin
<1>5. QED
    BY <1>1, <1>2, <1>3, <1>4 DEF Known

\* A request that may join is known from then on.
LEMMA KnownNew ==
    ASSUME NEW M, NEW R, NEW F, NEW c, Known(M, R, F, c), NEW n, Joins(n, M, R, F, c)
    PROVE  Known(M \cup {n}, R, F, c)
<1> DEFINE N == M \cup {n}
<1>1. \A m, k \in N : /\ m.method # "RESPONSE" /\ k.method # "RESPONSE"
                      /\ m.qtag = k.qtag
                      => m = k \/ Twins(m, k)
    BY DEF Known, Joins, Twins
<1>2. \A m \in N, s \in R :
         m.method # "RESPONSE" /\ m.qtag = s.qtag =>
            /\ m.sends > 0 \/ m.old \/ (m.method = "REGISTER" /\ s.stale)
            /\ ~(m.method = "REGISTER" /\ m.uri # "none")
    BY DEF Known, Joins
<1>3. /\ \A m \in N : m.method = "RESPONSE" => \E s \in R : s.qtag = m.qtag
      /\ \A m \in N : m.method # "RESPONSE" /\ m.qtag \in 1..MaxRegister =>
            m.method = "REGISTER" /\ (m.qtag <= c \/ m.old)
      /\ \A s \in R : s.qtag \in 1..MaxRegister => s.qtag <= c \/ s.stale
      /\ \A m \in N : RegOK(m)
    BY DEF Known, Joins
<1>4. FileKnown(N, R, F)
    BY DEF Known, FileKnown, Joins
<1>5. QED
    BY <1>1, <1>2, <1>3, <1>4 DEF Known

\* So is an answer to what was sent.
LEMMA KnownAnswer ==
    ASSUME NEW M, NEW R, NEW F, NEW c, Known(M, R, F, c), NEW n, n.method = "RESPONSE",
           \E s \in R : s.qtag = n.qtag
    PROVE  Known(M \cup {n}, R, F, c)
<1>1. RegOK(n)
    BY DEF RegOK
<1>2. FileKnown(M \cup {n}, R, F)
    BY DEF Known, FileKnown
<1>3. QED
    BY <1>1, <1>2 DEF Known

\* A CSeq that was used stays used.
LEMMA KnownLater ==
    ASSUME NEW M, NEW R, NEW F, NEW c \in Nat, Known(M, R, F, c), NEW d \in Nat, c <= d
    PROVE  Known(M, R, F, d)
<1>1. \A t \in 1..MaxRegister : t <= c => t <= d
    BY BoundsAssumption
<1>2. QED
    BY <1>1 DEF Known

\* The network is given message h, which becomes e.
LEMMA KnownSent ==
    ASSUME NEW M, NEW R, NEW F, NEW c, Known(M, R, F, c), NEW h \in M, NEW e, NEW r,
           h.method # "RESPONSE", e.method = h.method, e.qtag = h.qtag, r.qtag = h.qtag,
           e.old = h.old, r.stale <=> h.old /\ h.method = "REGISTER",
           ~(h.method = "REGISTER" /\ h.uri # "none"),
           ~(e.method = "REGISTER" /\ e.uri # "none"),
           e.sends > 0, RegOK(e)
    PROVE  Known((M \ {h}) \cup {e}, R \cup {r}, F, c)
<1> DEFINE N == (M \ {h}) \cup {e}
           Q == R \cup {r}
<1>1. \A m, n \in N : /\ m.method # "RESPONSE" /\ n.method # "RESPONSE"
                      /\ m.qtag = n.qtag
                      => m = n \/ Twins(m, n)
    BY DEF Known, Twins
<1>2. ASSUME NEW m \in N, NEW s \in Q, m.method # "RESPONSE", m.qtag = s.qtag
      PROVE  /\ m.sends > 0 \/ m.old \/ (m.method = "REGISTER" /\ s.stale)
             /\ ~(m.method = "REGISTER" /\ m.uri # "none")
    <2>1. CASE m = e
        BY <2>1
    <2>2. CASE m \in M \ {h} /\ s \in R
        BY <1>2, <2>2 DEF Known
    <2>3. CASE m \in M \ {h} /\ s = r
        <3>1. Twins(m, h)
            BY <1>2, <2>3 DEF Known
        <3>2. ~(m.method = "REGISTER" /\ m.uri # "none")
            BY <1>2, <2>3, <3>1 DEF Known, RegOK, Twins
        <3>3. m.old \/ (m.method = "REGISTER" /\ s.stale)
            BY <2>3, <3>1 DEF Twins
        <3>4. QED
            BY <3>2, <3>3
    <2>4. QED
        BY <2>1, <2>2, <2>3
<1>3. \A m \in N : m.method = "RESPONSE" => \E s \in Q : s.qtag = m.qtag
    BY DEF Known
<1>4. \A m \in N : m.method # "RESPONSE" /\ m.qtag \in 1..MaxRegister =>
         m.method = "REGISTER" /\ (m.qtag <= c \/ m.old)
    BY DEF Known
<1>5. \A s \in Q : s.qtag \in 1..MaxRegister => s.qtag <= c \/ s.stale
    BY DEF Known
<1>6. \A m \in N : RegOK(m)
    BY DEF Known
<1>7. FileKnown(N, Q, F)
    BY DEF Known, FileKnown
<1>8. QED
    BY <1>1, <1>2, <1>3, <1>4, <1>5, <1>6, <1>7 DEF Known

\* A request of smqueue's own, or of a client, with a fresh tag may join.
LEMMA FreshMeans ==
    ASSUME TagsApart, NEW n, n.method # "RESPONSE", n.sends = 0,
           n.state \in {"INITIAL_STATE", "NO_STATE", "DELETE_ME_STATE"}
             \/ n.method # "REGISTER",
           n.qtag \in UserTags \cup OwnNumbers, FreshTag(n.qtag)
    PROVE  Joins(n, Stored, sent, file, register_call_seq)
<1>1. /\ n.qtag \notin 1..MaxRegister
      /\ \A m \in Stored : m.qtag # n.qtag
      /\ \A s \in sent : s.qtag # n.qtag
      /\ \A i \in 1..Len(file) : file[i].qtag # n.qtag
    BY DEF TagsApart, CSeqs, FreshTag, TagsOf, Stored
<1>2. RegOK(n)
    BY <1>1 DEF RegOK
<1>3. QED
    BY <1>1, <1>2 DEF Joins

\* So may a REGISTER with the next CSeq.
LEMMA NextCSeqMeans ==
    ASSUME QueueInv, ServiceInv, register_call_seq < MaxRegister, NEW n,
           n.method = "REGISTER", n.uri = "none", n.qtag = register_call_seq + 1
    PROVE  Joins(n, Stored, sent, file, register_call_seq + 1)
<1>1. /\ register_call_seq \in Nat /\ register_call_seq + 1 \in 1..MaxRegister
      /\ register_call_seq + 1 <= register_call_seq + 1
    BY BoundsAssumption DEF QueueInv
<1>2. ~(register_call_seq + 1 <= register_call_seq)
    BY <1>1
<1> DEFINE c == register_call_seq
           t == c + 1
<1>3. /\ Known(Stored, sent, file, c)
      /\ t \in 1..MaxRegister /\ ~(t <= c) /\ t <= t /\ n.qtag = t
    BY <1>1, <1>2 DEF ServiceInv
<1> HIDE DEF t, c
<1>4. \A m \in Stored : m.method # "RESPONSE" /\ m.qtag = n.qtag => Twins(m, n)
    BY <1>3 DEF Known, Twins
<1>5. \A s \in sent : s.qtag = n.qtag => s.stale
    BY <1>3 DEF Known
<1>6. \A i \in 1..Len(file) : file[i].qtag = n.qtag => file[i].method = "REGISTER"
    BY <1>3 DEF Known, FileKnown
<1>7. RegOK(n)
    BY DEF RegOK
<1>8. Joins(n, Stored, sent, file, t)
    BY <1>3, <1>4, <1>5, <1>6, <1>7 DEF Joins
<1>9. QED
    BY <1>8 DEF t, c

-----------------------------------------------------------------------------
(* The operations of the list as changes of the set of messages.           *)

\* A change of state leaves a message its kin.
LEMMA RestateKin ==
    ASSUME NEW m, NEW h, Kin(m, h), NEW s \in sm_state
    PROVE  Kin(Restate(m, s), h) /\ Restate(m, s).state = s
<1>1. m \in Message
    BY DEF Kin
<1>2. Restate(m, s) \in Message /\ Restate(m, s).state = s
    BY <1>1, RestateType
<1>3. /\ Restate(m, s).id = m.id /\ Restate(m, s).method = m.method
      /\ Restate(m, s).qtag = m.qtag /\ Restate(m, s).uri = m.uri
      /\ Restate(m, s).gen = m.gen /\ Restate(m, s).sends = m.sends
      /\ Restate(m, s).old = m.old
    BY <1>1 DEF Restate, Message
<1>4. QED
    BY <1>2, <1>3 DEF Kin

\* A message is its own kin.
LEMMA SelfKin ==
    ASSUME NEW m \in Message
    PROVE  Kin(m, m)
BY DEF Kin

\* set_state() puts its message back, in the new state.
LEMMA MoveHolds ==
    ASSUME NEW q, NEW S, Holds(q, S), NEW m \in Message, NEW s \in sm_state,
           \A x \in S : x.id # m.id, Move(q, m, s)
    PROVE  Holds(time_sorted_list', S \cup {Restate(m, s)})
<1> DEFINE e == Restate(m, s)
<1>1. Kin(e, m)
    BY SelfKin, RestateKin
<1>2. e \in Message /\ \A x \in S : x.id # e.id
    BY <1>1 DEF Kin
<1>3. q \in Seq(Message)
    BY DEF Holds
<1>4. Slot(q, e.due) \in 1..(Len(q) + 1)
    BY <1>3, SlotInRange
<1>5. time_sorted_list' = InsertAt(q, Slot(q, e.due), e)
    BY DEF Move, set_state
<1> HIDE DEF e
<1>6. Holds(time_sorted_list', S \cup {e})
    BY <1>2, <1>4, <1>5, HoldsInsertAt
<1>7. QED
    BY <1>6 DEF e

\* insert_new_message() adds its message, in the new state.
LEMMA InsertHolds ==
    ASSUME NEW q, NEW S, Holds(q, S), NEW m \in Message, NEW s \in sm_state,
           \A x \in S : x.id # m.id
    PROVE  Holds(insert_new_message(q, m, s), S \cup {Restate(m, s)})
<1> DEFINE e == Restate(m, s)
<1>1. Kin(e, m)
    BY SelfKin, RestateKin
<1>2. e \in Message /\ \A x \in S : x.id # e.id
    BY <1>1 DEF Kin
<1> HIDE DEF e
<1>3. Holds(Cons(e, q), S \cup {e})
    BY <1>2, HoldsCons
<1>4. QED
    BY <1>3 DEF insert_new_message, e

\* The head of the list and the others, when a case of process_timeout() is
\* entered.
LEMMA HeadHolds ==
    ASSUME QueueInv, ServiceInv, NEW S, HeadIn(S)
    PROVE  /\ Up /\ First \in Stored /\ First \in Message /\ First.state \in S
           /\ Holds(Others, Stored \ {First})
           /\ \A x \in Stored \ {First} : x.id # First.id
           /\ RegOK(First)
<1>1. /\ Up /\ time_sorted_list # <<>> /\ First.state \in S
      /\ Holds(time_sorted_list, Stored)
    BY DEF HeadIn, ServiceInv
<1>2. First \in Stored /\ First \in Message /\ Holds(Others, Stored \ {First})
    BY <1>1, HoldsTail DEF First, Others
<1>3. \A x \in Stored \ {First} : x.id # First.id
    BY <1>1, <1>2, HoldsFacts
<1>4. RegOK(First)
    BY <1>2 DEF ServiceInv, Known
<1>5. QED
    BY <1>1, <1>2, <1>3, <1>4

\* A list node that new short_msg_p_list(1) returns is not in the list.
LEMMA NewIdFresh ==
    ASSUME QueueInv, ServiceInv, CanAllocate
    PROVE  NewId \in Ids /\ \A m \in Stored : m.id # NewId
<1>1. \A i \in 1..Len(time_sorted_list) : time_sorted_list[i].id \in Ids
    <2>1. time_sorted_list \in Seq(Good)
        BY DEF QueueInv
    <2>2. \A i \in 1..Len(time_sorted_list) : time_sorted_list[i] \in Good
        BY <2>1, ElementOfSeq
    <2>3. \A m \in Good : m.id \in Ids
        BY DEF Good, Message
    <2>4. QED
        BY <2>2, <2>3
<1>2. Queued(time_sorted_list) \subseteq Ids
    BY <1>1 DEF Queued
<1>3. \E i \in Ids : i \notin Queued(time_sorted_list)
    BY <1>2 DEF CanAllocate
<1>4. NewId \in Ids /\ NewId \notin Queued(time_sorted_list)
    BY <1>3 DEF NewId
<1>5. QED
    BY <1>4 DEF Queued, Stored

\* The phase in which SmqService sees a state.
LEMMA PhaseOf ==
    ASSUME NEW m
    PROVE  /\ m.state = "NO_STATE" => Phase(m) = "failed"
           /\ m.state = "DELETE_ME_STATE" => Phase(m) = "done"
           /\ m.state \notin {"NO_STATE", "DELETE_ME_STATE"} => Phase(m) = "held"
BY DEF Phase

-----------------------------------------------------------------------------
(* Each action, as a step of the service.                                  *)

\* The head, as m, goes to state s.
LEMMA WorkSim ==
    ASSUME QueueInv, ServiceInv, NEW S, HeadIn(S),
           S \cap {"NO_STATE", "DELETE_ME_STATE"} = {},
           First.method # "RESPONSE", NEW m, Kin(m, First), NEW s \in sm_state,
           \/ First.method = "MESSAGE"
           \/ First.state # "INITIAL_STATE"
           \/ s \in {"NO_STATE", "DELETE_ME_STATE"},
           Move(Others, m, s), sent' = sent, file' = file, running' = running,
           register_call_seq' \in Nat, register_call_seq <= register_call_seq'
    PROVE  Simulated
<1> DEFINE e == Restate(m, s)
           M == Stored
           N == (M \ {First}) \cup {e}
<1>1. /\ Up /\ First \in M /\ First \in Message /\ First.state \in S
      /\ Holds(Others, M \ {First}) /\ RegOK(First)
      /\ \A x \in M \ {First} : x.id # First.id
    BY HeadHolds
<1>2. m \in Message /\ m.id = First.id
    BY DEF Kin
<1>3. Kin(e, First) /\ e.state = s
    BY RestateKin
<1>4. Holds(time_sorted_list', N)
    BY <1>1, <1>2, MoveHolds
<1>5. RegOK(e)
    <2>1. First.method \in {"MESSAGE", "REGISTER", "RESPONSE"}
        BY <1>1 DEF Message, RequestMethods
    <2> HIDE DEF e
    <2>2. QED
        BY <1>1, <1>3, <2>1 DEF RegOK, Kin
<1> HIDE DEF e
<1>6. Known(N, sent', file', register_call_seq')
    <2>1. Known(N, sent, file, register_call_seq)
        BY <1>1, <1>3, <1>5, KnownKin DEF ServiceInv
    <2>2. register_call_seq \in Nat
        BY DEF QueueInv
    <2> HIDE DEF N
    <2>3. QED
        BY <2>1, <2>2, KnownLater
<1>7. ServiceInv'
    BY <1>4, <1>6, StoredAfter
<1>8. Phase(First) = "held"
    BY <1>1, PhaseOf
<1>9. Holds(time_sorted_list, M)
    BY DEF ServiceInv
<1>10. [Service!Next]_(Service!vars)
    BY <1>1, <1>3, <1>4, <1>8, <1>9, WorkStep
<1>11. QED
    BY <1>7, <1>10 DEF Simulated

\* What a handler that works on the list leaves alone.
LEMMA ListOnlyMeans ==
    ASSUME QueueInv, ListOnly
    PROVE  /\ sent' = sent /\ file' = file /\ running' = running
           /\ register_call_seq' \in Nat /\ register_call_seq <= register_call_seq'
           /\ register_call_seq' = register_call_seq
BY DEF QueueInv, ListOnly

\* A handler that only changes the state of the head is not seen.
LEMMA PlainSim ==
    ASSUME QueueInv, ServiceInv, ListOnly, NEW S, HeadIn(S),
           S \cap {"NO_STATE", "DELETE_ME_STATE"} = {},
           First.method # "RESPONSE", NEW s \in sm_state,
           \/ First.method = "MESSAGE"
           \/ First.state # "INITIAL_STATE"
           \/ s \in {"NO_STATE", "DELETE_ME_STATE"},
           Move(Others, First, s)
    PROVE  Simulated
<1>1. Kin(First, First)
    BY HeadHolds, SelfKin
<1>2. QED
    BY <1>1, ListOnlyMeans, WorkSim

\* Only a response or a request that has just been accepted is in INITIAL_STATE;
\* what waits in these states is a request.
LEMMA WaitingIsRequest ==
    ASSUME QueueInv, NEW S, HeadIn(S),
           S \subseteq {"REQUEST_FROM_ADDRESS_LOOKUP", "REQUEST_DESTINATION_SIPURL",
                        "AWAITING_TRY_MSG_DELIVERY", "REQUEST_MSG_DELIVERY",
                        "ASKED_FOR_MSG_DELIVERY"} \cup BadStates \cup Registering
    PROVE  First.method # "RESPONSE" /\ First.state # "INITIAL_STATE"
<1>1. First.state \in S /\ Fits(First, First.state)
    BY HeadFacts
<1>2. QED
    BY <1>1 DEF Fits, BadStates, Registering

\* The handlers of that kind.
LEMMA PlainMovesSim ==
    ASSUME QueueInv, ServiceInv,
           \/ InvalidMethod \/ OrdinaryMessage \/ ShortCodeError \/ ShortCodeDone
           \/ ShortCodeAwaitRegister
           \/ lookup_from_address_error \/ lookup_uri_imsi_error
           \/ lookup_uri_imsi_punt \/ lookup_uri_hostport \/ NoAnswer
           \/ NotReadyToRegister \/ RegisterTimeout
    PROVE  Simulated
<1> USE StateNames
<1>1. CASE InvalidMethod
    BY <1>1, PlainSim DEF InvalidMethod, NewRequest
<1>2. CASE OrdinaryMessage
    BY <1>2, PlainSim DEF OrdinaryMessage, NewRequest
<1>3. CASE ShortCodeError
    BY <1>3, PlainSim DEF ShortCodeError, ShortCode, NewRequest
<1>4. CASE ShortCodeDone
    BY <1>4, PlainSim DEF ShortCodeDone, ShortCode, NewRequest
<1>5. CASE ShortCodeAwaitRegister
    BY <1>5, PlainSim DEF ShortCodeAwaitRegister, ShortCode, NewRequest
<1>6. CASE lookup_from_address_error
    <2> DEFINE S == BadStates \cup {"REQUEST_FROM_ADDRESS_LOOKUP"}
    <2>1. HeadIn(S) /\ S \cap {"NO_STATE", "DELETE_ME_STATE"} = {}
        BY <1>6 DEF lookup_from_address_error, BadStates
    <2>2. Fits(First, First.state) /\ First.state \in S
        BY <2>1, HeadFacts
    <2>3. FromLookupHead = First
        BY <2>2 DEF FromLookupHead, Fits
    <2>4. First.method # "RESPONSE"
        BY <2>2 DEF Fits, BadStates
    <2>5. Move(Others, First, "NO_STATE") /\ ListOnly
        BY <1>6, <2>3 DEF lookup_from_address_error
    <2> HIDE DEF S
    <2>6. QED
        BY <2>1, <2>4, <2>5, PlainSim
<1>7. CASE lookup_uri_imsi_error
    BY <1>7, PlainSim DEF lookup_uri_imsi_error, UriLookup
<1>8. CASE lookup_uri_imsi_punt
    BY <1>8, PlainSim DEF lookup_uri_imsi_punt, UnknownNumber, UriLookup
<1>9. CASE lookup_uri_hostport
    <2> DEFINE s == IF First.uri = "none" THEN "NO_STATE" ELSE "REQUEST_MSG_DELIVERY"
    <2>1. s \in sm_state /\ Move(Others, First, s) /\ ListOnly
        BY <1>9 DEF lookup_uri_hostport
    <2>2. /\ HeadIn({"REQUEST_DESTINATION_SIPURL"})
          /\ First.method # "RESPONSE" /\ First.state # "INITIAL_STATE"
        BY <1>9, WaitingIsRequest DEF lookup_uri_hostport
    <2> HIDE DEF s
    <2>3. QED
        BY <2>1, <2>2, PlainSim
<1>10. CASE NoAnswer
    BY <1>10, WaitingIsRequest, PlainSim DEF NoAnswer
<1>11. CASE NotReadyToRegister
    <2>1. First.method # "RESPONSE" /\ First.state # "INITIAL_STATE"
        BY <1>11, WaitingIsRequest DEF NotReadyToRegister, Registering
    <2>2. QED
        BY <1>11, <2>1, PlainSim DEF NotReadyToRegister
<1>12. CASE RegisterTimeout
    <2>1. First.method # "RESPONSE" /\ First.state # "INITIAL_STATE"
        BY <1>12, WaitingIsRequest DEF RegisterTimeout, Registering
    <2>2. QED
        BY <1>12, <2>1, PlainSim DEF RegisterTimeout
<1>13. QED
    BY <1>1, <1>2, <1>3, <1>4, <1>5, <1>6, <1>7, <1>8, <1>9, <1>10, <1>11, <1>12

\* The handlers that change addresses with the state are not seen either.
LEMMA ChangedMovesSim ==
    ASSUME QueueInv, ServiceInv,
           \/ ShortCodeRetry \/ lookup_uri_imsi
           \/ \E u \in Targets : ShortCodeRestart(u)
           \/ \E f \in Address : lookup_from_address(f) \/ lookup_uri_imsi_relay(f)
    PROVE  Simulated
<1> USE StateNames
<1>1. CASE ShortCodeRetry
    <2> DEFINE a == [First EXCEPT !.retries = @ + 1]
               m == [a EXCEPT !.again = TRUE]
    <2>1. /\ HeadIn({"INITIAL_STATE"}) /\ First.method = "MESSAGE" /\ ListOnly
        BY <1>1 DEF ShortCodeRetry, ShortCode, NewRequest
    <2>2. First \in Message
        BY <2>1, HeadHolds
    <2>3. Kin(a, First)
        BY <2>2 DEF Kin, Message
    <2>4. m = [First EXCEPT !.retries = @ + 1, !.again = TRUE]
        BY <2>2 DEF Message
    <2>5. Move(Others, m, "REQUEST_FROM_ADDRESS_LOOKUP")
        BY <1>1, <2>4 DEF ShortCodeRetry
    <2> HIDE DEF a
    <2>6. Kin(m, First)
        BY <2>3 DEF Kin, Message
    <2> HIDE DEF m
    <2>7. QED
        BY <2>1, <2>5, <2>6, ListOnlyMeans, WorkSim
<1>2. CASE lookup_uri_imsi
    <2> DEFINE m == [First EXCEPT !.uri = "imsi"]
    <2>1. /\ HeadIn({"REQUEST_DESTINATION_IMSI"}) /\ First.method # "RESPONSE" /\ ListOnly
          /\ First.uri # "none"
        BY <1>2 DEF lookup_uri_imsi, UriLookup
    <2>2. First \in Message /\ First.state = "REQUEST_DESTINATION_IMSI" /\ RegOK(First)
        BY <2>1, HeadHolds
    <2>3. First.method # "REGISTER"
        BY <2>1, <2>2 DEF RegOK
    <2>4. Kin(m, First)
        BY <2>2, <2>3 DEF Kin, Message, Address
    <2>5. Move(Others, m, "REQUEST_DESTINATION_SIPURL")
        BY <1>2 DEF lookup_uri_imsi
    <2> HIDE DEF m
    <2>6. QED
        BY <2>1, <2>2, <2>4, <2>5, ListOnlyMeans, WorkSim
<1>3. ASSUME NEW u \in Targets, ShortCodeRestart(u) PROVE Simulated
    <2> DEFINE m == [First EXCEPT !.uri = u]
    <2>1. /\ HeadIn({"INITIAL_STATE"}) /\ First.method = "MESSAGE" /\ ListOnly
        BY <1>3 DEF ShortCodeRestart, ShortCode, NewRequest
    <2>2. First \in Message
        BY <2>1, HeadHolds
    <2>3. Kin(m, First)
        BY <2>1, <2>2, AddressAssumption DEF Kin, Message
    <2>4. Move(Others, m, "INITIAL_STATE")
        BY <1>3 DEF ShortCodeRestart
    <2> HIDE DEF m
    <2>5. QED
        BY <2>1, <2>3, <2>4, ListOnlyMeans, WorkSim
<1>4. ASSUME NEW f \in Address, lookup_from_address(f) PROVE Simulated
    <2> DEFINE m == [First EXCEPT !.from = f]
               S == BadStates \cup {"REQUEST_FROM_ADDRESS_LOOKUP"}
    <2>1. HeadIn(S) /\ S \cap {"NO_STATE", "DELETE_ME_STATE"} = {} /\ ListOnly
        BY <1>4 DEF lookup_from_address, BadStates
    <2>2. Fits(First, First.state) /\ First.state \in S /\ First \in Message
        BY <2>1, HeadFacts
    <2>3. FromLookupHead = First
        BY <2>2 DEF FromLookupHead, Fits
    <2>4. First.method # "RESPONSE" /\ First.state # "INITIAL_STATE"
        BY <2>2 DEF Fits, BadStates
    <2>5. Kin(m, First)
        BY <2>2 DEF Kin, Message
    <2>6. Move(Others, m, "REQUEST_DESTINATION_IMSI")
        BY <1>4, <2>3 DEF lookup_from_address
    <2> HIDE DEF m, S
    <2>7. QED
        BY <2>1, <2>4, <2>5, <2>6, ListOnlyMeans, WorkSim
<1>5. ASSUME NEW f \in Address, lookup_uri_imsi_relay(f) PROVE Simulated
    <2> DEFINE m == [First EXCEPT !.from = f]
    <2>1. /\ HeadIn({"REQUEST_DESTINATION_IMSI"}) /\ First.method # "RESPONSE" /\ ListOnly
        BY <1>5 DEF lookup_uri_imsi_relay, UnknownNumber, UriLookup
    <2>2. First \in Message /\ First.state = "REQUEST_DESTINATION_IMSI"
        BY <2>1, HeadHolds
    <2>3. Kin(m, First)
        BY <2>2 DEF Kin, Message
    <2>4. Move(Others, m, "REQUEST_DESTINATION_SIPURL")
        BY <1>5 DEF lookup_uri_imsi_relay
    <2> HIDE DEF m
    <2>5. QED
        BY <2>1, <2>2, <2>3, <2>4, ListOnlyMeans, WorkSim
<1>6. QED
    BY <1>1, <1>2, <1>3, <1>4, <1>5

\* The head as it stands when its try has been counted.
LEMMA TryKin ==
    ASSUME QueueInv, ServiceInv, Delivery
    PROVE  /\ Kin(Try, First) /\ First.method # "RESPONSE"
           /\ First.state # "INITIAL_STATE"
<1> DEFINE r == Restate(First, "REQUEST_MSG_DELIVERY")
           m == IF First.state = "AWAITING_TRY_MSG_DELIVERY" THEN r ELSE First
<1>1. First \in Message /\ First.method # "RESPONSE" /\ First.state # "INITIAL_STATE"
    BY HeadHolds, WaitingIsRequest DEF Delivery
<1>2. Kin(r, First)
    BY <1>1, SelfKin, RestateKin, StateNames
<1>3. Kin(m, First)
    BY <1>1, <1>2, SelfKin
<1>4. Try = [m EXCEPT !.retries = @ + 1]
    BY DEF Try
<1> HIDE DEF m
<1>5. Kin(Try, First)
    BY <1>3, <1>4 DEF Kin, Message
<1>6. QED
    BY <1>1, <1>5

\* What cannot be packed, or has no retries left, fails.
LEMMA DeliverySim ==
    ASSUME QueueInv, ServiceInv, pack_sms_for_delivery_error \/ GiveUp
    PROVE  Simulated
<1> USE StateNames
<1>1. Delivery
    BY DEF pack_sms_for_delivery_error, GiveUp
<1>2. Kin(Try, First) /\ First.method # "RESPONSE" /\ First.state # "INITIAL_STATE"
    BY <1>1, TryKin
<1>3. CASE pack_sms_for_delivery_error
    BY <1>1, <1>2, <1>3, ListOnlyMeans, WorkSim DEF pack_sms_for_delivery_error, Delivery
<1>4. CASE GiveUp
    BY <1>1, <1>2, <1>4, ListOnlyMeans, WorkSim DEF GiveUp, Delivery
<1>5. QED
    BY <1>3, <1>4

\* A try that the rate limit stops is not seen.
LEMMA RateLimitedSim ==
    ASSUME QueueInv, ServiceInv, RateLimited
    PROVE  Simulated
<1> DEFINE at == IF First.state = "REQUEST_MSG_DELIVERY" THEN 1
                 ELSE Slot(Others, Try.due)
           M == Stored
<1>1. Delivery /\ ListOnly
    BY DEF RateLimited
<1>2. /\ Others \in Seq(Good) /\ Try \in Message /\ Try.state = "REQUEST_MSG_DELIVERY"
    BY <1>1, TryFacts
<1>3. at \in 1..(Len(Others) + 1)
    <2>1. 1 \in 1..(Len(Others) + 1)
        BY <1>2, LenProperties
    <2>2. Slot(Others, Try.due) \in 1..(Len(Others) + 1)
        BY <1>2, SlotInRange
    <2>3. QED
        BY <2>1, <2>2
<1>4. Try.due \in Int /\ RateTicks \in Nat
    BY <1>2, TimeoutAssumption DEF Message
<1>5. PICK due \in (IF Try.due < 0 THEN -1 ELSE RateTicks)..(Try.due + RateTicks) :
        time_sorted_list' = InsertAt(Others, at, [Try EXCEPT !.due = due])
    BY DEF RateLimited
<1>6. due \in Int
    BY <1>4, <1>5
<1> DEFINE e == [Try EXCEPT !.due = due]
<1>7. Kin(Try, First) /\ First.method # "RESPONSE" /\ First.state # "INITIAL_STATE"
    BY <1>1, TryKin
<1>8. Kin(e, First) /\ e.state = "REQUEST_MSG_DELIVERY"
    BY <1>2, <1>6, <1>7 DEF Kin, Message
<1>9. time_sorted_list' = InsertAt(Others, at, e)
    BY <1>5
<1> HIDE DEF e, at
<1>10. /\ Up /\ First \in M /\ Holds(Others, M \ {First}) /\ RegOK(First)
       /\ First.state \in {"AWAITING_TRY_MSG_DELIVERY", "REQUEST_MSG_DELIVERY"}
       /\ \A x \in M \ {First} : x.id # First.id
    BY <1>1, HeadHolds DEF Delivery
<1>11. Holds(time_sorted_list', (M \ {First}) \cup {e})
    BY <1>3, <1>8, <1>9, <1>10, HoldsInsertAt DEF Kin
<1>12. RegOK(e)
    BY <1>8, <1>10 DEF RegOK, Kin
<1>13. ServiceInv'
    <2>1. Known((M \ {First}) \cup {e}, sent, file, register_call_seq)
        BY <1>8, <1>10, <1>12, KnownKin DEF ServiceInv
    <2>2. Known((M \ {First}) \cup {e}, sent', file', register_call_seq')
        BY <1>1, <2>1, ListOnlyMeans
    <2>3. QED
        BY <1>11, <2>2, StoredAfter
<1>14. Phase(First) = "held"
    BY <1>10, PhaseOf
<1>15. [Service!Next]_(Service!vars)
    BY <1>1, <1>7, <1>8, <1>10, <1>11, <1>14, ListOnlyMeans, WorkStep DEF ServiceInv
<1>16. QED
    BY <1>13, <1>15 DEF Simulated

\* deliver_msg_datagram() offers the message.
LEMMA DeliverSim ==
    ASSUME QueueInv, ServiceInv, deliver_msg_datagram
    PROVE  Simulated
<1> DEFINE m == [Try EXCEPT !.sends = @ + 1]
           e == Restate(m, "ASKED_FOR_MSG_DELIVERY")
           r == [qtag |-> First.qtag, from |-> First.from, gen |-> First.gen,
                 stale |-> First.old /\ First.method = "REGISTER"]
           M == Stored
<1>1. Delivery /\ ~RetriesExceeded
    BY DEF deliver_msg_datagram
<1>2. /\ Try \in Message /\ Try.sends < Try.retries
    BY <1>1, TryFacts
<1>3. Kin(Try, First) /\ First.method # "RESPONSE" /\ First.state # "INITIAL_STATE"
    BY <1>1, TryKin
<1>4. /\ Up /\ First \in M /\ Holds(Others, M \ {First}) /\ RegOK(First)
      /\ First.state \in {"AWAITING_TRY_MSG_DELIVERY", "REQUEST_MSG_DELIVERY"}
      /\ \A x \in M \ {First} : x.id # First.id
    BY <1>1, HeadHolds DEF Delivery
<1>5. Try.sends \in Nat /\ Try.retries \in Nat /\ First.sends = Try.sends
    BY <1>2, <1>3 DEF Message, Kin
<1>6. MaxRetries # 0 => First.sends < MaxRetries
    BY <1>1, <1>2, <1>5, MaxRetriesAssumption DEF RetriesExceeded
<1>7. /\ m \in Message /\ m.id = First.id /\ m.method = First.method
      /\ m.qtag = First.qtag /\ m.gen = First.gen /\ m.sends = First.sends + 1
      /\ m.old = First.old
      /\ m.method = "REGISTER" => m.uri = First.uri
    BY <1>2, <1>3 DEF Kin, Message
<1>8. Move(Others, m, "ASKED_FOR_MSG_DELIVERY")
    BY DEF deliver_msg_datagram
<1> HIDE DEF m
<1>9. Kin(e, m) /\ e.state = "ASKED_FOR_MSG_DELIVERY"
    BY <1>7, SelfKin, RestateKin, StateNames
<1>10. Holds(time_sorted_list', (M \ {First}) \cup {e})
    BY <1>4, <1>7, <1>8, MoveHolds, StateNames
<1> HIDE DEF e
<1>11. /\ RegOK(e)
       /\ ~(First.method = "REGISTER" /\ First.uri # "none")
       /\ ~(e.method = "REGISTER" /\ e.uri # "none")
    BY <1>4, <1>7, <1>9 DEF RegOK, Kin
<1>12. /\ e \in Message /\ e.id = First.id /\ e.method = First.method
       /\ e.qtag = First.qtag /\ e.gen = First.gen /\ e.old = First.old
       /\ e.sends = First.sends + 1 /\ e.sends > 0
    BY <1>5, <1>7, <1>9 DEF Kin
<1>13. sent' = sent \cup {r} /\ r.qtag = First.qtag
    BY DEF deliver_msg_datagram
<1>14. r.stale <=> First.old /\ First.method = "REGISTER"
    BY Zenon
<1>15. running' = running /\ file' = file /\ register_call_seq' = register_call_seq
    BY DEF deliver_msg_datagram
<1> HIDE DEF r
<1>16. ServiceInv'
    <2>1. Known((M \ {First}) \cup {e}, sent \cup {r}, file, register_call_seq)
        BY <1>3, <1>4, <1>11, <1>12, <1>13, <1>14, KnownSent DEF ServiceInv
    <2>2. QED
        BY <1>10, <1>13, <1>15, <2>1, StoredAfter
<1>17. Phase(First) = "held" /\ Phase(e) = "held"
    BY <1>4, <1>9, PhaseOf
<1>18. Service!Next
    BY <1>3, <1>4, <1>6, <1>10, <1>12, <1>13, <1>14, <1>15, <1>17, OfferStep DEF ServiceInv
<1>19. QED
    BY <1>16, <1>18 DEF Simulated

\* SCA_QUIT_SMQUEUE, and the deaths of the process.
LEMMA StopSim ==
    ASSUME QueueInv, ServiceInv,
           \/ ShortCodeStop \/ ShortCodeInfoCrash \/ ShortCodeZapCrash
           \/ lookup_uri_imsi_crash
    PROVE  Simulated
<1>1. CASE ShortCodeStop
    <2> DEFINE e == Restate(First, "DELETE_ME_STATE")
               M == Stored
    <2>1. /\ HeadIn({"INITIAL_STATE"}) /\ First.method = "MESSAGE"
          /\ Move(Others, First, "DELETE_ME_STATE")
          /\ running' = "stopping" /\ sent' = sent /\ file' = file
          /\ register_call_seq' = register_call_seq
        BY <1>1 DEF ShortCodeStop, ShortCode, NewRequest
    <2>2. /\ Up /\ First \in M /\ First \in Message /\ Holds(Others, M \ {First})
          /\ \A x \in M \ {First} : x.id # First.id /\ First.state = "INITIAL_STATE"
          /\ First.state = "INITIAL_STATE"
        BY <2>1, HeadHolds
    <2>3. Kin(e, First) /\ e.state = "DELETE_ME_STATE"
        BY <2>2, SelfKin, RestateKin, StateNames
    <2>4. Holds(time_sorted_list', (M \ {First}) \cup {e})
        BY <2>1, <2>2, MoveHolds, StateNames
    <2> HIDE DEF e
    <2>5. RegOK(e)
        BY <2>1, <2>3 DEF RegOK, Kin
    <2>6. ServiceInv'
        <3>1. Known((M \ {First}) \cup {e}, sent, file, register_call_seq)
            BY <2>2, <2>3, <2>5, KnownKin DEF ServiceInv
        <3>2. QED
            BY <2>1, <2>4, <3>1, StoredAfter
    <2>7. Phase(First) = "held" /\ Phase(e) = "done"
        BY <2>2, <2>3, PhaseOf
    <2>8. Service!Next
        BY <2>1, <2>2, <2>3, <2>4, <2>7, StopStep DEF ServiceInv
    <2>9. QED
        BY <2>6, <2>8 DEF Simulated
<1>2. CASE ShortCodeInfoCrash \/ ShortCodeZapCrash \/ lookup_uri_imsi_crash
    <2>1. /\ HeadIn({"INITIAL_STATE", "REQUEST_DESTINATION_IMSI"}) /\ running' = "crashed"
          /\ time_sorted_list' = time_sorted_list /\ sent' = sent /\ file' = file
          /\ register_call_seq' = register_call_seq
        BY <1>2 DEF ShortCodeInfoCrash, ShortCodeZapCrash, lookup_uri_imsi_crash,
           ShortCode, NewRequest, HeadIn
    <2>2. First \in Stored /\ Phase(First) = "held" /\ Up
        BY <2>1, HeadHolds, PhaseOf
    <2>3. Service!Next
        BY <2>1, <2>2, CrashStep DEF ServiceInv
    <2>4. ServiceInv'
        BY <2>1 DEF ServiceInv, Stored
    <2>5. QED
        BY <2>3, <2>4 DEF Simulated
<1>3. QED
    BY <1>1, <1>2

\* What has ended is deleted.
LEMMA DiscardSim ==
    ASSUME QueueInv, ServiceInv, Discard
    PROVE  Simulated
<1> DEFINE M == Stored
<1>1. /\ HeadIn({"NO_STATE", "DELETE_ME_STATE"}) /\ time_sorted_list' = Others /\ ListOnly
    BY DEF Discard
<1>2. /\ Up /\ First \in M /\ Holds(Others, M \ {First})
      /\ First.state \in {"NO_STATE", "DELETE_ME_STATE"}
    BY <1>1, HeadHolds
<1>3. Holds(time_sorted_list', M \ {First})
    BY <1>1, <1>2
<1>4. Phase(First) # "held"
    BY <1>2, PhaseOf
<1>5. Service!Next
    BY <1>1, <1>2, <1>3, <1>4, ListOnlyMeans, ForgetStep DEF ServiceInv
<1>6. Known(M \ {First}, sent', file', register_call_seq')
    BY <1>1, ListOnlyMeans, KnownLess DEF ServiceInv
<1>7. QED
    BY <1>3, <1>5, <1>6, StoredAfter DEF Simulated

-----------------------------------------------------------------------------
(* What smqueue itself originates.                                         *)

\* originate_sm() adds one new message.
LEMMA OriginateSmHolds ==
    ASSUME QueueInv, ServiceInv, CanAllocate, NEW q, NEW S, Holds(q, S),
           \A x \in S : \E m \in Stored : m.id = x.id,
           NEW from \in Address, NEW to \in Address, NEW t \in OwnNumbers,
           NEW gen \in Nat, gen <= 1 \/ (gen = 2 /\ from = "bounce"),
           NEW s \in {"REQUEST_DESTINATION_SIPURL", "REQUEST_DESTINATION_IMSI"}
    PROVE  \E n : /\ Newborn(n, Stored, "MESSAGE", gen) /\ n.qtag = t
                  /\ Holds(originate_sm(q, from, to, t, gen, s), S \cup {n})
<1> DEFINE m == NewMessage(NewId, "MESSAGE", from, to, t, gen)
           n == Restate(m, s)
<1>1. /\ t \in Tags /\ "MESSAGE" \in RequestMethods \cup {"RESPONSE"}
      /\ NewId \in Ids /\ \A x \in Stored : x.id # NewId
    BY NewIdFresh DEF Tags, RequestMethods
<1>2. m \in Message
    BY <1>1, NewMessageType
<1>3. /\ m.id = NewId /\ m.method = "MESSAGE" /\ m.gen = gen /\ m.sends = 0 /\ m.qtag = t
      /\ m.old = FALSE
    BY DEF NewMessage
<1>4. originate_sm(q, from, to, t, gen, s) = insert_new_message(q, m, s)
    BY DEF originate_sm
<1> HIDE DEF m
<1>5. s \in sm_state
    BY StateNames
<1>6. Kin(n, m) /\ n.state = s
    BY <1>2, <1>5, SelfKin, RestateKin
<1>7. \A x \in S : x.id # m.id
    BY <1>1, <1>3
<1>8. Holds(originate_sm(q, from, to, t, gen, s), S \cup {n})
    BY <1>2, <1>4, <1>5, <1>7, InsertHolds
<1> HIDE DEF n
<1>9. Phase(n) = "held"
    BY <1>6, PhaseOf
<1>10. Newborn(n, Stored, "MESSAGE", gen) /\ n.qtag = t
    BY <1>1, <1>3, <1>6, <1>9 DEF Newborn, Kin
<1>11. QED
    BY <1>8, <1>10

\* originate_bounce() adds one new message of the next generation.
LEMMA BounceHolds ==
    ASSUME QueueInv, ServiceInv, CanAllocate, NEW q, NEW S, Holds(q, S),
           \A x \in S : \E y \in Stored : y.id = x.id,
           NEW m \in Good, MayBounce(m), NEW t \in OwnNumbers
    PROVE  /\ m.gen \in Nat /\ m.gen < 2
           /\ \E n : /\ Newborn(n, Stored, "MESSAGE", m.gen + 1) /\ n.qtag = t
                     /\ Holds(originate_bounce(q, m, t), S \cup {n})
<1>1. m.from \in Address /\ m.gen \in Nat /\ m.gen <= 1
    BY DEF Good, Message, Bounded, MayBounce
<1>2. /\ m.gen + 1 \in Nat /\ "bounce" \in Address
      /\ m.gen + 1 <= 1 \/ (m.gen + 1 = 2 /\ "bounce" = "bounce")
    BY <1>1 DEF Address
<1> DEFINE s == IF IsImsi(m.from) THEN "REQUEST_DESTINATION_SIPURL"
                                  ELSE "REQUEST_DESTINATION_IMSI"
<1>3. s \in {"REQUEST_DESTINATION_SIPURL", "REQUEST_DESTINATION_IMSI"}
    OBVIOUS
<1>4. originate_bounce(q, m, t) = originate_sm(q, "bounce", m.from, t, m.gen + 1, s)
    BY DEF originate_bounce
<1> HIDE DEF s
<1>5. \E n : /\ Newborn(n, Stored, "MESSAGE", m.gen + 1) /\ n.qtag = t
             /\ Holds(originate_sm(q, "bounce", m.from, t, m.gen + 1, s), S \cup {n})
    <2> DEFINE g == m.gen + 1
               f == m.from
               b == "bounce"
    <2>1. /\ g \in Nat /\ f \in Address /\ b \in Address
          /\ g <= 1 \/ (g = 2 /\ b = "bounce")
        BY <1>1, <1>2
    <2> HIDE DEF g, f, b
    <2>2. \E n : /\ Newborn(n, Stored, "MESSAGE", g) /\ n.qtag = t
                 /\ Holds(originate_sm(q, b, f, t, g, s), S \cup {n})
        BY <1>3, <2>1, OriginateSmHolds
    <2>3. QED
        BY <2>2 DEF g, f, b
<1>6. m.gen < 2
    BY <1>1
<1>7. QED
    BY <1>1, <1>4, <1>5, <1>6, Zenon

\* A reply adds one new message of the next generation.
LEMMA ReplyHolds ==
    ASSUME QueueInv, ServiceInv, NewRequest, CanAllocate, NEW q, NEW S, Holds(q, S),
           \A x \in S : \E y \in Stored : y.id = x.id, NEW t \in OwnNumbers
    PROVE  /\ First.gen = 0
           /\ \E n : /\ Newborn(n, Stored, "MESSAGE", First.gen + 1) /\ n.qtag = t
                     /\ Holds(Reply(q, t), S \cup {n})
<1>1. First \in Message /\ First.gen = 0
    BY HeadFacts, ShortCodeHead DEF NewRequest
<1>2. First.uri \in Address /\ First.from \in Address
    BY <1>1 DEF Message
<1>3. First.gen + 1 \in Nat /\ First.gen + 1 <= 1
    BY <1>1
<1>4. \E n : /\ Newborn(n, Stored, "MESSAGE", First.gen + 1) /\ n.qtag = t
             /\ Holds(originate_sm(q, First.uri, First.from, t, First.gen + 1,
                                   "REQUEST_DESTINATION_SIPURL"), S \cup {n})
    BY <1>2, <1>3, OriginateSmHolds
<1>5. QED
    BY <1>1, <1>4 DEF Reply

\* originate_register() adds one new REGISTER with the next CSeq.
LEMMA RegisterHolds ==
    ASSUME QueueInv, ServiceInv, CanAllocate, NEW q, NEW S, Holds(q, S),
           \A x \in S : \E y \in Stored : y.id = x.id,
           NEW m \in Message, m.gen = 0, register_call_seq < MaxRegister
    PROVE  \E n : /\ Newborn(n, Stored, "REGISTER", 1)
                  /\ n.qtag = register_call_seq + 1 /\ n.uri = "none"
                  /\ Holds(originate_register(q, m), S \cup {n})
<1> DEFINE b == NewMessage(NewId, "REGISTER", m.from, "none", register_call_seq + 1,
                           m.gen + 1)
           r == [b EXCEPT !.linktag = m.qtag]
           n == Restate(r, "REQUEST_MSG_DELIVERY")
<1>1. /\ m.from \in Address /\ m.qtag \in Tags /\ "none" \in Address
      /\ "REGISTER" \in RequestMethods \cup {"RESPONSE"}
    BY DEF Message, Address, RequestMethods
<1>2. NewId \in Ids /\ \A x \in Stored : x.id # NewId
    BY NewIdFresh
<1>3. m.gen + 1 \in Nat /\ m.gen + 1 = 1 /\ register_call_seq + 1 \in Tags
    BY BoundsAssumption DEF QueueInv, Tags
<1>4. b \in Message
    BY <1>1, <1>2, <1>3, NewMessageType
<1>5. /\ b.id = NewId /\ b.method = "REGISTER" /\ b.gen = 1 /\ b.sends = 0
      /\ b.qtag = register_call_seq + 1 /\ b.uri = "none" /\ b.old = FALSE
    BY <1>3 DEF NewMessage
<1>6. originate_register(q, m) = insert_new_message(q, r, "REQUEST_MSG_DELIVERY")
    BY DEF originate_register
<1> HIDE DEF b
<1>7. r \in Message /\ Kin(r, b)
    BY <1>1, <1>4 DEF Message, Kin
<1> HIDE DEF r
<1>8. Kin(n, b) /\ n.state = "REQUEST_MSG_DELIVERY"
    BY <1>7, RestateKin, StateNames
<1>9. \A x \in S : x.id # r.id
    BY <1>2, <1>5, <1>7 DEF Kin
<1>10. Holds(originate_register(q, m), S \cup {n})
    BY <1>6, <1>7, <1>9, InsertHolds, StateNames
<1> HIDE DEF n
<1>11. Phase(n) = "held"
    BY <1>8, PhaseOf
<1>12. /\ Newborn(n, Stored, "REGISTER", 1)
       /\ n.qtag = register_call_seq + 1 /\ n.uri = "none"
    BY <1>2, <1>5, <1>8, <1>11 DEF Newborn, Kin
<1>13. QED
    BY <1>10, <1>12

\* The head h becomes e, and n is new with a tag of its own.
LEMMA KnownTold ==
    ASSUME NEW M, NEW R, NEW F, NEW c, Known(M, R, F, c), NEW h \in M, NEW e, NEW n,
           Kin(e, h), RegOK(e), \A m \in M : m.id # n.id, Joins(n, M, R, F, c)
    PROVE  Known((M \ {h}) \cup {e, n}, R, F, c)
<1>1. Known(M \cup {n}, R, F, c)
    BY KnownNew
<1>2. Known(((M \cup {n}) \ {h}) \cup {e}, R, F, c)
    BY <1>1, KnownKin
<1>3. ((M \cup {n}) \ {h}) \cup {e} = (M \ {h}) \cup {e, n}
    OBVIOUS
<1>4. QED
    BY <1>2, <1>3

\* A message ends with a message to its sender.
LEMMA TellSim ==
    ASSUME QueueInv, ServiceInv, TagsApart, NEW t \in OwnNumbers,
           ShortCodeReply(t) \/ lookup_uri_imsi_bounce(t)
    PROVE  Simulated
<1> DEFINE M == Stored
           e == Restate(First, "DELETE_ME_STATE")
           S == M \ {First}
<1>1. /\ HeadIn({"INITIAL_STATE", "REQUEST_DESTINATION_IMSI"})
      /\ CanAllocate /\ FreshTag(t) /\ ListOnly
    BY DEF ShortCodeReply, ShortCode, NewRequest, lookup_uri_imsi_bounce,
       UnknownNumber, UriLookup, HeadIn
<1>2. /\ Up /\ First \in M /\ First \in Message /\ Holds(Others, S)
      /\ First.state \in {"INITIAL_STATE", "REQUEST_DESTINATION_IMSI"}
      /\ RegOK(First) /\ \A x \in S : x.id # First.id
    BY <1>1, HeadHolds
<1>3. \A x \in S : \E y \in Stored : y.id = x.id
    OBVIOUS
<1>4. Kin(e, First) /\ e.state = "DELETE_ME_STATE"
    BY <1>2, SelfKin, RestateKin, StateNames
<1> HIDE DEF e, S
<1>5. /\ First.method = "MESSAGE" /\ First.gen \in Nat /\ First.gen < 2
      /\ \E n : /\ Newborn(n, M, "MESSAGE", First.gen + 1) /\ n.qtag = t
                /\ Holds(time_sorted_list', (S \cup {n}) \cup {e})
    <2>1. CASE ShortCodeReply(t)
        <3>1. /\ NewRequest /\ First.method = "MESSAGE"
              /\ Move(Reply(Others, t), First, "DELETE_ME_STATE")
            BY <2>1 DEF ShortCodeReply, ShortCode
        <3>2. /\ First.gen = 0
              /\ \E n : /\ Newborn(n, M, "MESSAGE", First.gen + 1) /\ n.qtag = t
                        /\ Holds(Reply(Others, t), S \cup {n})
            BY <1>1, <1>2, <1>3, <3>1, ReplyHolds
        <3>3. PICK n : /\ Newborn(n, M, "MESSAGE", First.gen + 1) /\ n.qtag = t
                       /\ Holds(Reply(Others, t), S \cup {n})
            BY <3>2
        <3>4. \A x \in S \cup {n} : x.id # First.id
            BY <1>2, <3>3 DEF Newborn
        <3>5. Holds(time_sorted_list', (S \cup {n}) \cup {e})
            BY <1>2, <3>1, <3>3, <3>4, MoveHolds, StateNames DEF e
        <3>6. First.gen \in Nat /\ First.gen < 2
            BY <3>2
        <3>7. QED
            BY <3>1, <3>3, <3>5, <3>6, Zenon
    <2>2. CASE lookup_uri_imsi_bounce(t)
        <3>1. /\ HeadIn({"REQUEST_DESTINATION_IMSI"}) /\ First.method # "RESPONSE"
              /\ First.uri # "none" /\ MayBounce(First)
              /\ Move(originate_bounce(Others, First, t), First, "DELETE_ME_STATE")
            BY <2>2 DEF lookup_uri_imsi_bounce, UnknownNumber, UriLookup
        <3>2. First \in Good /\ First.state = "REQUEST_DESTINATION_IMSI"
            BY <3>1, HeadFacts
        <3>3. First.method = "MESSAGE"
            <4>1. First.method \in {"MESSAGE", "REGISTER", "RESPONSE"}
                BY <1>2 DEF Message, RequestMethods
            <4>2. QED
                BY <1>2, <3>1, <3>2, <4>1 DEF RegOK
        <3>4. /\ First.gen \in Nat /\ First.gen < 2
              /\ \E n : /\ Newborn(n, M, "MESSAGE", First.gen + 1) /\ n.qtag = t
                        /\ Holds(originate_bounce(Others, First, t), S \cup {n})
            BY <1>1, <1>2, <1>3, <3>1, <3>2, BounceHolds
        <3>5. PICK n : /\ Newborn(n, M, "MESSAGE", First.gen + 1) /\ n.qtag = t
                       /\ Holds(originate_bounce(Others, First, t), S \cup {n})
            BY <3>4
        <3>6. \A x \in S \cup {n} : x.id # First.id
            BY <1>2, <3>5 DEF Newborn
        <3>7. Holds(time_sorted_list', (S \cup {n}) \cup {e})
            BY <1>2, <3>1, <3>5, <3>6, MoveHolds, StateNames DEF e
        <3>8. QED
            BY <3>3, <3>4, <3>5, <3>7
    <2>3. QED
        BY <2>1, <2>2
<1>6. PICK n : /\ Newborn(n, M, "MESSAGE", First.gen + 1) /\ n.qtag = t
               /\ Holds(time_sorted_list', (S \cup {n}) \cup {e})
    BY <1>5
<1>7. (S \cup {n}) \cup {e} = (M \ {First}) \cup {e, n}
    BY DEF S
<1>8. Holds(time_sorted_list', (M \ {First}) \cup {e, n})
    BY <1>6, <1>7
<1>9. Phase(First) = "held" /\ Phase(e) = "done"
    BY <1>2, <1>4, PhaseOf
<1>10. Service!Next
    BY <1>1, <1>2, <1>4, <1>5, <1>6, <1>8, <1>9, ListOnlyMeans, TellStep DEF ServiceInv
<1>11. Known((M \ {First}) \cup {e, n}, sent, file, register_call_seq)
    <2>1. RegOK(e) /\ n.method = "MESSAGE" /\ n.sends = 0 /\ \A m \in M : m.id # n.id
        BY <1>4, <1>5, <1>6 DEF RegOK, Kin, Newborn
    <2>2. Joins(n, M, sent, file, register_call_seq)
        BY <1>1, <1>6, <2>1, FreshMeans
    <2>3. QED
        BY <1>2, <1>4, <1>6, <2>1, <2>2, KnownTold DEF ServiceInv
<1>12. ServiceInv'
    BY <1>1, <1>8, <1>11, ListOnlyMeans, StoredAfter
<1>13. QED
    BY <1>10, <1>12 DEF Simulated

\* zap: the first message with the tag goes, and the command is done.
LEMMA ZapSim ==
    ASSUME QueueInv, ServiceInv, TagsApart, NEW tag \in Tags, NEW t \in OwnNumbers,
           ShortCodeZap(tag, t)
    PROVE  Simulated
<1> DEFINE M == Stored
           e == Restate(First, "DELETE_ME_STATE")
           j == find_queued_msg_by_tag(Others, tag)
           rest == RemoveAt(Others, j)
           z == Others[j]
           S == M \ {First, z}
<1>1. /\ NewRequest /\ HeadIn({"INITIAL_STATE"}) /\ First.method = "MESSAGE" /\ j # 0
      /\ ListOnly
    BY DEF ShortCodeZap, ShortCode, NewRequest
<1>2. /\ Up /\ First \in M /\ First \in Message /\ Holds(Others, M \ {First})
      /\ First.state = "INITIAL_STATE"
      /\ \A x \in M \ {First} : x.id # First.id
    BY <1>1, HeadHolds
<1>3. j \in 1..Len(Others)
    <2>1. Others \in Seq(Message)
        BY <1>2 DEF Holds
    <2>2. QED
        BY <1>1, <2>1, FindInRange, LenProperties
<1>4. z \in M \ {First}
    BY <1>2, <1>3, HoldsFacts
<1>5. Holds(rest, (M \ {First}) \ {z})
    BY <1>2, <1>3, HoldsRemoveAt
<1>6. (M \ {First}) \ {z} = S
    OBVIOUS
<1>7. \/ Move(rest, First, "DELETE_ME_STATE")
      \/ CanAllocate /\ FreshTag(t) /\ Move(Reply(rest, t), First, "DELETE_ME_STATE")
    BY DEF ShortCodeZap
<1>8. Kin(e, First) /\ e.state = "DELETE_ME_STATE"
    BY <1>2, SelfKin, RestateKin, StateNames
<1>9. Phase(First) = "held" /\ Phase(e) = "done" /\ RegOK(e)
    BY <1>1, <1>2, <1>8, PhaseOf DEF RegOK, Kin
<1> HIDE DEF rest, z, e, j
<1>10. (\A x \in S : x.id # First.id) /\ (\A x \in S : \E y \in Stored : y.id = x.id)
    BY <1>2
<1>11. Holds(rest, S)
    BY <1>5, <1>6
<1>12. CASE Move(rest, First, "DELETE_ME_STATE")
    <2>1. Holds(time_sorted_list', (M \ {First, z}) \cup {e})
        BY <1>2, <1>10, <1>11, <1>12, MoveHolds, StateNames DEF e
    <2>2. Service!Next
        BY <1>1, <1>2, <1>4, <1>8, <1>9, <2>1, ListOnlyMeans, ZapStep DEF ServiceInv
    <2>3. Known((M \ {First}) \cup {e}, sent, file, register_call_seq)
        BY <1>2, <1>8, <1>9, KnownKin DEF ServiceInv
    <2>4. Known((M \ {First, z}) \cup {e}, sent, file, register_call_seq)
        BY <2>3, KnownLess
    <2>5. ServiceInv'
        BY <1>1, <2>1, <2>4, ListOnlyMeans, StoredAfter
    <2>6. QED
        BY <2>2, <2>5 DEF Simulated
<1>13. CASE CanAllocate /\ FreshTag(t) /\ Move(Reply(rest, t), First, "DELETE_ME_STATE")
    <2> HIDE DEF S
    <2>1. /\ First.gen = 0
          /\ \E n : /\ Newborn(n, M, "MESSAGE", First.gen + 1) /\ n.qtag = t
                    /\ Holds(Reply(rest, t), S \cup {n})
        BY <1>1, <1>10, <1>11, <1>13, ReplyHolds
    <2>2. PICK n : /\ Newborn(n, M, "MESSAGE", First.gen + 1) /\ n.qtag = t
                   /\ Holds(Reply(rest, t), S \cup {n})
        BY <2>1
    <2>3. \A x \in S \cup {n} : x.id # First.id
        BY <1>2, <1>10, <2>2 DEF Newborn
    <2>4. Holds(time_sorted_list', (S \cup {n}) \cup {e})
        BY <1>2, <1>13, <2>2, <2>3, MoveHolds, StateNames DEF e
    <2>5. (S \cup {n}) \cup {e} = (M \ {First, z}) \cup {e, n}
        BY DEF S
    <2>6. Holds(time_sorted_list', (M \ {First, z}) \cup {e, n})
        BY <2>4, <2>5
    <2>7. First.gen < 2
        BY <2>1
    <2>8. Service!Next
        BY <1>1, <1>2, <1>4, <1>8, <1>9, <2>2, <2>6, <2>7, ListOnlyMeans, ZapTellStep
           DEF ServiceInv
    <2>9. Known((M \ {First}) \cup {e, n}, sent, file, register_call_seq)
        <3>1. n.method = "MESSAGE" /\ n.sends = 0 /\ \A m \in M : m.id # n.id
            BY <2>2 DEF Newborn
        <3>2. Joins(n, M, sent, file, register_call_seq)
            BY <1>13, <2>2, <3>1, FreshMeans
        <3>3. QED
            BY <1>2, <1>8, <1>9, <2>2, <3>1, <3>2, KnownTold DEF ServiceInv
    <2>10. Known((M \ {First, z}) \cup {e, n}, sent, file, register_call_seq)
        BY <2>9, KnownLess
    <2>11. ServiceInv'
        BY <1>1, <2>6, <2>10, ListOnlyMeans, StoredAfter
    <2>12. QED
        BY <2>8, <2>11 DEF Simulated
<1>14. QED
    BY <1>7, <1>12, <1>13

\* register_handset() for the head, as m.
LEMMA RegisterHandsetSim ==
    ASSUME QueueInv, ServiceInv, NEW W, HeadIn(W),
           W \cap {"NO_STATE", "DELETE_ME_STATE"} = {},
           First.method = "MESSAGE", First.gen = 0,
           NEW m, Kin(m, First), register_handset(m)
    PROVE  Simulated
<1> DEFINE M == Stored
           e == Restate(m, "ASKED_TO_REGISTER_HANDSET")
           S == M \ {First}
<1>1. /\ register_call_seq < MaxRegister /\ register_call_seq' = register_call_seq + 1
      /\ sent' = sent /\ file' = file /\ running' = running
    BY DEF register_handset
<1>2. register_call_seq \in Nat /\ register_call_seq' \in Nat
      /\ register_call_seq <= register_call_seq'
    BY <1>1 DEF QueueInv
<1>3. m \in Message /\ m.gen = 0 /\ m.id = First.id
    BY DEF Kin
<1>4. CASE Move(Others, m, "DELETE_ME_STATE")
    BY <1>1, <1>2, <1>4, WorkSim, StateNames
<1>5. CASE CanAllocate /\ Move(originate_register(Others, m), m, "ASKED_TO_REGISTER_HANDSET")
    <2>1. /\ Up /\ First \in M /\ Holds(Others, S) /\ First.state \in W
          /\ \A x \in S : x.id # First.id
        BY HeadHolds
    <2>2. \A x \in S : \E y \in Stored : y.id = x.id
        OBVIOUS
    <2>3. Kin(e, First) /\ e.state = "ASKED_TO_REGISTER_HANDSET"
        BY RestateKin, StateNames
    <2>4. Phase(First) = "held" /\ Phase(e) = "held" /\ RegOK(e)
        BY <2>1, <2>3, PhaseOf DEF RegOK, Kin
    <2> HIDE DEF S, e
    <2>5. PICK n : /\ Newborn(n, M, "REGISTER", 1)
                   /\ n.qtag = register_call_seq + 1 /\ n.uri = "none"
                   /\ Holds(originate_register(Others, m), S \cup {n})
        BY <1>1, <1>3, <1>5, <2>1, <2>2, RegisterHolds
    <2>6. \A x \in S \cup {n} : x.id # m.id
        BY <1>3, <2>1, <2>5 DEF Newborn
    <2>7. Holds(time_sorted_list', (S \cup {n}) \cup {e})
        BY <1>3, <1>5, <2>5, <2>6, MoveHolds, StateNames DEF e
    <2>8. (S \cup {n}) \cup {e} = (M \ {First}) \cup {e, n}
        BY DEF S
    <2>9. Holds(time_sorted_list', (M \ {First}) \cup {e, n})
        BY <2>7, <2>8
    <2>10. Service!Next
        BY <1>1, <2>1, <2>3, <2>4, <2>5, <2>9, RegisterStep DEF ServiceInv
    <2>11. Known((M \ {First}) \cup {e, n}, sent, file, register_call_seq')
        <3>1. Known(M, sent, file, register_call_seq')
            BY <1>2, KnownLater DEF ServiceInv
        <3>2. n.method = "REGISTER" /\ \A x \in M : x.id # n.id
            BY <2>5 DEF Newborn
        <3>3. Joins(n, M, sent, file, register_call_seq')
            BY <1>1, <2>5, <3>2, NextCSeqMeans
        <3>4. QED
            BY <2>1, <2>3, <2>4, <3>1, <3>2, <3>3, KnownTold
    <2>12. ServiceInv'
        BY <1>1, <2>9, <2>11, StoredAfter
    <2>13. QED
        BY <2>10, <2>12 DEF Simulated
<1>6. QED
    BY <1>4, <1>5 DEF register_handset

\* register_handset() registers.
LEMMA RegistrationSim ==
    ASSUME QueueInv, ServiceInv, ShortCodeRegister \/ RegisterHandset
    PROVE  Simulated
<1>1. CASE ShortCodeRegister
    <2>1. /\ NewRequest /\ HeadIn({"INITIAL_STATE"}) /\ First.method = "MESSAGE"
          /\ register_handset(First)
        BY <1>1 DEF ShortCodeRegister, ShortCode, NewRequest
    <2>2. First.gen = 0 /\ Kin(First, First)
        BY <2>1, ShortCodeHead, HeadHolds, SelfKin
    <2>3. QED
        BY <2>1, <2>2, RegisterHandsetSim
<1>2. CASE RegisterHandset
    <2> DEFINE r == Restate(First, "REGISTER_HANDSET")
               m == IF First.state = "AWAITING_REGISTER_HANDSET" THEN r ELSE First
               W == {"AWAITING_REGISTER_HANDSET", "REGISTER_HANDSET"}
    <2>1. HeadIn(W) /\ register_handset(m)
        BY <1>2 DEF RegisterHandset
    <2>2. First.method = "MESSAGE" /\ First.gen = 0 /\ First \in Message
        BY <2>1, HeadFacts, RegisteringHead DEF Registering
    <2>3. Kin(First, First) /\ Kin(r, First)
        BY <2>2, SelfKin, RestateKin, StateNames
    <2> HIDE DEF r
    <2>4. Kin(m, First)
        BY <2>3
    <2> HIDE DEF m
    <2>5. W \cap {"NO_STATE", "DELETE_ME_STATE"} = {}
        OBVIOUS
    <2> HIDE DEF W
    <2>6. QED
        BY <2>1, <2>2, <2>4, <2>5, RegisterHandsetSim
<1>3. QED
    BY <1>1, <1>2

-----------------------------------------------------------------------------
(* The reader and the clock.                                               *)

\* What the reader queues is accepted.
LEMMA ReceiveSim ==
    ASSUME QueueInv, ServiceInv, TagsApart, NEW b \in Message, b.id = NewId,
           b.sends = 0, b.old = FALSE, CanAllocate, Up, file = <<>>,
           sent' = sent, file' = file, running' = running,
           register_call_seq' = register_call_seq,
           time_sorted_list' = insert_new_message(time_sorted_list, b, "INITIAL_STATE"),
           \/ /\ b.method # "RESPONSE" /\ b.gen = 0
              /\ b.qtag \in UserTags /\ FreshTag(b.qtag)
           \/ /\ b.method = "RESPONSE" /\ b.gen \in 0..2
              /\ \E s \in sent : s.qtag = b.qtag
    PROVE  Simulated
<1> DEFINE M == Stored
           n == Restate(b, "INITIAL_STATE")
<1>1. \A m \in M : m.id # b.id
    BY NewIdFresh
<1>2. Kin(n, b) /\ n.state = "INITIAL_STATE"
    BY SelfKin, RestateKin, StateNames
<1>3. Holds(time_sorted_list', M \cup {n})
    BY <1>1, InsertHolds, StateNames DEF ServiceInv
<1> HIDE DEF n
<1>4. Newborn(n, M, b.method, b.gen)
    BY <1>1, <1>2, PhaseOf DEF Newborn, Kin
<1>5. n.qtag = b.qtag /\ n.method = b.method /\ n.sends = 0
    BY <1>2 DEF Kin
<1>6. Known(M \cup {n}, sent, file, register_call_seq)
    <2>1. CASE b.method = "RESPONSE" /\ \E s \in sent : s.qtag = b.qtag
        BY <1>5, <2>1, KnownAnswer DEF ServiceInv
    <2>2. CASE b.method # "RESPONSE" /\ b.qtag \in UserTags /\ FreshTag(b.qtag)
        <3>1. Joins(n, M, sent, file, register_call_seq)
            BY <1>2, <1>5, <2>2, FreshMeans
        <3>2. QED
            BY <3>1, KnownNew DEF ServiceInv
    <2>3. QED
        BY <2>1, <2>2
<1>7. b.method \in {"MESSAGE", "REGISTER", "RESPONSE"}
    BY DEF Message, RequestMethods
<1>8. Service!Next
    BY <1>3, <1>4, <1>7, AcceptStep DEF ServiceInv
<1>9. QED
    BY <1>3, <1>6, <1>8, StoredAfter DEF Simulated

\* A request, whose tag is nobody else's.
LEMMA ReceiveRequestSim ==
    ASSUME QueueInv, ServiceInv, TagsApart,
           NEW method \in Methods, NEW from \in Froms, NEW uri \in Targets,
           NEW tag \in UserTags, ReceiveRequest(method, from, uri, tag)
    PROVE  Simulated
<1> DEFINE b == NewMessage(NewId, method, from, uri, tag, 0)
<1>1. /\ NewId \in Ids /\ method \in RequestMethods \cup {"RESPONSE"}
      /\ from \in Address /\ uri \in Address /\ tag \in Tags /\ method # "RESPONSE"
    BY NewIdInIds, AddressAssumption
       DEF ReceiveRequest, Address, Tags, RequestMethods
<1>2. b \in Message
    BY <1>1, NewMessageType
<1>3. /\ b.id = NewId /\ b.sends = 0 /\ b.method = method /\ b.gen = 0 /\ b.qtag = tag
      /\ b.old = FALSE
    BY DEF NewMessage
<1>4. /\ CanAllocate /\ Up /\ sent' = sent /\ file' = file /\ running' = running
      /\ file = <<>>
      /\ register_call_seq' = register_call_seq /\ FreshTag(tag)
      /\ time_sorted_list' = insert_new_message(time_sorted_list, b, "INITIAL_STATE")
    BY DEF ReceiveRequest
<1> HIDE DEF b
<1>5. QED
    BY <1>1, <1>2, <1>3, <1>4, ReceiveSim

\* An answer to what was sent.
LEMMA ReceiveResponseSim ==
    ASSUME QueueInv, ServiceInv, TagsApart, NEW s \in sent, NEW status \in Statuses,
           ReceiveResponse(s, status)
    PROVE  Simulated
<1> DEFINE a == NewMessage(NewId, "RESPONSE", s.from, "none", s.qtag, s.gen)
           b == [a EXCEPT !.status = status]
<1>1. /\ s.from \in Address /\ s.qtag \in Tags /\ s.gen \in Nat
      /\ s.gen <= 1 \/ (s.gen = 2 /\ s.from = "bounce")
    BY DEF QueueInv, SentOK, SentRecord
<1>2. /\ NewId \in Ids /\ "RESPONSE" \in RequestMethods \cup {"RESPONSE"}
      /\ "none" \in Address
    BY NewIdInIds DEF Address, ReceiveResponse
<1>3. a \in Message
    BY <1>1, <1>2, NewMessageType
<1>4. /\ a.id = NewId /\ a.sends = 0 /\ a.method = "RESPONSE" /\ a.gen = s.gen
      /\ a.qtag = s.qtag /\ a.old = FALSE
    BY DEF NewMessage
<1>5. /\ CanAllocate /\ Up /\ sent' = sent /\ file' = file /\ running' = running
      /\ file = <<>>
      /\ register_call_seq' = register_call_seq
      /\ time_sorted_list' = insert_new_message(time_sorted_list, b, "INITIAL_STATE")
    BY DEF ReceiveResponse
<1> HIDE DEF a
<1>6. /\ b \in Message /\ b.id = NewId /\ b.sends = 0 /\ b.method = "RESPONSE"
      /\ b.gen = s.gen /\ b.qtag = s.qtag /\ b.old = FALSE
    BY <1>3, <1>4 DEF Message
<1> HIDE DEF b
<1>7. b.gen \in 0..2
    BY <1>1, <1>6
<1>8. QED
    BY <1>5, <1>6, <1>7, ReceiveSim

\* What read_queue_from_file() puts into the list is restored.
LEMMA ReadSim ==
    ASSUME QueueInv, ServiceInv, read_queue_from_file
    PROVE  Simulated
<1> DEFINE M == Stored
           F == file
           r == Head(F)
           n == Restored(r)
<1>1. /\ Up /\ CanAllocate /\ F # <<>> /\ time_sorted_list' = Cons(n, time_sorted_list)
      /\ file' = Tail(F) /\ sent' = sent /\ running' = running
      /\ register_call_seq' = register_call_seq
    BY DEF read_queue_from_file
<1>2. F \in Seq(Saveable) /\ Len(F) \in Nat /\ Len(F) > 0 /\ r = F[1]
    BY <1>1, EmptySeq, LenProperties DEF QueueInv
<1>3. /\ Len(Tail(F)) = Len(F) - 1
      /\ \A i \in 1..Len(Tail(F)) : Tail(F)[i] = F[i + 1] /\ i + 1 \in 1..Len(F)
    BY <1>1, <1>2, HeadTailProperties
<1>4. r \in Saveable /\ r \in Saved
    BY <1>2, ElementOfSeq DEF Saveable
<1>5. NewId \in Ids /\ \A m \in M : m.id # NewId
    BY <1>1, NewIdFresh
<1>6. /\ n.id = NewId /\ n.method = r.method /\ n.uri = r.uri /\ n.qtag = r.qtag
      /\ n.gen = r.gen /\ n.state = r.state /\ n.sends = 0 /\ n.old = TRUE
    BY DEF Restored, NewMessage
<1>7. n \in Message /\ n.method \in {"MESSAGE", "REGISTER"} /\ n.gen \in 0..2
    BY <1>1, <1>4, <1>6, RestoredGood DEF Saved, RequestMethods, Good
<1> HIDE DEF n, F, r
<1>8. Holds(time_sorted_list', M \cup {n})
    BY <1>1, <1>5, <1>6, <1>7, HoldsCons DEF ServiceInv
<1>9. Known(M, sent, F, register_call_seq)
    BY DEF ServiceInv, F
<1>10. Known(M, sent, Tail(F), register_call_seq)
    <2>1. FileKnown(M, sent, Tail(F))
        BY <1>2, <1>3, <1>9 DEF Known, FileKnown
    <2>2. QED
        BY <1>9, <2>1 DEF Known
<1>11. Joins(n, M, sent, Tail(F), register_call_seq)
    <2>1. 1 \in 1..Len(F) /\ F[1] = r
        BY <1>2
    <2>2. FileKnown(M, sent, F)
        BY <1>9 DEF Known
    <2>3. \A m \in M : m.method # "RESPONSE" /\ m.qtag = n.qtag => Twins(m, n)
        BY <1>6, <2>1, <2>2 DEF FileKnown, Twins
    <2>4. RegOK(n)
        <3>1. r.method = "REGISTER" /\ r.uri # "none" =>
                 /\ r.state \in {"INITIAL_STATE", "NO_STATE", "DELETE_ME_STATE"}
                 /\ r.qtag \notin 1..MaxRegister
            BY <2>1, <2>2 DEF FileKnown
        <3>2. QED
            BY <1>6, <3>1 DEF RegOK
    <2>5. \A s \in sent : s.qtag = n.qtag => ~(n.method = "REGISTER" /\ n.uri # "none")
        BY <1>6, <2>1, <2>2 DEF FileKnown
    <2>6. n.qtag \in 1..MaxRegister => n.method = "REGISTER"
        BY <1>6, <2>1, <2>2 DEF FileKnown
    <2>7. \A i \in 1..Len(Tail(F)) :
             Tail(F)[i].qtag = n.qtag =>
                /\ Tail(F)[i].method = "REGISTER" /\ n.method = "REGISTER"
                /\ n.qtag \in 1..MaxRegister
        <3> SUFFICES ASSUME NEW i \in 1..Len(Tail(F)), Tail(F)[i].qtag = n.qtag
                     PROVE  /\ Tail(F)[i].method = "REGISTER" /\ n.method = "REGISTER"
                            /\ n.qtag \in 1..MaxRegister
            OBVIOUS
        <3>1. Tail(F)[i] = F[i + 1] /\ i + 1 \in 1..Len(F) /\ i + 1 # 1
            BY <1>2, <1>3
        <3>2. QED
            BY <1>6, <2>1, <2>2, <3>1 DEF FileKnown
    <2>8. n.method # "RESPONSE"
        BY <1>7
    <2>9. QED
        BY <1>6, <2>3, <2>4, <2>5, <2>6, <2>7, <2>8 DEF Joins
<1>12. Known(M \cup {n}, sent, Tail(F), register_call_seq)
    BY <1>10, <1>11, KnownNew
<1>13. ServiceInv'
    BY <1>1, <1>8, <1>12, StoredAfter
<1>14. Service!Next
    BY <1>1, <1>2, <1>3, <1>5, <1>6, <1>7, <1>8, RestoreStep DEF ServiceInv, F
<1>15. QED
    BY <1>13, <1>14 DEF Simulated

\* Time is not seen.
LEMMA TickSim ==
    ASSUME QueueInv, ServiceInv, Tick
    PROVE  Simulated
<1> DEFINE M == Stored
           q == time_sorted_list
           r == time_sorted_list'
           N == {r[i] : i \in 1..Len(r)}
<1>1. /\ Len(q) \in Nat /\ DOMAIN q = 1..Len(q)
      /\ \A i \in 1..Len(q) : q[i] \in Message /\ q[i].due \in Int
    BY DueIsInt, LenProperties DEF QueueInv
<1>2. r = [i \in 1..Len(q) |-> [q[i] EXCEPT !.due = Earlier(@)]]
    BY <1>1 DEF Tick
<1>3. Len(r) = Len(q)
    BY <1>1, <1>2
<1>4. \A i \in 1..Len(q) : r[i] = [q[i] EXCEPT !.due = Earlier(@)]
    BY <1>2
<1> HIDE DEF q, r
<1>5. \A i \in 1..Len(q) : Kin(r[i], q[i]) /\ r[i].state = q[i].state /\ r[i].uri = q[i].uri
    <2> SUFFICES ASSUME NEW i \in 1..Len(q)
                 PROVE  Kin(r[i], q[i]) /\ r[i].state = q[i].state /\ r[i].uri = q[i].uri
        OBVIOUS
    <2> DEFINE x == q[i]
    <2>1. x \in Message /\ x.due \in Int /\ r[i] = [x EXCEPT !.due = Earlier(@)]
        BY <1>1, <1>4
    <2> HIDE DEF x
    <2>2. Earlier(x.due) \in Int
        BY <2>1 DEF Earlier
    <2>3. Kin(r[i], x) /\ r[i].state = x.state /\ r[i].uri = x.uri
        BY <2>1, <2>2 DEF Kin, Message
    <2>4. QED
        BY <2>3 DEF x
<1>6. /\ IdsApart(q) /\ M = {q[i] : i \in 1..Len(q)} /\ Holds(q, M)
      /\ Known(M, sent, file, register_call_seq)
    BY DEF ServiceInv, Holds, q, Stored
<1>7. r \in Seq(Message)
    <2>1. \A i \in 1..Len(q) : r[i] \in Message
        BY <1>5 DEF Kin
    <2>2. r = [i \in 1..Len(q) |-> r[i]]
        BY <1>2
    <2>3. QED
        BY <1>1, <2>1, <2>2
<1>8. IdsApart(r)
    BY <1>3, <1>5, <1>6 DEF IdsApart, Kin
<1>9. Holds(r, N)
    BY <1>7, <1>8 DEF Holds
<1>10. \A n \in N : \E m \in M : Kin(n, m) /\ n.state = m.state /\ n.uri = m.uri
    BY <1>3, <1>5, <1>6
<1>11. \A m \in M : \E n \in N : Kin(n, m) /\ n.state = m.state /\ n.uri = m.uri
    BY <1>3, <1>5, <1>6
<1>12. /\ \A m, n \in M : m.id = n.id => m = n
       /\ \A m, n \in N : m.id = n.id => m = n
    BY <1>6, <1>9, HoldsFacts
<1>13. sent' = sent /\ running' = running /\ register_call_seq' = register_call_seq
    BY DEF Tick
<1>14. /\ Len(file') = Len(file)
       /\ \A i \in 1..Len(file) :
             /\ file'[i].method = file[i].method /\ file'[i].uri = file[i].uri
             /\ file'[i].qtag = file[i].qtag /\ file'[i].state = file[i].state
    <2>1. /\ Len(file) \in Nat /\ DOMAIN file = 1..Len(file)
          /\ \A i \in 1..Len(file) : file[i] \in Saved
        BY LenProperties DEF QueueInv, Saveable
    <2>2. file' = [i \in 1..Len(file) |-> [file[i] EXCEPT !.due = Earlier(@)]]
        BY <2>1 DEF Tick
    <2>3. Len(file') = Len(file)
        BY <2>1, <2>2
    <2>4. \A i \in 1..Len(file) : file'[i] = [file[i] EXCEPT !.due = Earlier(@)]
        BY <2>2
    <2>5. QED
        BY <2>1, <2>3, <2>4 DEF Saved
<1> HIDE DEF M, N
<1>15. Known(N, sent, file', register_call_seq)
    <2>1. \A m, n \in N : /\ m.method # "RESPONSE" /\ n.method # "RESPONSE"
                          /\ m.qtag = n.qtag
                          => m = n \/ Twins(m, n)
        <3> SUFFICES ASSUME NEW m \in N, NEW n \in N, m.method # "RESPONSE",
                            n.method # "RESPONSE", m.qtag = n.qtag
                     PROVE  m = n \/ Twins(m, n)
            OBVIOUS
        <3>1. PICK x \in M : Kin(m, x)
            BY <1>10
        <3>2. PICK y \in M : Kin(n, y)
            BY <1>10
        <3>3. x.method # "RESPONSE" /\ y.method # "RESPONSE" /\ x.qtag = y.qtag
            BY <3>1, <3>2 DEF Kin
        <3>4. x = y \/ Twins(x, y)
            BY <1>6, <3>3 DEF Known
        <3>5. CASE x = y
          <4>1. m.id = n.id
            BY <3>1, <3>2, <3>5 DEF Kin
          <4>2. QED
            BY <1>12, <4>1
        <3>6. CASE Twins(x, y)
            BY <3>1, <3>2, <3>6 DEF Twins, Kin
        <3>7. QED
            BY <3>4, <3>5, <3>6
    <2>2. \A m \in N, s \in sent :
             m.method # "RESPONSE" /\ m.qtag = s.qtag =>
                /\ m.sends > 0 \/ m.old \/ (m.method = "REGISTER" /\ s.stale)
                /\ ~(m.method = "REGISTER" /\ m.uri # "none")
        BY <1>6, <1>10 DEF Known, Kin
    <2>3. \A m \in N : m.method = "RESPONSE" => \E s \in sent : s.qtag = m.qtag
        BY <1>6, <1>10 DEF Known, Kin
    <2>4. \A m \in N : m.method # "RESPONSE" /\ m.qtag \in 1..MaxRegister =>
             m.method = "REGISTER" /\ (m.qtag <= register_call_seq \/ m.old)
        BY <1>6, <1>10 DEF Known, Kin
    <2>5. \A m \in N : RegOK(m)
        BY <1>6, <1>10 DEF Known, Kin, RegOK
    <2>6. \A s \in sent : s.qtag \in 1..MaxRegister => s.qtag <= register_call_seq \/ s.stale
        BY <1>6 DEF Known
    <2>7. FileKnown(N, sent, file')
        <3>1. FileKnown(M, sent, file)
            BY <1>6 DEF Known
        <3>2. \A i \in 1..Len(file), m \in N :
                 m.method # "RESPONSE" /\ file[i].qtag = m.qtag =>
                    /\ file[i].method = "REGISTER" /\ m.method = "REGISTER"
                    /\ file[i].qtag \in 1..MaxRegister
            BY <1>10, <3>1 DEF FileKnown, Kin
        <3>3. QED
            BY <1>14, <3>1, <3>2 DEF FileKnown
    <2>8. QED
        BY <2>1, <2>2, <2>3, <2>4, <2>5, <2>6, <2>7 DEF Known
<1>16. /\ \A m \in M : \E n \in N : n.id = m.id /\ View(n) = View(m)
       /\ \A n \in N : \E m \in M : n.id = m.id
    BY <1>10, <1>11 DEF Kin, View, Phase
<1>17. Unseen
    BY <1>6, <1>9, <1>13, <1>14, <1>16, SameView DEF q, r
<1>18. ServiceInv'
    BY <1>9, <1>13, <1>15, StoredAfter DEF r
<1>19. QED
    BY <1>17, <1>18 DEF Simulated, Unseen

-----------------------------------------------------------------------------
(* Answers.                                                                *)

\* find_queued_msg_by_tag() finds a message with the tag.
LEMMA FindMeans ==
    ASSUME NEW S, NEW q \in Seq(S), NEW tag, find_queued_msg_by_tag(q, tag) # 0
    PROVE  /\ find_queued_msg_by_tag(q, tag) \in 1..Len(q)
           /\ q[find_queued_msg_by_tag(q, tag)].qtag = tag
<1> DEFINE I == {i \in 1..Len(q) : q[i].qtag = tag}
<1>1. Len(q) \in Nat
    BY LenProperties
<1>2. I # {}
    BY DEF find_queued_msg_by_tag, SelectInSeq
<1>3. I \in SUBSET Nat
    BY <1>1
<1>4. Min(I) \in I
    BY <1>2, <1>3, MinIsMember
<1>5. find_queued_msg_by_tag(q, tag) = Min(I)
    BY <1>2 DEF find_queued_msg_by_tag, SelectInSeq
<1>6. QED
    BY <1>4, <1>5

\* A response that is looked at.
LEMMA AnswerHead ==
    ASSUME QueueInv, ServiceInv, NewResponse
    PROVE  /\ Up /\ First \in Stored /\ First \in Message
           /\ First.method = "RESPONSE" /\ Phase(First) = "held"
           /\ Holds(Others, Stored \ {First})
           /\ \A x \in Stored \ {First} : x.id # First.id
<1>1. HeadIn({"INITIAL_STATE"}) /\ First.method = "RESPONSE"
    BY DEF NewResponse
<1>2. QED
    BY <1>1, HeadHolds, PhaseOf

\* It is about another message, one that was sent or is a response itself, or one
\* with a tag from an earlier process.
LEMMA AnswerIsAbout ==
    ASSUME QueueInv, ServiceInv, NewResponse, Answered # 0
    PROVE  /\ Answered \in 1..Len(Others)
           /\ Others[Answered] \in Stored \ {First}
           /\ Others[Answered] \in Good /\ Others[Answered] \in Message
           /\ Others[Answered].qtag = First.qtag
           /\ MayBeAnswered(Others[Answered])
           /\ ~(Others[Answered].method = "REGISTER" /\ Others[Answered].uri # "none")
<1> DEFINE x == Others[Answered]
<1>1. /\ First \in Stored /\ First.method = "RESPONSE" /\ Holds(Others, Stored \ {First})
    BY AnswerHead
<1>2. Others \in Seq(Good) /\ Answered \in 1..Len(Others) /\ x \in Good /\ x \in Message
    BY AnsweredFacts, ReplaceGood
<1>3. x \in Stored \ {First}
    BY <1>1, <1>2, HoldsFacts
<1>4. x.qtag = First.qtag
    BY <1>2, FindMeans DEF Answered
<1>5. \E s \in sent : s.qtag = First.qtag
    BY <1>1 DEF ServiceInv, Known
<1> HIDE DEF x
<1>6. MayBeAnswered(x) /\ ~(x.method = "REGISTER" /\ x.uri # "none")
    BY <1>3, <1>4, <1>5 DEF ServiceInv, Known, MayBeAnswered
<1>7. QED
    BY <1>2, <1>3, <1>4, <1>6 DEF x

\* It is about nothing.
LEMMA DropSim ==
    ASSUME QueueInv, ServiceInv, ResponseUnmatched \/ ResponseUnknown
    PROVE  Simulated
<1> DEFINE M == Stored
           N == M \ {First}
<1>1. NewResponse /\ time_sorted_list' = Others /\ ListOnly
    BY DEF ResponseUnmatched, ResponseUnknown
<1>2. /\ Up /\ First \in M /\ First.method = "RESPONSE" /\ Phase(First) = "held"
      /\ Holds(time_sorted_list', N) /\ \A x \in N : x.id # First.id
    BY <1>1, AnswerHead
<1>3. /\ \A m \in M \ {First} : \E n \in N : n.id = m.id /\ View(n) = View(m)
      /\ \A n \in N : \E m \in M : n.id = m.id
    OBVIOUS
<1>4. Known(N, sent', file', register_call_seq')
    BY <1>1, ListOnlyMeans, KnownLess DEF ServiceInv
<1>5. Holds(time_sorted_list, M)
    BY DEF ServiceInv
<1> HIDE DEF N, M
<1>6. Service!Next
    BY <1>1, <1>2, <1>3, <1>5, ListOnlyMeans, NoteStep DEF M, N
<1>7. QED
    BY <1>2, <1>4, <1>6, StoredAfter DEF Simulated

\* The message it is about, x, becomes e where it stands.
LEMMA AnsweredKnown ==
    ASSUME QueueInv, ServiceInv, NewResponse, Answered # 0,
           NEW e, Kin(e, Others[Answered]), ListOnly,
           time_sorted_list' = [Others EXCEPT ![Answered] = e]
    PROVE  /\ Holds(time_sorted_list', (Stored \ {First, Others[Answered]}) \cup {e})
           /\ ServiceInv'
<1> DEFINE M == Stored
           x == Others[Answered]
<1>1. Answered \in 1..Len(Others) /\ x \in M \ {First}
      /\ MayBeAnswered(x) /\ x \in Message
    BY AnswerIsAbout
<1>2. Holds(Others, M \ {First})
    BY AnswerHead
<1>3. Holds(time_sorted_list', ((M \ {First}) \ {x}) \cup {e})
    BY <1>1, <1>2, HoldsExcept DEF Kin
<1> HIDE DEF M, x
<1>4. ((M \ {First}) \ {x}) \cup {e} = (M \ {First, x}) \cup {e}
    OBVIOUS
<1>5. RegOK(e)
    <2>1. ~(x.method = "REGISTER" /\ x.uri # "none")
        BY AnswerIsAbout DEF x
    <2>2. QED
        BY <2>1 DEF RegOK, Kin, x
<1>6. Known(M \ {First}, sent, file, register_call_seq)
    BY KnownLess DEF ServiceInv, M
<1>7. Known(((M \ {First}) \ {x}) \cup {e}, sent, file, register_call_seq)
    BY <1>1, <1>5, <1>6, KnownKin DEF x
<1>8. ServiceInv'
    BY <1>3, <1>7, ListOnlyMeans, StoredAfter
<1>9. QED
    BY <1>3, <1>4, <1>8 DEF M, x

\* 1xx, 5xx, 480 and 486: try again later.
LEMMA AckSim ==
    ASSUME QueueInv, ServiceInv, increase_acked_msg_timeout
    PROVE  Simulated
<1> DEFINE M == Stored
           k == Answered
           x == Others[k]
           e == [x EXCEPT !.due = AckedTimeout]
           N == (M \ {First, x}) \cup {e}
<1>1. NewResponse /\ k # 0 /\ ListOnly
      /\ time_sorted_list' = [Others EXCEPT ![k].due = AckedTimeout]
    BY DEF increase_acked_msg_timeout
<1>2. k \in 1..Len(Others) /\ x \in M \ {First} /\ x \in Message
    BY <1>1, AnswerIsAbout
<1>3. time_sorted_list' = [Others EXCEPT ![k] = e]
    BY <1>1
<1>4. Kin(e, x) /\ e.state = x.state
    <2>1. AckedTimeout \in Int
        BY TimeoutAssumption
    <2>2. e \in Message
        BY <1>2, <2>1 DEF Message
    <2>3. QED
        BY <1>2, <2>2 DEF Kin, Message
<1>5. View(e) = View(x) /\ e.id = x.id
    BY <1>4 DEF View, Phase, Kin
<1> HIDE DEF e
<1>6. Holds(time_sorted_list', N) /\ ServiceInv'
    BY <1>1, <1>3, <1>4, AnsweredKnown
<1>7. /\ Up /\ First \in M /\ First.method = "RESPONSE" /\ Phase(First) = "held"
      /\ \A y \in M \ {First} : y.id # First.id
    BY <1>1, AnswerHead
<1> HIDE DEF x, k
<1>8. /\ \A n \in N : n.id # First.id
      /\ \A m \in M \ {First} : \E n \in N : n.id = m.id /\ View(n) = View(m)
      /\ \A n \in N : \E m \in M : n.id = m.id
    BY <1>2, <1>5, <1>7
<1>9. Holds(time_sorted_list, M) /\ sent' = sent /\ file' = file /\ running' = running
    BY <1>1, ListOnlyMeans DEF ServiceInv
<1> DEFINE a == First
<1> HIDE DEF N, M
<1>10. /\ a \in M /\ a.method = "RESPONSE" /\ Phase(a) = "held"
       /\ \A n \in N : n.id # a.id
       /\ \A m \in M \ {a} : \E n \in N : n.id = m.id /\ View(n) = View(m)
       /\ \A n \in N : \E m \in M : n.id = m.id
       /\ Holds(time_sorted_list', N) /\ Up
    BY <1>6, <1>7, <1>8
<1> HIDE DEF a
<1>11. Service!Next
    BY <1>9, <1>10, NoteStep
<1>12. QED
    BY <1>6, <1>11 DEF Simulated

\* 4xx without a notice; 3xx and 6xx.
LEMMA RedirectSim ==
    ASSUME QueueInv, ServiceInv, ResponsePunt \/ ResponseRelocate
    PROVE  Simulated
<1> DEFINE M == Stored
           x == Others[Answered]
<1>1. NewResponse /\ Answered # 0 /\ ListOnly
    BY DEF ResponsePunt, ResponseRelocate, Refused
<1>2. PICK s \in {"NO_STATE", "REQUEST_DESTINATION_IMSI"} :
        time_sorted_list' = [Others EXCEPT ![Answered] = Restate(@, s)]
    BY DEF ResponsePunt, ResponseRelocate
<1> DEFINE e == Restate(x, s)
<1>3. /\ Answered \in 1..Len(Others) /\ x \in M \ {First} /\ x \in Message
      /\ MayBeAnswered(x)
    BY <1>1, AnswerIsAbout
<1>4. time_sorted_list' = [Others EXCEPT ![Answered] = e]
    BY <1>2
<1>5. Kin(e, x) /\ e.state = s
    <2>1. s \in sm_state
        BY StateNames
    <2>2. QED
        BY <1>3, <2>1, SelfKin, RestateKin
<1> HIDE DEF e
<1>6. Holds(time_sorted_list', (M \ {First, x}) \cup {e}) /\ ServiceInv'
    BY <1>1, <1>4, <1>5, AnsweredKnown
<1>7. Phase(e) \in {"held", "failed"}
    BY <1>2, <1>5, PhaseOf
<1>8. Up /\ First \in M /\ First.method = "RESPONSE" /\ Phase(First) = "held"
    BY <1>1, AnswerHead
<1>9. Holds(time_sorted_list, M)
    BY DEF ServiceInv
<1> HIDE DEF x, M
<1>10. Service!Next
    BY <1>1, <1>3, <1>5, <1>6, <1>7, <1>8, <1>9, ListOnlyMeans, RedirectStep
<1>11. QED
    BY <1>6, <1>10 DEF Simulated

\* 4xx, and the sender is told.
LEMMA RefuseSim ==
    ASSUME QueueInv, ServiceInv, TagsApart, NEW t \in OwnNumbers, ResponseBounce(t)
    PROVE  Simulated
<1> DEFINE M == Stored
           x == Others[Answered]
           e == Restate(x, "DELETE_ME_STATE")
           q == [Others EXCEPT ![Answered] = e]
           S == (M \ {First, x}) \cup {e}
<1>1. /\ NewResponse /\ Answered # 0 /\ ListOnly /\ MayBounce(x) /\ CanAllocate
      /\ FreshTag(t) /\ time_sorted_list' = originate_bounce(q, x, t)
    BY DEF ResponseBounce, Refused
<1>2. /\ Answered \in 1..Len(Others) /\ x \in M \ {First} /\ x \in Message /\ x \in Good
      /\ MayBeAnswered(x)
    BY <1>1, AnswerIsAbout
<1>3. Kin(e, x) /\ e.state = "DELETE_ME_STATE"
    BY <1>2, SelfKin, RestateKin, StateNames
<1>4. /\ Up /\ First \in M /\ First.method = "RESPONSE" /\ Phase(First) = "held"
      /\ Holds(Others, M \ {First}) /\ \A y \in M \ {First} : y.id # First.id
    BY <1>1, AnswerHead
<1> HIDE DEF e
<1>5. Holds(q, ((M \ {First}) \ {x}) \cup {e})
    BY <1>2, <1>3, <1>4, HoldsExcept DEF Kin
<1>6. ((M \ {First}) \ {x}) \cup {e} = S
    OBVIOUS
<1>7. \A y \in S : \E m \in Stored : m.id = y.id
    BY <1>2, <1>3 DEF Kin
<1> HIDE DEF S, q, x
<1>8. Holds(q, S)
    BY <1>5, <1>6
<1>9. /\ x.gen \in Nat /\ x.gen < 2
      /\ \E n : /\ Newborn(n, Stored, "MESSAGE", x.gen + 1) /\ n.qtag = t
                /\ Holds(originate_bounce(q, x, t), S \cup {n})
    BY <1>1, <1>2, <1>7, <1>8, BounceHolds
<1>10. PICK n : /\ Newborn(n, M, "MESSAGE", x.gen + 1) /\ n.qtag = t
                /\ Holds(originate_bounce(q, x, t), S \cup {n})
    BY <1>9
<1>11. S \cup {n} = (M \ {First, x}) \cup {e, n}
    BY DEF S
<1>12. Holds(time_sorted_list', (M \ {First, x}) \cup {e, n})
    BY <1>1, <1>10, <1>11
<1>13. Phase(e) = "done"
    BY <1>3, PhaseOf
<1>14. Holds(time_sorted_list, M)
    BY DEF ServiceInv
<1>15. Service!Next
    BY <1>1, <1>2, <1>3, <1>4, <1>9, <1>10, <1>12, <1>13, <1>14, ListOnlyMeans,
       RefuseStep
<1>16. Known((M \ {x}) \cup {e, n}, sent, file, register_call_seq)
    <2>1. n.method = "MESSAGE" /\ n.sends = 0
        BY <1>10 DEF Newborn
    <2>2. Joins(n, M, sent, file, register_call_seq) /\ \A m \in M : m.id # n.id
        BY <1>1, <1>10, <2>1, FreshMeans DEF Newborn
    <2>3. RegOK(e)
        <3>1. RegOK(x)
            BY <1>2 DEF ServiceInv, Known
        <3>2. QED
            BY <1>3, <3>1 DEF RegOK, Kin
    <2>4. QED
        BY <1>2, <1>3, <1>10, <2>1, <2>2, <2>3, KnownTold DEF ServiceInv
<1>17. Known((M \ {First, x}) \cup {e, n}, sent, file, register_call_seq)
    BY <1>16, KnownLess
<1>18. ServiceInv'
    BY <1>1, <1>12, <1>17, ListOnlyMeans, StoredAfter
<1>19. QED
    BY <1>15, <1>18 DEF Simulated

\* 2xx to a REGISTER: the SMS that waits for the registration starts again, which
\* the service does not see; nothing else changes.
Rerun(N) ==
    /\ Known(N, sent, file, register_call_seq)
    /\ \A m \in Stored \ {First} : \E n \in N : n.id = m.id /\ View(n) = View(m)
    /\ \A n \in N : \E m \in Stored \ {First} :
          n.id = m.id /\ (n.state = m.state \/ m.state \in Registering)

\* After an SMS is run again, the same messages are held.
LEMMA RerunHolds ==
    ASSUME QueueInv, ServiceInv, NewResponse, Answered # 0,
           NEW q, q = RerunLinked(Others, Others[Answered])
    PROVE  \E N : /\ Holds(q, N) /\ Answered \in 1..Len(q) /\ q[Answered] = Others[Answered]
                  /\ Rerun(N)
<1> DEFINE S == Stored \ {First}
           k == Answered
           x == Others[k]
           l == find_queued_msg_by_tag(Others, x.linktag)
           y == Others[l]
           e == Restate(y, "INITIAL_STATE")
<1>1. k \in 1..Len(Others) /\ Holds(Others, S) /\ Others \in Seq(Good)
    BY AnswerIsAbout, AnswerHead, AnsweredFacts
<1>2. Known(S, sent, file, register_call_seq)
    BY KnownLess DEF ServiceInv
<1>3. CASE x.method = "REGISTER" /\ l # 0 /\ y.state \in Registering
    <2> DEFINE N == (S \ {y}) \cup {e}
    <2>1. l \in 1..Len(Others)
        BY <1>1, <1>3, FindMeans
    <2>2. y \in S /\ y \in Message /\ Fits(y, y.state)
        BY <1>1, <2>1, HoldsFacts, ReplaceGood
    <2>3. y.method = "MESSAGE"
        BY <1>3, <2>2 DEF Fits
    <2>4. Kin(e, y) /\ e.state = "INITIAL_STATE"
        BY <2>2, SelfKin, RestateKin, StateNames
    <2>5. q = [Others EXCEPT ![l] = e]
        BY <1>3 DEF RerunLinked
    <2>6. l # k
        BY <1>3, <2>3
    <2> HIDE DEF e, l, S
    <2>7. Holds(q, N)
        <3>1. Holds([Others EXCEPT ![l] = e], (S \ {Others[l]}) \cup {e})
            BY <1>1, <2>1, <2>4, HoldsExcept DEF Kin
        <3>2. QED
            BY <2>5, <3>1
    <2>8. k \in 1..Len(q) /\ q[k] = x
        <3>1. Others \in Seq(Message) /\ DOMAIN Others = 1..Len(Others)
            BY <1>1, LenProperties DEF Holds
        <3>2. /\ Len([Others EXCEPT ![l] = e]) = Len(Others)
              /\ [Others EXCEPT ![l] = e][k] = Others[k]
            BY <1>1, <2>1, <2>4, <2>6, <3>1, ExceptSeq DEF Kin
        <3>3. QED
            BY <1>1, <2>5, <3>2
    <2>9. RegOK(e)
        BY <2>3, <2>4 DEF RegOK, Kin
    <2> HIDE DEF S, y
    <2>10. Known(N, sent, file, register_call_seq)
        BY <1>2, <2>2, <2>4, <2>9, KnownKin
    <2>11. View(e) = View(y)
        <3>1. Phase(e) = "held" /\ Phase(y) = "held"
            BY <1>3, <2>4, PhaseOf DEF Registering
        <3>2. QED
            BY <2>4, <3>1 DEF View, Kin
    <2>12. /\ \A m \in S : \E n \in N : n.id = m.id /\ View(n) = View(m)
           /\ \A n \in N : \E m \in S :
                 n.id = m.id /\ (n.state = m.state \/ m.state \in Registering)
        BY <1>3, <2>2, <2>4, <2>11 DEF Kin
    <2>13. Rerun(N)
        BY <2>10, <2>12 DEF Rerun, S
    <2> HIDE DEF N
    <2>14. QED
        BY <2>7, <2>8, <2>13
<1>4. CASE ~(x.method = "REGISTER" /\ l # 0 /\ y.state \in Registering)
    <2>1. q = Others
        BY <1>4 DEF RerunLinked
    <2>2. Rerun(S)
        BY <1>2 DEF Rerun
    <2> HIDE DEF S
    <2>3. QED
        BY <1>1, <2>1, <2>2
<1>5. QED
    BY <1>3, <1>4

\* What a 200 leaves: the linked SMS runs again, and its message is gone.
LEMMA DeliveredFacts ==
    ASSUME QueueInv, ServiceInv, ResponseDelivered
    PROVE  \E N : /\ Rerun(N) /\ Others[Answered] \in N
                  /\ Holds(time_sorted_list', N \ {Others[Answered]})
                  /\ \A m, n \in N : m.id = n.id => m = n
<1> DEFINE q == RerunLinked(Others, Others[Answered])
<1>1. NewResponse /\ Answered # 0 /\ time_sorted_list' = RemoveAt(q, Answered)
    BY DEF ResponseDelivered
<1> HIDE DEF q
<1>2. \E N : /\ Holds(q, N) /\ Answered \in 1..Len(q) /\ q[Answered] = Others[Answered]
             /\ Rerun(N)
    BY <1>1, RerunHolds DEF q
<1>3. PICK N : /\ Holds(q, N) /\ Answered \in 1..Len(q) /\ q[Answered] = Others[Answered]
               /\ Rerun(N)
    BY <1>2
<1>4. Holds(RemoveAt(q, Answered), N \ {q[Answered]})
    BY <1>3, HoldsRemoveAt
<1>5. q[Answered] \in N /\ \A m, n \in N : m.id = n.id => m = n
    BY <1>3, HoldsFacts
<1>6. QED
    BY <1>1, <1>3, <1>4, <1>5

\* A 200 settles the message that it is for.
LEMMA DeliveredSim ==
    ASSUME QueueInv, ServiceInv, ResponseDelivered
    PROVE  Simulated
<1> DEFINE M == Stored
           x == Others[Answered]
           a == First
<1>1. NewResponse /\ Answered # 0 /\ ListOnly
    BY DEF ResponseDelivered
<1>2. x \in M \ {a} /\ MayBeAnswered(x)
    BY <1>1, AnswerIsAbout
<1>3. /\ Up /\ a \in M /\ a.method = "RESPONSE" /\ Phase(a) = "held"
      /\ \A y \in M \ {a} : y.id # a.id
    BY <1>1, AnswerHead
<1>4. PICK N : /\ Rerun(N) /\ x \in N /\ Holds(time_sorted_list', N \ {x})
               /\ \A m, n \in N : m.id = n.id => m = n
    BY DeliveredFacts
<1> DEFINE Q == N \ {x}
<1>5. Holds(time_sorted_list, M) /\ sent' = sent /\ file' = file /\ running' = running
    BY <1>1, ListOnlyMeans DEF ServiceInv
<1>6. \A m, n \in M : m.id = n.id => m = n
    BY <1>5, HoldsFacts
<1>7. /\ Known(N, sent, file, register_call_seq)
      /\ \A m \in M \ {a} : \E n \in N : n.id = m.id /\ View(n) = View(m)
      /\ \A n \in N : \E m \in M \ {a} : n.id = m.id
    BY <1>4 DEF Rerun
<1> HIDE DEF M, x, a
<1>8. \A n \in Q : n.id # a.id /\ n.id # x.id
    BY <1>3, <1>4, <1>7
<1>9. \A m \in M \ {a, x} : \E n \in Q : n.id = m.id /\ View(n) = View(m)
    BY <1>2, <1>6, <1>7
<1>10. \A n \in Q : \E m \in M : n.id = m.id
    BY <1>7
<1>11. Holds(time_sorted_list', Q)
    BY <1>4
<1>12. Known(Q, sent, file, register_call_seq)
    BY <1>7, KnownLess
<1>13. ServiceInv'
    BY <1>1, <1>11, <1>12, ListOnlyMeans, StoredAfter
<1> HIDE DEF Q
<1>14. Service!Next
    BY <1>2, <1>3, <1>5, <1>8, <1>9, <1>10, <1>11, SettleStep
<1>15. QED
    BY <1>13, <1>14 DEF Simulated

-----------------------------------------------------------------------------
(* Every step is one of the service, or one that it does not see.          *)

\* Whatever process_timeout() does with the head is a step of SmqService or none.
LEMMA ProcessTimeoutSim ==
    ASSUME QueueInv, ServiceInv, TagsApart, process_timeout
    PROVE  Simulated
<1>1. CASE \/ InvalidMethod \/ OrdinaryMessage \/ ShortCodeError \/ ShortCodeDone
           \/ ShortCodeAwaitRegister
           \/ lookup_from_address_error \/ lookup_uri_imsi_error
           \/ lookup_uri_imsi_punt \/ lookup_uri_hostport \/ NoAnswer
           \/ NotReadyToRegister \/ RegisterTimeout
    BY <1>1, PlainMovesSim
<1>2. CASE \/ ShortCodeRetry \/ lookup_uri_imsi
           \/ \E u \in Targets : ShortCodeRestart(u)
           \/ \E f \in Address : lookup_from_address(f) \/ lookup_uri_imsi_relay(f)
    BY <1>2, ChangedMovesSim
<1>3. CASE \E n \in OwnNumbers :
             ShortCodeReply(n) \/ lookup_uri_imsi_bounce(n) \/ ResponseBounce(n)
    BY <1>3, TellSim, RefuseSim
<1>4. CASE \E t \in Tags, n \in OwnNumbers : ShortCodeZap(t, n)
    BY <1>4, ZapSim
<1>5. CASE \/ ShortCodeStop \/ ShortCodeInfoCrash \/ ShortCodeZapCrash
           \/ lookup_uri_imsi_crash
    BY <1>5, StopSim
<1>6. CASE \/ pack_sms_for_delivery_error \/ GiveUp \/ RateLimited
           \/ deliver_msg_datagram
    BY <1>6, DeliverySim, RateLimitedSim, DeliverSim
<1>7. CASE Discard
    BY <1>7, DiscardSim
<1>8. CASE ShortCodeRegister \/ RegisterHandset
    BY <1>8, RegistrationSim
<1>9. CASE ResponseUnmatched \/ ResponseUnknown
    BY <1>9, DropSim
<1>10. CASE increase_acked_msg_timeout \/ ResponseDelivered
    BY <1>10, AckSim, DeliveredSim
<1>11. CASE ResponsePunt \/ ResponseRelocate
    BY <1>11, RedirectSim
<1>12. QED
    BY <1>1, <1>2, <1>3, <1>4, <1>5, <1>6, <1>7, <1>8, <1>9, <1>10, <1>11
       DEF process_timeout

\* So is every step.
LEMMA StepSim ==
    ASSUME QueueInv, ServiceInv, TagsApart, [Next]_vars
    PROVE  Simulated
<1>1. CASE read_queue_from_file
    BY <1>1, ReadSim
<1>2. CASE \E m \in Methods, f \in Froms, u \in Targets, t \in UserTags :
             ReceiveRequest(m, f, u, t)
    BY <1>2, ReceiveRequestSim
<1>3. CASE \E s \in sent, status \in Statuses : ReceiveResponse(s, status)
    BY <1>3, ReceiveResponseSim
<1>4. CASE process_timeout
    BY <1>4, ProcessTimeoutSim
<1>5. CASE Tick
    BY <1>5, TickSim
<1>6. CASE UNCHANGED vars
    <2>1. /\ time_sorted_list' = time_sorted_list /\ sent' = sent /\ file' = file
          /\ running' = running /\ register_call_seq' = register_call_seq
        BY <1>6 DEF vars
    <2>2. ServiceInv'
        BY <2>1 DEF ServiceInv, Stored
    <2>3. UNCHANGED Service!vars
        BY <2>1 DEF Service!vars, Up
    <2>4. QED
        BY <2>2, <2>3 DEF Simulated
<1>7. QED
    BY <1>1, <1>2, <1>3, <1>4, <1>5, <1>6 DEF Next, Receive

\* The empty queue is the empty service, whatever is still in the file.
LEMMA InitSim ==
    ASSUME Init, TagsApart
    PROVE  ServiceInv /\ Service!Init
<1>1. time_sorted_list = <<>> /\ register_call_seq = 0 /\ running = "up"
    BY DEF Init
<1>2. Len(time_sorted_list) = 0 /\ time_sorted_list \in Seq(Message)
    BY <1>1
<1>3. Stored = {}
    BY <1>2 DEF Stored
<1>4. PICK l \in Legacies : file = l.file /\ sent = l.sent
    BY DEF Init
<1>5. LeftApart(l) /\ Len(file) \in Nat
    BY <1>4, LegacyAssumption, LenProperties DEF TagsApart
<1>6. FileKnown({}, sent, file)
    BY <1>4, <1>5 DEF LeftApart, CSeqs, ClientRegister, NeverSent, FileKnown
<1>7. \A s \in sent : s.qtag \in 1..MaxRegister => s.stale
    BY <1>4, <1>5 DEF LeftApart, CSeqs
<1>8. Holds(time_sorted_list, Stored)
    BY <1>2, <1>3 DEF Holds, IdsApart
<1>9. Known(Stored, sent, file, register_call_seq)
    BY <1>3, <1>6, <1>7 DEF Known
<1>10. Service!Init
    <2>1. (\E s \in sent : s.stale) => sent # {}
        OBVIOUS
    <2>2. [id \in Ids |-> Seen(time_sorted_list, id)] = [id \in Ids |-> Free]
        BY <1>1, <1>2 DEF Seen
    <2>3. (sent # {}) \in BOOLEAN /\ (\E s \in sent : s.stale) \in BOOLEAN
        BY Zenon
    <2>4. Up = TRUE
        BY <1>1 DEF Up
    <2>5. QED
        BY <1>5, <2>1, <2>2, <2>3, <2>4, Zenon DEF Service!Init
<1>11. QED
    BY <1>8, <1>9, <1>10 DEF ServiceInv

\* Each queued message has a list node of its own, a request that the network
\* knows has been sent or is from an earlier process, an answer is to something that
\* was sent, and no CSeq of a REGISTER is used twice by one process.
THEOREM ServiceInvariant ==
    ASSUME TagsApart
    PROVE  Spec => []ServiceInv
<1>1. Init => ServiceInv
    BY InitSim
<1>2. QueueInv /\ ServiceInv /\ [Next]_vars => ServiceInv'
    BY StepSim DEF Simulated
<1>3. QED
    BY <1>1, <1>2, QueueInvariant, PTL DEF Spec

\* The queue, with its list, its clock, its table of timeouts and its handlers,
\* keeps the promises of SmqService, whatever arrives and in whatever order.
THEOREM QueueImplementsService ==
    ASSUME TagsApart
    PROVE  Spec => ImplementsService
<1>1. Init => Service!Init
    BY InitSim
<1>2. QueueInv /\ ServiceInv /\ [Next]_vars => [Service!Next]_(Service!vars)
    BY StepSim DEF Simulated
<1>3. QED
    BY <1>1, <1>2, QueueInvariant, ServiceInvariant, PTL
       DEF Spec, ImplementsService, Service!Spec

\* What find_queued_msg_by_tag() finds is the one request that has the tag, if
\* clients, random numbers and what an earlier process has left keep tags apart:
\* nothing that smqueue originates takes a tag that is in use, but for a REGISTER
\* that gets the CSeq of one that was read from the save file.
THEOREM TagsIdentify ==
    ASSUME TagsApart
    PROVE  Spec => []OnlyReloadedShareTag
<1>1. ServiceInv => OnlyReloadedShareTag
    <2> SUFFICES ASSUME ServiceInv,
                        NEW i \in 1..Len(time_sorted_list),
                        NEW j \in 1..Len(time_sorted_list),
                        SameTag(i, j), i # j
                 PROVE  Twins(time_sorted_list[i], time_sorted_list[j])
        BY DEF OnlyReloadedShareTag, Twins
    <2>1. time_sorted_list[i] \in Stored /\ time_sorted_list[j] \in Stored
        BY DEF Stored
    <2>2. time_sorted_list[i] # time_sorted_list[j]
        BY DEF ServiceInv, Holds, IdsApart
    <2>3. QED
        BY <2>1, <2>2 DEF ServiceInv, Known, SameTag
<1>2. QED
    BY <1>1, ServiceInvariant, PTL

-----------------------------------------------------------------------------
(* A 2xx to a REGISTER.                                                    *)

\* No state changes, but of an SMS that waits for its registration.
OnlyRegistering ==
    \A i \in 1..Len(time_sorted_list), j \in 1..Len(time_sorted_list') :
        /\ time_sorted_list[i].id = time_sorted_list'[j].id
        /\ time_sorted_list[i].state # time_sorted_list'[j].state
        => time_sorted_list[i].state \in Registering

\* Only what waits for a REGISTER changes its state.
LEMMA OnlyRegisteringMeans ==
    ASSUME ServiceInv, NEW N, Holds(time_sorted_list', N),
           \A n \in N, m \in Stored :
              n.id = m.id => n.state = m.state \/ m.state \in Registering
    PROVE  OnlyRegistering
<1>1. /\ \A i \in 1..Len(time_sorted_list) : time_sorted_list[i] \in Stored
      /\ \A j \in 1..Len(time_sorted_list') : time_sorted_list'[j] \in N
    BY HoldsFacts DEF ServiceInv
<1>2. QED
    BY <1>1 DEF OnlyRegistering

\* A message that is restored has an id that no other one has.
LEMMA ReadOnlyRegistering ==
    ASSUME QueueInv, ServiceInv, read_queue_from_file
    PROVE  OnlyRegistering
<1> DEFINE n == Restored(Head(file))
<1>1. CanAllocate /\ file # <<>> /\ time_sorted_list' = Cons(n, time_sorted_list)
    BY DEF read_queue_from_file
<1>2. Head(file) \in Saveable
    BY <1>1, EmptySeq, LenProperties, ElementOfSeq DEF QueueInv
<1>3. n \in Message
    BY <1>1, <1>2, RestoredGood DEF Good
<1>4. n.id = NewId
    BY DEF Restored, NewMessage
<1>5. \A m \in Stored : m.id # NewId
    BY <1>1, NewIdFresh
<1> HIDE DEF n
<1>6. Holds(time_sorted_list', Stored \cup {n})
    BY <1>1, <1>3, <1>4, <1>5, HoldsCons DEF ServiceInv
<1>7. \A x, y \in Stored : x.id = y.id => x = y
    BY HoldsFacts DEF ServiceInv
<1>8. QED
    BY <1>4, <1>5, <1>6, <1>7, OnlyRegisteringMeans

\* So has a new message.
LEMMA ReceiveOnlyRegistering ==
    ASSUME QueueInv, ServiceInv, Receive, ~read_queue_from_file
    PROVE  OnlyRegistering
<1> DEFINE M == Stored
<1>1. \E b \in Message : /\ CanAllocate /\ b.id = NewId
         /\ time_sorted_list' = insert_new_message(time_sorted_list, b, "INITIAL_STATE")
    <2>1. ASSUME NEW method \in Methods, NEW from \in Froms, NEW uri \in Targets,
                 NEW tag \in UserTags, ReceiveRequest(method, from, uri, tag)
          PROVE  <1>1!:
        <3> DEFINE b == NewMessage(NewId, method, from, uri, tag, 0)
        <3>1. /\ CanAllocate
              /\ time_sorted_list' =
                   insert_new_message(time_sorted_list, b, "INITIAL_STATE")
            BY <2>1 DEF ReceiveRequest
        <3>2. /\ NewId \in Ids /\ method \in RequestMethods \cup {"RESPONSE"}
              /\ from \in Address /\ uri \in Address /\ tag \in Tags
            BY <3>1, NewIdInIds, AddressAssumption DEF Address, Tags, RequestMethods
        <3>3. b \in Message
            BY <3>2, NewMessageType
        <3>4. b.id = NewId
            BY DEF NewMessage
        <3> HIDE DEF b
        <3>5. QED
            BY <3>1, <3>3, <3>4
    <2>2. ASSUME NEW s \in sent, NEW status \in Statuses, ReceiveResponse(s, status)
          PROVE  <1>1!:
        <3> DEFINE a == NewMessage(NewId, "RESPONSE", s.from, "none", s.qtag, s.gen)
                   b == [a EXCEPT !.status = status]
        <3>1. /\ CanAllocate
              /\ time_sorted_list' =
                   insert_new_message(time_sorted_list, b, "INITIAL_STATE")
            BY <2>2 DEF ReceiveResponse
        <3>2. /\ NewId \in Ids /\ "RESPONSE" \in RequestMethods \cup {"RESPONSE"}
              /\ "none" \in Address
            BY <3>1, NewIdInIds DEF Address
        <3>3. a \in Message
            <4>1. /\ s.from \in Address /\ s.qtag \in Tags /\ s.gen \in Nat
                  /\ s.gen <= 1 \/ (s.gen = 2 /\ s.from = "bounce")
                BY DEF QueueInv, SentOK, SentRecord
            <4>2. QED
                BY <3>2, <4>1, NewMessageType
        <3>4. a.id = NewId
            BY DEF NewMessage
        <3> HIDE DEF a
        <3>5. b \in Message /\ b.id = NewId
            BY <3>3, <3>4 DEF Message
        <3> HIDE DEF b
        <3>6. QED
            BY <3>1, <3>5
    <2>3. QED
        BY <2>1, <2>2 DEF Receive
<1>2. PICK b \in Message : /\ CanAllocate /\ b.id = NewId
         /\ time_sorted_list' = insert_new_message(time_sorted_list, b, "INITIAL_STATE")
    BY <1>1
<1> DEFINE n == Restate(b, "INITIAL_STATE")
<1>3. \A m \in M : m.id # NewId
    BY <1>2, NewIdFresh
<1>4. Kin(n, b)
    BY SelfKin, RestateKin, StateNames
<1>5. Holds(time_sorted_list', M \cup {n})
    BY <1>2, <1>3, InsertHolds, StateNames DEF ServiceInv
<1> HIDE DEF n
<1>6. n.id = NewId
    BY <1>2, <1>4 DEF Kin
<1>7. \A x, y \in M : x.id = y.id => x = y
    BY HoldsFacts DEF ServiceInv
<1>8. QED
    BY <1>3, <1>5, <1>6, <1>7, OnlyRegisteringMeans

\* Time changes no state.
LEMMA TickOnlyRegistering ==
    ASSUME QueueInv, ServiceInv, Tick
    PROVE  OnlyRegistering
<1> DEFINE q == time_sorted_list
<1>1. q \in Seq(Message) /\ Len(q) \in Nat /\ DOMAIN q = 1..Len(q)
    BY LenProperties DEF ServiceInv, Holds
<1>2. \A i \in 1..Len(q) : q[i] \in Message
    BY <1>1
<1>3. time_sorted_list' = [i \in 1..Len(q) |-> [q[i] EXCEPT !.due = Earlier(@)]]
    BY <1>1 DEF Tick
<1>4. Len(time_sorted_list') = Len(q)
    BY <1>1, <1>3
<1>5. \A i \in 1..Len(q) : time_sorted_list'[i] = [q[i] EXCEPT !.due = Earlier(@)]
    BY <1>3
<1>6. \A i \in 1..Len(q) : time_sorted_list'[i].id = q[i].id
                           /\ time_sorted_list'[i].state = q[i].state
    BY <1>2, <1>5 DEF Message
<1>7. QED
    BY <1>4, <1>6 DEF OnlyRegistering, ServiceInv, Holds, IdsApart

\* "Ignore it": an answer to a registration that comes again changes no state.
THEOREM SecondAnswerIgnored ==
    ASSUME TagsApart
    PROVE  Spec => DuplicateRegisterIgnored
<1>1. ASSUME QueueInv, ServiceInv, [Next]_vars
      PROVE  [NewResponse /\ Class = 2 /\ Answered # 0
                /\ Others[Answered].method = "REGISTER" => OnlyRegistering]_vars
    <2> SUFFICES ASSUME Next, NewResponse, Class = 2, Answered # 0
                 PROVE  OnlyRegistering
        BY <1>1
    <2>1. CASE Receive
        BY <1>1, <2>1, ReadOnlyRegistering, ReceiveOnlyRegistering
    <2>2. CASE Tick
        BY <1>1, <2>2, TickOnlyRegistering
    <2>3. CASE process_timeout
        <3>1. First.state = "INITIAL_STATE" /\ First.method = "RESPONSE"
            BY DEF NewResponse, HeadIn
        <3>2. ResponseDelivered
            <4>1. ~RetryLater
                BY DEF Class, RetryLater
            <4>2. ~(increase_acked_msg_timeout \/ ResponseUnmatched \/ ResponsePunt
                    \/ ResponseRelocate \/ ResponseUnknown
                    \/ \E n \in OwnNumbers : ResponseBounce(n))
                BY <4>1 DEF increase_acked_msg_timeout, ResponseUnmatched, ResponsePunt,
                   ResponseRelocate, ResponseUnknown, ResponseBounce, Refused
            <4>3. QED
                BY <2>3, <3>1, <4>2 DEF process_timeout, NewRequest, HeadIn, ShortCode,
                   InvalidMethod, OrdinaryMessage, ShortCodeReply, ShortCodeError,
                   ShortCodeDone, ShortCodeStop, ShortCodeRetry, ShortCodeAwaitRegister,
                   ShortCodeRegister, ShortCodeRestart, ShortCodeZap, ShortCodeInfoCrash,
                   ShortCodeZapCrash, lookup_from_address, lookup_from_address_error,
                   lookup_uri_imsi, lookup_uri_imsi_error, lookup_uri_imsi_relay,
                   lookup_uri_imsi_bounce, lookup_uri_imsi_punt, lookup_uri_imsi_crash,
                   UriLookup, UnknownNumber, lookup_uri_hostport, Delivery,
                   pack_sms_for_delivery_error, GiveUp, RateLimited,
                   deliver_msg_datagram, NoAnswer, Discard, NotReadyToRegister,
                   RegisterHandset, RegisterTimeout, Registering, BadStates
        <3>3. PICK N : /\ Rerun(N) /\ Holds(time_sorted_list', N \ {Others[Answered]})
            BY <1>1, <3>2, DeliveredFacts
        <3>4. \A x, y \in Stored : x.id = y.id => x = y
            BY <1>1, HoldsFacts DEF ServiceInv
        <3>5. \A n \in N, m \in Stored :
                n.id = m.id => n.state = m.state \/ m.state \in Registering
            BY <3>3, <3>4 DEF Rerun
        <3>6. QED
            BY <1>1, <3>3, <3>5, OnlyRegisteringMeans
    <2>4. QED
        BY <2>1, <2>2, <2>3 DEF Next
<1>2. QED
    BY <1>1, QueueInvariant, ServiceInvariant, PTL
       DEF Spec, DuplicateRegisterIgnored, OnlyRegistering
=============================================================================
