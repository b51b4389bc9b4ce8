-------------------------- MODULE SmqSaveFile_proofs --------------------------
(***************************************************************************)
(* Proofs about SmqSaveFile: what a restart brings back, in which order,   *)
(* and how often a message is sent over all the lives of the process.      *)
(*                                                                         *)
(* The inductive invariant ties the file to the queue of the last save,    *)
(* and the part of the file that has been read to the queue of now.        *)
(***************************************************************************)
EXTENDS SmqSaveFile, SmqLists

\* The file is being read, and the stream is good.
Loading == phase = "loading" /\ ~failbit
ReadSoFar == Len(file) - Len(rest)

DistinctIds(q) == \A i, j \in 1..Len(q) : q[i].id = q[j].id => i = j

IdInv ==
    /\ DistinctIds(queue) /\ DistinctIds(atSave)
    /\ Ids(queue) \subseteq accepted /\ Ids(atSave) \subseteq accepted
    /\ restored \subseteq accepted
    /\ phase = "down" => queue = <<>> /\ ~saving
    /\ saving => restored = {}

\* The file holds what was saved last, from the end of the list, or a part of it.
FileInv ==
    /\ Len(file) <= Len(atSave)
    /\ \A k \in 1..Len(file) : file[k] = Saved(atSave[Len(atSave) + 1 - k])

\* Reading goes on where it is, and nothing but what was read is in the queue.
LoadInv ==
    Loading =>
      /\ ~saving
      /\ Len(rest) <= Len(file)
      /\ \A k \in 1..Len(rest) : rest[k] = file[k + ReadSoFar]
      /\ Ids(queue) \subseteq restored
      /\ \A x \in restored : \E k \in 1..ReadSoFar : file[k].id = x
      /\ \A k \in 1..ReadSoFar : Readable(file[k]) => file[k].id \in Ids(queue) \cup touched

\* What was read and not handled since is in the queue as it was saved.
OrderInv ==
    phase # "down" =>
      /\ \A x \in restored \ touched : \E i \in 1..Len(queue) : queue[i].id = x
      /\ \A x \in restored : \E j \in 1..Len(atSave) : atSave[j].id = x
      /\ \A i \in 1..Len(queue), j \in 1..Len(atSave) :
           queue[i].id \in restored \ touched /\ queue[i].id = atSave[j].id
             => Saved(queue[i]) = Saved(atSave[j])
      /\ \A i, k \in 1..Len(queue), j, l \in 1..Len(atSave) :
           (/\ queue[i].id \in restored \ touched /\ queue[k].id \in restored \ touched
            /\ queue[i].id = atSave[j].id /\ queue[k].id = atSave[l].id
            /\ i < k)
             => j < l

\* How often a message was sent: before this life of the process, and in it.
SentInv ==
    /\ \A i \in 1..Len(queue) : /\ queue[i].retries <= MaxRetries
                                /\ sent[queue[i].id] <= MaxRetries * crashes + queue[i].retries
    /\ \A m \in Msgs : sent[m] <= MaxRetries * crashes + MaxRetries
    /\ phase = "down" => \A m \in Msgs : sent[m] <= MaxRetries * crashes
    /\ Loading => \A m \in Msgs \ restored : sent[m] <= MaxRetries * crashes
    /\ \A m \in Msgs \ accepted : sent[m] = 0

SaveInv == TypeOK /\ IdInv /\ FileInv /\ LoadInv /\ OrderInv /\ SentInv

-----------------------------------------------------------------------------
(* Conversions.                                                            *)

\* A time that can be read at all comes back as it was.
LEMMA TimeSurvives ==
    ASSUME NEW t \in Times, ReadsAsUnsigned(t)
    PROVE  AsTime(AsUnsigned(t)) = t
<1> DEFINE U == UIntMod
           T == TimeMod
           h == T \div 2
<1>1. U \in Nat \ {0} /\ T \in Nat \ {0}
    BY ModAssumption
<1>2. h \in Nat /\ 2 * h <= T
    BY <1>1
<1>3. t \in Int /\ -h <= t /\ t <= h - 1
    BY <1>2, TimesAssumption
<1>4. (IF t < 0 THEN -t ELSE t) < U
    BY DEF ReadsAsUnsigned
<1>5. T = U \/ t >= 0
    BY <1>3, ClockAssumption
<1>6. AsTime(AsUnsigned(t)) = (((t % U) + h) % T) - h
    BY DEF AsTime, AsUnsigned
<1> HIDE DEF U, T, h
<1>7. CASE t >= 0
    <2>1. t % U = t
        BY <1>1, <1>3, <1>4, <1>7
    <2>2. t + h \in Nat /\ t + h < T
        BY <1>1, <1>2, <1>3, <1>7
    <2>3. (t + h) % T = t + h
        BY <1>1, <2>2
    <2>4. QED
        BY <1>2, <1>3, <1>6, <2>1, <2>3
<1>8. CASE t < 0 /\ T = U
    <2>1. t % U = t + U
        BY <1>1, <1>3, <1>4, <1>8
    <2>2. t + h \in Nat /\ t + h < T
        BY <1>1, <1>2, <1>3, <1>8
    <2>3. ((t + h) + T) % T = t + h
        BY <1>1, <2>2
    <2>4. (t + U) + h = (t + h) + T
        BY <1>1, <1>2, <1>3, <1>8
    <2>5. QED
        BY <1>2, <1>3, <1>6, <2>1, <2>3, <2>4
<1>9. QED
    BY <1>3, <1>5, <1>7, <1>8

\* A message is saved as a record with its name.
LEMMA SavedType ==
    ASSUME NEW m \in Message
    PROVE  Saved(m) \in Record /\ Saved(m).id = m.id
BY DEF Saved, Message, Record

\* A record is read back as what was saved, with no retries.
LEMMA RestoredType ==
    ASSUME NEW r \in Record, ReadsAsUnsigned(r.time)
    PROVE  /\ Restored(r) \in Message /\ Saved(Restored(r)) = r
           /\ Restored(r).id = r.id /\ Restored(r).retries = 0
<1>1. r.time \in Times
    BY DEF Record
<1>2. AsTime(AsUnsigned(r.time)) = r.time
    BY <1>1, TimeSurvives
<1>3. Restored(r) = [id |-> r.id, request |-> r.request, valid |-> r.valid, state |-> r.state,
                     time |-> r.time, addr |-> r.addr, retries |-> 0]
    BY <1>2 DEF Restored
<1>4. QED
    BY <1>3 DEF Message, Record, Saved

\* save_queue_to_file() writes the list from its end.
LEMMA SaveOrderIs ==
    ASSUME NEW q \in Seq(Message)
    PROVE  /\ SaveOrder(q) \in Seq(Record) /\ Len(SaveOrder(q)) = Len(q)
           /\ \A k \in 1..Len(q) : SaveOrder(q)[k] = Saved(q[Len(q) + 1 - k])
<1> DEFINE n == Len(q)
           w == [i \in 1..n |-> Saved(q[i])]
<1>1. n \in Nat /\ \A i \in 1..n : q[i] \in Message
    BY LenProperties, ElementOfSeq
<1>2. \A i \in 1..n : Saved(q[i]) \in Record
    BY <1>1, SavedType
<1>3. w \in Seq(Record) /\ Len(w) = n
    BY <1>1, <1>2
<1>4. SaveOrder(q) = [i \in 1..n |-> w[(n - i) + 1]]
    BY <1>3 DEF SaveOrder, Reverse
<1>5. \A k \in 1..n : (n - k) + 1 \in 1..n /\ (n - k) + 1 = n + 1 - k
    BY <1>1
<1>6. \A k \in 1..n : w[(n - k) + 1] = Saved(q[n + 1 - k])
    BY <1>5
<1>7. \A k \in 1..n : w[(n - k) + 1] \in Record
    BY <1>2, <1>5, <1>6
<1> HIDE DEF w
<1>8. SaveOrder(q) \in [1..n -> Record]
    BY <1>4, <1>7
<1>9. SaveOrder(q) \in Seq(Record) /\ Len(SaveOrder(q)) = n
    BY <1>1, <1>8
<1>10. \A k \in 1..n : SaveOrder(q)[k] = Saved(q[n + 1 - k])
    BY <1>4, <1>6
<1>11. QED
    BY <1>9, <1>10

-----------------------------------------------------------------------------
(* What the steps do to the list.                                          *)

\* p is q without its head.
Dropped(p, q) ==
    /\ p \in Seq(Message) /\ Len(p) = Len(q) - 1
    /\ \A j \in 1..Len(p) : p[j] = q[j + 1]

\* p is q with its head replaced by e and moved to place i.
Placed(p, q, i, e) ==
    /\ p \in Seq(Message) /\ Len(p) = Len(q) /\ i \in 1..Len(q)
    /\ \A j \in 1..Len(p) : p[j] = IF j < i THEN q[j + 1] ELSE IF j = i THEN e ELSE q[j]

\* p is q with e in front.
Fronted(p, q, e) ==
    /\ p \in Seq(Message) /\ Len(p) = Len(q) + 1
    /\ \A j \in 1..Len(p) : p[j] = IF j = 1 THEN e ELSE q[j - 1]

\* What is left of the queue without its head.
LEMMA TailDrops ==
    ASSUME NEW q \in Seq(Message), q # <<>>
    PROVE  /\ Len(q) \in Nat \ {0} /\ Head(q) = q[1] /\ q[1] \in Message
           /\ Dropped(Tail(q), q)
<1>1. /\ Head(q) \in Message /\ Tail(q) \in Seq(Message) /\ Len(Tail(q)) = Len(q) - 1
      /\ \A i \in 1..Len(Tail(q)) : Tail(q)[i] = q[i + 1]
    BY HeadTailProperties
<1>2. Len(q) \in Nat \ {0} /\ Head(q) = q[1]
    BY EmptySeq
<1>3. QED
    BY <1>1, <1>2 DEF Dropped

\* The queue with one more message in front.
LEMMA ConsFronts ==
    ASSUME NEW q \in Seq(Message), NEW e \in Message
    PROVE  Fronted(Cons(e, q), q, e)
<1>1. /\ Cons(e, q) \in Seq(Message) /\ Len(Cons(e, q)) = Len(q) + 1
      /\ \A j \in 1..(Len(q) + 1) : Cons(e, q)[j] = IF j = 1 THEN e ELSE q[j - 1]
    BY ConsProperties
<1>2. QED
    BY <1>1 DEF Fronted

\* The head of the queue moved to another place.
LEMMA InsertPlaces ==
    ASSUME NEW q \in Seq(Message), q # <<>>, NEW i \in 1..Len(q), NEW e \in Message
    PROVE  Placed(InsertAt(Tail(q), i, e), q, i, e)
<1> DEFINE t == Tail(q)
           p == InsertAt(t, i, e)
<1>1. /\ Len(q) \in Nat \ {0} /\ t \in Seq(Message) /\ Len(t) = Len(q) - 1
      /\ \A j \in 1..Len(t) : t[j] = q[j + 1]
    BY TailDrops DEF Dropped
<1> HIDE DEF t
<1>2. i \in 1..(Len(t) + 1)
    BY <1>1
<1>3. p \in Seq(Message) /\ Len(p) = Len(t) + 1
    BY <1>1, <1>2, InsertAtProperties
<1>4. \A j \in 1..(Len(t) + 1) :
        InsertAt(t, i, e)[j] = IF j < i THEN t[j] ELSE IF j = i THEN e ELSE t[j - 1]
    BY <1>1, <1>2, InsertAtProperties
<1>5. \A j \in 1..(Len(t) + 1) :
        p[j] = IF j < i THEN t[j] ELSE IF j = i THEN e ELSE t[j - 1]
    BY <1>4
<1> HIDE DEF p
<1>6. ASSUME NEW j \in 1..Len(p)
      PROVE  p[j] = IF j < i THEN q[j + 1] ELSE IF j = i THEN e ELSE q[j]
    BY <1>1, <1>2, <1>3, <1>5
<1>7. QED
    BY <1>1, <1>3, <1>6 DEF Placed, p, t

\* The head of the queue changed where it is.
LEMMA ConsPlaces ==
    ASSUME NEW q \in Seq(Message), q # <<>>, NEW e \in Message
    PROVE  Placed(Cons(e, Tail(q)), q, 1, e)
<1> DEFINE t == Tail(q)
           p == Cons(e, t)
<1>1. /\ Len(q) \in Nat \ {0} /\ t \in Seq(Message) /\ Len(t) = Len(q) - 1
      /\ \A j \in 1..Len(t) : t[j] = q[j + 1]
    BY TailDrops DEF Dropped
<1> HIDE DEF t
<1>2. /\ p \in Seq(Message) /\ Len(p) = Len(t) + 1
      /\ \A j \in 1..Len(p) : p[j] = IF j = 1 THEN e ELSE t[j - 1]
    BY <1>1, ConsFronts DEF Fronted
<1> HIDE DEF p
<1>3. ASSUME NEW j \in 1..Len(p)
      PROVE  p[j] = IF j < 1 THEN q[j + 1] ELSE IF j = 1 THEN e ELSE q[j]
    BY <1>1, <1>2
<1>4. 1 \in 1..Len(q) /\ Len(p) = Len(q)
    BY <1>1, <1>2
<1>5. QED
    BY <1>2, <1>3, <1>4 DEF Placed, p, t

\* What the writer thread does with the head of the list.
Handled ==
    /\ phase # "down" /\ ~saving /\ Len(queue) \in Nat \ {0}
    /\ touched' = touched \cup {queue[1].id}
    /\ file' = file /\ phase' = phase /\ saving' = saving /\ rest' = rest
    /\ failbit' = failbit /\ howmanyerrs' = howmanyerrs /\ accepted' = accepted
    /\ restored' = restored /\ atSave' = atSave /\ crashes' = crashes

HandledDrop == Handled /\ sent' = sent /\ Dropped(queue', queue)

HandledPut(i, e) ==
    /\ Handled /\ Placed(queue', queue, i, e)
    /\ e \in Message /\ e.id = queue[1].id
    /\ \/ e.retries = queue[1].retries /\ sent' = sent
       \/ /\ e.retries = queue[1].retries + 1 /\ e.retries <= MaxRetries
          /\ sent' = [sent EXCEPT ![queue[1].id] = @ + 1]

\* What the writer does with a message is to drop it or to put it back.
LEMMA WriterSteps ==
    ASSUME TypeOK,
           (\E s \in States, t \in Times : SetState(s, t)) \/ Try \/ Delete
    PROVE  HandledDrop \/ \E i, e : HandledPut(i, e)
<1>1. queue \in Seq(Message)
    BY DEF TypeOK
<1>2. /\ queue # <<>> /\ phase # "down" /\ ~saving
      /\ touched' = touched \cup {Head(queue).id}
      /\ file' = file /\ phase' = phase /\ saving' = saving /\ rest' = rest
      /\ failbit' = failbit /\ howmanyerrs' = howmanyerrs /\ accepted' = accepted
      /\ restored' = restored /\ atSave' = atSave /\ crashes' = crashes
    BY DEF SetState, Try, Delete, WriterFree, Touch, stream
<1>3. /\ Len(queue) \in Nat \ {0} /\ Head(queue) = queue[1] /\ queue[1] \in Message
      /\ Dropped(Tail(queue), queue)
    BY <1>1, <1>2, TailDrops
<1>4. Handled
    BY <1>2, <1>3 DEF Handled
<1>5. ASSUME NEW s \in States, NEW t \in Times, SetState(s, t)
      PROVE  \E i, e : HandledPut(i, e)
    <2> DEFINE e == [queue[1] EXCEPT !.state = s, !.time = t]
    <2>1. PICK i \in 1..Len(queue) : queue' = InsertAt(Tail(queue), i, e)
        BY <1>3, <1>5 DEF SetState
    <2>2. e \in Message /\ e.id = queue[1].id /\ e.retries = queue[1].retries
        BY <1>3 DEF Message
    <2> HIDE DEF e
    <2>3. Placed(queue', queue, i, e)
        BY <1>1, <1>2, <2>1, <2>2, InsertPlaces
    <2>4. sent' = sent
        BY <1>5 DEF SetState
    <2>5. HandledPut(i, e)
        BY <1>4, <2>2, <2>3, <2>4 DEF HandledPut
    <2>6. QED
        BY <2>5, Zenon
<1>6. CASE Try
    <2>1. CASE RetriesExceeded(Head(queue))
        BY <1>3, <1>4, <1>6, <2>1 DEF Try, HandledDrop
    <2>2. CASE ~RetriesExceeded(Head(queue))
        <3> DEFINE e == [queue[1] EXCEPT !.retries = @ + 1]
        <3>1. queue' = Cons(e, Tail(queue)) /\ sent' = [sent EXCEPT ![queue[1].id] = @ + 1]
            BY <1>3, <1>6, <2>2 DEF Try
        <3>2. e \in Message /\ e.id = queue[1].id /\ e.retries = queue[1].retries + 1
            BY <1>3 DEF Message
        <3>3. queue[1].retries \in Nat
            BY <1>3 DEF Message
        <3>4. e.retries <= MaxRetries
            BY <1>3, <2>2, <3>2, <3>3, CountAssumption DEF RetriesExceeded
        <3> HIDE DEF e
        <3>5. Placed(queue', queue, 1, e)
            BY <1>1, <1>2, <3>1, <3>2, ConsPlaces
        <3>6. HandledPut(1, e)
            BY <1>4, <3>1, <3>2, <3>4, <3>5 DEF HandledPut
        <3>7. QED
            BY <3>6, Zenon
    <2>3. QED
        BY <2>1, <2>2
<1>7. CASE Delete
    BY <1>3, <1>4, <1>7 DEF Delete, HandledDrop
<1>8. QED
    BY <1>5, <1>6, <1>7

\* The elements of a queue are messages.
LEMMA MessagesAt ==
    ASSUME NEW q \in Seq(Message)
    PROVE  /\ Len(q) \in Nat
           /\ \A j \in 1..Len(q) : q[j] \in Message /\ q[j].id \in Msgs /\ q[j].retries \in Nat
<1>1. Len(q) \in Nat /\ \A j \in 1..Len(q) : q[j] \in Message
    BY LenProperties, ElementOfSeq
<1>2. \A m \in Message : m.id \in Msgs /\ m.retries \in Nat
    BY DEF Message
<1>3. QED
    BY <1>1, <1>2

\* The names of a queue whose messages are all of a set.
LEMMA IdsWithin ==
    ASSUME NEW p, NEW S, \A j \in 1..Len(p) : p[j].id \in S
    PROVE  Ids(p) \subseteq S
BY DEF Ids

\* The order is kept when o says where each of those not handled was before.
LEMMA OrderKept ==
    ASSUME OrderInv, phase # "down", restored' = restored, atSave' = atSave,
           touched \subseteq touched', NEW o,
           \A x \in restored \ touched' : \E i \in 1..Len(queue') : queue'[i].id = x,
           \A i \in 1..Len(queue') :
              queue'[i].id \in restored \ touched' =>
                o[i] \in 1..Len(queue) /\ queue'[i] = queue[o[i]],
           \A i, k \in 1..Len(queue') :
              queue'[i].id \in restored \ touched' /\ queue'[k].id \in restored \ touched' /\ i < k
                => o[i] < o[k]
    PROVE  OrderInv'
<1>1. \A x \in restored : \E j \in 1..Len(atSave) : atSave[j].id = x
    BY DEF OrderInv
<1>2. ASSUME NEW i \in 1..Len(queue'), NEW j \in 1..Len(atSave),
             queue'[i].id \in restored \ touched', queue'[i].id = atSave[j].id
      PROVE  Saved(queue'[i]) = Saved(atSave[j])
    <2>1. o[i] \in 1..Len(queue) /\ queue'[i] = queue[o[i]]
        BY <1>2
    <2>2. queue[o[i]].id \in restored \ touched /\ queue[o[i]].id = atSave[j].id
        BY <1>2, <2>1
    <2>3. \A k \in 1..Len(queue) :
             queue[k].id \in restored \ touched /\ queue[k].id = atSave[j].id
               => Saved(queue[k]) = Saved(atSave[j])
        BY <1>2 DEF OrderInv
    <2>4. PICK k \in 1..Len(queue) : k = o[i]
        BY <2>1
    <2>5. Saved(queue[k]) = Saved(atSave[j])
        BY <2>2, <2>3, <2>4
    <2>6. QED
        BY <2>1, <2>4, <2>5
<1>3. ASSUME NEW i \in 1..Len(queue'), NEW k \in 1..Len(queue'),
             NEW j \in 1..Len(atSave), NEW l \in 1..Len(atSave),
             queue'[i].id \in restored \ touched', queue'[k].id \in restored \ touched',
             queue'[i].id = atSave[j].id, queue'[k].id = atSave[l].id, i < k
      PROVE  j < l
    <2>1. o[i] \in 1..Len(queue) /\ queue'[i] = queue[o[i]]
        BY <1>3
    <2>2. o[k] \in 1..Len(queue) /\ queue'[k] = queue[o[k]]
        BY <1>3
    <2>3. queue[o[i]].id \in restored \ touched /\ queue[o[i]].id = atSave[j].id
        BY <1>3, <2>1
    <2>4. queue[o[k]].id \in restored \ touched /\ queue[o[k]].id = atSave[l].id
        BY <1>3, <2>2
    <2>5. o[i] < o[k]
        BY <1>3
    <2>6. QED
        BY <2>1, <2>2, <2>3, <2>4, <2>5 DEF OrderInv
<1>4. QED
    BY <1>1, <1>2, <1>3 DEF OrderInv

-----------------------------------------------------------------------------
(* The steps of the writer.                                                *)

\* The writer drops the head.
LEMMA DropKeeps ==
    ASSUME SaveInv, HandledDrop
    PROVE  SaveInv'
<1> USE DEF SaveInv
<1>1. /\ Handled /\ sent' = sent /\ queue' \in Seq(Message) /\ Len(queue') = Len(queue) - 1
      /\ Len(queue) \in Nat \ {0} /\ Len(queue') \in Nat
      /\ \A j \in 1..Len(queue') : queue'[j] = queue[j + 1] /\ j + 1 \in 1..Len(queue)
    BY DEF HandledDrop, Dropped, Handled
<1>2. \A j \in 1..Len(queue) : queue[j] \in Message /\ queue[j].id \in Msgs
    BY MessagesAt DEF TypeOK
<1>3. queue[1].id \in Msgs
    BY <1>1, <1>2
<1>4. \A j \in 1..Len(queue) : j # 1 => j - 1 \in 1..Len(queue') /\ queue'[j - 1] = queue[j]
    BY <1>1
<1>5. TypeOK'
    BY <1>1, <1>3 DEF TypeOK, Handled
<1>6. Ids(queue') \subseteq Ids(queue) /\ Ids(queue) \subseteq Ids(queue') \cup {queue[1].id}
    <2>1. \A j \in 1..Len(queue') : queue'[j].id \in Ids(queue)
        BY <1>1 DEF Ids
    <2>2. \A j \in 1..Len(queue) : j # 1 => queue[j].id \in Ids(queue')
        BY <1>4 DEF Ids
    <2>3. \A j \in 1..Len(queue) : queue[j].id \in Ids(queue') \cup {queue[1].id}
        BY <2>2
    <2>4. QED
        BY <2>1, <2>3, IdsWithin
<1>7. DistinctIds(queue')
    BY <1>1 DEF IdInv, DistinctIds
<1>8. IdInv'
    BY <1>1, <1>6, <1>7 DEF IdInv, Handled
<1>9. FileInv'
    BY <1>1 DEF FileInv, Handled
<1>10. LoadInv'
    BY <1>1, <1>6 DEF LoadInv, Handled, Loading, ReadSoFar
<1>11. OrderInv'
    <2> DEFINE o == [j \in 1..Len(queue') |-> j + 1]
    <2>1. \A x \in restored \ touched' : \E i \in 1..Len(queue') : queue'[i].id = x
        <3>1. SUFFICES ASSUME NEW x \in restored \ touched'
                       PROVE  \E i \in 1..Len(queue') : queue'[i].id = x
            OBVIOUS
        <3>2. x # queue[1].id /\ x \in restored \ touched
            BY <1>1 DEF Handled
        <3>3. PICK i \in 1..Len(queue) : queue[i].id = x
            BY <1>1, <3>2 DEF OrderInv, Handled
        <3>4. QED
            BY <1>4, <3>2, <3>3
    <2>2. \A i \in 1..Len(queue') : o[i] \in 1..Len(queue) /\ queue'[i] = queue[o[i]]
        BY <1>1
    <2>3. \A i, k \in 1..Len(queue') : i < k => o[i] < o[k]
        BY <1>1
    <2>4. phase # "down" /\ restored' = restored /\ atSave' = atSave /\ touched \subseteq touched'
        BY <1>1 DEF Handled
    <2> HIDE DEF o
    <2>5. QED
        BY <2>1, <2>2, <2>3, <2>4, OrderKept
<1>12. SentInv'
    BY <1>1 DEF SentInv, Handled, Loading
<1>13. QED
    BY <1>5, <1>8, <1>9, <1>10, <1>11, <1>12

\* The writer puts the head back, at its new place.
LEMMA PutKeeps ==
    ASSUME SaveInv, NEW i, NEW e, HandledPut(i, e)
    PROVE  SaveInv'
<1> USE DEF SaveInv
<1> DEFINE o == [j \in 1..Len(queue') |-> IF j < i THEN j + 1 ELSE IF j = i THEN 1 ELSE j]
<1>1. /\ Handled /\ queue' \in Seq(Message) /\ Len(queue') = Len(queue)
      /\ Len(queue) \in Nat \ {0} /\ i \in 1..Len(queue)
      /\ \A j \in 1..Len(queue') :
           queue'[j] = IF j < i THEN queue[j + 1] ELSE IF j = i THEN e ELSE queue[j]
    BY DEF HandledPut, Placed, Handled
<1>2. \A j \in 1..Len(queue) : queue[j] \in Message /\ queue[j].id \in Msgs /\ queue[j].retries \in Nat
    BY MessagesAt DEF TypeOK
<1>3. queue[1].id \in Msgs /\ e \in Message /\ e.id = queue[1].id /\ e.retries \in Nat
    BY <1>1, <1>2 DEF HandledPut, Message
<1>4. \A j \in 1..Len(queue') :
        /\ o[j] \in 1..Len(queue) /\ queue'[j].id = queue[o[j]].id
        /\ j # i => queue'[j] = queue[o[j]] /\ o[j] # 1
    BY <1>1, <1>3
<1>5. \A j, k \in 1..Len(queue') : /\ o[j] = o[k] => j = k
                                   /\ j # i /\ k # i /\ j < k => o[j] < o[k]
    BY <1>1
<1>6. \A j \in 1..Len(queue) : \E k \in 1..Len(queue') : queue'[k].id = queue[j].id
    <2>1. SUFFICES ASSUME NEW j \in 1..Len(queue)
                   PROVE  \E k \in 1..Len(queue') : queue'[k].id = queue[j].id
        OBVIOUS
    <2>2. CASE j = 1
        BY <1>1, <1>3, <2>2
    <2>3. CASE j # 1 /\ j <= i
        <3>1. j - 1 \in 1..Len(queue') /\ j - 1 < i /\ (j - 1) + 1 = j
            BY <1>1, <2>3
        <3>2. queue'[j - 1] = queue[j]
            BY <1>1, <3>1
        <3>3. QED
            BY <3>1, <3>2
    <2>4. CASE j > i
        BY <1>1, <2>4
    <2>5. QED
        BY <1>1, <2>2, <2>3, <2>4
<1>7. sent' \in [Msgs -> Nat]
    <2>1. sent \in [Msgs -> Nat]
        BY DEF TypeOK
    <2>2. CASE sent' = sent
        BY <2>1, <2>2
    <2>3. CASE sent' = [sent EXCEPT ![queue[1].id] = @ + 1]
        BY <1>3, <2>1, <2>3
    <2>4. QED
        BY <2>2, <2>3 DEF HandledPut
<1>8. queue'[i] = e /\ \A j \in 1..Len(queue') : queue'[j].id = queue[1].id => j = i
    <2>1. queue'[i] = e
        BY <1>1
    <2>2. ASSUME NEW j \in 1..Len(queue'), queue'[j].id = queue[1].id
          PROVE  j = i
        <3>1. o[j] \in 1..Len(queue) /\ queue[o[j]].id = queue[1].id /\ 1 \in 1..Len(queue)
            BY <1>1, <1>4, <2>2
        <3>2. o[j] = 1
            BY <3>1 DEF IdInv, DistinctIds
        <3>3. QED
            BY <1>4, <3>2
    <2>3. QED
        BY <2>1, <2>2
<1> HIDE DEF o
<1>9. TypeOK'
    BY <1>1, <1>3, <1>7 DEF TypeOK, Handled
<1>10. Ids(queue') \subseteq Ids(queue) /\ Ids(queue) \subseteq Ids(queue')
    <2>1. \A j \in 1..Len(queue') : queue'[j].id \in Ids(queue)
        BY <1>4 DEF Ids
    <2>2. \A j \in 1..Len(queue) : queue[j].id \in Ids(queue')
        BY <1>6 DEF Ids
    <2>3. QED
        BY <2>1, <2>2, IdsWithin
<1>11. DistinctIds(queue')
    <2>1. SUFFICES ASSUME NEW j \in 1..Len(queue'), NEW k \in 1..Len(queue'),
                          queue'[j].id = queue'[k].id
                   PROVE  j = k
        BY DEF DistinctIds
    <2>2. /\ o[j] \in 1..Len(queue) /\ o[k] \in 1..Len(queue)
          /\ queue[o[j]].id = queue[o[k]].id
        BY <1>4, <2>1
    <2>3. o[j] = o[k]
        BY <2>2 DEF IdInv, DistinctIds
    <2>4. QED
        BY <1>5, <2>3
<1>12. IdInv'
    BY <1>1, <1>10, <1>11 DEF IdInv, Handled
<1>13. FileInv'
    BY <1>1 DEF FileInv, Handled
<1>14. LoadInv'
    BY <1>1, <1>10 DEF LoadInv, Handled, Loading, ReadSoFar
<1>15. OrderInv'
    <2>1. phase # "down" /\ restored' = restored /\ atSave' = atSave /\ touched \subseteq touched'
          /\ touched' = touched \cup {queue[1].id}
        BY <1>1 DEF Handled
    <2>2. \A x \in restored \ touched' : \E j \in 1..Len(queue') : queue'[j].id = x
        <3>1. SUFFICES ASSUME NEW x \in restored \ touched'
                       PROVE  \E j \in 1..Len(queue') : queue'[j].id = x
            OBVIOUS
        <3>2. PICK j \in 1..Len(queue) : queue[j].id = x
            BY <2>1 DEF OrderInv
        <3>3. QED
            BY <1>6, <3>2
    <2>3. \A j \in 1..Len(queue') : queue'[j].id \in restored \ touched' => j # i
        BY <1>3, <1>8, <2>1
    <2>4. \A j \in 1..Len(queue') :
             queue'[j].id \in restored \ touched' =>
               o[j] \in 1..Len(queue) /\ queue'[j] = queue[o[j]]
        BY <1>4, <2>3
    <2>5. \A j, k \in 1..Len(queue') :
             queue'[j].id \in restored \ touched' /\ queue'[k].id \in restored \ touched' /\ j < k
               => o[j] < o[k]
        BY <1>5, <2>3
    <2>6. QED
        BY <2>1, <2>2, <2>4, <2>5, OrderKept
<1>16. SentInv'
    <2> DEFINE B == MaxRetries * crashes
               h == queue[1].id
    <2>1. B \in Nat /\ MaxRetries \in Nat
        BY CountAssumption DEF TypeOK
    <2>2. \A m \in Msgs : sent[m] \in Nat
        BY DEF TypeOK
    <2>3. /\ \A m \in Msgs : m # h => sent'[m] = sent[m]
          /\ e.retries <= MaxRetries /\ sent'[h] <= B + e.retries
        <3>1. queue[1].retries <= MaxRetries /\ sent[h] <= B + queue[1].retries /\ 1 \in 1..Len(queue)
            BY <1>1 DEF SentInv
        <3>2. CASE e.retries = queue[1].retries /\ sent' = sent
            BY <3>1, <3>2
        <3>3. CASE /\ e.retries = queue[1].retries + 1 /\ e.retries <= MaxRetries
                   /\ sent' = [sent EXCEPT ![queue[1].id] = @ + 1]
            <4>1. sent'[h] = sent[h] + 1 /\ \A m \in Msgs : m # h => sent'[m] = sent[m]
                BY <1>3, <3>3 DEF TypeOK
            <4>2. sent[h] \in Nat /\ queue[1].retries \in Nat
                BY <1>2, <1>3, <2>2, <3>1
            <4> HIDE DEF B
            <4>3. QED
                BY <2>1, <3>1, <3>3, <4>1, <4>2
        <3>4. QED
            BY <3>2, <3>3 DEF HandledPut
    <2>4. crashes' = crashes /\ phase' = phase /\ failbit' = failbit /\ restored' = restored
          /\ accepted' = accepted /\ phase # "down"
        BY <1>1 DEF Handled
    <2>5. \A j \in 1..Len(queue') : /\ queue'[j].retries <= MaxRetries
                                    /\ sent'[queue'[j].id] <= B + queue'[j].retries
        <3>1. SUFFICES ASSUME NEW j \in 1..Len(queue')
                       PROVE  /\ queue'[j].retries <= MaxRetries
                              /\ sent'[queue'[j].id] <= B + queue'[j].retries
            OBVIOUS
        <3>2. CASE j = i
            BY <1>3, <1>8, <2>3, <3>2
        <3>3. CASE j # i
            <4>1. o[j] \in 1..Len(queue) /\ queue'[j] = queue[o[j]] /\ queue'[j].id # h
                BY <1>4, <1>8, <3>3
            <4>2. /\ queue[o[j]].retries <= MaxRetries /\ queue[o[j]].id \in Msgs
                  /\ sent[queue[o[j]].id] <= B + queue[o[j]].retries
                BY <1>2, <4>1 DEF SentInv
            <4>3. QED
                BY <2>3, <4>1, <4>2
        <3>4. QED
            BY <3>2, <3>3
    <2>6. \A m \in Msgs : sent'[m] <= B + MaxRetries
        <3> HIDE DEF B
        <3>1. sent'[h] \in Nat /\ sent'[h] <= B + MaxRetries
            BY <1>3, <1>7, <2>1, <2>3
        <3>2. ASSUME NEW m \in Msgs, m # h
              PROVE  sent'[m] <= B + MaxRetries
            BY <2>3, <3>2 DEF SentInv, B
        <3>3. QED
            BY <3>1, <3>2
    <2>7. h \in accepted /\ (Loading => h \in restored)
        <3>1. h \in Ids(queue)
            BY <1>1 DEF Ids
        <3>2. QED
            BY <3>1 DEF IdInv, LoadInv
    <2>8. /\ Loading => \A m \in Msgs \ restored : sent'[m] <= B
          /\ \A m \in Msgs \ accepted : sent'[m] = 0
        BY <2>3, <2>7 DEF SentInv
    <2>9. QED
        BY <2>4, <2>5, <2>6, <2>8 DEF SentInv, Loading
<1>17. QED
    BY <1>9, <1>12, <1>13, <1>14, <1>15, <1>16

-----------------------------------------------------------------------------
(* Arrivals, saves and crashes.                                            *)

\* A message put in front of the list adds its id.
LEMMA FrontIds ==
    ASSUME NEW q \in Seq(Message), NEW p, NEW e \in Message, Fronted(p, q, e)
    PROVE  /\ Len(p) = Len(q) + 1 /\ Len(q) \in Nat /\ 1 \in 1..Len(p) /\ p[1] = e
           /\ \A j \in 1..Len(p) : j # 1 => j - 1 \in 1..Len(q) /\ p[j] = q[j - 1]
           /\ \A j \in 1..Len(q) : j + 1 \in 1..Len(p) /\ p[j + 1] = q[j]
           /\ Ids(p) \subseteq Ids(q) \cup {e.id} /\ Ids(q) \cup {e.id} \subseteq Ids(p)
           /\ DistinctIds(q) /\ e.id \notin Ids(q) => DistinctIds(p)
<1>1. /\ Len(p) = Len(q) + 1 /\ Len(q) \in Nat
      /\ \A j \in 1..Len(p) : p[j] = IF j = 1 THEN e ELSE q[j - 1]
    BY LenProperties DEF Fronted
<1>2. /\ 1 \in 1..Len(p) /\ p[1] = e
      /\ \A j \in 1..Len(p) : j # 1 => j - 1 \in 1..Len(q) /\ p[j] = q[j - 1]
    BY <1>1
<1>3. \A j \in 1..Len(q) : j + 1 \in 1..Len(p) /\ p[j + 1] = q[j]
    <2>1. SUFFICES ASSUME NEW j \in 1..Len(q)
                   PROVE  j + 1 \in 1..Len(p) /\ p[j + 1] = q[j]
        OBVIOUS
    <2>2. j + 1 \in 1..Len(p) /\ j + 1 # 1 /\ (j + 1) - 1 = j
        BY <1>1
    <2>3. QED
        BY <1>2, <2>2
<1>4. Ids(p) \subseteq Ids(q) \cup {e.id}
    <2>1. \A j \in 1..Len(p) : j # 1 => p[j].id \in Ids(q)
        BY <1>2 DEF Ids
    <2>2. \A j \in 1..Len(p) : p[j].id \in Ids(q) \cup {e.id}
        BY <1>2, <2>1
    <2>3. QED
        BY <2>2, IdsWithin
<1>5. Ids(q) \cup {e.id} \subseteq Ids(p)
    <2>1. \A j \in 1..Len(q) : q[j].id \in Ids(p)
        BY <1>3 DEF Ids
    <2>2. e.id \in Ids(p)
        BY <1>2 DEF Ids
    <2>3. QED
        BY <2>1, <2>2, IdsWithin
<1>6. ASSUME DistinctIds(q), e.id \notin Ids(q)
      PROVE  DistinctIds(p)
    <2>1. \A j \in 1..Len(p) : j # 1 => p[j].id # e.id
        BY <1>2, <1>6 DEF Ids
    <2>2. SUFFICES ASSUME NEW j \in 1..Len(p), NEW k \in 1..Len(p), p[j].id = p[k].id
                   PROVE  j = k
        BY DEF DistinctIds
    <2>3. CASE j = 1 \/ k = 1
        BY <1>2, <2>1, <2>2, <2>3
    <2>4. CASE j # 1 /\ k # 1
        <3>1. j - 1 \in 1..Len(q) /\ k - 1 \in 1..Len(q) /\ q[j - 1].id = q[k - 1].id
            BY <1>2, <2>2, <2>4
        <3>2. j - 1 = k - 1
            BY <1>6, <3>1 DEF DistinctIds
        <3>3. QED
            BY <1>1, <3>2
    <2>5. QED
        BY <2>3, <2>4
<1>7. QED
    BY <1>1, <1>2, <1>3, <1>4, <1>5, <1>6

\* The reader accepts a message.
LEMMA AcceptKeeps ==
    ASSUME SaveInv, NEW m \in Arrivals, Accept(m)
    PROVE  SaveInv'
<1> USE DEF SaveInv
<1>1. m \in Message /\ m.retries = 0 /\ m.id \in Msgs
    BY DEF Arrivals, Message
<1>2. /\ phase = "running" /\ m.id \notin accepted
      /\ accepted' = accepted \cup {m.id} /\ file' = file /\ phase' = phase /\ saving' = saving
      /\ rest' = rest /\ failbit' = failbit /\ howmanyerrs' = howmanyerrs
      /\ restored' = restored /\ touched' = touched /\ atSave' = atSave
      /\ crashes' = crashes /\ sent' = sent
    BY DEF Accept, stream, history
<1>3. queue \in Seq(Message)
    BY DEF TypeOK
<1>4. Fronted(queue', queue, m)
    BY <1>1, <1>3, ConsFronts DEF Accept
<1>5. /\ Len(queue') = Len(queue) + 1 /\ Len(queue) \in Nat /\ 1 \in 1..Len(queue') /\ queue'[1] = m
      /\ \A j \in 1..Len(queue') : j # 1 => j - 1 \in 1..Len(queue) /\ queue'[j] = queue[j - 1]
      /\ \A j \in 1..Len(queue) : j + 1 \in 1..Len(queue') /\ queue'[j + 1] = queue[j]
      /\ Ids(queue') \subseteq Ids(queue) \cup {m.id} /\ Ids(queue) \cup {m.id} \subseteq Ids(queue')
      /\ DistinctIds(queue) /\ m.id \notin Ids(queue) => DistinctIds(queue')
    BY <1>1, <1>3, <1>4, FrontIds
<1>6. m.id \notin Ids(queue) /\ m.id \notin restored
    BY <1>2 DEF IdInv
<1>7. queue' \in Seq(Message)
    BY <1>4 DEF Fronted
<1>8. TypeOK'
    BY <1>1, <1>2, <1>7 DEF TypeOK
<1>9. IdInv'
    BY <1>2, <1>5, <1>6 DEF IdInv
<1>10. FileInv'
    BY <1>2 DEF FileInv
<1>11. LoadInv'
    BY <1>2 DEF LoadInv, Loading
<1>12. OrderInv'
    <2> DEFINE o == [j \in 1..Len(queue') |-> j - 1]
    <2>1. \A x \in restored \ touched' : \E i \in 1..Len(queue') : queue'[i].id = x
        <3>1. SUFFICES ASSUME NEW x \in restored \ touched'
                       PROVE  \E i \in 1..Len(queue') : queue'[i].id = x
            OBVIOUS
        <3>2. PICK i \in 1..Len(queue) : queue[i].id = x
            BY <1>2 DEF OrderInv
        <3>3. QED
            BY <1>5, <3>2
    <2>2. \A i \in 1..Len(queue') : queue'[i].id \in restored \ touched' => i # 1
        BY <1>5, <1>6
    <2>3. \A i \in 1..Len(queue') :
             queue'[i].id \in restored \ touched' => o[i] \in 1..Len(queue) /\ queue'[i] = queue[o[i]]
        BY <1>5, <2>2
    <2>4. \A i, k \in 1..Len(queue') :
             queue'[i].id \in restored \ touched' /\ queue'[k].id \in restored \ touched' /\ i < k
               => o[i] < o[k]
        BY <1>5
    <2>5. phase # "down" /\ restored' = restored /\ atSave' = atSave /\ touched \subseteq touched'
        BY <1>2
    <2> HIDE DEF o
    <2>6. QED
        BY <2>1, <2>3, <2>4, <2>5, OrderKept
<1>13. SentInv'
    <2> DEFINE B == MaxRetries * crashes
    <2>1. B \in Nat /\ MaxRetries \in Nat
        BY CountAssumption DEF TypeOK
    <2>2. sent[m.id] = 0
        BY <1>1, <1>2 DEF SentInv
    <2>3. m.retries <= MaxRetries /\ sent[m.id] <= B + m.retries
        BY <1>1, <2>1, <2>2
    <2>4. \A j \in 1..Len(queue') : /\ queue'[j].retries <= MaxRetries
                                    /\ sent[queue'[j].id] <= B + queue'[j].retries
        BY <1>5, <2>3 DEF SentInv
    <2>5. QED
        BY <1>2, <2>4 DEF SentInv, Loading
<1>14. QED
    BY <1>8, <1>9, <1>10, <1>11, <1>12, <1>13

\* The file is emptied; nothing is left of what this process has read from it.
LEMMA SaveOpenKeeps ==
    ASSUME SaveInv, SaveOpen
    PROVE  SaveInv'
<1> USE DEF SaveInv
<1>1. /\ phase # "down" /\ (phase = "running" \/ failbit)
      /\ saving' = TRUE /\ file' = <<>> /\ restored' = {} /\ touched' = {}
      /\ queue' = queue /\ phase' = phase /\ rest' = rest /\ failbit' = failbit
      /\ howmanyerrs' = howmanyerrs /\ accepted' = accepted /\ atSave' = atSave
      /\ crashes' = crashes /\ sent' = sent
    BY DEF SaveOpen, WriterFree, stream
<1>2. ~Loading' /\ Len(file') = 0 /\ file' \in Seq(Record) /\ Len(atSave) \in Nat
    BY <1>1, LenProperties DEF Loading, TypeOK
<1>3. TypeOK'
    BY <1>1, <1>2 DEF TypeOK
<1>4. IdInv'
    BY <1>1 DEF IdInv
<1>5. FileInv'
    BY <1>1, <1>2 DEF FileInv
<1>6. LoadInv'
    BY <1>2 DEF LoadInv
<1>7. OrderInv'
    BY <1>1 DEF OrderInv
<1>8. SentInv'
    BY <1>1, <1>2 DEF SentInv
<1>9. QED
    BY <1>3, <1>4, <1>5, <1>6, <1>7, <1>8

\* The save is complete: the file is the queue of that moment.
LEMMA SaveWriteKeeps ==
    ASSUME SaveInv, SaveWrite
    PROVE  SaveInv'
<1> USE DEF SaveInv
<1>1. /\ phase # "down" /\ saving
      /\ saving' = FALSE /\ file' = SaveOrder(queue) /\ atSave' = queue
      /\ queue' = queue /\ phase' = phase /\ rest' = rest /\ failbit' = failbit
      /\ howmanyerrs' = howmanyerrs /\ accepted' = accepted /\ restored' = restored
      /\ touched' = touched /\ crashes' = crashes /\ sent' = sent
    BY DEF SaveWrite, stream
<1>2. /\ file' \in Seq(Record) /\ Len(file') = Len(queue)
      /\ \A k \in 1..Len(queue) : file'[k] = Saved(queue[Len(queue) + 1 - k])
    BY <1>1, SaveOrderIs DEF TypeOK
<1>3. ~Loading' /\ restored = {} /\ Len(queue) \in Nat
    BY <1>1, LenProperties DEF LoadInv, Loading, IdInv, TypeOK
<1>4. TypeOK'
    BY <1>1, <1>2 DEF TypeOK
<1>5. IdInv'
    BY <1>1 DEF IdInv
<1>6. FileInv'
    BY <1>1, <1>2, <1>3 DEF FileInv
<1>7. LoadInv'
    BY <1>3 DEF LoadInv
<1>8. OrderInv'
    BY <1>1, <1>3 DEF OrderInv
<1>9. SentInv'
    BY <1>1, <1>3 DEF SentInv
<1>10. QED
    BY <1>4, <1>5, <1>6, <1>7, <1>8, <1>9

\* A save that is cut short leaves a part of the file; a new life begins with
\* as many tries as every message may have had.
LEMMA CrashKeeps ==
    ASSUME SaveInv, Crash
    PROVE  SaveInv'
<1> USE DEF SaveInv
<1>1. /\ crashes < MaxCrashes /\ crashes' = crashes + 1 /\ phase' = "down" /\ saving' = FALSE
      /\ queue' = <<>> /\ rest' = rest /\ failbit' = failbit
      /\ howmanyerrs' = howmanyerrs /\ accepted' = accepted /\ restored' = restored
      /\ touched' = touched /\ sent' = sent
    BY DEF Crash, stream
<1>2. ~Loading' /\ Len(queue') = 0 /\ queue' \in Seq(Message) /\ Len(queue) \in Nat
    BY <1>1, LenProperties DEF Loading, TypeOK
<1>3. /\ file' \in Seq(Record) /\ atSave' \in Seq(Message) /\ DistinctIds(atSave')
      /\ Ids(atSave') \subseteq accepted
      /\ Len(file') <= Len(atSave')
      /\ \A k \in 1..Len(file') : file'[k] = Saved(atSave'[Len(atSave') + 1 - k])
    <2>1. CASE ~saving
        <3>1. file' = file /\ atSave' = atSave
            BY <2>1 DEF Crash
        <3>2. QED
            BY <3>1 DEF TypeOK, IdInv, FileInv
    <2>2. CASE saving
        <3>1. PICK n \in 0..Len(queue) : file' = SubSeq(SaveOrder(queue), 1, n)
            BY <2>2 DEF Crash
        <3>2. atSave' = queue
            BY <2>2 DEF Crash
        <3>3. /\ SaveOrder(queue) \in Seq(Record) /\ Len(SaveOrder(queue)) = Len(queue)
              /\ \A k \in 1..Len(queue) : SaveOrder(queue)[k] = Saved(queue[Len(queue) + 1 - k])
            BY SaveOrderIs DEF TypeOK
        <3>4. /\ file' \in Seq(Record) /\ Len(file') = n
              /\ \A k \in 1..n : file'[k] = SaveOrder(queue)[k]
            BY <1>2, <3>1, <3>3
        <3>5. \A k \in 1..n : k \in 1..Len(queue)
            BY <1>2
        <3>6. /\ Len(file') <= Len(atSave')
              /\ \A k \in 1..Len(file') : file'[k] = Saved(atSave'[Len(atSave') + 1 - k])
            BY <1>2, <3>2, <3>3, <3>4, <3>5
        <3>7. queue \in Seq(Message) /\ DistinctIds(queue) /\ Ids(queue) \subseteq accepted
            BY DEF TypeOK, IdInv
        <3>8. QED
            BY <3>2, <3>4, <3>6, <3>7
    <2>3. QED
        BY <2>1, <2>2
<1>4. TypeOK'
    <2>1. crashes \in 0..MaxCrashes /\ MaxCrashes \in Nat
        BY CountAssumption DEF TypeOK
    <2>2. crashes' \in 0..MaxCrashes
        BY <1>1, <2>1
    <2>3. QED
        BY <1>1, <1>2, <1>3, <2>2 DEF TypeOK
<1>5. IdInv'
    <2>1. DistinctIds(queue')
        BY <1>2 DEF DistinctIds
    <2>2. Ids(queue') \subseteq accepted
        BY <1>2, IdsWithin
    <2>3. QED
        BY <1>1, <1>3, <2>1, <2>2 DEF IdInv
<1>6. FileInv'
    BY <1>3 DEF FileInv
<1>7. LoadInv'
    BY <1>2 DEF LoadInv
<1>8. OrderInv'
    BY <1>1 DEF OrderInv
<1>9. SentInv'
    <2>1. MaxRetries * crashes' = MaxRetries * crashes + MaxRetries
        BY <1>1, CountAssumption DEF TypeOK
    <2>2. MaxRetries * crashes' \in Nat /\ MaxRetries \in Nat
        <3>1. MaxRetries * crashes \in Nat /\ MaxRetries \in Nat
            BY CountAssumption DEF TypeOK
        <3>2. QED
            BY <2>1, <3>1
    <2>3. \A m \in Msgs : sent[m] \in Nat /\ sent[m] <= MaxRetries * crashes'
        BY <2>1 DEF SentInv, TypeOK
    <2>4. \A m \in Msgs : sent[m] <= MaxRetries * crashes' + MaxRetries
        BY <2>2, <2>3
    <2>5. \A m \in Msgs \ accepted : sent[m] = 0
        BY DEF SentInv
    <2>6. QED
        BY <1>1, <1>2, <2>3, <2>4, <2>5 DEF SentInv
<1>10. QED
    BY <1>4, <1>5, <1>6, <1>7, <1>8, <1>9

-----------------------------------------------------------------------------
(* Reading the file.                                                       *)

\* The process starts and opens the file.
LEMMA StartKeeps ==
    ASSUME SaveInv, Start
    PROVE  SaveInv'
<1> USE DEF SaveInv
<1>1. /\ phase = "down" /\ phase' = "loading" /\ rest' = file /\ failbit' = FALSE
      /\ howmanyerrs' = 0 /\ restored' = {} /\ touched' = {}
      /\ queue' = queue /\ file' = file /\ saving' = saving /\ accepted' = accepted
      /\ atSave' = atSave /\ crashes' = crashes /\ sent' = sent
    BY DEF Start
<1>2. queue = <<>> /\ ~saving
    BY <1>1 DEF IdInv
<1>3. Len(file) \in Nat /\ ReadSoFar' = 0
    <2>1. Len(file) \in Nat
        BY LenProperties DEF TypeOK
    <2>2. QED
        BY <1>1, <2>1 DEF ReadSoFar
<1>4. TypeOK'
    BY <1>1 DEF TypeOK
<1>5. IdInv'
    BY <1>1, <1>2 DEF IdInv
<1>6. FileInv'
    BY <1>1 DEF FileInv
<1>7. LoadInv'
    <2>1. Ids(queue') \subseteq {}
        BY <1>1, <1>2, IdsWithin
    <2>2. Len(rest') <= Len(file')
        BY <1>1, <1>3
    <2>3. \A k \in 1..Len(rest') : rest'[k] = file'[k + ReadSoFar']
        BY <1>1, <1>3
    <2>4. QED
        BY <1>1, <1>2, <1>3, <2>1, <2>2, <2>3 DEF LoadInv
<1>8. OrderInv'
    BY <1>1 DEF OrderInv
<1>9. SentInv'
    BY <1>1 DEF SentInv
<1>10. QED
    BY <1>4, <1>5, <1>6, <1>7, <1>8, <1>9

\* r is the next record, that of place j in the list that was saved: before
\* all that has been read.
NextRecord(r, j) ==
    /\ Loading /\ ~saving /\ r \in Record /\ r = Head(rest)
    /\ ReadSoFar \in Nat /\ ReadSoFar + 1 \in 1..Len(file) /\ file[ReadSoFar + 1] = r
    /\ j \in 1..Len(atSave) /\ Saved(atSave[j]) = r /\ r.id = atSave[j].id
    /\ r.id \in Msgs /\ r.id \in accepted /\ r.id \notin restored /\ r.id \notin Ids(queue)
    /\ \A x \in restored, k \in 1..Len(atSave) : atSave[k].id = x => j < k

\* The next record of the file is that of the next message of the last save.
LEMMA NextRecordIs ==
    ASSUME SaveInv, Reading
    PROVE  NextRecord(Head(rest), Len(atSave) - ReadSoFar)
<1> USE DEF SaveInv
<1> DEFINE r == Head(rest)
           p == ReadSoFar
           j == Len(atSave) - p
<1>1. Loading /\ rest # <<>> /\ ~saving
    BY DEF Reading, Loading, LoadInv
<1>2. /\ rest \in Seq(Record) /\ file \in Seq(Record) /\ atSave \in Seq(Message)
      /\ Len(file) \in Nat /\ Len(atSave) \in Nat
    BY LenProperties DEF TypeOK
<1>3. Len(rest) \in Nat \ {0} /\ r = rest[1] /\ r \in Record
    BY <1>1, <1>2, EmptySeq, HeadTailProperties
<1>4. p \in Nat /\ p = Len(file) - Len(rest) /\ p + 1 \in 1..Len(file) /\ 1 + p = p + 1
    BY <1>1, <1>2, <1>3 DEF ReadSoFar, LoadInv
<1>5. \A k \in 1..Len(rest) : rest[k] = file[k + p]
    BY <1>1 DEF LoadInv
<1> HIDE DEF p
<1>6. file[p + 1] = r
    BY <1>3, <1>4, <1>5
<1>7. j \in 1..Len(atSave) /\ Len(atSave) + 1 - (p + 1) = j
    BY <1>2, <1>4 DEF FileInv
<1>8. Saved(atSave[j]) = r
    BY <1>4, <1>6, <1>7 DEF FileInv
<1>9. atSave[j] \in Message /\ r.id = atSave[j].id /\ r.id \in Msgs
    <2>1. atSave[j] \in Message /\ atSave[j].id \in Msgs
        BY <1>2, <1>7, MessagesAt
    <2>2. QED
        BY <1>8, <2>1, SavedType
<1>10. r.id \in accepted
    <2>1. atSave[j].id \in Ids(atSave)
        BY <1>7 DEF Ids
    <2>2. QED
        BY <1>9, <2>1 DEF IdInv
<1>11. ASSUME NEW x \in restored, NEW k \in 1..Len(atSave), atSave[k].id = x
       PROVE  j < k
    <2>1. PICK i \in 1..p : file[i].id = x
        BY <1>1, <1>11 DEF LoadInv, p
    <2>2. i \in 1..Len(file)
        BY <1>2, <1>4
    <2>3. file[i] = Saved(atSave[Len(atSave) + 1 - i])
        BY <2>2 DEF FileInv
    <2>4. Len(atSave) + 1 - i \in 1..Len(atSave)
        BY <1>2, <2>2 DEF FileInv
    <2>5. atSave[Len(atSave) + 1 - i] \in Message
        BY <1>2, <2>4, MessagesAt
    <2>6. atSave[Len(atSave) + 1 - i].id = x
        BY <2>1, <2>3, <2>5, SavedType
    <2>7. k = Len(atSave) + 1 - i
        BY <1>11, <2>4, <2>6 DEF IdInv, DistinctIds
    <2>8. QED
        BY <1>2, <1>4, <2>7
<1>12. r.id \notin restored
    BY <1>2, <1>4, <1>7, <1>9, <1>11
<1>13. r.id \notin Ids(queue)
    BY <1>1, <1>12 DEF LoadInv
<1>14. p = ReadSoFar
    BY DEF p
<1> HIDE DEF r, j
<1>15. NextRecord(r, j)
    BY <1>1, <1>3, <1>4, <1>6, <1>7, <1>8, <1>9, <1>10, <1>11, <1>12, <1>13, <1>14 DEF NextRecord, r
<1>16. QED
    BY <1>14, <1>15 DEF r, j

\* One record on.
LEMMA OneRecordOn ==
    ASSUME TypeOK, LoadInv, Reading, rest' = Tail(rest), file' = file
    PROVE  /\ rest' \in Seq(Record) /\ ReadSoFar \in Nat /\ ReadSoFar' = ReadSoFar + 1
           /\ Len(rest') <= Len(file')
           /\ \A k \in 1..Len(rest') : rest'[k] = file'[k + ReadSoFar']
           /\ \A k \in 1..ReadSoFar' : k \in 1..ReadSoFar \/ k = ReadSoFar + 1
<1>1. Loading /\ rest # <<>>
    BY DEF Reading, Loading
<1>2. rest \in Seq(Record) /\ file \in Seq(Record) /\ Len(file) \in Nat /\ Len(rest) \in Nat
    BY LenProperties DEF TypeOK
<1>3. /\ Tail(rest) \in Seq(Record) /\ Len(Tail(rest)) = Len(rest) - 1
      /\ \A k \in 1..Len(Tail(rest)) : Tail(rest)[k] = rest[k + 1]
    BY <1>1, <1>2, HeadTailProperties
<1>4. /\ Len(rest) <= Len(file)
      /\ \A k \in 1..Len(rest) : rest[k] = file[k + ReadSoFar]
    BY <1>1 DEF LoadInv
<1>5. ReadSoFar \in Nat /\ ReadSoFar' = ReadSoFar + 1
    BY <1>2, <1>3, <1>4 DEF ReadSoFar
<1>6. Len(rest') <= Len(file')
    BY <1>2, <1>3, <1>4
<1>7. ASSUME NEW k \in 1..Len(rest')
      PROVE  rest'[k] = file'[k + ReadSoFar']
    <2>1. k + 1 \in 1..Len(rest) /\ rest'[k] = rest[k + 1]
        BY <1>2, <1>3
    <2>2. (k + 1) + ReadSoFar = k + ReadSoFar'
        BY <1>5
    <2>3. QED
        BY <1>4, <2>1, <2>2
<1>8. \A k \in 1..ReadSoFar' : k \in 1..ReadSoFar \/ k = ReadSoFar + 1
    BY <1>5
<1>9. QED
    BY <1>3, <1>5, <1>6, <1>7, <1>8

\* The record goes to the front of the list, where it was when it was saved.
LEMMA RequestKeeps ==
    ASSUME SaveInv, ReadRequest
    PROVE  SaveInv'
<1> USE DEF SaveInv
<1> DEFINE r == Head(rest)
           e == Restored(r)
           p == ReadSoFar
           j0 == Len(atSave) - p
<1>1. /\ Reading /\ ReadsAsUnsigned(r.time) /\ queue' = Cons(e, queue)
      /\ restored' = restored \cup {r.id} /\ rest' = Tail(rest)
      /\ file' = file /\ phase' = phase /\ saving' = saving /\ failbit' = failbit
      /\ howmanyerrs' = howmanyerrs /\ accepted' = accepted /\ touched' = touched
      /\ atSave' = atSave /\ crashes' = crashes /\ sent' = sent
    BY DEF ReadRequest
<1>2. NextRecord(r, j0)
    BY <1>1, NextRecordIs
<1>3. /\ Loading /\ Loading' /\ phase # "down" /\ ~saving /\ r \in Record
      /\ p \in Nat /\ p + 1 \in 1..Len(file) /\ file[p + 1] = r
    BY <1>1, <1>2 DEF NextRecord, Loading
<1>4. /\ j0 \in 1..Len(atSave) /\ Saved(atSave[j0]) = r /\ r.id = atSave[j0].id
      /\ r.id \in Msgs /\ r.id \in accepted /\ r.id \notin restored /\ r.id \notin Ids(queue)
      /\ \A x \in restored, k \in 1..Len(atSave) : atSave[k].id = x => j0 < k
    BY <1>2 DEF NextRecord
<1>5. e \in Message /\ Saved(e) = r /\ e.id = r.id /\ e.retries = 0
    BY <1>1, <1>3, RestoredType
<1>6. /\ rest' \in Seq(Record) /\ ReadSoFar' = p + 1
      /\ Len(rest') <= Len(file')
      /\ \A k \in 1..Len(rest') : rest'[k] = file'[k + ReadSoFar']
      /\ \A k \in 1..ReadSoFar' : k \in 1..p \/ k = p + 1
    BY <1>1, OneRecordOn
<1> HIDE DEF e, r, p, j0
<1>7. queue \in Seq(Message)
    BY DEF TypeOK
<1>8. Fronted(queue', queue, e)
    BY <1>1, <1>5, <1>7, ConsFronts
<1>9. /\ Len(queue') = Len(queue) + 1 /\ Len(queue) \in Nat /\ 1 \in 1..Len(queue') /\ queue'[1] = e
      /\ \A k \in 1..Len(queue') : k # 1 => k - 1 \in 1..Len(queue) /\ queue'[k] = queue[k - 1]
      /\ \A k \in 1..Len(queue) : k + 1 \in 1..Len(queue') /\ queue'[k + 1] = queue[k]
      /\ Ids(queue') \subseteq Ids(queue) \cup {e.id} /\ Ids(queue) \cup {e.id} \subseteq Ids(queue')
      /\ DistinctIds(queue) /\ e.id \notin Ids(queue) => DistinctIds(queue')
    BY <1>5, <1>7, <1>8, FrontIds
<1>10. queue' \in Seq(Message)
    BY <1>8 DEF Fronted
<1>11. TypeOK'
    BY <1>1, <1>4, <1>6, <1>10 DEF TypeOK
<1>12. IdInv'
    BY <1>1, <1>3, <1>4, <1>5, <1>9 DEF IdInv
<1>13. FileInv'
    BY <1>1 DEF FileInv
<1>14. LoadInv'
    <2>1. Ids(queue') \subseteq restored'
        BY <1>1, <1>3, <1>5, <1>9 DEF LoadInv
    <2>2. ASSUME NEW x \in restored'
          PROVE  \E k \in 1..ReadSoFar' : file'[k].id = x
        <3>1. CASE x \in restored
            <4>1. PICK k \in 1..p : file[k].id = x
                BY <1>3, <3>1 DEF LoadInv, p
            <4>2. k \in 1..ReadSoFar'
                BY <1>3, <1>6
            <4>3. QED
                BY <1>1, <4>1, <4>2
        <3>2. CASE x = r.id
            <4>1. p + 1 \in 1..ReadSoFar'
                BY <1>3, <1>6
            <4>2. QED
                BY <1>1, <1>3, <3>2, <4>1
        <3>3. QED
            BY <1>1, <3>1, <3>2
    <2>3. ASSUME NEW k \in 1..ReadSoFar', Readable(file'[k])
          PROVE  file'[k].id \in Ids(queue') \cup touched'
        <3>1. CASE k \in 1..p
            <4>1. file[k].id \in Ids(queue) \cup touched
                BY <1>1, <1>3, <2>3, <3>1 DEF LoadInv, p
            <4>2. QED
                BY <1>1, <1>9, <4>1
        <3>2. CASE k = p + 1
            BY <1>1, <1>3, <1>5, <1>9, <3>2
        <3>3. QED
            BY <1>6, <3>1, <3>2
    <2>4. QED
        BY <1>1, <1>3, <1>6, <2>1, <2>2, <2>3 DEF LoadInv
<1>15. OrderInv'
    <2>1. \A k \in 1..Len(queue') : k # 1 => queue'[k].id # r.id
        BY <1>4, <1>9 DEF Ids
    <2>2. \A k \in 1..Len(queue') : queue'[k].id \in restored' \ touched' =>
             k = 1 \/ (k # 1 /\ queue[k - 1].id \in restored \ touched /\ k - 1 \in 1..Len(queue)
                       /\ queue'[k] = queue[k - 1])
        BY <1>1, <1>9, <2>1
    <2>3. ASSUME NEW x \in restored' \ touched'
          PROVE  \E i \in 1..Len(queue') : queue'[i].id = x
        <3>1. CASE x = r.id
            BY <1>5, <1>9, <3>1
        <3>2. CASE x # r.id
            <4>1. PICK i \in 1..Len(queue) : queue[i].id = x
                BY <1>1, <1>3, <3>2 DEF OrderInv
            <4>2. QED
                BY <1>9, <4>1
        <3>3. QED
            BY <3>1, <3>2
    <2>4. ASSUME NEW x \in restored'
          PROVE  \E j \in 1..Len(atSave') : atSave'[j].id = x
        BY <1>1, <1>3, <1>4 DEF OrderInv
    <2>5. \A j \in 1..Len(atSave) : atSave[j].id = r.id => j = j0
        BY <1>4 DEF IdInv, DistinctIds
    <2>6. ASSUME NEW i \in 1..Len(queue'), NEW j \in 1..Len(atSave),
                 queue'[i].id \in restored' \ touched', queue'[i].id = atSave[j].id
          PROVE  Saved(queue'[i]) = Saved(atSave[j])
        <3>1. CASE i = 1
            BY <1>4, <1>5, <1>9, <2>5, <2>6, <3>1
        <3>2. CASE i # 1
            <4>1. queue[i - 1].id \in restored \ touched /\ i - 1 \in 1..Len(queue)
                  /\ queue'[i] = queue[i - 1]
                BY <2>2, <2>6, <3>2
            <4>2. \A k \in 1..Len(queue) :
                    queue[k].id \in restored \ touched /\ queue[k].id = atSave[j].id
                      => Saved(queue[k]) = Saved(atSave[j])
                BY <1>3 DEF OrderInv
            <4>3. QED
                BY <2>6, <4>1, <4>2
        <3>3. QED
            BY <3>1, <3>2
    <2>7. ASSUME NEW i \in 1..Len(queue'), NEW k \in 1..Len(queue'),
                 NEW j \in 1..Len(atSave), NEW l \in 1..Len(atSave),
                 queue'[i].id \in restored' \ touched', queue'[k].id \in restored' \ touched',
                 queue'[i].id = atSave[j].id, queue'[k].id = atSave[l].id, i < k
          PROVE  j < l
        <3>1. k # 1
            BY <1>9, <2>7
        <3>2. queue[k - 1].id \in restored \ touched /\ k - 1 \in 1..Len(queue)
              /\ queue'[k] = queue[k - 1]
            BY <2>2, <2>7, <3>1
        <3>3. CASE i = 1
            <4>1. j = j0
                BY <1>5, <1>9, <2>5, <2>7, <3>3
            <4>2. QED
                BY <1>4, <2>7, <3>2, <4>1
        <3>4. CASE i # 1
            <4>1. queue[i - 1].id \in restored \ touched /\ i - 1 \in 1..Len(queue)
                  /\ queue'[i] = queue[i - 1]
                BY <2>2, <2>7, <3>4
            <4>2. i - 1 < k - 1
                BY <1>9, <2>7
            <4>3. \A u, v \in 1..Len(queue) :
                    (/\ queue[u].id \in restored \ touched /\ queue[v].id \in restored \ touched
                     /\ queue[u].id = atSave[j].id /\ queue[v].id = atSave[l].id
                     /\ u < v)
                      => j < l
                BY <1>3 DEF OrderInv
            <4>4. QED
                BY <2>7, <3>2, <4>1, <4>2, <4>3
        <3>5. QED
            BY <3>3, <3>4
    <2>8. QED
        BY <1>1, <2>3, <2>4, <2>6, <2>7 DEF OrderInv
<1>16. SentInv'
    <2> DEFINE B == MaxRetries * crashes
    <2>1. B \in Nat /\ MaxRetries \in Nat
        BY CountAssumption DEF TypeOK
    <2>2. sent[r.id] <= B /\ sent[r.id] \in Nat
        BY <1>3, <1>4 DEF SentInv, TypeOK
    <2> HIDE DEF B
    <2>3. e.retries <= MaxRetries /\ sent[e.id] <= B + e.retries
        BY <1>5, <2>1, <2>2
    <2>4. \A k \in 1..Len(queue) : /\ queue[k].retries <= MaxRetries
                                   /\ sent[queue[k].id] <= B + queue[k].retries
        BY DEF SentInv, B
    <2>5. \A k \in 1..Len(queue') : /\ queue'[k].retries <= MaxRetries
                                    /\ sent[queue'[k].id] <= B + queue'[k].retries
        BY <1>9, <2>3, <2>4
    <2>6. QED
        BY <1>1, <1>3, <2>5 DEF SentInv, B
<1>17. QED
    BY <1>11, <1>12, <1>13, <1>14, <1>15, <1>16

\* A record that is passed over is none that can be read.
LEMMA SkipKeeps ==
    ASSUME SaveInv, ReadBadAddress \/ ReadError
    PROVE  SaveInv'
<1> USE DEF SaveInv
<1> DEFINE r == Head(rest)
           p == ReadSoFar
           j0 == Len(atSave) - p
<1>1. /\ Reading /\ rest' = Tail(rest) /\ howmanyerrs' \in Nat /\ queue' = queue
      /\ file' = file /\ phase' = phase /\ saving' = saving /\ failbit' = failbit
      /\ accepted' = accepted /\ touched' = touched /\ restored' = restored
      /\ atSave' = atSave /\ crashes' = crashes /\ sent' = sent
    BY DEF ReadBadAddress, ReadError, Skip, history, TypeOK
<1>2. ~Readable(r)
    BY DEF ReadBadAddress, ReadError, Readable, parse_addr
<1>3. NextRecord(r, j0)
    BY <1>1, NextRecordIs
<1>4. /\ Loading /\ p \in Nat /\ file[p + 1] = r
    BY <1>3 DEF NextRecord
<1>5. /\ rest' \in Seq(Record) /\ ReadSoFar' = p + 1
      /\ Len(rest') <= Len(file')
      /\ \A k \in 1..Len(rest') : rest'[k] = file'[k + ReadSoFar']
      /\ \A k \in 1..ReadSoFar' : k \in 1..p \/ k = p + 1
    BY <1>1, OneRecordOn
<1> HIDE DEF r, p, j0
<1>6. TypeOK'
    BY <1>1, <1>5 DEF TypeOK
<1>7. IdInv'
    BY <1>1 DEF IdInv
<1>8. FileInv'
    BY <1>1 DEF FileInv
<1>9. LoadInv'
    <2>1. \A x \in restored : \E k \in 1..p : file[k].id = x
        BY <1>4 DEF LoadInv, p
    <2>2. \A k \in 1..p : k \in 1..ReadSoFar'
        BY <1>4, <1>5
    <2>3. \A x \in restored' : \E k \in 1..ReadSoFar' : file'[k].id = x
        BY <1>1, <2>1, <2>2
    <2>4. \A k \in 1..p : Readable(file[k]) => file[k].id \in Ids(queue) \cup touched
        BY <1>4 DEF LoadInv, p
    <2>5. \A k \in 1..ReadSoFar' : Readable(file'[k]) => file'[k].id \in Ids(queue') \cup touched'
        BY <1>1, <1>2, <1>4, <1>5, <2>4
    <2>6. Ids(queue') \subseteq restored' /\ ~saving'
        BY <1>1, <1>4 DEF LoadInv
    <2>7. QED
        BY <1>5, <2>3, <2>5, <2>6 DEF LoadInv
<1>10. OrderInv'
    BY <1>1 DEF OrderInv
<1>11. SentInv'
    BY <1>1 DEF SentInv, Loading
<1>12. QED
    BY <1>6, <1>7, <1>8, <1>9, <1>10, <1>11

\* The stream fails, or the end of the file is reached, or nothing happens.
LEMMA EndKeeps ==
    ASSUME SaveInv, ReadFails \/ ReadEnds \/ ReadFailedStream \/ UNCHANGED vars
    PROVE  SaveInv'
<1> USE DEF SaveInv
<1>1. /\ queue' = queue /\ file' = file /\ saving' = saving /\ rest' = rest
      /\ howmanyerrs' = howmanyerrs /\ accepted' = accepted /\ touched' = touched
      /\ restored' = restored /\ atSave' = atSave /\ crashes' = crashes /\ sent' = sent
    BY DEF ReadFails, ReadEnds, ReadFailedStream, vars, stream, history
<1>2. \/ ~Loading' /\ phase = "loading" /\ phase' # "down"
         /\ phase' \in {"loading", "running"} /\ failbit' \in BOOLEAN
      \/ phase' = phase /\ failbit' = failbit
    <2>1. CASE ReadFails
        BY <2>1 DEF ReadFails, Reading, Loading
    <2>2. CASE ReadEnds
        BY <2>2 DEF ReadEnds, Loading, stream, SaveInv, TypeOK
    <2>3. CASE ReadFailedStream \/ UNCHANGED vars
        BY <2>3 DEF ReadFailedStream, vars
    <2>4. QED
        BY <2>1, <2>2, <2>3
<1>3. TypeOK'
    BY <1>1, <1>2 DEF TypeOK
<1>4. IdInv'
    BY <1>1, <1>2 DEF IdInv
<1>5. FileInv'
    BY <1>1 DEF FileInv
<1>6. LoadInv'
    BY <1>1, <1>2 DEF LoadInv, Loading, ReadSoFar
<1>7. OrderInv'
    BY <1>1, <1>2 DEF OrderInv
<1>8. SentInv'
    BY <1>1, <1>2 DEF SentInv, Loading
<1>9. QED
    BY <1>3, <1>4, <1>5, <1>6, <1>7, <1>8

-----------------------------------------------------------------------------
(* Theorems.                                                               *)

\* Before the first start, the invariant holds.
LEMMA SaveInit ==
    ASSUME Init
    PROVE  SaveInv
<1>1. /\ queue = <<>> /\ file = <<>> /\ phase = "down" /\ saving = FALSE
      /\ rest = <<>> /\ failbit = FALSE /\ howmanyerrs = 0
      /\ accepted = {} /\ restored = {} /\ touched = {} /\ atSave = <<>>
      /\ crashes = 0 /\ sent = [m \in Msgs |-> 0]
    BY DEF Init
<1>2. TypeOK
    <2>1. 0 \in 0..MaxCrashes
        BY CountAssumption
    <2>2. sent \in [Msgs -> Nat]
        BY <1>1
    <2>3. queue \in Seq(Message) /\ atSave \in Seq(Message) /\ file \in Seq(Record) /\ rest \in Seq(Record)
        BY <1>1, EmptySeq
    <2>4. /\ phase \in {"running", "loading", "down"} /\ saving \in BOOLEAN
          /\ failbit \in BOOLEAN /\ howmanyerrs \in Nat
        BY <1>1
    <2>5. accepted \subseteq Msgs /\ restored \subseteq Msgs /\ touched \subseteq Msgs
        BY <1>1
    <2>6. QED
        BY <1>1, <2>1, <2>2, <2>3, <2>4, <2>5 DEF TypeOK
<1>3. Len(queue) = 0 /\ Len(atSave) = 0 /\ Len(file) = 0
    BY <1>1
<1>4. IdInv
    <2>1. Ids(queue) \subseteq {} /\ Ids(atSave) \subseteq {}
        BY <1>3, IdsWithin
    <2>2. QED
        BY <1>1, <1>3, <2>1 DEF IdInv, DistinctIds
<1>5. FileInv /\ LoadInv /\ OrderInv
    BY <1>1, <1>3 DEF FileInv, LoadInv, OrderInv, Loading
<1>6. SentInv
    <2>1. MaxRetries * crashes = 0 /\ MaxRetries \in Nat
        BY <1>1, CountAssumption
    <2>2. \A m \in Msgs : sent[m] = 0
        BY <1>1
    <2>3. QED
        BY <1>1, <1>3, <2>1, <2>2 DEF SentInv, Loading
<1>7. QED
    BY <1>2, <1>4, <1>5, <1>6 DEF SaveInv

\* Each step keeps the invariant.
LEMMA SaveNext ==
    ASSUME SaveInv, [Next]_vars
    PROVE  SaveInv'
<1>1. CASE \E m \in Arrivals : Accept(m)
    BY <1>1, AcceptKeeps
<1>2. CASE (\E s \in States, t \in Times : SetState(s, t)) \/ Try \/ Delete
    <2>1. HandledDrop \/ \E i, e : HandledPut(i, e)
        BY <1>2, WriterSteps DEF SaveInv
    <2>2. QED
        BY <2>1, DropKeeps, PutKeeps
<1>3. CASE SaveOpen
    BY <1>3, SaveOpenKeeps
<1>4. CASE SaveWrite
    BY <1>4, SaveWriteKeeps
<1>5. CASE Crash
    BY <1>5, CrashKeeps
<1>6. CASE Start
    BY <1>6, StartKeeps
<1>7. CASE ReadRequest
    BY <1>7, RequestKeeps
<1>8. CASE ReadBadAddress \/ ReadError
    BY <1>8, SkipKeeps
<1>9. CASE ReadFails \/ ReadEnds \/ ReadFailedStream \/ UNCHANGED vars
    BY <1>9, EndKeeps
<1>10. QED
    BY <1>1, <1>2, <1>3, <1>4, <1>5, <1>6, <1>7, <1>8, <1>9 DEF Next, read_queue_from_file

\* The inductive invariant: the file holds the queue of the last save, the
\* queue what was read of it, and no message was sent more often than the
\* crashes so far and its retries account for.
THEOREM SaveInvariant == Spec => []SaveInv
<1>1. Init => SaveInv
    BY SaveInit
<1>2. SaveInv /\ [Next]_vars => SaveInv'
    BY SaveNext
<1>3. QED
    BY <1>1, <1>2, PTL DEF Spec

\* save_queue_to_file() and read_queue_from_file() keep every variable in its
\* type: a restored time is a time_t again.
THEOREM TypeCorrect == Spec => []TypeOK
<1>1. SaveInv => TypeOK
    BY DEF SaveInv
<1>2. QED
    BY <1>1, SaveInvariant, PTL

\* read_queue_from_file() brings back what save_queue_to_file() wrote, in the
\* order, the state and with the time it had, as far as the writer has not
\* handled it since: for a file that was cut short by a crash as well.
THEOREM RestoredInOrder == Spec => []RestoredAsSaved
<1>1. SaveInv => RestoredAsSaved
    <2>1. SUFFICES ASSUME SaveInv, phase # "down"
                   PROVE  RestoredAsSaved
        BY DEF RestoredAsSaved
    <2> DEFINE Same(i, j) == queue[i].id \in Untouched /\ queue[i].id = atSave[j].id
    <2>2. OrderInv /\ IdInv /\ Untouched = restored \ touched /\ Untouched \subseteq restored
        BY <2>1 DEF SaveInv, Untouched
    <2>3. ASSUME NEW x \in Untouched
          PROVE  \E i \in 1..Len(queue), j \in 1..Len(atSave) : Same(i, j) /\ queue[i].id = x
        <3>1. PICK i \in 1..Len(queue) : queue[i].id = x
            BY <2>1, <2>2 DEF OrderInv
        <3>2. PICK j \in 1..Len(atSave) : atSave[j].id = x
            BY <2>1, <2>2 DEF OrderInv
        <3>3. QED
            BY <3>1, <3>2
    <2>4. ASSUME NEW i \in 1..Len(queue), NEW j \in 1..Len(atSave), Same(i, j)
          PROVE  Saved(queue[i]) = Saved(atSave[j])
        BY <2>1, <2>2, <2>4 DEF OrderInv
    <2>5. ASSUME NEW i \in 1..Len(queue), NEW k \in 1..Len(queue),
                 NEW j \in 1..Len(atSave), NEW l \in 1..Len(atSave), Same(i, j), Same(k, l), i < k
          PROVE  j < l
        BY <2>1, <2>2, <2>5 DEF OrderInv
    <2>6. ASSUME NEW i \in 1..Len(queue), NEW k \in 1..Len(queue),
                 NEW j \in 1..Len(atSave), NEW l \in 1..Len(atSave), Same(i, j), Same(k, l), j < l
          PROVE  i < k
        <3>1. Len(queue) \in Nat /\ Len(atSave) \in Nat
            BY <2>1, LenProperties DEF SaveInv, TypeOK
        <3>2. ~(k < i)
            <4>1. SUFFICES ASSUME k < i PROVE FALSE
                OBVIOUS
            <4>2. l < j
                BY <2>5, <2>6, <4>1
            <4>3. QED
                BY <2>6, <3>1, <4>2
        <3>3. i # k
            <4>1. SUFFICES ASSUME i = k PROVE FALSE
                OBVIOUS
            <4>2. atSave[j].id = atSave[l].id
                BY <2>6, <4>1
            <4>3. j = l
                BY <2>2, <4>2 DEF IdInv, DistinctIds
            <4>4. QED
                BY <2>6, <3>1, <4>3
        <3>4. QED
            BY <3>1, <3>2, <3>3
    <2>7. QED
        BY <2>3, <2>4, <2>5, <2>6 DEF RestoredAsSaved
<1>2. QED
    BY <1>1, SaveInvariant, PTL

\* SMS.MaxRetries holds in each life of the process, not over all of them:
\* retries is not saved.
THEOREM BoundedPerLife == Spec => []TriesBoundedPerLife
<1>1. SaveInv => TriesBoundedPerLife
    <2>1. SUFFICES ASSUME SaveInv
                   PROVE  TriesBoundedPerLife
        OBVIOUS
    <2>2. MaxRetries * (crashes + 1) = MaxRetries * crashes + MaxRetries
        BY <2>1, CountAssumption DEF SaveInv, TypeOK
    <2>3. QED
        BY <2>1, <2>2 DEF SaveInv, SentInv, TriesBoundedPerLife
<1>2. QED
    BY <1>1, SaveInvariant, PTL

\* When read_queue_from_file() returns, every request of the file that can be
\* read is in the queue, or the writer has handled it.
THEOREM NoRequestForgotten == Spec => NoneForgotten
<1> DEFINE Kept ==
             LoadEnds => \A i \in 1..Len(file) :
                           Readable(file[i]) => file[i].id \in Ids(queue') \cup touched'
<1>1. SaveInv /\ [Next]_vars => [Kept]_vars
    <2>1. SUFFICES ASSUME SaveInv, Next, LoadEnds
                   PROVE  \A i \in 1..Len(file) :
                            Readable(file[i]) => file[i].id \in Ids(queue') \cup touched'
        OBVIOUS
    <2>2. phase = "loading" /\ phase' = "running"
        BY <2>1 DEF LoadEnds
    <2>3. ReadEnds
        BY <2>1, <2>2 DEF Next, Accept, SetState, Try, Delete, SaveOpen, SaveWrite, Crash, Start,
                          read_queue_from_file, ReadRequest, ReadBadAddress, ReadError, Skip,
                          ReadFails, ReadFailedStream, vars
    <2>4. Loading /\ rest = <<>> /\ queue' = queue /\ touched' = touched
        BY <2>3 DEF ReadEnds, Loading, history
    <2>5. Len(file) \in Nat /\ Len(rest) = 0
        BY <2>1, <2>4, LenProperties DEF SaveInv, TypeOK
    <2>6. ReadSoFar = Len(file)
        BY <2>5 DEF ReadSoFar
    <2>7. QED
        BY <2>1, <2>4, <2>6 DEF SaveInv, LoadInv
<1>2. QED
    BY <1>1, SaveInvariant, PTL DEF Spec, NoneForgotten
=============================================================================
