-------------------------- MODULE SmqThreads_proofs --------------------------
(***************************************************************************)
(* Proofs about SmqThreads, for every set of objects, every size of the    *)
(* message queue and every number of restarts: the reader and the writer   *)
(* share the list and its nodes, and no interleaving of theirs, no exit    *)
(* and no restart makes one of them use a node that is not there.          *)
(***************************************************************************)
EXTENDS SmqThreads, SmqLists

-----------------------------------------------------------------------------
(* The inductive invariant.                                                *)

\* What can be in the list or in the save file.
Queueable == {m \in Msgs : kind[m] \in {"request", "response", "own"}}

\* The nodes of the list are allocated and different.
ListInv ==
    /\ Distinct(queue)
    /\ \A m \in Range(queue) : m \in Queueable /\ heap[m] = "live"

\* The object that the reader is about to insert is its own, and no one's else;
\* while it is handed to the writer it is an object, perhaps freed.
ReaderInv ==
    /\ rpc = "insert" =>
         /\ rmsg \in Queueable /\ heap[rmsg] = "live"
         /\ rmsg \notin Range(queue) /\ rmsg # whead
    /\ rpc \in {"dump", "notify", "ack", "send", "delete"} => rmsg \in Msgs

\* The writer holds the mutex while its iterator is in use, and only then.
WriterInv ==
    /\ (lock = "writer") <=> (wpc = "notify")
    /\ (whead # NoMsg) <=> (wpc = "notify")
    /\ whead # NoMsg =>
         /\ whead \in Queueable /\ heap[whead] = "live"
         /\ IF kind[whead] = "response" THEN whead \notin Range(queue)
            ELSE Len(queue) >= 2 /\ queue[2] = whead

\* An entry that asks for an answer says for what.
MqOK ==
    /\ mq \in Seq(Entry) /\ Len(mq) <= MqMax
    /\ \A i \in 1..Len(mq) : mq[i].type = "ack" => mq[i].msg \in Msgs

EntryInv ==
    /\ MqOK
    /\ wpc = "respond" => wentry.msg \in Msgs

\* A record of the save file that is not an object yet is still to be read, so
\* that nothing else is allocated in its place; the one that is being put back
\* is the next of them.
FileInv ==
    /\ Distinct(file) /\ Distinct(unread)
    /\ Range(file) \cup Range(unread) \subseteq Queueable
    /\ \A m \in Range(file) : heap[m] = "none" => m \in Range(unread)
    /\ rpc \in {"off", "load"} => \A m \in Range(unread) : heap[m] = "none"
    /\ rpc \in {"insert", "dump", "notify"} /\ unread # <<>> =>
         /\ rmsg = Head(unread) /\ heap[rmsg] # "none"
         /\ \A m \in Range(Tail(unread)) : heap[m] = "none"
    /\ rpc \notin {"off", "load", "insert", "dump", "notify"} => unread = <<>>

\* A thread that main() has yet to start does not run.
StartInv ==
    /\ main = "reader" => rpc = "off"
    /\ main \in {"reader", "writer"} => wpc = "off"

ThreadsInv ==
    TypeOK /\ ListInv /\ ReaderInv /\ WriterInv /\ EntryInv /\ FileInv /\ StartInv

-----------------------------------------------------------------------------
(* The message queue.                                                      *)

\* What is sent to the message queue is an entry.
LEMMA EntriesAreEntries ==
    /\ Incoming \in Entry /\ Nothing \in Entry /\ Stale \in Entry
    /\ Incoming.type # "ack" /\ Nothing.type # "ack" /\ Stale.type # "ack"
    /\ \A m \in Msgs, a \in BOOLEAN : Ack(m, a) \in Entry /\ Ack(m, a).msg = m
BY DEF Incoming, Nothing, Stale, Ack, Entry

\* mq_send() and mq_timedreceive() keep the entries and the bound.
LEMMA SendKeeps ==
    ASSUME MqOK, NEW e \in Entry, e.type = "ack" => e.msg \in Msgs, SmqSendMessage(e)
    PROVE  MqOK'
<1>1. mq' = Append(mq, e) /\ Len(mq) < MqMax /\ Len(mq) \in Nat
    BY LenProperties DEF SmqSendMessage, MqOK
<1>2. /\ mq' \in Seq(Entry) /\ Len(mq') = Len(mq) + 1
      /\ \A i \in 1..Len(mq) : mq'[i] = mq[i]
      /\ mq'[Len(mq) + 1] = e
    BY <1>1, AppendProperties DEF MqOK
<1>3. QED
    BY <1>1, <1>2, MqAssumption DEF MqOK

\* Receiving an entry leaves a queue of entries.
LEMMA ReceiveKeeps ==
    ASSUME MqOK, mq # <<>>, mq' = Tail(mq)
    PROVE  MqOK' /\ Head(mq) \in Entry /\ (Head(mq).type = "ack" => Head(mq).msg \in Msgs)
<1>1. /\ mq' \in Seq(Entry) /\ Len(mq') = Len(mq) - 1 /\ Head(mq) \in Entry
      /\ \A i \in 1..Len(mq') : mq'[i] = mq[i + 1]
    BY HeadTailProperties DEF MqOK
<1>2. Len(mq) \in Nat \ {0} /\ Head(mq) = mq[1]
    BY EmptySeq DEF MqOK
<1>3. QED
    BY <1>1, <1>2, MqAssumption DEF MqOK

\* So does what an entry of the process before may turn out to be.
LEMMA ChanceKeeps ==
    ASSUME MqOK, NEW i \in 2..Len(mq), mq' = Tail([mq EXCEPT ![i] = Stale])
    PROVE  MqOK' /\ mq[i] \in Entry /\ (mq[i].type = "ack" => mq[i].msg \in Msgs)
<1> DEFINE q == [mq EXCEPT ![i] = Stale]
<1>1. Len(mq) \in Nat /\ i \in 1..Len(mq)
    BY LenProperties DEF MqOK
<1>2. /\ q \in Seq(Entry) /\ Len(q) = Len(mq)
      /\ \A j \in 1..Len(mq) : q[j] = IF j = i THEN Stale ELSE mq[j]
    BY <1>1, ExceptSeq, EntriesAreEntries DEF MqOK
<1>3. q # <<>> /\ mq' = Tail(q)
    BY <1>1, <1>2
<1> HIDE DEF q
<1>4. /\ Tail(q) \in Seq(Entry) /\ Len(Tail(q)) = Len(q) - 1
      /\ \A j \in 1..Len(Tail(q)) : Tail(q)[j] = q[j + 1]
    BY <1>2, <1>3, HeadTailProperties
<1>5. mq[i] \in Entry
    BY <1>1, ElementOfSeq DEF MqOK
<1>6. QED
    BY <1>1, <1>2, <1>3, <1>4, <1>5, MqAssumption, EntriesAreEntries DEF MqOK

\* After a restart every entry is one of the process before.
LEMMA RestartKeeps ==
    ASSUME MqOK, mq' = [i \in 1..Len(mq) |-> Stale]
    PROVE  MqOK'
<1>1. Len(mq) \in Nat
    BY LenProperties DEF MqOK
<1>2. mq' \in Seq(Entry) /\ Len(mq') = Len(mq) /\ \A i \in 1..Len(mq) : mq'[i] = Stale
    BY <1>1, EntriesAreEntries
<1>3. QED
    BY <1>1, <1>2, EntriesAreEntries DEF MqOK

-----------------------------------------------------------------------------
(* Steps that leave the list, the objects and the iterator alone.          *)

unchangedLists == <<queue, heap, kind, unread, file>>

\* The writer's steps between two uses of the list.
LEMMA WriterMoves ==
    ASSUME ThreadsInv, UNCHANGED <<unchangedLists, lock, reader, whead>>,
           wpc # "notify", wpc' # "notify"
    PROVE  ListInv' /\ ReaderInv' /\ WriterInv' /\ FileInv'
<1> USE DEF ThreadsInv, unchangedLists, reader
<1>1. ListInv'
    BY DEF ListInv, Queueable
<1>2. ReaderInv'
    BY DEF ReaderInv, Queueable
<1>3. WriterInv'
    BY DEF WriterInv, Queueable
<1>4. FileInv'
    BY DEF FileInv, Queueable
<1>5. QED
    BY <1>1, <1>2, <1>3, <1>4

\* The writer's steps that leave the list alone.
LEMMA WriterQuiet ==
    ASSUME ThreadsInv,
           \/ WLoop \/ WReceive \/ WTimeout \/ WReceiveStale \/ WReceiveChance
           \/ WNoWriter \/ WRespond \/ WNothingDue
    PROVE  ThreadsInv'
<1>1. /\ UNCHANGED <<unchangedLists, lock, reader, whead, main>>
      /\ wpc \notin {"off", "notify"} /\ wpc' # "notify"
    BY DEF WLoop, WReceive, WTimeout, WReceiveStale, WReceiveChance, WNoWriter, WRespond, WNothingDue,
           Crashes, Processing, Processed, memory, reader, writer, shared, start, unchangedLists
<1>2. ListInv' /\ ReaderInv' /\ WriterInv' /\ FileInv'
    BY <1>1, WriterMoves
<1>3. MqOK' /\ wentry' \in Entry /\ (wpc' = "respond" => wentry'.msg \in Msgs) /\ wpc' \in WriterAt
    <2>1. MqOK /\ wentry \in Entry /\ wpc \in WriterAt /\ (wpc = "respond" => wentry.msg \in Msgs)
        BY DEF ThreadsInv, TypeOK, EntryInv
    <2>2. CASE UNCHANGED <<mq, wentry>> /\ (WLoop \/ WNoWriter \/ WRespond \/ WNothingDue)
        BY <2>1, <2>2 DEF MqOK, WLoop, WNoWriter, WRespond, WNothingDue, Processed, writer, WriterAt
    <2>3. CASE WReceive
        BY <2>1, <2>3, ReceiveKeeps DEF WReceive, WriterAt
    <2>4. CASE WTimeout
        BY <2>1, <2>4, EntriesAreEntries DEF WTimeout, WriterAt, MqOK
    <2>5. CASE WReceiveStale
        BY <2>1, <2>5, ReceiveKeeps, EntriesAreEntries DEF WReceiveStale, WriterAt
    <2>6. CASE WReceiveChance
        BY <2>1, <2>6, ChanceKeeps DEF WReceiveChance, WriterAt
    <2>7. QED
        BY <2>2, <2>3, <2>4, <2>5, <2>6 DEF WLoop, WNoWriter, WRespond, WNothingDue, writer
<1>4. /\ UNCHANGED <<main, unread, restarts, stop_main_loop>> /\ process' \in {process, "crashed"}
      /\ answered' \subseteq Msgs
    BY DEF WLoop, WReceive, WTimeout, WReceiveStale, WReceiveChance, WNoWriter, WRespond, WNothingDue,
           Crashes, writer, shared, start, ThreadsInv, TypeOK, EntryInv
<1>5. TypeOK'
    BY <1>1, <1>3, <1>4 DEF ThreadsInv, TypeOK, MqOK, unchangedLists, reader
<1>6. StartInv'
    BY <1>1 DEF ThreadsInv, StartInv, reader
<1>7. QED
    BY <1>2, <1>3, <1>5, <1>6 DEF ThreadsInv, EntryInv

\* The reader's steps between two uses of the list.
LEMMA ReaderMoves ==
    ASSUME ThreadsInv, UNCHANGED <<queue, heap, kind, lock, wpc, wentry, whead, main>>, rpc # "off"
    PROVE  ListInv' /\ WriterInv' /\ StartInv' /\ (MqOK' => EntryInv')
<1> USE DEF ThreadsInv
<1>1. ListInv'
    BY DEF ListInv, Queueable
<1>2. WriterInv'
    BY DEF WriterInv, Queueable
<1>3. StartInv' /\ (MqOK' => EntryInv')
    BY DEF StartInv, EntryInv
<1>4. QED
    BY <1>1, <1>2, <1>3

\* The reader's steps that leave the list alone.
LEMMA ReaderQuiet ==
    ASSUME ThreadsInv,
           \/ RLoaded \/ RLoop \/ RTimeout \/ RDump \/ RNoWriter \/ RReadAddress \/ RSendAck
    PROVE  ThreadsInv'
<1>1. /\ UNCHANGED <<queue, heap, kind, lock, wpc, wentry, whead, main>> /\ rpc # "off"
      /\ UNCHANGED <<unread, file, rmsg, restarts, stop_main_loop, answered>>
      /\ process' \in {process, "crashed"}
    BY DEF RLoaded, RLoop, RTimeout, RDump, RNoWriter, RReadAddress, RSendAck, Crashes,
           memory, reader, writer, shared, start
<1>2. MqOK /\ addrOk \in BOOLEAN /\ (rpc = "send" => rmsg \in Msgs)
    BY DEF ThreadsInv, EntryInv, TypeOK, ReaderInv
<1>3. MqOK'
    <2>1. CASE UNCHANGED mq
        BY <1>2, <2>1 DEF MqOK
    <2>2. CASE RSendAck
        BY <1>2, <2>2, SendKeeps, EntriesAreEntries DEF RSendAck
    <2>3. QED
        BY <2>1, <2>2 DEF RLoaded, RLoop, RTimeout, RDump, RNoWriter, RReadAddress
<1>4. ListInv' /\ WriterInv' /\ StartInv' /\ EntryInv'
    BY <1>1, <1>3, ReaderMoves
<1>5. ReaderInv'
    BY <1>1 DEF RLoaded, RLoop, RTimeout, RDump, RNoWriter, RReadAddress, RSendAck, reader,
                ThreadsInv, ReaderInv, Queueable
<1>6. FileInv'
    BY <1>1 DEF RLoaded, RLoop, RTimeout, RDump, RNoWriter, RReadAddress, RSendAck, reader,
                ThreadsInv, FileInv, Queueable
<1>7. rpc' \in ReaderAt /\ addrOk' \in BOOLEAN
    BY <1>2 DEF RLoaded, RLoop, RTimeout, RDump, RNoWriter, RReadAddress, RSendAck, reader,
                ThreadsInv, TypeOK, ReaderAt
<1>8. TypeOK'
    BY <1>1, <1>3, <1>7 DEF ThreadsInv, TypeOK, MqOK
<1>9. QED
    BY <1>4, <1>5, <1>6, <1>8 DEF ThreadsInv

\* Putting a message back, or answering one: the reader notifies the writer.
LEMMA NotifyStep ==
    ASSUME ThreadsInv, RNotify
    PROVE  ThreadsInv'
<1>1. /\ UNCHANGED <<queue, heap, kind, lock, wpc, wentry, whead, main>> /\ rpc = "notify"
      /\ UNCHANGED <<file, addrOk, restarts, stop_main_loop, answered, process>>
    BY DEF RNotify, memory, writer
<1>2. MqOK'
    BY SendKeeps, EntriesAreEntries DEF RNotify, ThreadsInv, EntryInv
<1>3. ListInv' /\ WriterInv' /\ StartInv' /\ EntryInv'
    BY <1>1, <1>2, ReaderMoves
<1>4. rmsg \in Msgs /\ unread \in Seq(Msgs)
    BY <1>1 DEF ThreadsInv, ReaderInv, TypeOK
<1>5. CASE unread = <<>>
    <2>1. rpc' = "ack" /\ UNCHANGED <<rmsg, unread>>
        BY <1>5 DEF RNotify
    <2>2. ReaderInv'
        BY <1>4, <2>1 DEF ReaderInv
    <2>3. FileInv'
        BY <1>1, <1>5, <2>1 DEF ThreadsInv, FileInv, Queueable
    <2>4. TypeOK'
        BY <1>1, <1>2, <1>4, <2>1 DEF ThreadsInv, TypeOK, MqOK, ReaderAt
    <2>5. QED
        BY <1>3, <2>2, <2>3, <2>4 DEF ThreadsInv
<1>6. CASE unread # <<>>
    <2>1. rpc' = "load" /\ rmsg' = NoMsg /\ unread' = Tail(unread)
        BY <1>6 DEF RNotify
    <2>2. /\ Tail(unread) \in Seq(Msgs) /\ Distinct(Tail(unread))
          /\ Range(Tail(unread)) = Range(unread) \ {Head(unread)}
        BY <1>4, <1>6, DistinctTail DEF ThreadsInv, FileInv
    <2>3. ReaderInv'
        BY <2>1 DEF ReaderInv
    <2>4. FileInv'
        <3>1. /\ rmsg = Head(unread) /\ heap[rmsg] # "none"
              /\ \A m \in Range(Tail(unread)) : heap[m] = "none"
            BY <1>1, <1>6 DEF ThreadsInv, FileInv
        <3>2. /\ Distinct(file) /\ Range(file) \cup Range(unread) \subseteq Queueable
              /\ \A m \in Range(file) : heap[m] = "none" => m \in Range(unread)
            BY DEF ThreadsInv, FileInv
        <3>3. UNCHANGED Queueable
            BY <1>1 DEF Queueable
        <3>4. QED
            BY <1>1, <2>1, <2>2, <3>1, <3>2, <3>3 DEF FileInv
    <2>5. TypeOK'
        BY <1>1, <1>2, <2>1, <2>2 DEF ThreadsInv, TypeOK, MqOK, ReaderAt
    <2>6. QED
        BY <1>3, <2>3, <2>4, <2>5 DEF ThreadsInv
<1>7. QED
    BY <1>5, <1>6

\* main() starts the threads and ends with them.
LEMMA MainStep ==
    ASSUME ThreadsInv, Main
    PROVE  ThreadsInv'
<1>1. /\ UNCHANGED <<unchangedLists, lock, whead, wentry, mq, rmsg, addrOk, answered, restarts,
                     stop_main_loop, file>>
      /\ main' \in {"reader", "writer", "assign", "sleep"} /\ process' \in {process, "exited"}
      /\ \/ UNCHANGED <<rpc, wpc>>
         \/ rpc = "off" /\ rpc' = "load" /\ UNCHANGED wpc
         \/ wpc = "off" /\ wpc' = "loop" /\ UNCHANGED rpc
    BY DEF Main, StartReader, StartWriter, AssignWriter, MainReturns, memory, reader, writer, shared,
           start, unchangedLists, ThreadsInv, StartInv, TypeOK
<1> USE DEF ThreadsInv, unchangedLists
<1>2. ListInv'
    BY <1>1 DEF ListInv, Queueable
<1>3. ReaderInv'
    BY <1>1 DEF ReaderInv, Queueable
<1>4. WriterInv'
    BY <1>1 DEF WriterInv, Queueable
<1>5. FileInv'
    BY <1>1 DEF FileInv, Queueable
<1>6. EntryInv'
    BY <1>1 DEF EntryInv, MqOK
<1>7. StartInv'
    BY DEF StartInv, Main, StartReader, StartWriter, AssignWriter, MainReturns, reader, writer, start
<1>8. TypeOK'
    BY <1>1 DEF TypeOK, ReaderAt, WriterAt
<1>9. QED
    BY <1>2, <1>3, <1>4, <1>5, <1>6, <1>7, <1>8

-----------------------------------------------------------------------------
(* The reader's steps that allocate, insert, free or save.                 *)

\* RLoad: what is put back is an object that was not there, of a record that no
\* other object can take.
LEMMA LoadStep ==
    ASSUME ThreadsInv, RLoad
    PROVE  ThreadsInv'
<1> DEFINE m == Head(unread)
<1>1. /\ UNCHANGED <<queue, kind, mq, lock, addrOk, wpc, wentry, whead, answered, main, restarts>>
      /\ UNCHANGED <<stop_main_loop, process, file>>
      /\ rpc = "load" /\ unread # <<>>
    BY DEF RLoad, writer
<1>2. unread \in Seq(Msgs) /\ Distinct(unread) /\ heap \in [Msgs -> {"none", "live", "freed"}]
    BY DEF ThreadsInv, TypeOK, FileInv
<1>3. /\ Tail(unread) \in Seq(Msgs) /\ m \in Msgs /\ Distinct(Tail(unread)) /\ m \in Range(unread)
      /\ Range(Tail(unread)) = Range(unread) \ {m}
    BY <1>1, <1>2, DistinctTail
<1>4. /\ Range(file) \cup Range(unread) \subseteq Queueable /\ Distinct(file)
      /\ \A n \in Range(file) : heap[n] = "none" => n \in Range(unread)
      /\ \A n \in Range(unread) : heap[n] = "none"
    BY <1>1 DEF ThreadsInv, FileInv
<1> HIDE DEF m
<1>5. m \notin Range(queue) /\ m # whead /\ m \in Queueable
    <2>1. whead # NoMsg => heap[whead] = "live"
        BY DEF ThreadsInv, WriterInv
    <2>2. QED
        BY <1>3, <1>4, <2>1, NoMsgAssumption DEF ThreadsInv, ListInv
<1>6. UNCHANGED Queueable
    BY <1>1 DEF Queueable
<1>7. heap' \in [Msgs -> {"none", "live", "freed"}] /\ \A n \in Msgs : n # m => heap'[n] = heap[n]
    BY <1>2, <1>3 DEF RLoad, m
<1>8. ListInv'
    <2>1. Range(queue) \subseteq Msgs
        BY DEF ThreadsInv, ListInv, Queueable
    <2>2. QED
        BY <1>1, <1>5, <1>6, <1>7, <2>1 DEF ThreadsInv, ListInv
<1>9. WriterInv'
    <2>1. whead # NoMsg => whead \in Msgs
        BY DEF ThreadsInv, WriterInv, Queueable
    <2>2. QED
        BY <1>1, <1>5, <1>6, <1>7, <2>1 DEF ThreadsInv, WriterInv
<1>10. EntryInv' /\ StartInv'
    BY <1>1 DEF ThreadsInv, EntryInv, MqOK, StartInv
<1>11. CASE kind[m] = "response"
    <2>1. unread' = Tail(unread) /\ heap' = [heap EXCEPT ![m] = "freed"] /\ UNCHANGED <<rpc, rmsg>>
        BY <1>11 DEF RLoad, m
    <2>2. ReaderInv'
        BY <1>1, <2>1 DEF ThreadsInv, ReaderInv
    <2>3. heap'[m] # "none"
        BY <1>2, <1>3, <2>1
    <2>4. FileInv'
        <3>1. Range(file) \subseteq Msgs /\ Range(unread) \subseteq Msgs
            BY <1>4 DEF Queueable
        <3>2. \A n \in Range(file) : heap'[n] = "none" => n \in Range(Tail(unread))
            BY <1>3, <1>4, <1>7, <2>3, <3>1
        <3>3. \A n \in Range(Tail(unread)) : heap'[n] = "none"
            BY <1>3, <1>4, <1>7, <3>1
        <3>4. QED
            BY <1>1, <1>3, <1>4, <1>6, <2>1, <3>2, <3>3 DEF FileInv
    <2>5. TypeOK'
        BY <1>1, <1>3, <1>7, <2>1 DEF ThreadsInv, TypeOK
    <2>6. QED
        BY <1>8, <1>9, <1>10, <2>2, <2>4, <2>5 DEF ThreadsInv
<1>12. CASE kind[m] # "response"
    <2>1. heap' = [heap EXCEPT ![m] = "live"] /\ rmsg' = m /\ rpc' = "insert" /\ UNCHANGED unread
        BY <1>12 DEF RLoad, m
    <2>2. heap'[m] = "live"
        BY <1>2, <1>3, <2>1
    <2>3. ReaderInv'
        BY <1>1, <1>5, <1>6, <2>1, <2>2 DEF ReaderInv
    <2>4. FileInv'
        <3>1. Range(file) \subseteq Msgs /\ Range(unread) \subseteq Msgs
            BY <1>4 DEF Queueable
        <3>2. \A n \in Range(file) : heap'[n] = "none" => n \in Range(unread)
            BY <1>4, <1>7, <2>2, <3>1
        <3>3. \A n \in Range(Tail(unread)) : heap'[n] = "none"
            BY <1>3, <1>4, <1>7, <3>1
        <3>4. QED
            BY <1>1, <1>2, <1>4, <1>6, <2>1, <2>2, <3>2, <3>3 DEF FileInv, m
    <2>5. TypeOK'
        BY <1>1, <1>3, <1>7, <2>1 DEF ThreadsInv, TypeOK, ReaderAt
    <2>6. QED
        BY <1>8, <1>9, <1>10, <2>3, <2>4, <2>5 DEF ThreadsInv
<1>13. QED
    BY <1>11, <1>12

\* An object that is allocated for a new datagram or message, and that no record
\* waits for, is in no list.
LEMMA UnbornIsNew ==
    ASSUME ThreadsInv, NEW m \in Unborn
    PROVE  /\ m \in Msgs /\ heap[m] = "none"
           /\ m \notin Range(queue) /\ m # whead
           /\ m \notin Range(file) /\ m \notin Range(unread)
           /\ rpc = "insert" => m # rmsg
<1>1. m \in Msgs /\ heap[m] = "none" /\ m \notin Range(unread)
    BY DEF Unborn
<1>2. m \notin Range(queue)
    BY <1>1 DEF ThreadsInv, ListInv
<1>3. m # whead
    BY <1>1, NoMsgAssumption DEF ThreadsInv, WriterInv
<1>4. m \notin Range(file)
    BY <1>1 DEF ThreadsInv, FileInv
<1>5. rpc = "insert" => m # rmsg
    BY <1>1 DEF ThreadsInv, ReaderInv
<1>6. QED
    BY <1>1, <1>2, <1>3, <1>4, <1>5

\* The reader takes a free node for a datagram.
LEMMA ReceiveStep ==
    ASSUME ThreadsInv, NEW m \in Msgs, NEW k \in Kinds, RReceive(m, k)
    PROVE  ThreadsInv'
<1>1. /\ UNCHANGED <<queue, mq, lock, addrOk, wpc, wentry, whead, answered, main, unread, restarts>>
      /\ UNCHANGED <<stop_main_loop, process, file>>
      /\ heap' = [heap EXCEPT ![m] = "live"] /\ kind' = [kind EXCEPT ![m] = k]
      /\ rmsg' = m /\ rpc = "poll" /\ rpc' = (IF k = "bad" THEN "ack" ELSE "insert")
    BY DEF RReceive, writer, shared, start
<1>2. /\ heap[m] = "none" /\ m \notin Range(queue) /\ m # whead
      /\ m \notin Range(file) /\ m \notin Range(unread)
    BY UnbornIsNew DEF RReceive
<1>3. k \in {"request", "response", "bad"}
    BY KindsAssumption
<1>4. /\ heap \in [Msgs -> {"none", "live", "freed"}]
      /\ kind \in [Msgs -> {"none", "request", "response", "bad", "own"}]
    BY DEF ThreadsInv, TypeOK
<1>5. /\ heap' \in [Msgs -> {"none", "live", "freed"}]
      /\ kind' \in [Msgs -> {"none", "request", "response", "bad", "own"}]
      /\ heap'[m] = "live" /\ kind'[m] = k
      /\ \A n \in Msgs : n # m => heap'[n] = heap[n] /\ kind'[n] = kind[n]
    BY <1>1, <1>3, <1>4
<1>6. /\ \A n \in Queueable : n \in Msgs /\ (n # m => n \in Queueable')
      /\ k # "bad" => m \in Queueable'
    BY <1>3, <1>5 DEF Queueable
<1>7. ListInv'
    BY <1>1, <1>2, <1>5, <1>6 DEF ThreadsInv, ListInv
<1>8. ReaderInv'
    BY <1>1, <1>2, <1>5, <1>6 DEF ReaderInv
<1>9. WriterInv'
    BY <1>1, <1>2, <1>5, <1>6 DEF ThreadsInv, WriterInv
<1>10. EntryInv' /\ StartInv'
    BY <1>1 DEF ThreadsInv, EntryInv, MqOK, StartInv
<1>11. FileInv'
    BY <1>1, <1>2, <1>5, <1>6 DEF ThreadsInv, FileInv
<1>12. TypeOK'
    BY <1>1, <1>5 DEF ThreadsInv, TypeOK, ReaderAt
<1>13. QED
    BY <1>7, <1>8, <1>9, <1>10, <1>11, <1>12 DEF ThreadsInv

\* The mutex keeps the writer's iterator out of the way of the splice.
LEMMA InsertStep ==
    ASSUME ThreadsInv, RInsert
    PROVE  ThreadsInv'
<1>1. /\ UNCHANGED <<heap, kind, mq, lock, rmsg, addrOk, wpc, wentry, whead, answered, main, unread>>
      /\ UNCHANGED <<restarts, stop_main_loop, process, file>>
      /\ queue' = Cons(rmsg, queue) /\ rpc = "insert" /\ rpc' = "dump" /\ lock = "none"
    BY DEF RInsert, writer, shared, start
<1>2. /\ rmsg \in Queueable /\ heap[rmsg] = "live" /\ rmsg \notin Range(queue)
      /\ queue \in Seq(Msgs) /\ rmsg \in Msgs /\ Distinct(queue)
    BY <1>1 DEF ThreadsInv, ReaderInv, TypeOK, ListInv, Queueable
<1>3. queue' \in Seq(Msgs) /\ Range(queue') = Range(queue) \cup {rmsg} /\ Distinct(queue')
    BY <1>1, <1>2, ConsInSeq, DistinctCons
<1>4. UNCHANGED Queueable
    BY <1>1 DEF Queueable
<1>5. ListInv'
    BY <1>1, <1>2, <1>3, <1>4 DEF ThreadsInv, ListInv
<1>6. ReaderInv'
    BY <1>1, <1>2 DEF ReaderInv
<1>7. WriterInv'
    BY <1>1 DEF ThreadsInv, WriterInv
<1>8. EntryInv' /\ StartInv'
    BY <1>1 DEF ThreadsInv, EntryInv, MqOK, StartInv
<1>9. FileInv'
    BY <1>1, <1>4 DEF ThreadsInv, FileInv
<1>10. TypeOK'
    BY <1>1, <1>3 DEF ThreadsInv, TypeOK, ReaderAt
<1>11. QED
    BY <1>5, <1>6, <1>7, <1>8, <1>9, <1>10 DEF ThreadsInv

\* "delete smpl" frees what was not good enough for the list.
LEMMA DeleteStep ==
    ASSUME ThreadsInv, RDelete
    PROVE  ThreadsInv'
<1>1. /\ UNCHANGED <<queue, kind, mq, lock, addrOk, wpc, wentry, whead, answered, main, unread>>
      /\ UNCHANGED <<restarts, stop_main_loop, process, file>>
      /\ heap' = (IF kind[rmsg] = "bad" THEN [heap EXCEPT ![rmsg] = "freed"] ELSE heap)
      /\ rpc = "delete" /\ rpc' = "loop" /\ rmsg' = NoMsg
    BY DEF RDelete, writer, shared, start
<1>2. rmsg \in Msgs /\ heap \in [Msgs -> {"none", "live", "freed"}]
    BY <1>1 DEF ThreadsInv, ReaderInv, TypeOK
<1>3. /\ heap' \in [Msgs -> {"none", "live", "freed"}]
      /\ \A n \in Queueable : n \in Msgs /\ heap'[n] = heap[n]
    BY <1>1, <1>2 DEF Queueable
<1>4. UNCHANGED Queueable
    BY <1>1 DEF Queueable
<1>5. ListInv'
    BY <1>1, <1>3, <1>4 DEF ThreadsInv, ListInv
<1>6. ReaderInv'
    BY <1>1 DEF ReaderInv
<1>7. WriterInv'
    BY <1>1, <1>3, <1>4 DEF ThreadsInv, WriterInv
<1>8. EntryInv' /\ StartInv'
    BY <1>1 DEF ThreadsInv, EntryInv, MqOK, StartInv
<1>9. FileInv'
    <2>1. \A n \in Range(file) : heap'[n] = heap[n]
        BY <1>3 DEF ThreadsInv, FileInv
    <2>2. QED
        BY <1>1, <1>4, <2>1 DEF ThreadsInv, FileInv
<1>10. TypeOK'
    BY <1>1, <1>3 DEF ThreadsInv, TypeOK, ReaderAt
<1>11. QED
    BY <1>5, <1>6, <1>7, <1>8, <1>9, <1>10 DEF ThreadsInv

\* Both threads save the list: what they write is allocated, so no record of it
\* waits for an object.
LEMMA SaveSteps ==
    ASSUME ThreadsInv, CleaupAfterMainreaderLoop \/ WSave
    PROVE  ThreadsInv'
<1>1. /\ UNCHANGED <<queue, heap, kind, mq, lock, rmsg, addrOk, wentry, whead, answered, main, unread>>
      /\ UNCHANGED <<restarts, stop_main_loop, process>>
      /\ file' \in {queue, file}
      /\ \/ rpc = "cleanup" /\ rpc' = "done" /\ UNCHANGED wpc
         \/ wpc = "saving" /\ wpc' = "loop" /\ UNCHANGED rpc
    BY DEF CleaupAfterMainreaderLoop, WSave, memory, reader, writer, start
<1>2. UNCHANGED Queueable
    BY <1>1 DEF Queueable
<1>3. ListInv'
    BY <1>1, <1>2 DEF ThreadsInv, ListInv
<1>4. ReaderInv'
    BY <1>1, <1>2 DEF ThreadsInv, ReaderInv
<1>5. WriterInv'
    BY <1>1, <1>2 DEF ThreadsInv, WriterInv
<1>6. EntryInv' /\ StartInv'
    BY <1>1 DEF ThreadsInv, EntryInv, MqOK, StartInv
<1>7. FileInv'
    <2>1. \A m \in Range(queue) : m \in Queueable /\ heap[m] = "live"
        BY DEF ThreadsInv, ListInv
    <2>2. /\ Distinct(file') /\ Range(file') \subseteq Queueable
          /\ \A m \in Range(file') : heap[m] = "none" => m \in Range(unread)
        BY <1>1, <2>1 DEF ThreadsInv, ListInv, FileInv
    <2>3. QED
        BY <1>1, <1>2, <2>2 DEF ThreadsInv, FileInv
<1>8. TypeOK'
    BY <1>1 DEF ThreadsInv, TypeOK, ReaderAt, WriterAt
<1>9. QED
    BY <1>3, <1>4, <1>5, <1>6, <1>7, <1>8 DEF ThreadsInv

-----------------------------------------------------------------------------
(* The writer's steps that change the list.                                *)

\* Free() frees what it is given and nothing else.
LEMMA FreeHeap ==
    ASSUME ThreadsInv, NEW fr, Free(fr)
    PROVE  /\ heap' \in [Msgs -> {"none", "live", "freed"}]
           /\ \A m \in Msgs : heap'[m] = IF m \in fr THEN "freed" ELSE heap[m]
BY DEF Free, ThreadsInv, TypeOK

\* The head of the list is reordered, or some of the list is taken out and only
\* that is freed: neither thread holds a pointer that is lost by it.
LEMMA ListShrinks ==
    ASSUME ThreadsInv, NEW fr, fr \cap Range(queue') = {}, fr \subseteq Range(queue) \cup {NoMsg},
           heap' \in [Msgs -> {"none", "live", "freed"}],
           \A m \in Msgs : heap'[m] = IF m \in fr THEN "freed" ELSE heap[m],
           queue' \in Seq(Msgs), Distinct(queue'), Range(queue') \subseteq Range(queue),
           Processing, Processed, stop_main_loop' \in BOOLEAN,
           UNCHANGED <<kind, mq, lock, reader, wentry, whead, answered, start, process, file>>
    PROVE  ThreadsInv'
<1>1. UNCHANGED Queueable
    BY DEF Queueable
<1>2. Range(queue) \subseteq Msgs /\ \A m \in Range(queue) : heap[m] = "live"
    BY DEF ThreadsInv, ListInv, Queueable
<1>3. lock = "none" /\ wpc = "process" /\ wpc' \in {"saving", "loop"}
    BY DEF Processing, Processed
<1>4. whead = NoMsg /\ whead' = NoMsg
    BY <1>3 DEF ThreadsInv, WriterInv
<1>5. \A m \in Msgs : (heap'[m] = "none") = (heap[m] = "none")
    BY <1>2, NoMsgAssumption
<1>6. ListInv'
    BY <1>1, <1>2 DEF ThreadsInv, ListInv
<1>7. ReaderInv'
    <2>1. UNCHANGED <<rpc, rmsg>>
        BY DEF reader
    <2>2. CASE rpc = "insert"
        <3>1. rmsg \in Queueable /\ heap[rmsg] = "live" /\ rmsg \notin Range(queue) /\ rmsg \in Msgs
            BY <2>2 DEF ThreadsInv, ReaderInv, Queueable
        <3>2. rmsg \notin fr /\ rmsg # NoMsg
            BY <3>1, NoMsgAssumption
        <3>3. QED
            BY <1>1, <1>4, <2>1, <2>2, <3>1, <3>2 DEF ReaderInv
    <2>3. QED
        BY <2>1, <2>2 DEF ThreadsInv, ReaderInv
<1>8. WriterInv'
    BY <1>3, <1>4 DEF WriterInv
<1>9. EntryInv' /\ StartInv'
    BY <1>3 DEF ThreadsInv, EntryInv, MqOK, StartInv, start, reader
<1>10. FileInv'
    <2>1. UNCHANGED <<rpc, rmsg, unread, file>>
        BY DEF reader, start
    <2>2. Range(file) \subseteq Msgs /\ Range(unread) \subseteq Msgs
        BY DEF ThreadsInv, FileInv, Queueable
    <2>3. unread # <<>> => Range(Tail(unread)) \subseteq Msgs /\ Head(unread) \in Msgs
        BY <2>2, DistinctTail DEF ThreadsInv, FileInv, TypeOK
    <2>4. QED
        BY <1>1, <1>5, <2>1, <2>2, <2>3 DEF ThreadsInv, FileInv
<1>11. TypeOK'
    BY <1>3, <1>4 DEF ThreadsInv, TypeOK, WriterAt, reader, start
<1>12. QED
    BY <1>6, <1>7, <1>8, <1>9, <1>10, <1>11 DEF ThreadsInv

\* The head of the list and the others.
LEMMA HeadAndTail ==
    ASSUME ThreadsInv, queue # <<>>
    PROVE  /\ queue \in Seq(Msgs) /\ Head(queue) \in Msgs /\ Tail(queue) \in Seq(Msgs)
           /\ Distinct(Tail(queue)) /\ Head(queue) \in Range(queue)
           /\ Head(queue) \notin Range(Tail(queue))
           /\ Range(Tail(queue)) = Range(queue) \ {Head(queue)}
           /\ Len(queue) \in Nat /\ Len(Tail(queue)) = Len(queue) - 1
<1>1. queue \in Seq(Msgs) /\ Distinct(queue)
    BY DEF ThreadsInv, TypeOK, ListInv
<1>2. Len(queue) \in Nat /\ Len(Tail(queue)) = Len(queue) - 1
    BY <1>1, LenProperties, HeadTailProperties
<1>3. QED
    BY <1>1, <1>2, DistinctTail

\* set_state() moves the head to its new place; a zap frees another node.
LEMMA MoveStep ==
    ASSUME ThreadsInv, NEW z, WMove(z)
    PROVE  ThreadsInv'
<1> DEFINE h == Head(queue)
           rest == RemoveFirst(Tail(queue), z)
<1>1. queue # <<>> /\ Zap(z) /\ Free({z}) /\ Processing /\ Processed
      /\ UNCHANGED <<kind, mq, lock, reader, wentry, whead, answered, start, process, file,
                     stop_main_loop>>
    BY DEF WMove, AtHead, shared
<1>2. PICK i \in 1..(Len(rest) + 1) : queue' = InsertAt(rest, i, h)
    BY DEF WMove
<1>3. /\ rest \in Seq(Msgs) /\ Distinct(rest) /\ Range(rest) = Range(Tail(queue)) \ {z}
      /\ h \in Msgs /\ h \notin Range(Tail(queue)) /\ h \in Range(queue)
      /\ Range(Tail(queue)) = Range(queue) \ {h}
    BY <1>1, HeadAndTail, DistinctRemoveFirst
<1>4. z = NoMsg \/ z \in Range(Tail(queue))
    BY <1>1 DEF Zap
<1> HIDE DEF h, rest
<1>5. queue' \in Seq(Msgs) /\ Distinct(queue') /\ Range(queue') = Range(rest) \cup {h}
    BY <1>2, <1>3, InsertAtInSeq, DistinctInsertAt
<1>6. /\ heap' \in [Msgs -> {"none", "live", "freed"}]
      /\ \A m \in Msgs : heap'[m] = IF m \in {z} THEN "freed" ELSE heap[m]
    BY <1>1, FreeHeap
<1>7. {z} \cap Range(queue') = {} /\ {z} \subseteq Range(queue) \cup {NoMsg}
      /\ Range(queue') \subseteq Range(queue)
    BY <1>3, <1>4, <1>5, NoMsgAssumption
<1>8. stop_main_loop' \in BOOLEAN
    BY <1>1 DEF ThreadsInv, TypeOK
<1>9. QED
    BY <1>1, <1>5, <1>6, <1>7, <1>8, ListShrinks

\* The writer deletes the head.
LEMMA DeleteHeadStep ==
    ASSUME ThreadsInv, WDelete
    PROVE  ThreadsInv'
<1> DEFINE fr == {Head(queue)}
<1>1. queue # <<>> /\ queue' = Tail(queue) /\ Free(fr) /\ Processing /\ Processed
      /\ UNCHANGED <<kind, mq, lock, reader, wentry, whead, answered, start, process, file,
                     stop_main_loop>>
    BY DEF WDelete, AtHead, shared
<1>2. /\ queue' \in Seq(Msgs) /\ Distinct(queue') /\ Range(queue') \subseteq Range(queue)
      /\ fr \cap Range(queue') = {} /\ fr \subseteq Range(queue) \cup {NoMsg}
    BY <1>1, HeadAndTail
<1>3. stop_main_loop' \in BOOLEAN
    BY <1>1 DEF ThreadsInv, TypeOK
<1> HIDE DEF fr
<1>4. /\ heap' \in [Msgs -> {"none", "live", "freed"}]
      /\ \A m \in Msgs : heap'[m] = IF m \in fr THEN "freed" ELSE heap[m]
    BY <1>1, FreeHeap
<1>5. QED
    BY <1>1, <1>2, <1>3, <1>4, ListShrinks

\* The writer deletes the message that an answer is for.
LEMMA DeliveredStep ==
    ASSUME ThreadsInv, WDelivered
    PROVE  ThreadsInv'
<1>1. queue # <<>> /\ Processing /\ Processed
      /\ UNCHANGED <<kind, mq, lock, reader, wentry, whead, answered, start, process, file,
                     stop_main_loop>>
    BY DEF WDelivered, AtHead, shared
<1>2. PICK a \in Range(Tail(queue)) :
           queue' = RemoveFirst(Tail(queue), a) /\ Free({Head(queue), a})
    BY DEF WDelivered
<1> DEFINE fr == {Head(queue), a}
<1>3. /\ queue' \in Seq(Msgs) /\ Distinct(queue') /\ Range(queue') = Range(Tail(queue)) \ {a}
    BY <1>1, <1>2, HeadAndTail, DistinctRemoveFirst
<1>4. fr \cap Range(queue') = {} /\ fr \subseteq Range(queue) \cup {NoMsg}
      /\ Range(queue') \subseteq Range(queue)
    BY <1>1, <1>3, HeadAndTail
<1>5. stop_main_loop' \in BOOLEAN
    BY <1>1 DEF ThreadsInv, TypeOK
<1> HIDE DEF fr
<1>6. /\ heap' \in [Msgs -> {"none", "live", "freed"}]
      /\ \A m \in Msgs : heap'[m] = IF m \in fr THEN "freed" ELSE heap[m]
    BY <1>2, FreeHeap DEF fr
<1>7. QED
    BY <1>1, <1>3, <1>4, <1>5, <1>6, ListShrinks

\* The writer runs the quit command.
LEMMA QuitStep ==
    ASSUME ThreadsInv, WQuit
    PROVE  ThreadsInv'
<1>1. queue # <<>> /\ Processing /\ Processed /\ stop_main_loop' = TRUE
      /\ UNCHANGED <<heap, kind, mq, lock, reader, wentry, whead, answered, start, process, file>>
    BY DEF WQuit, AtHead
<1>2. PICK i \in 1..Len(queue) : queue' = InsertAt(Tail(queue), i, Head(queue))
    BY DEF WQuit
<1>3. /\ Tail(queue) \in Seq(Msgs) /\ Head(queue) \in Msgs /\ i \in 1..(Len(Tail(queue)) + 1)
      /\ Distinct(Tail(queue)) /\ Head(queue) \notin Range(Tail(queue))
      /\ Range(Tail(queue)) = Range(queue) \ {Head(queue)} /\ Head(queue) \in Range(queue)
    BY <1>1, HeadAndTail
<1>4. queue' \in Seq(Msgs) /\ Distinct(queue') /\ Range(queue') = Range(Tail(queue)) \cup {Head(queue)}
    <2> DEFINE t == Tail(queue)
               h == Head(queue)
    <2>1. /\ t \in Seq(Msgs) /\ h \in Msgs /\ i \in 1..(Len(t) + 1) /\ Distinct(t) /\ h \notin Range(t)
          /\ queue' = InsertAt(t, i, h)
        BY <1>2, <1>3
    <2> HIDE DEF t, h
    <2>2. queue' \in Seq(Msgs) /\ Distinct(queue') /\ Range(queue') = Range(t) \cup {h}
        BY <2>1, InsertAtInSeq, DistinctInsertAt
    <2>3. QED
        BY <2>2 DEF t, h
<1>5. /\ heap' \in [Msgs -> {"none", "live", "freed"}]
      /\ \A m \in Msgs : heap'[m] = IF m \in {} THEN "freed" ELSE heap[m]
    BY <1>1 DEF ThreadsInv, TypeOK
<1>6. {} \cap Range(queue') = {} /\ {} \subseteq Range(queue) \cup {NoMsg}
      /\ Range(queue') \subseteq Range(queue) /\ stop_main_loop' \in BOOLEAN
    BY <1>1, <1>3, <1>4
<1>7. QED
    BY <1>1, <1>4, <1>5, <1>6, ListShrinks

\* WOriginate: the new message goes to the front; the head, which the iterator
\* stays at, is behind it or, a response, out of the list and not yet freed.
LEMMA OriginateStep ==
    ASSUME ThreadsInv, NEW m \in Msgs, NEW z, WOriginate(m, z)
    PROVE  ThreadsInv'
<1> DEFINE h == Head(queue)
           rest == RemoveFirst(Tail(queue), z)
           after == IF kind[h] = "response" THEN rest ELSE Cons(h, rest)
<1>1. /\ queue # <<>> /\ Zap(z) /\ m \in Unborn /\ wpc = "process" /\ lock = "none"
      /\ queue' = Cons(m, after)
      /\ heap' = [n \in Msgs |-> IF n = m THEN "live" ELSE IF n = z THEN "freed" ELSE heap[n]]
      /\ kind' = [kind EXCEPT ![m] = "own"]
      /\ whead' = h /\ lock' = "writer" /\ wpc' = "notify"
      /\ UNCHANGED <<mq, rpc, rmsg, addrOk, wentry, answered, main, unread, restarts>>
      /\ UNCHANGED <<stop_main_loop, process, file>>
    BY DEF WOriginate, AtHead, Processing, reader, shared, start
<1>2. /\ queue \in Seq(Msgs) /\ rest \in Seq(Msgs) /\ Distinct(rest)
      /\ Range(rest) = Range(Tail(queue)) \ {z}
      /\ h \in Msgs /\ h \notin Range(Tail(queue)) /\ h \in Range(queue)
      /\ Range(Tail(queue)) = Range(queue) \ {h}
    BY <1>1, HeadAndTail, DistinctRemoveFirst
<1>3. z = NoMsg \/ z \in Range(Tail(queue))
    BY <1>1 DEF Zap
<1>4. /\ heap[m] = "none" /\ m \notin Range(queue)
      /\ m \notin Range(file) /\ m \notin Range(unread)
      /\ rpc = "insert" => m # rmsg
    BY <1>1, UnbornIsNew
<1>5. \A n \in Range(queue) : n \in Msgs /\ n \in Queueable /\ heap[n] = "live"
    BY DEF ThreadsInv, ListInv, Queueable
<1>6. /\ heap \in [Msgs -> {"none", "live", "freed"}]
      /\ kind \in [Msgs -> {"none", "request", "response", "bad", "own"}]
    BY DEF ThreadsInv, TypeOK
<1> HIDE DEF h, rest
<1>7. /\ heap' \in [Msgs -> {"none", "live", "freed"}]
      /\ kind' \in [Msgs -> {"none", "request", "response", "bad", "own"}]
      /\ heap'[m] = "live" /\ kind'[m] = "own"
      /\ \A n \in Msgs : n # m => heap'[n] = (IF n = z THEN "freed" ELSE heap[n]) /\ kind'[n] = kind[n]
    BY <1>1, <1>6
<1>8. /\ m \in Queueable' /\ \A n \in Queueable : n \in Msgs /\ (n # m => n \in Queueable')
    BY <1>7 DEF Queueable
<1>9. /\ after \in Seq(Msgs) /\ Distinct(after)
      /\ Range(after) = (IF kind[h] = "response" THEN Range(rest) ELSE Range(rest) \cup {h})
    <2>1. rest \in Seq(Msgs) /\ Distinct(rest) /\ h \in Msgs /\ h \notin Range(rest)
        BY <1>2
    <2>2. Cons(h, rest) \in Seq(Msgs)
        BY <2>1, ConsInSeq
    <2>3. Distinct(Cons(h, rest)) /\ Range(Cons(h, rest)) = Range(rest) \cup {h}
        BY <2>1, DistinctCons
    <2>4. QED
        BY <2>1, <2>2, <2>3
<1>10. Range(after) \subseteq Range(queue) /\ m \notin Range(after) /\ z \notin Range(after)
    BY <1>2, <1>3, <1>4, <1>5, <1>9, NoMsgAssumption
<1>11. kind[h] # "response" => Len(after) >= 1 /\ after[1] = h
    <2>1. Len(rest) \in Nat /\ rest \in Seq(Msgs) /\ h \in Msgs
        BY <1>2, LenProperties
    <2>2. /\ Len(Cons(h, rest)) = Len(rest) + 1
          /\ \A j \in 1..(Len(rest) + 1) : Cons(h, rest)[j] = IF j = 1 THEN h ELSE rest[j - 1]
        BY <2>1, ConsProperties
    <2>3. QED
        BY <2>1, <2>2
<1> HIDE DEF after
<1>12. queue' \in Seq(Msgs) /\ Distinct(queue') /\ Range(queue') = Range(after) \cup {m}
    BY <1>1, <1>9, <1>10, ConsInSeq, DistinctCons
<1>13. Len(after) \in Nat /\ Len(queue') = Len(after) + 1
       /\ (Len(after) >= 1 => queue'[2] = after[1])
    <2>1. Len(after) \in Nat
        BY <1>9, LenProperties
    <2>2. /\ Len(Cons(m, after)) = Len(after) + 1
          /\ \A j \in 1..(Len(after) + 1) : Cons(m, after)[j] = IF j = 1 THEN m ELSE after[j - 1]
        BY <1>9, ConsProperties
    <2>3. QED
        BY <1>1, <2>1, <2>2
<1>14. ListInv'
    <2>1. \A n \in Range(after) : n # m /\ n # z /\ n \in Queueable /\ n \in Msgs /\ heap[n] = "live"
        BY <1>5, <1>10
    <2>2. \A n \in Range(queue') : n \in Queueable' /\ heap'[n] = "live"
        BY <1>7, <1>8, <1>12, <2>1
    <2>3. QED
        BY <1>12, <2>2 DEF ListInv
<1>15. h # z /\ h # m /\ h \in Queueable' /\ heap'[h] = "live" /\ kind'[h] = kind[h] /\ h # NoMsg
    BY <1>2, <1>3, <1>4, <1>5, <1>7, <1>8, NoMsgAssumption
<1>16. WriterInv'
    <2>1. kind[h] = "response" => h \notin Range(queue')
        BY <1>2, <1>9, <1>12, <1>15
    <2>2. kind[h] # "response" => Len(queue') >= 2 /\ queue'[2] = h
        BY <1>11, <1>13
    <2>3. QED
        BY <1>1, <1>15, <2>1, <2>2 DEF WriterInv
<1>17. ReaderInv'
    <2>1. CASE rpc = "insert"
        <3>1. rmsg \in Queueable /\ heap[rmsg] = "live" /\ rmsg \notin Range(queue) /\ rmsg # m
            BY <1>4, <2>1 DEF ThreadsInv, ReaderInv
        <3>2. rmsg \in Msgs /\ rmsg # z /\ rmsg # h /\ rmsg \notin Range(queue')
            BY <1>2, <1>3, <1>10, <1>12, <3>1, NoMsgAssumption DEF Queueable
        <3>3. QED
            BY <1>1, <1>7, <1>8, <2>1, <3>1, <3>2 DEF ReaderInv
    <2>2. CASE rpc # "insert"
        BY <1>1, <2>2 DEF ThreadsInv, ReaderInv
    <2>3. QED
        BY <2>1, <2>2
<1>18. EntryInv' /\ StartInv'
    BY <1>1 DEF ThreadsInv, EntryInv, MqOK, StartInv
<1>19. FileInv'
    <2>1. \A n \in Msgs : heap'[n] = "none" => heap[n] = "none"
        BY <1>7
    <2>2. \A n \in Msgs : n # m /\ heap[n] = "none" => heap'[n] = "none"
        BY <1>2, <1>3, <1>5, <1>7, NoMsgAssumption
    <2>3. /\ Range(file) \subseteq Msgs /\ Range(unread) \subseteq Msgs
          /\ Range(file) \cup Range(unread) \subseteq Queueable'
        BY <1>4, <1>8 DEF ThreadsInv, FileInv
    <2>4. unread # <<>> => /\ Range(Tail(unread)) \subseteq Range(unread)
                          /\ Head(unread) \in Range(unread)
        BY DistinctTail DEF ThreadsInv, FileInv, TypeOK
    <2>5. \A n \in Range(file) : heap'[n] = "none" => n \in Range(unread)
        BY <2>1, <2>3 DEF ThreadsInv, FileInv
    <2>6. rpc \in {"off", "load"} => \A n \in Range(unread) : heap'[n] = "none"
        BY <1>4, <2>2, <2>3 DEF ThreadsInv, FileInv
    <2>7. rpc \in {"insert", "dump", "notify"} /\ unread # <<>> =>
            /\ rmsg = Head(unread) /\ heap'[rmsg] # "none"
            /\ \A n \in Range(Tail(unread)) : heap'[n] = "none"
        BY <1>4, <2>1, <2>2, <2>3, <2>4 DEF ThreadsInv, FileInv
    <2>8. QED
        BY <1>1, <2>3, <2>5, <2>6, <2>7 DEF ThreadsInv, FileInv
<1>20. TypeOK'
    BY <1>1, <1>2, <1>7, <1>12 DEF ThreadsInv, TypeOK, WriterAt
<1>21. QED
    BY <1>14, <1>16, <1>17, <1>18, <1>19, <1>20 DEF ThreadsInv

\* WNotify: the head is moved or freed at last, and the mutex released.
LEMMA NotifySelfStep ==
    ASSUME ThreadsInv, WNotify
    PROVE  ThreadsInv'
<1>1. /\ UNCHANGED <<kind, rpc, rmsg, addrOk, wentry, answered, main, unread, restarts>>
      /\ UNCHANGED <<stop_main_loop, process, file>>
      /\ wpc = "notify" /\ wpc' \in {"saving", "loop"} /\ lock' = "none" /\ whead' = NoMsg
    BY DEF WNotify, Processed, reader, shared, start
<1>2. /\ whead \in Queueable /\ whead \in Msgs /\ heap[whead] = "live"
      /\ kind[whead] = "response" => whead \notin Range(queue)
      /\ kind[whead] # "response" => Len(queue) >= 2 /\ queue[2] = whead
    BY <1>1 DEF ThreadsInv, WriterInv, Queueable
<1>3. MqOK'
    BY SendKeeps, EntriesAreEntries DEF WNotify, ThreadsInv, EntryInv
<1>4. queue \in Seq(Msgs) /\ Distinct(queue) /\ heap \in [Msgs -> {"none", "live", "freed"}]
    BY DEF ThreadsInv, TypeOK, ListInv
<1>5. /\ queue' \in Seq(Msgs) /\ Distinct(queue') /\ Range(queue') = Range(queue)
      /\ heap' \in [Msgs -> {"none", "live", "freed"}]
      /\ \A n \in Msgs : heap'[n] = heap[n] \/ (heap'[n] = "freed" /\ n = whead /\ whead \notin Range(queue))
    <2>1. CASE kind[whead] = "response"
        <3>1. queue' = queue /\ Free({whead})
            BY <2>1 DEF WNotify
        <3>2. QED
            BY <1>2, <1>4, <2>1, <3>1, FreeHeap
    <2>2. CASE kind[whead] # "response"
        <3> DEFINE r == RemoveFirst(queue, whead)
        <3>1. heap' = heap /\ \E i \in 1..Len(queue) : queue' = InsertAt(r, i, whead)
            BY <2>2 DEF WNotify
        <3>2. whead \in Range(queue) /\ Len(queue) \in Nat
            BY <1>2, <1>4, <2>2, RangeEquality, LenProperties
        <3>3. r \in Seq(Msgs) /\ Distinct(r) /\ Range(r) = Range(queue) \ {whead} /\ Len(r) = Len(queue) - 1
            BY <1>4, <3>2, DistinctRemoveFirst
        <3> HIDE DEF r
        <3>4. PICK i \in 1..(Len(r) + 1) : queue' = InsertAt(r, i, whead)
            BY <3>1, <3>2, <3>3
        <3>5. queue' \in Seq(Msgs) /\ Distinct(queue') /\ Range(queue') = Range(r) \cup {whead}
            BY <1>2, <3>3, <3>4, InsertAtInSeq, DistinctInsertAt
        <3>6. QED
            BY <1>4, <3>1, <3>2, <3>3, <3>5
    <2>3. QED
        BY <2>1, <2>2
<1>6. UNCHANGED Queueable
    BY <1>1 DEF Queueable
<1>7. ListInv'
    BY <1>5, <1>6 DEF ThreadsInv, ListInv, Queueable
<1>8. ReaderInv'
    <2>1. CASE rpc = "insert"
        <3>1. rmsg \in Queueable /\ heap[rmsg] = "live" /\ rmsg \notin Range(queue) /\ rmsg # whead
              /\ rmsg \in Msgs
            BY <2>1 DEF ThreadsInv, ReaderInv, Queueable
        <3>2. QED
            BY <1>1, <1>5, <1>6, <2>1, <3>1, NoMsgAssumption DEF ReaderInv
    <2>2. CASE rpc # "insert"
        BY <1>1, <2>2 DEF ThreadsInv, ReaderInv
    <2>3. QED
        BY <2>1, <2>2
<1>9. WriterInv'
    BY <1>1 DEF WriterInv
<1>10. EntryInv' /\ StartInv'
    BY <1>1, <1>3 DEF ThreadsInv, EntryInv, StartInv
<1>11. FileInv'
    <2>1. \A n \in Msgs : (heap'[n] = "none") = (heap[n] = "none")
        BY <1>2, <1>5
    <2>2. Range(file) \subseteq Msgs /\ Range(unread) \subseteq Msgs
        BY DEF ThreadsInv, FileInv, Queueable
    <2>3. unread # <<>> => Range(Tail(unread)) \subseteq Msgs /\ Head(unread) \in Msgs
        BY <2>2, DistinctTail DEF ThreadsInv, FileInv, TypeOK
    <2>4. QED
        BY <1>1, <1>6, <2>1, <2>2, <2>3 DEF ThreadsInv, FileInv
<1>12. TypeOK'
    BY <1>1, <1>3, <1>5 DEF ThreadsInv, TypeOK, MqOK, WriterAt
<1>13. QED
    BY <1>7, <1>8, <1>9, <1>10, <1>11, <1>12 DEF ThreadsInv

-----------------------------------------------------------------------------
(* Starting, again and again.                                              *)

\* A new process starts with an empty list.
LEMMA RestartStep ==
    ASSUME ThreadsInv, Restart
    PROVE  ThreadsInv'
<1>1. /\ queue' = <<>> /\ unread' = Reverse(file) /\ UNCHANGED <<kind, file, answered>>
      /\ heap' = [m \in Msgs |-> IF heap[m] = "none" \/ m \in Range(file) THEN "none" ELSE "freed"]
      /\ mq' = [i \in 1..Len(mq) |-> Stale] /\ lock' = "none"
      /\ rpc' = "off" /\ rmsg' = NoMsg /\ addrOk' = TRUE
      /\ wpc' = "off" /\ wentry' = Nothing /\ whead' = NoMsg
      /\ restarts' = restarts + 1 /\ restarts < MaxRestarts
      /\ process' = "runs" /\ main' = "reader" /\ stop_main_loop' = FALSE
    BY DEF Restart
<1>2. MqOK'
    BY <1>1, RestartKeeps DEF ThreadsInv, EntryInv
<1>3. file \in Seq(Msgs) /\ Distinct(file) /\ Range(file) \subseteq Queueable /\ UNCHANGED Queueable
    BY <1>1 DEF ThreadsInv, TypeOK, FileInv, Queueable
<1>4. unread' \in Seq(Msgs) /\ Distinct(unread') /\ Range(unread') = Range(file)
    BY <1>1, <1>3, DistinctReverse
<1>5. ListInv'
    BY <1>1 DEF ListInv, Distinct, Range
<1>6. FileInv'
    <2>1. \A m \in Range(file) : heap'[m] = "none"
        BY <1>1, <1>3 DEF Queueable
    <2>2. QED
        BY <1>1, <1>3, <1>4, <2>1 DEF FileInv
<1>7. ReaderInv' /\ WriterInv' /\ StartInv'
    BY <1>1 DEF ReaderInv, WriterInv, StartInv
<1>8. EntryInv'
    BY <1>1, <1>2 DEF EntryInv
<1>9. TypeOK'
    <2>1. queue' \in Seq(Msgs) /\ restarts' \in 0..MaxRestarts
        BY <1>1, OwnAssumption DEF ThreadsInv, TypeOK
    <2>2. heap' \in [Msgs -> {"none", "live", "freed"}]
        BY <1>1
    <2>3. QED
        BY <1>1, <1>2, <1>4, <2>1, <2>2, EntriesAreEntries DEF ThreadsInv, TypeOK, MqOK, ReaderAt, WriterAt
<1>10. QED
    BY <1>5, <1>6, <1>7, <1>8, <1>9 DEF ThreadsInv

\* Before the threads start, the invariant holds.
LEMMA ThreadsInvInit == Init => ThreadsInv
<1> SUFFICES ASSUME Init PROVE ThreadsInv
    OBVIOUS
<1>1. /\ queue = <<>> /\ mq = <<>> /\ file = <<>> /\ unread = <<>>
      /\ Range(<<>>) = {} /\ Distinct(<<>>) /\ Len(<<>>) = 0
    BY DEF Init, Range, Distinct
<1>2. MqOK
    BY <1>1, MqAssumption DEF MqOK
<1>3. ListInv /\ ReaderInv /\ WriterInv /\ StartInv
    BY <1>1 DEF Init, ListInv, ReaderInv, WriterInv, StartInv
<1>4. EntryInv
    BY <1>2 DEF Init, EntryInv
<1>5. FileInv
    BY <1>1 DEF Init, FileInv
<1>6. TypeOK
    <2>1. mq \in Seq(Entry) /\ Len(mq) <= MqMax /\ wentry \in Entry
        BY <1>2, EntriesAreEntries DEF Init, MqOK
    <2>2. queue \in Seq(Msgs) /\ file \in Seq(Msgs) /\ unread \in Seq(Msgs)
        BY <1>1
    <2>3. restarts \in 0..MaxRestarts
        BY OwnAssumption DEF Init
    <2>4. /\ heap \in [Msgs -> {"none", "live", "freed"}]
          /\ kind \in [Msgs -> {"none", "request", "response", "bad", "own"}]
        BY DEF Init
    <2>5. QED
        BY <2>1, <2>2, <2>3, <2>4 DEF Init, TypeOK, ReaderAt, WriterAt
<1>7. QED
    BY <1>3, <1>4, <1>5, <1>6 DEF ThreadsInv

\* Each step keeps the invariant.
LEMMA ThreadsInvNext == ThreadsInv /\ [Next]_vars => ThreadsInv'
<1> SUFFICES ASSUME ThreadsInv, [Next]_vars PROVE ThreadsInv'
    OBVIOUS
<1>1. CASE Reader
    BY <1>1, ReaderQuiet, NotifyStep, LoadStep, ReceiveStep, InsertStep, DeleteStep, SaveSteps
       DEF Reader
<1>2. CASE Writer
    BY <1>2, WriterQuiet, MoveStep, DeleteHeadStep, DeliveredStep, QuitStep, OriginateStep,
       NotifySelfStep, SaveSteps DEF Writer
<1>3. CASE UNCHANGED vars
    <2> USE <1>3 DEF vars, ThreadsInv
    <2>1. TypeOK'
        BY DEF TypeOK
    <2>2. ListInv' /\ ReaderInv'
        BY DEF ListInv, ReaderInv, Queueable
    <2>3. WriterInv' /\ EntryInv' /\ StartInv'
        BY DEF WriterInv, EntryInv, MqOK, StartInv, Queueable
    <2>4. FileInv'
        BY DEF FileInv, Queueable
    <2>5. QED
        BY <2>1, <2>2, <2>3, <2>4
<1>4. QED
    BY <1>1, <1>2, <1>3, MainStep, RestartStep DEF Next

-----------------------------------------------------------------------------
(* Theorems.                                                               *)

\* What the threads keep between them: who owns a node, who holds the mutex,
\* which records of the save file are still to be read.
THEOREM ThreadsInvariant == Spec => []ThreadsInv
BY ThreadsInvInit, ThreadsInvNext, PTL DEF Spec

\* Every variable has its type, and the message queue never holds more than
\* MQ_MAX_NUM_OF_MESSAGES entries.
THEOREM TypeCorrect == Spec => []TypeOK
<1>1. ThreadsInv => TypeOK
    BY DEF ThreadsInv
<1>2. QED
    BY <1>1, ThreadsInvariant, PTL

\* What is in time_sorted_list is allocated and there once, whatever the reader
\* splices, deletes or loads while the writer reorders and frees.
THEOREM ListStaysLive == Spec => []ListIsLive
<1>1. ThreadsInv => ListIsLive
    <2> SUFFICES ASSUME ThreadsInv PROVE ListIsLive
        OBVIOUS
    <2>1. queue \in Seq(Msgs) /\ Distinct(queue) /\ \A m \in Range(queue) : heap[m] = "live"
        BY DEF ThreadsInv, TypeOK, ListInv
    <2>2. Range(queue) = {queue[i] : i \in 1..Len(queue)}
        BY <2>1, RangeEquality
    <2>3. QED
        BY <2>1, <2>2 DEF ListIsLive, Distinct
<1>2. QED
    BY <1>1, ThreadsInvariant, PTL

\* The iterator of process_timeout() stays good while the writer originates
\* another message and blocks in mq_send().
THEOREM IteratorStaysValid == Spec => []IteratorValid
<1>1. ThreadsInv => IteratorValid
    BY DEF ThreadsInv, WriterInv, IteratorValid
<1>2. QED
    BY <1>1, ThreadsInvariant, PTL
=============================================================================
