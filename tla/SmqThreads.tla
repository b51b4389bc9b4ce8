----------------------------- MODULE SmqThreads -----------------------------
(***************************************************************************)
(* The threads of smqueue.  The reader takes datagrams from the network,   *)
(* puts the good ones into time_sorted_list and tells the writer through a *)
(* POSIX message queue of MqMax entries: once that there is something to   *)
(* process, once that the sender wants a SIP answer.  The writer handles   *)
(* the entries in order and the head of the list every 200 ms.  main()     *)
(* starts both threads, sleeps until stop_main_loop is set and then ends   *)
(* the process.  The process may be started again: it reads the save file  *)
(* and finds the message queue as its predecessor left it.                 *)
(*                                                                         *)
(* What a message says and when it is due belongs to SmqQueue.  Here it is *)
(* a piece of memory that two threads hold pointers to.                    *)
(***************************************************************************)
EXTENDS Integers, Sequences, FiniteSets, SequencesExt

CONSTANTS
    Msgs,       \* the short_msg_pending objects that can be allocated
    NoMsg,      \* no object
    MqMax,      \* MQ_MAX_NUM_OF_MESSAGES
    Kinds,      \* the kinds of datagram that arrive
    MaxOwn,     \* bound: messages smqueue originates
    Quits,      \* TRUE: the quit short code may be sent
    MaxRestarts \* bound: times the process is started again

ASSUME MqAssumption == MqMax \in Nat \ {0}
ASSUME KindsAssumption == Kinds \subseteq {"request", "response", "bad"}
ASSUME OwnAssumption == MaxOwn \in Nat /\ Quits \in BOOLEAN /\ MaxRestarts \in Nat
ASSUME NoMsgAssumption == NoMsg \notin Msgs

VARIABLES
    queue,          \* time_sorted_list, head first
    heap,           \* of each object: not yet allocated, allocated or freed
    kind,           \* of each object: what datagram it holds, or "own"
    mq,             \* the message queue "/SmqWriter", oldest entry first
    lock,           \* who holds sortedListMutex between two steps
    rpc, rmsg,      \* where the reader is, and its smp
    addrOk,         \* srcaddrlen as the reader read it is right
    wpc, wentry,    \* where the writer is, and the entry it has received
    whead,          \* the writer's iterator qmsg
    main,           \* what main() does next: "reader", "writer", "assign", "sleep"
    unread,         \* records of the save file still to be read, next first
    restarts,
    stop_main_loop,
    process,        \* "runs", "exited" or "crashed"
    file,           \* the messages in the save file
    answered        \* history: messages whose sender got a SIP answer

vars == <<queue, heap, kind, mq, lock, rpc, rmsg, addrOk, wpc, wentry, whead,
          main, unread, restarts, stop_main_loop, process, file, answered>>
memory == <<queue, heap, kind>>
reader == <<rpc, rmsg, addrOk>>
writer == <<wpc, wentry, whead, answered>>
start == <<main, unread, restarts>>
shared == <<start, stop_main_loop, process, file>>

Runs == process = "runs"
Unborn == {m \in Msgs : heap[m] = "none"} \ Range(unread)
Own == {m \in Msgs : kind[m] = "own"}

Incoming == [type |-> "incoming", msg |-> NoMsg, addr |-> TRUE]
Nothing == [type |-> "timeout", msg |-> NoMsg, addr |-> TRUE]
Ack(m, a) == [type |-> "ack", msg |-> m, addr |-> a]
\* An entry whose QueuedMsgHdrs is not there (any more).
Stale == [type |-> "stale", msg |-> NoMsg, addr |-> TRUE]
Entry == [type : {"incoming", "ack", "timeout", "stale"}, msg : Msgs \cup {NoMsg}, addr : BOOLEAN]

\* Mutant of SmqSendMessage: one entry more than the queue holds.
SendOverfull(e) == Len(mq) <= MqMax /\ mq' = Append(mq, e)

\* mq_send() on a blocking queue: waits while the queue is full.
SmqSendMessage(e) == Len(mq) < MqMax /\ mq' = Append(mq, e)

\* smqWriter is NULL until the constructor that starts the thread has returned.
smqWriter == main = "sleep"
Crashes == process' = "crashed" /\ UNCHANGED <<start, stop_main_loop, file>>

-----------------------------------------------------------------------------
(* The reader thread: SmqReaderThread() and main_loop().                   *)

\* Mutant of RLoad: "delete smpl" before the object is in the list.
RLoadFreed ==
    /\ Runs /\ rpc = "load" /\ unread # <<>>
    /\ heap' = [heap EXCEPT ![Head(unread)] = "freed"]
    /\ rmsg' = Head(unread)
    /\ rpc' = "insert"
    /\ UNCHANGED <<queue, kind, mq, lock, addrOk, writer, shared>>

\* read_queue_from_file(): the next record; a response is not put back and its
\* object deleted ...
RLoad ==
    /\ Runs /\ rpc = "load" /\ unread # <<>>
    /\ IF kind[Head(unread)] = "response"
       THEN /\ unread' = Tail(unread)
            /\ heap' = [heap EXCEPT ![Head(unread)] = "freed"]
            /\ UNCHANGED <<rpc, rmsg>>
       ELSE /\ heap' = [heap EXCEPT ![Head(unread)] = "live"]
            /\ rmsg' = Head(unread)
            /\ rpc' = "insert"
            /\ UNCHANGED unread
    /\ UNCHANGED <<queue, kind, mq, lock, addrOk, writer, main, restarts, stop_main_loop,
                   process, file>>

\* ... and when there is none, the loop begins.
RLoaded ==
    /\ Runs /\ rpc = "load" /\ unread = <<>>
    /\ rpc' = "loop"
    /\ UNCHANGED <<memory, mq, lock, rmsg, addrOk, writer, shared>>

RLoop ==
    /\ Runs /\ rpc = "loop"
    /\ rpc' = IF stop_main_loop THEN "cleanup" ELSE "poll"
    /\ UNCHANGED <<memory, mq, lock, rmsg, addrOk, writer, shared>>

\* get_next_dgram() gives up after 60 s, or fails.
RTimeout ==
    /\ Runs /\ rpc = "poll"
    /\ rpc' = "loop"
    /\ UNCHANGED <<memory, mq, lock, rmsg, addrOk, writer, shared>>

\* A datagram is copied into a new object and validated.
RReceive(m, k) ==
    /\ Runs /\ rpc = "poll" /\ m \in Unborn
    /\ heap' = [heap EXCEPT ![m] = "live"]
    /\ kind' = [kind EXCEPT ![m] = k]
    /\ rmsg' = m
    /\ rpc' = IF k = "bad" THEN "ack" ELSE "insert"
    /\ UNCHANGED <<queue, mq, lock, addrOk, writer, shared>>

\* Mutant of RInsert: the list is changed without sortedListMutex.
RInsertUnlocked ==
    /\ Runs /\ rpc = "insert"
    /\ queue' = Cons(rmsg, queue)
    /\ rpc' = "dump"
    /\ UNCHANGED <<heap, kind, mq, lock, rmsg, addrOk, writer, shared>>

\* insert_new_message(): splice at the front under the mutex ...
RInsert ==
    /\ Runs /\ rpc = "insert" /\ lock = "none"
    /\ queue' = Cons(rmsg, queue)
    /\ rpc' = "dump"
    /\ UNCHANGED <<heap, kind, mq, lock, rmsg, addrOk, writer, shared>>

\* ... debug_dump(), which takes the mutex once more to read the list ...
RDump ==
    /\ Runs /\ rpc = "dump" /\ lock = "none"
    /\ rpc' = "notify"
    /\ UNCHANGED <<memory, mq, lock, rmsg, addrOk, writer, shared>>

\* ... and ProcessReceivedMsg(), without the mutex.  A message of the save file
\* has no sender to answer.
RNotify ==
    /\ Runs /\ rpc = "notify" /\ smqWriter
    /\ SmqSendMessage(Incoming)
    /\ IF unread = <<>>
       THEN rpc' = "ack" /\ UNCHANGED <<rmsg, unread>>
       ELSE rpc' = "load" /\ rmsg' = NoMsg /\ unread' = Tail(unread)
    /\ UNCHANGED <<memory, lock, addrOk, writer, main, restarts, stop_main_loop, process, file>>

\* SendWriterMsg() does not look whether smqWriter is set.
RNoWriter ==
    /\ Runs /\ rpc = "notify" /\ ~smqWriter
    /\ Crashes
    /\ UNCHANGED <<memory, mq, lock, reader, writer>>

\* The arguments of queue_respond_sip_ack(): smp->srcaddrlen is read.  What is
\* found in freed memory may be anything.
RReadAddress ==
    /\ Runs /\ rpc = "ack"
    /\ addrOk' \in IF heap[rmsg] = "freed" THEN BOOLEAN ELSE {TRUE}
    /\ rpc' = "send"
    /\ UNCHANGED <<memory, mq, lock, rmsg, writer, shared>>

\* Mutant of RSendAck: mq_send() on a non-blocking queue, its error ignored.
RSendAckOrDrop ==
    /\ Runs /\ rpc = "send"
    /\ mq' = IF Len(mq) < MqMax THEN Append(mq, Ack(rmsg, addrOk)) ELSE mq
    /\ rpc' = "delete"
    /\ UNCHANGED <<memory, lock, rmsg, addrOk, writer, shared>>

RSendAck ==
    /\ Runs /\ rpc = "send"
    /\ SmqSendMessage(Ack(rmsg, addrOk))
    /\ rpc' = "delete"
    /\ UNCHANGED <<memory, lock, rmsg, addrOk, writer, shared>>

\* Mutant of RDelete: the object was copied into the list, not spliced.
RDeleteAlways ==
    /\ Runs /\ rpc = "delete"
    /\ heap' = [heap EXCEPT ![rmsg] = "freed"]
    /\ rpc' = "loop" /\ rmsg' = NoMsg
    /\ UNCHANGED <<queue, kind, mq, lock, addrOk, writer, shared>>

\* "delete smpl": frees the object unless it was spliced into the queue.
RDelete ==
    /\ Runs /\ rpc = "delete"
    /\ heap' = IF kind[rmsg] = "bad" THEN [heap EXCEPT ![rmsg] = "freed"] ELSE heap
    /\ rpc' = "loop" /\ rmsg' = NoMsg
    /\ UNCHANGED <<queue, kind, mq, lock, addrOk, writer, shared>>

\* CleaupAfterMainreaderLoop(): save the queue; the thread ends.
CleaupAfterMainreaderLoop ==
    /\ Runs /\ rpc = "cleanup" /\ lock = "none"
    /\ file' = queue
    /\ rpc' = "done"
    /\ UNCHANGED <<memory, mq, lock, rmsg, addrOk, writer, start, stop_main_loop, process>>

-----------------------------------------------------------------------------
(* The writer thread: SmqWriterThread().                                   *)

WLoop ==
    /\ Runs /\ wpc = "loop"
    /\ wpc' = IF stop_main_loop THEN "done" ELSE "wait"
    /\ UNCHANGED <<memory, mq, lock, reader, wentry, whead, answered, shared>>

\* mq_timedreceive(): the oldest entry ...
WReceive ==
    /\ Runs /\ wpc = "wait" /\ smqWriter
    /\ mq # <<>> /\ Head(mq) # Stale
    /\ wentry' = Head(mq)
    /\ mq' = Tail(mq)
    /\ wpc' = IF Head(mq).type = "ack" THEN "respond" ELSE "process"
    /\ UNCHANGED <<memory, lock, reader, whead, answered, shared>>

\* ... or, after 200 ms without one, a timeout.
WTimeout ==
    /\ Runs /\ wpc = "wait" /\ smqWriter
    /\ mq = <<>>
    /\ wentry' = Nothing
    /\ wpc' = "process"
    /\ UNCHANGED <<memory, mq, lock, reader, whead, answered, shared>>

\* An entry whose pointer means nothing here: the process dies, or the pointer
\* is by chance that of another entry, which is handled now and deleted.
WReceiveStale ==
    /\ Runs /\ wpc = "wait" /\ smqWriter
    /\ mq # <<>> /\ Head(mq) = Stale
    /\ wentry' = Stale
    /\ mq' = Tail(mq)
    /\ Crashes
    /\ UNCHANGED <<memory, lock, reader, wpc, whead, answered>>

WReceiveChance ==
    /\ Runs /\ wpc = "wait" /\ smqWriter
    /\ mq # <<>> /\ Head(mq) = Stale
    /\ \E i \in 2..Len(mq) :
         /\ mq[i] # Stale
         /\ wentry' = mq[i]
         /\ mq' = Tail([mq EXCEPT ![i] = Stale])
         /\ wpc' = IF mq[i].type = "ack" THEN "respond" ELSE "process"
    /\ UNCHANGED <<memory, lock, reader, whead, answered, shared>>

\* The thread itself uses smqWriter, which its constructor's caller sets.
WNoWriter ==
    /\ Runs /\ wpc = "wait" /\ ~smqWriter
    /\ Crashes
    /\ UNCHANGED <<memory, mq, lock, reader, writer>>

\* respond_sip_ack(): a response is not answered, nor what does not parse.  If
\* the object is gone, its remains may be taken for any of that, or kill the
\* process.
WRespond ==
    /\ Runs /\ wpc = "respond"
    /\ LET m == wentry.msg
           sent == answered' = answered \cup {m}
           silent == answered' = answered
       IN  IF heap[m] = "freed"
           THEN \/ (sent \/ silent) /\ UNCHANGED process
                \/ silent /\ process' = "crashed"
           ELSE /\ \/ kind[m] # "response" /\ wentry.addr /\ sent
                   \/ (kind[m] \in {"response", "bad"} \/ ~wentry.addr) /\ silent
                /\ UNCHANGED process
    /\ wpc' = "loop"
    /\ UNCHANGED <<memory, mq, lock, reader, wentry, whead, start, stop_main_loop, file>>

Processing == Runs /\ wpc = "process" /\ lock = "none"
AtHead(k) == Processing /\ queue # <<>> /\ kind[Head(queue)] \in k
Requests == {"request", "own"}
Processed == wpc' = IF wentry.type = "timeout" THEN "saving" ELSE "loop"

\* The zap short code deletes another message z of the list, or none.
Zap(z) ==
    \/ z = NoMsg
    \/ kind[Head(queue)] = "request" /\ z \in Range(Tail(queue))

Free(ms) == heap' = [m \in Msgs |-> IF m \in ms THEN "freed" ELSE heap[m]]

\* The list is empty or its head is not due.
WNothingDue ==
    /\ Processing
    /\ Processed
    /\ UNCHANGED <<memory, mq, lock, reader, wentry, whead, answered, shared>>

\* A request changes state, and with it its place in the list.
WMove(z) ==
    /\ AtHead(Requests) /\ Zap(z)
    /\ LET rest == RemoveFirst(Tail(queue), z)
       IN  \E i \in 1..(Len(rest) + 1) : queue' = InsertAt(rest, i, Head(queue))
    /\ Free({z})
    /\ Processed
    /\ UNCHANGED <<kind, mq, lock, reader, wentry, whead, answered, shared>>

\* NO_STATE and DELETE_ME_STATE, and a response that changes nothing or only
\* the state of what it answers.
WDelete ==
    /\ AtHead(Requests \cup {"response"})
    /\ queue' = Tail(queue)
    /\ Free({Head(queue)})
    /\ Processed
    /\ UNCHANGED <<kind, mq, lock, reader, wentry, whead, answered, shared>>

\* A 2xx response deletes what it answers.  Which that is, the tags decide; here
\* it may be anything in the list.
WDelivered ==
    /\ AtHead({"response"})
    /\ \E m \in Range(Tail(queue)) :
         /\ queue' = RemoveFirst(Tail(queue), m)
         /\ Free({Head(queue), m})
    /\ Processed
    /\ UNCHANGED <<kind, mq, lock, reader, wentry, whead, answered, shared>>

\* The quit and restart short codes.
WQuit ==
    /\ Quits /\ AtHead({"request"})
    /\ \E i \in 1..Len(queue) : queue' = InsertAt(Tail(queue), i, Head(queue))
    /\ stop_main_loop' = TRUE
    /\ Processed
    /\ UNCHANGED <<heap, kind, mq, lock, reader, wentry, whead, answered, start, process,
                   file>>

\* A reply, a bounce or a REGISTER is put into the list while the head is being
\* processed, under the mutex that process_timeout() keeps.  (A response is out
\* of the list by then, but not freed.)
WOriginate(m, z) ==
    /\ AtHead(Requests \cup {"response"}) /\ Zap(z)
    /\ m \in Unborn /\ Cardinality(Own) < MaxOwn
    /\ LET rest == RemoveFirst(Tail(queue), z)
       IN  queue' = Cons(m, IF kind[Head(queue)] = "response" THEN rest
                            ELSE Cons(Head(queue), rest))
    /\ heap' = [n \in Msgs |-> IF n = m THEN "live" ELSE IF n = z THEN "freed" ELSE heap[n]]
    /\ kind' = [kind EXCEPT ![m] = "own"]
    /\ whead' = Head(queue)
    /\ lock' = "writer"
    /\ wpc' = "notify"
    /\ UNCHANGED <<mq, reader, wentry, answered, shared>>

\* The writer notifies itself, still holding the mutex, and then moves the head.
WNotify ==
    /\ Runs /\ wpc = "notify"
    /\ SmqSendMessage(Incoming)
    /\ IF kind[whead] = "response"
       THEN queue' = queue /\ Free({whead})
       ELSE /\ \E i \in 1..Len(queue) : queue' = InsertAt(RemoveFirst(queue, whead), i, whead)
            /\ heap' = heap
    /\ lock' = "none" /\ whead' = NoMsg
    /\ Processed
    /\ UNCHANGED <<kind, reader, wentry, answered, shared>>

\* Once a minute, after a timeout, the queue is saved.
WSave ==
    /\ Runs /\ wpc = "saving" /\ lock = "none"
    /\ file' \in {queue, file}
    /\ wpc' = "loop"
    /\ UNCHANGED <<memory, mq, lock, reader, wentry, whead, answered, start, stop_main_loop,
                   process>>

-----------------------------------------------------------------------------
(* main(), and what happens to the process.                                *)

\* StartThreads(): "smqReader = new SmqReader()" ...
StartReader ==
    /\ Runs /\ main = "reader"
    /\ main' = "writer" /\ rpc' = "load"
    /\ UNCHANGED <<memory, mq, lock, rmsg, addrOk, writer, unread, restarts, stop_main_loop,
                   process, file>>

\* ... "new SmqWriter()", whose constructor starts the thread ...
StartWriter ==
    /\ Runs /\ main = "writer"
    /\ main' = "assign" /\ wpc' = "loop"
    /\ UNCHANGED <<memory, mq, lock, reader, wentry, whead, answered, unread, restarts,
                   stop_main_loop, process, file>>

\* ... and "smqWriter =".
AssignWriter ==
    /\ Runs /\ main = "assign"
    /\ main' = "sleep"
    /\ UNCHANGED <<memory, mq, lock, reader, writer, unread, restarts, stop_main_loop,
                   process, file>>

\* main() wakes every two seconds; when it returns, the threads end with it.
MainReturns ==
    /\ Runs /\ main = "sleep" /\ stop_main_loop
    /\ process' = "exited"
    /\ UNCHANGED <<memory, mq, lock, reader, writer, start, stop_main_loop, file>>

\* The process is started again.  Its memory is new, the message queue is not:
\* mq_open() finds the entries, pointers into the memory of the one before.
Restart ==
    /\ ~Runs /\ restarts < MaxRestarts
    /\ restarts' = restarts + 1
    /\ process' = "runs" /\ main' = "reader" /\ stop_main_loop' = FALSE
    /\ unread' = Reverse(file)
    /\ queue' = <<>>
    /\ heap' = [m \in Msgs |-> IF heap[m] = "none" \/ m \in Range(file) THEN "none" ELSE "freed"]
    /\ mq' = [i \in 1..Len(mq) |-> Stale]
    /\ lock' = "none"
    /\ rpc' = "off" /\ rmsg' = NoMsg /\ addrOk' = TRUE
    /\ wpc' = "off" /\ wentry' = Nothing /\ whead' = NoMsg
    /\ UNCHANGED <<kind, file, answered>>

Init ==
    /\ queue = <<>>
    /\ heap = [m \in Msgs |-> "none"]
    /\ kind = [m \in Msgs |-> "none"]
    /\ mq = <<>>
    /\ lock = "none"
    /\ rpc = "off" /\ rmsg = NoMsg /\ addrOk = TRUE
    /\ wpc = "off" /\ wentry = Nothing /\ whead = NoMsg
    /\ main = "reader" /\ unread = <<>> /\ restarts = 0
    /\ stop_main_loop = FALSE
    /\ process = "runs"
    /\ file = <<>>
    /\ answered = {}

Reader ==
    \/ RLoad \/ RLoaded \/ RLoop \/ RTimeout \/ RInsert \/ RDump \/ RNotify \/ RNoWriter
    \/ RReadAddress \/ RSendAck \/ RDelete \/ CleaupAfterMainreaderLoop
    \/ \E m \in Msgs, k \in Kinds : RReceive(m, k)

Writer ==
    \/ WLoop \/ WReceive \/ WReceiveStale \/ WReceiveChance \/ WNoWriter \/ WTimeout \/ WRespond \/ WNothingDue
    \/ \E z \in Msgs \cup {NoMsg} : WMove(z)
    \/ WDelete \/ WDelivered \/ WQuit \/ WNotify \/ WSave
    \/ \E m \in Msgs, z \in Msgs \cup {NoMsg} : WOriginate(m, z)

Main == StartReader \/ StartWriter \/ AssignWriter \/ MainReturns

Next == Reader \/ Writer \/ Main \/ Restart

Spec == Init /\ [][Next]_vars

\* The scheduler runs each thread that can run; poll() and mq_timedreceive()
\* return at the latest after their timeouts.
FairSpec == Spec /\ WF_vars(Reader) /\ WF_vars(Writer) /\ WF_vars(Main)

-----------------------------------------------------------------------------
(* Properties.                                                             *)

ReaderAt == {"off", "load", "loop", "poll", "insert", "dump", "notify", "ack", "send", "delete",
             "cleanup", "done"}
WriterAt == {"off", "loop", "wait", "process", "respond", "notify", "saving", "done"}

\* Every variable has its type and the message queue its bound.
TypeOK ==
    /\ queue \in Seq(Msgs) /\ file \in Seq(Msgs)
    /\ heap \in [Msgs -> {"none", "live", "freed"}]
    /\ kind \in [Msgs -> {"none", "request", "response", "bad", "own"}]
    /\ mq \in Seq(Entry) /\ Len(mq) <= MqMax
    /\ lock \in {"none", "writer"}
    /\ rpc \in ReaderAt /\ rmsg \in Msgs \cup {NoMsg} /\ addrOk \in BOOLEAN
    /\ wpc \in WriterAt /\ wentry \in Entry /\ whead \in Msgs \cup {NoMsg}
    /\ main \in {"reader", "writer", "assign", "sleep"}
    /\ unread \in Seq(Msgs) /\ restarts \in 0..MaxRestarts
    /\ stop_main_loop \in BOOLEAN
    /\ process \in {"runs", "exited", "crashed"}
    /\ answered \subseteq Msgs

\* The nodes spliced between the threads' lists stay owned exactly once: what
\* is in time_sorted_list is allocated and there once, and "delete smpl" or the
\* writer frees only what is in no list.
ListIsLive ==
    /\ \A i \in 1..Len(queue) : heap[queue[i]] = "live"
    /\ \A i, j \in 1..Len(queue) : queue[i] = queue[j] => i = j

\* The iterator that process_timeout() keeps while it originates another
\* message stays good: the reader cannot change the list in between, nor can
\* the object be freed.
IteratorValid ==
    whead # NoMsg =>
      /\ heap[whead] = "live"
      /\ kind[whead] # "response" => Len(queue) >= 2 /\ queue[2] = whead

\* However full the message queue gets, and whatever a process before has left in
\* it, the writer comes to answer every request that came and was accepted,
\* unless the process ends first.
AnswerReached ==
    \A m \in Msgs :
        (rmsg = m /\ rpc = "insert" /\ kind[m] = "request" /\ unread = <<>>)
          ~> ((wpc = "respond" /\ wentry.msg = m) \/ stop_main_loop \/ ~Runs)

\* "It's OK to reference "smp" here, whether it's in the smpl list, or has been
\* moved into the main time_sorted_list."
SmpIsLive == rpc = "ack" => heap[rmsg] = "live"

\* "The state machine is driven by incoming packets or information, and in the
\* absence of such incoming info, by timeouts": the writer comes back for the
\* next one.
WriterComesBack == wpc = "notify" ~> (wpc = "loop" \/ ~Runs)

\* savefile: "The file to save SMS messages to when exiting."
SavedWhenExiting == process = "exited" => file = queue

\* "receiver deletes attached message": what the writer receives is an entry that
\* its own process has sent.
EntryIsOurs == wentry # Stale

\* "Queue opened  Process messages": when a thread uses smqWriter it is set.
WriterIsSet == rpc = "notify" \/ wpc = "wait" => smqWriter
=============================================================================
