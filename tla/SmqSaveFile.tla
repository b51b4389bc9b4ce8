----------------------------- MODULE SmqSaveFile -----------------------------
(***************************************************************************)
(* The save file of smqueue: save_queue_to_file(), once a minute and after *)
(* the reader's loop, and read_queue_from_file(), when smqueue starts.     *)
(*                                                                         *)
(* The file is a sequence of records.  next_action_time is a time_t of     *)
(* TimeBits bits when it is written and is read into an unsigned int of    *)
(* UIntBits bits.  The writer thread works on the queue while the reader   *)
(* thread reads the file.                                                  *)
(***************************************************************************)
EXTENDS Integers, Sequences, FiniteSets, SequencesExt

CONSTANTS
    Msgs,        \* the messages that are accepted, each once
    States,      \* sm_state, as far as they are told apart here
    Times,       \* the values of next_action_time
    TimeBits,    \* width of time_t
    UIntBits,    \* width of unsigned int
    Addrs,       \* the kinds of source address: "v4", "v6", "none"
    MaxRetries,  \* SMS.MaxRetries
    MaxCrashes   \* bound: times the process dies

TimeMod == 2^TimeBits
UIntMod == 2^UIntBits

ASSUME WidthAssumption == TimeBits \in Nat /\ UIntBits \in Nat
ASSUME ModAssumption == TimeMod \in Nat \ {0} /\ UIntMod \in Nat \ {0}
ASSUME TimesAssumption == Times \subseteq -(TimeMod \div 2)..(TimeMod \div 2 - 1)
\* msgettime(), a clock of milliseconds: it wraps in a time_t as wide as an unsigned
\* int, and is never negative in a wider one.
ASSUME ClockAssumption == TimeMod = UIntMod \/ Times \subseteq Nat
ASSUME AddrsAssumption == Addrs \subseteq {"v4", "v6", "none"}
ASSUME CountAssumption == MaxRetries \in Nat \ {0} /\ MaxCrashes \in Nat

VARIABLES
    queue,     \* time_sorted_list, head first
    file,      \* the records of the save file
    phase,     \* "loading", "running" or "down"
    saving,    \* the writer is between opening the file and writing it
    rest,      \* what is left to read of the file
    failbit,   \* the input stream has failed
    howmanyerrs,
    accepted,  \* messages accepted so far
    restored,  \* history: messages read from the file by this process
    touched,   \* history: those of them the writer has handled since
    atSave,    \* history: the queue when it was last saved
    sent,      \* history: datagrams sent for each message, over all restarts
    crashes

vars == <<queue, file, phase, saving, rest, failbit, howmanyerrs, accepted, restored, touched,
          atSave, sent, crashes>>
stream == <<rest, failbit, howmanyerrs>>
history == <<restored, touched, atSave>>

\* request, valid: what MSG_IS_REQUEST and validate_short_msg() say when the
\* text is read again.
Message == [id : Msgs, request : BOOLEAN, valid : BOOLEAN, state : States,
            time : Times, addr : Addrs, retries : Nat]
Record == [id : Msgs, request : BOOLEAN, valid : BOOLEAN, state : States,
           time : Times, addr : Addrs]

-----------------------------------------------------------------------------
(* Conversions.                                                            *)

\* "retries" is not written.
Saved(m) == [id |-> m.id, request |-> m.request, valid |-> m.valid, state |-> m.state,
             time |-> m.time, addr |-> m.addr]

\* Mutant of ReadsAsUnsigned: a number that does not fit is cut to the width.
CutSilently(t) == TRUE

\* ">>" into an unsigned int: too large a magnitude fails, a minus sign wraps.
ReadsAsUnsigned(t) == (IF t < 0 THEN -t ELSE t) < UIntMod
AsUnsigned(t) == t % UIntMod

\* unsigned int to time_t.
AsTime(u) == ((u + TimeMod \div 2) % TimeMod) - TimeMod \div 2

\* Mutant of parse_addr: "0:0", the address of what smqueue originates, is refused.
RefuseEmptyAddr(a) == a = "v4"

\* parse_addr() splits at the first colon: an IPv6 address does not survive.
parse_addr(a) == a # "v6"

Restored(r) == [id |-> r.id, request |-> r.request, valid |-> r.valid, state |-> r.state,
                time |-> AsTime(AsUnsigned(r.time)), addr |-> r.addr,
                retries |-> 0]

\* Mutant of SaveOrder: the list is written from its head.
SaveForward(q) == [i \in 1..Len(q) |-> Saved(q[i])]

\* "We save in reverse timestamp order": each insertion at the front restores it.
SaveOrder(q) == Reverse([i \in 1..Len(q) |-> Saved(q[i])])

-----------------------------------------------------------------------------
(* The queue at work.                                                      *)

WriterFree == phase # "down" /\ ~saving
Ids(q) == {q[i].id : i \in 1..Len(q)}
Touch(i) == touched' = touched \cup {i}

\* The reader inserts at the front; it does nothing else while it loads.
Accept(m) ==
    /\ phase = "running" /\ m.id \notin accepted
    /\ queue' = Cons(m, queue)
    /\ accepted' = accepted \cup {m.id}
    /\ UNCHANGED <<file, phase, saving, stream, history, crashes, sent>>

\* The writer gives the head a state and a time, and a place in the list.
SetState(s, t) ==
    /\ WriterFree /\ queue # <<>>
    /\ \E i \in 1..Len(queue) :
         queue' = InsertAt(Tail(queue), i, [Head(queue) EXCEPT !.state = s, !.time = t])
    /\ Touch(Head(queue).id)
    /\ UNCHANGED <<file, phase, saving, stream, accepted, restored, atSave, crashes, sent>>

\* Mutant of RetriesExceeded: one try more.
RetriesExceededLate(m) == m.retries > MaxRetries

RetriesExceeded(m) == m.retries + 1 > MaxRetries

\* REQUEST_MSG_DELIVERY: the message is sent once more, or given up.
Try ==
    /\ WriterFree /\ queue # <<>>
    /\ LET m == Head(queue)
       IN  IF RetriesExceeded(m)
           THEN queue' = Tail(queue) /\ sent' = sent
           ELSE /\ queue' = Cons([m EXCEPT !.retries = @ + 1], Tail(queue))
                /\ sent' = [sent EXCEPT ![m.id] = @ + 1]
    /\ Touch(Head(queue).id)
    /\ UNCHANGED <<file, phase, saving, stream, accepted, restored, atSave, crashes>>

Delete ==
    /\ WriterFree /\ queue # <<>>
    /\ queue' = Tail(queue)
    /\ Touch(Head(queue).id)
    /\ UNCHANGED <<file, phase, saving, stream, accepted, restored, atSave, crashes, sent>>

-----------------------------------------------------------------------------
(* save_queue_to_file(), in the writer thread.                             *)

\* Opening the file truncates it, before the queue is locked.  A save comes a
\* minute after the start at the earliest: reading is over then, or never will.
SaveOpen ==
    /\ WriterFree /\ (phase = "running" \/ failbit)
    /\ saving' = TRUE
    /\ file' = <<>>
    /\ restored' = {} /\ touched' = {}
    /\ UNCHANGED <<queue, phase, stream, accepted, atSave, crashes, sent>>

SaveWrite ==
    /\ phase # "down" /\ saving
    /\ saving' = FALSE
    /\ file' = SaveOrder(queue)
    /\ atSave' = queue
    /\ UNCHANGED <<queue, phase, stream, accepted, restored, touched, crashes, sent>>

\* The process dies.  A save under way leaves the records it has written.
Crash ==
    /\ phase # "down" /\ crashes < MaxCrashes
    /\ crashes' = crashes + 1
    /\ phase' = "down" /\ saving' = FALSE
    /\ queue' = <<>>
    /\ file' \in IF saving
                 THEN {SubSeq(SaveOrder(queue), 1, n) : n \in 0..Len(queue)}
                 ELSE {file}
    /\ atSave' = IF saving THEN queue ELSE atSave
    /\ UNCHANGED <<stream, accepted, restored, touched, sent>>

-----------------------------------------------------------------------------
(* read_queue_from_file(), in the reader thread.                           *)

Start ==
    /\ phase = "down"
    /\ phase' = "loading"
    /\ rest' = file /\ failbit' = FALSE /\ howmanyerrs' = 0
    /\ restored' = {} /\ touched' = {}
    /\ UNCHANGED <<queue, file, saving, accepted, atSave, crashes, sent>>

Reading == phase = "loading" /\ ~failbit /\ rest # <<>>
Skip ==
    /\ rest' = Tail(rest)
    /\ UNCHANGED <<queue, file, phase, saving, failbit, accepted, history, crashes, sent>>

\* A valid request is inserted at the front with its old state and time.
ReadRequest ==
    /\ Reading
    /\ LET r == Head(rest)
       IN  /\ ReadsAsUnsigned(r.time) /\ parse_addr(r.addr) /\ r.valid /\ r.request
           /\ queue' = Cons(Restored(r), queue)
           /\ restored' = restored \cup {r.id}
    /\ rest' = Tail(rest)
    /\ UNCHANGED <<file, phase, saving, failbit, howmanyerrs, accepted, touched, atSave, crashes, sent>>

\* "continue": the record is passed over and not counted.
ReadBadAddress ==
    /\ Reading
    /\ ReadsAsUnsigned(Head(rest).time) /\ ~parse_addr(Head(rest).addr)
    /\ howmanyerrs' = howmanyerrs
    /\ Skip

\* A response, or what does not validate, is an error.
ReadError ==
    /\ Reading
    /\ ReadsAsUnsigned(Head(rest).time) /\ parse_addr(Head(rest).addr)
    /\ ~(Head(rest).valid /\ Head(rest).request)
    /\ howmanyerrs' = howmanyerrs + 1
    /\ Skip

\* The number does not fit: the stream fails, and stays where it is.
ReadFails ==
    /\ Reading
    /\ ~ReadsAsUnsigned(Head(rest).time)
    /\ failbit' = TRUE
    /\ UNCHANGED <<queue, file, phase, saving, rest, howmanyerrs, accepted, history, crashes, sent>>

\* Nothing is read from a failed stream, "equals" keeps its "===" and eof() is
\* never true: the loop goes round.
ReadFailedStream ==
    /\ phase = "loading" /\ failbit
    /\ UNCHANGED vars

\* End of file.  "If errors clear file" clears the flags of the stream.
ReadEnds ==
    /\ phase = "loading" /\ ~failbit /\ rest = <<>>
    /\ phase' = "running"
    /\ UNCHANGED <<queue, file, saving, stream, accepted, history, crashes, sent>>

-----------------------------------------------------------------------------
Init ==
    /\ queue = <<>> /\ file = <<>>
    /\ phase = "down" /\ saving = FALSE
    /\ rest = <<>> /\ failbit = FALSE /\ howmanyerrs = 0
    /\ accepted = {}
    /\ restored = {} /\ touched = {} /\ atSave = <<>>
    /\ crashes = 0 /\ sent = [m \in Msgs |-> 0]

read_queue_from_file ==
    ReadRequest \/ ReadBadAddress \/ ReadError \/ ReadFails \/ ReadFailedStream \/ ReadEnds

Arrivals == [id : Msgs, request : BOOLEAN, valid : BOOLEAN, state : States,
             time : Times, addr : Addrs, retries : {0}]

Next ==
    \/ \E m \in Arrivals : Accept(m)
    \/ \E s \in States, t \in Times : SetState(s, t)
    \/ Try \/ Delete
    \/ SaveOpen \/ SaveWrite
    \/ Crash \/ Start \/ read_queue_from_file

Spec == Init /\ [][Next]_vars

\* The process is restarted when it died, and its threads run.
FairSpec == Spec /\ WF_vars(Start) /\ WF_vars(read_queue_from_file)

-----------------------------------------------------------------------------
(* Properties.                                                             *)

\* Every variable has its type; a restored time is a time_t again.
TypeOK ==
    /\ queue \in Seq(Message) /\ atSave \in Seq(Message) /\ file \in Seq(Record) /\ rest \in Seq(Record)
    /\ phase \in {"running", "loading", "down"} /\ saving \in BOOLEAN
    /\ failbit \in BOOLEAN /\ howmanyerrs \in Nat
    /\ accepted \subseteq Msgs /\ restored \subseteq Msgs /\ touched \subseteq Msgs
    /\ crashes \in 0..MaxCrashes /\ sent \in [Msgs -> Nat]

Readable(r) == r.request /\ r.valid /\ r.addr # "v6"
Untouched == restored \ touched
LoadEnds == phase = "loading" /\ phase' = "running"

\* "We save in reverse timestamp order, to make it very fast to insert when
\* re-read": what the writer has not handled since comes back in the order, the
\* state and with the time it was saved with.
RestoredAsSaved ==
    phase # "down" =>
      LET Same(i, j) == queue[i].id \in Untouched /\ queue[i].id = atSave[j].id
          Now == 1..Len(queue)
          Then == 1..Len(atSave)
      IN  /\ \A x \in Untouched : \E i \in Now, j \in Then : Same(i, j) /\ queue[i].id = x
          /\ \A i \in Now, j \in Then : Same(i, j) => Saved(queue[i]) = Saved(atSave[j])
          /\ \A i, k \in Now, j, l \in Then :
               Same(i, j) /\ Same(k, l) => (i < k <=> j < l)

\* A request that is in the file when smqueue starts, whether it came from an
\* IPv4 host or from smqueue itself, is in the queue when it runs, unless the
\* writer has handled it in the meantime.
NoneForgotten ==
    [][LoadEnds =>
         \A i \in 1..Len(file) :
            Readable(file[i]) => file[i].id \in Ids(queue') \cup touched']_vars

\* "Save the queue to a file; read it back from a file": reading ends.
ReadingEnds == phase = "loading" ~> phase # "loading"

\* "If errors clear file so we don't process again if a restart happens because
\* the file is bad".
BadFileCleared == [][LoadEnds /\ howmanyerrs > 0 => file' = <<>>]_vars

\* SMS.MaxRetries: "Messages will only be attempted to be sent this many times
\* before giving up and being dropped".
TriesBounded == \A m \in Msgs : sent[m] <= MaxRetries

\* retries is not saved, and a crash brings back what had been given up or
\* delivered since the last save: still, each life of the process sends a
\* message at most SMS.MaxRetries times.
TriesBoundedPerLife == \A m \in Msgs : sent[m] <= MaxRetries * (crashes + 1)
=============================================================================
