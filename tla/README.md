# smqueue in TLA+

smqueue is the short-message centre beside OpenBTS: it takes SIP MESSAGEs over
UDP, queues them, finds out where the recipient is, delivers, retries, bounces,
and registers handsets. This directory models it in TLA+, checks the models with
TLC on small instances, and proves the main results for every instance with
TLAPS. Every definition is taken from the C++ source; `PROJECT.json` ("map")
names the lines.

## 1. Inventory

| Component | Source | State | Operations |
|---|---|---|---|
| Message queue, state machine | `smqueue.cpp`, `smqueue.h` | `time_sorted_list` of `short_msg_pending` (state, `next_action_time`, `retries`, `qtag`, `linktag`), `my_register_call_sequence`, `spacingTimer` | `insert_new_message`, `set_state`, `process_timeout`, `handle_response`, `bounce_message`, `register_handset`, `originate_sm`, the lookups |
| Short-code commands | `smcommands.cpp`, `smsc.cpp` | (works on the queue) | each returns a `short_code_action`; `zap` deletes, `411` lists |
| Threads and message queue | `SmqReader`, `SmqWriter`, `SmqMessageHandler`, `QueuedMsgHdrs`, `main` | POSIX queue `/SmqWriter`, `sortedListMutex`, `stop_main_loop`, raw pointers | the two thread loops, `mq_send`, `mq_timedreceive`, quitting |
| Save file | `save_queue_to_file`, `read_queue_from_file` | the file, the stream's flags | save once a minute and at exit, load at start |
| Message object | `short_msg` in `smqueue.h` | the text, the parsed form, which of them is valid, content type | `parse`, `unparse`, `make_text_valid`, repacking |
| Intake | `main_loop`, `validate_short_msg`, `set_qtag` | the datagram | accept or refuse with a status |
| Network | `smnet.cpp` | sockets, peer addresses | `get_next_dgram`, `send_dgram`, `parse_addr` |
| SMS and GSM codecs | `src/SMS`, `src/GSM` | none | TPDU and address elements to and from bits |
| Configuration, globals, `poll.c`, test tools | `Globals`, `SmqGlobals`, `poll.c`, `testing` | tables | none that changes the state above |
| Registration of handsets | `shortcode_register` in `smcommands.cpp`, `register_handset`, the REGISTER branches of `handle_response` | bookings in the subscriber registry, SMS that wait for a REGISTER | read the wanted number, book it, ask Asterisk, run the SMS again, reply |
| Subscriber registry (HLR), NodeManager, osip | not in this repository | subscribers | lookups; the registry is a small external component of `SmqRegister`, elsewhere its answers are choices |

How they interact: the reader thread (`main_loop`) copies a datagram into a list
node, validates it, splices it into `time_sorted_list` under `sortedListMutex`,
and sends two entries to the message queue, "something came" and "answer this
sender". The writer thread receives entries, or times out after 200 ms; it
answers senders and lets `process_timeout` handle the head of the list while it
is due. Handling may originate further messages, which go into the same list and
cause a further entry from the writer to itself. Once a minute the writer saves
the list. The short codes run inside `process_timeout`. `main` starts the reader
first, reads the save file in it, starts the writer and only then tells the reader
where the writer is; the message queue itself belongs to the kernel and outlives
the process.

What is hard about it: two threads with raw pointers into one list; a bounded
blocking queue whose consumer is also a producer; a list that is sorted by time
only as long as nothing changes a time in place; answers that come late, twice,
or for a message that is no longer what it was; retries, rate limit and
registration that interact through one counter; a save file written in place
while the process may die; a message queue that holds pointers of a process that is
gone; a registry whose bookings show late; bit fields whose lengths are given in
digits, septets, octets and bits; numbers of different widths and units. The hazards
are listed with their lines in `PROJECT.json`.

What makes each component correct:

* queue: a message is only ever in a state the switch has a case for and that
  fits its kind; retries bound what is sent; bounces do not breed; what is due is
  handled; nothing disappears but by an answer, by giving up or by the operator;
  everything leaves the queue in the end;
* threads: list nodes are owned once and freed once, over restarts too; an iterator
  stays good while it is kept; nobody waits for ever;
* save file: what was saved comes back as it was, each life of the process keeps
  to the retries, and loading ends;
* registration: a number has one owner, the one who asked for it; an SMS is
  answered once; who is welcomed can be called;
* codecs: what a handset of the standard submits is understood, and what is
  written for it says to it what was meant, and fills its frame;
* message object: what is sent is the form last changed, says what the sender
  wrote, and has the type its recipient expects, however often it is packed,
  redirected, saved and read back;
* intake: one answer per request and none per answer, with a code that has a
  phrase; what was accepted is accepted again, in whatever form it was saved; the
  relay does not get its own messages back. Two of these the code keeps only in part
  (section 6), and the properties say in which.

## 2. Modules and code

| Module | Models | Abstracts from |
|---|---|---|
| `SmqQueue` | one life of the process, from the save file that it reads first: the list and the state machine, one action per case of `process_timeout` and per branch of `handle_response` and `handle_short_code` | contents of messages; the HLR's answers are choices; addresses are kinds (`imsi`, `phone`, `short`, `bounce`...) |
| `SmqService` | what the queue promises, as an abstract specification: a place for each message and what may become of it | list, clock, addresses, tags |
| `SmqQueueService` | the refinement mapping from `SmqQueue` to `SmqService` (`ImplementsService`) | |
| `SmqThreads` | reader, writer and `main` as interleaved threads over list nodes that are allocated, spliced and freed; the message queue; the mutex; starting, exit, death and restart of the process | what a message says, and when it is due |
| `SmqRegister` | `shortcode_register` with the text it reads, the registry, REGISTERs and their answers, the second run of the SMS | the queue around it, time, the sender's lookup |
| `SmqCodec` | RP-DATA, SMS-SUBMIT and SMS-DELIVER with their addresses, validity period, time stamp and user data, bit for bit; the handset of GSM 03.40 on the other side | CP layer, other RP messages, alphabets other than the default |
| `SmqSaveFile` | the save file with its record layout, number widths and stream flags, crashes inside a save, the writer at work while the file is read | what is done with the messages in between |
| `SmqMessage` | one `short_msg`: text, parsed form, their flags, content type and TPDU, packing, what each lookup changes, save and reload | when a step happens (any step of a state may happen in it), bit layouts |
| `SmqIntake` | a datagram from the socket to the queue and to the SIP answer; the order of the checks; the relay; the reload | spelling of headers: a datagram has a method, addresses and a set of flaws |
| `SmqThreads_proofs`, `SmqSaveFile_proofs`, `SmqMessage_proofs`, `SmqIntake_proofs`, `SmqRegister_proofs`, `SmqCodec_proofs` | theorems about the module of that name | |
| `SmqQueue_proofs` | theorems about `SmqQueue`, that it implements `SmqService`, and what follows from the invariant of that proof | |
| `SmqLists` | lemmas that several proofs use: lists (`InsertAt`, `RemoveAt`, `Cons`, `Tail`, `Reverse`, `RemoveFirst`), least and greatest elements, and loops, as functions of the number of rounds | |
| `MC...` | the instances for TLC | |

The modules meet at named points. `SmqQueue` treats a whole handler as one step;
that is right because `process_timeout` holds `sortedListMutex` throughout, and
`SmqThreads` checks what that mutex protects (`ListIsLive`, `IteratorValid`).
`SmqQueue` takes accepted messages from its environment; `SmqIntake` says which
those are. `SmqQueue` lets packing succeed or fail; `SmqMessage` says when.
`SmqThreads` and `SmqIntake` split `main_loop` between them: memory in one, codes
in the other. `SmqMessage` has TPDUs by what they say; `SmqCodec` says which bits
those are. `SmqQueue` lets a short code return anything; `SmqRegister` says what
the one that registers returns, and follows its REGISTERs with texts, numbers and
owners. `SmqSaveFile` has the file, `SmqThreads` the order in which loading, the
threads and the old message queue meet.

State and actions keep the names of the code where there is one
(`time_sorted_list`, `set_state`, `find_queued_msg_by_tag`, `make_text_valid`,
`validate_short_msg`). Variables and record fields marked "history" exist in the
model only. Undefined behaviour is a choice: reading a freed object may give
anything or end the process (`RReadAddress`, `WRespond`), and so may the walk over
the list that `zap` frees nodes of (`ShortCodeZapCrash`), and what a pointer of an
earlier process points to (`WReceiveStale`, `WReceiveChance`). Definitions under
"Mutant of" are plausible bugs that show a property is not vacuous; nothing
refers to them.

Worth knowing when comparing with the code:

* A behaviour of `SmqQueue` is one life of the process, as one of
  `SmqThreads`, `SmqSaveFile` and `SmqMessage` is several. It begins with anything that an
  earlier one may have left (`Legacies`): records in the save file, which
  `read_queue_from_file` puts into the list before a datagram is received, requests on the
  network that may still be answered, and a share of the bounds used up. Retries and
  `linktag` are not in the file, and `register_call_seq` is 0 again, so that a REGISTER of
  the file and a new one can have one tag (`OnlyReloadedShareTag`).
* `SmqIntake` keeps of a queued message what came and the form that it has
  now, as text or SMS-DELIVER, since `save_queue_to_file` writes the latter. Where a
  message to the SMS centre is for is To for a text, and the address in the TPDU for an SMS-SUBMIT.
* `get_text` returns an empty text where `decode` throws: for data in 8-bit or UCS-2
  coding (`Undecodable` in `SmqMessage`). Recoding an SMS-SUBMIT for a handset does not need
  the text and keeps the data.
* Time in `SmqQueue` is relative. `due` is the ticks left; `Ticks` maps
  the milliseconds of the table to a few ticks and keeps their order. The table
  of timeouts itself is in the module in full, in milliseconds.
* `insert_new_message` puts a message at the front, whatever its time, and
  `set_state` looks for the place in the list only for the message it moves.
  `handle_response` changes the state of a message where it stands.
* A response is queued like a request and is handled when it is at the head.
* `SmqCodec` numbers bits as `BitVector` does. The 7-bit text of a message is
  packed by reversing octets (`LSB8MSB`) around fields that are written backwards;
  the module does the same, and `HandsetRpdu` and `HandsetRead`, which are written
  from the standard, do not.
* In `SmqService` a message that was bounced (`DELETE_ME_STATE`) may come back to
  life by a late redirect: the promise says what the code keeps, and section 6 what it
  does not.
* `parse` leaves `parsed_is_valid` set when only the TPDU did not parse, so that
  such a message is refused with 400 and this answer is sent, while what is not
  SIP is not answered (`Answerable` in `SmqIntake`).
* `lookup_uri_hostport` compares ports as pointers and so always announces a
  change; that, and nothing else, makes the unannounced changes of the earlier
  lookups go out (`SentIsCurrent`).

## 3. Runs

`tlc -config <cfg> <module>` in this directory. Most finish within a minute;
`queue`, `service`, `message` and `answer` take one to three.

| Run | cfg / module | Shows | Bounds |
|---|---|---|---|
| queue | `MCSmqQueue` / `MCSmqQueue` | `TypeOK`, `NoBadState`, `NoBounceLoop`, `SendsBounded`, `OrderedUntilAnswered` | two requests from a handset to a phone or a command, or a save file with an SMS that was sent or that waits for its REGISTER; one answer, one try, time as due or not due; tags symmetric |
| service | `MCSmqService` / `MCSmqQueue` | `ImplementsService`, `DuplicateRegisterIgnored` and `OnlyReloadedShareTag` when clients and random numbers repeat no tag | one request, new or from the save file, with or without a REGISTER there; every short code, two REGISTERs, two answers in every order |
| discard | `MCSmqDiscard` / `MCSmqQueue` | `SendsBounded`, `EventuallyDiscarded` without registration and SMSC | one request from any kind of sender to any kind of recipient, or one from the save file that was sent before, any one answer, three tries, the scale of delays, rate limit and relay on |
| threads | `MCSmqThreads` / `MCSmqThreads` | `TypeOK`, `ListIsLive`, `IteratorValid` | three list nodes, symmetry on them |
| answer | `MCSmqAnswer` / `MCSmqThreads` | `AnswerReached`, `ListIsLive` over a restart | two list nodes, a message queue of two entries, nothing originated, one restart after an exit or a crash |
| save | `MCSmqSave` / `MCSmqSaveFile` | `TypeOK`, `RestoredAsSaved`, `TriesBoundedPerLife`, `NoneForgotten` | two messages of every kind, one crash anywhere, times below and above the width |
| message | `MCSmqMessage` / `MCSmqMessage` | `TypeOK`, `TextPreserved`, `SentIsDownlink`, `RelayGetsItsType`, `NoticeQuotesText`, `SentIsCurrent` | one message at a time, in the 7-bit alphabet or not, with and without relay, one crash |
| intake | `MCSmqIntake` / `MCSmqIntake` | `TypeOK`, `AnswersEnd`, `PhraseKnown`, `NotRelayedBack`, `AcceptedAgain` | one datagram with at most two flaws and the answers to it, the relay's type text or SMS-DELIVER, To, Request-URI and address in the TPDU apart, one change of the HLR, one restart |
| codec | `MCSmqCodec` / `MCSmqCodec` | `TypeOK`, `SubmitUnderstood`, `DeliverUnderstood`, `FrameFilled` | numbers of odd and even length, texts that end at each bit of an octet and texts that fill the message, headers of several lengths, 7-bit and 8-bit schemes, time zones on both sides of UTC |
| subscribe | `MCSmqRegister` / `MCSmqRegister` | `TypeOK`, `OneOwner`, `BookedAsAsked`, `OneReply`, `WelcomeReaches` | two handsets, two SMS with good and bad texts, two REGISTERs, every result of the registry |
| full (violation) | `MCSmqFull` / `MCSmqThreads` | the writer waits for ever for room in the queue it empties | |
| save64 (violation) | `MCSmqSave64` / `MCSmqSaveFile` | loading never ends where `time_t` is wider than `unsigned int` | |

Why the bounds are enough: the handlers look at the head and at most one other
message (the one with a tag), so that two messages, their replies and bounces
show every pair that can meet; the state of a message depends on at most its last
two answers; the table distinguishes five classes of delay, which `discard`
keeps. In the save file a record interacts with its neighbours through the
stream's flags only. The checks of a datagram are a list, so that two flaws show
every order in which two of them can be found. In the codec lengths matter modulo
two digits and modulo eight septets, and the texts and numbers have both sides of
each. A number has two askers at most that can be told apart by what they find in
the registry, which two handsets show.

What the runs assume of the environment: a response answers something that was
sent; the HLR does not translate the address `Bounce.Code`; the configuration does
not change while the process runs; loading the file takes less than a minute unless it is
stuck. What an earlier process has left is what the list can hold (`LegacyAssumption`), and the
instances have two kinds of it: an SMS that was sent, and one that waits for the REGISTER before it in
the file, the CSeq of which is given again. `service` and `discard` say under which further conditions their
property holds, and section 6 says what happens without them: tags that no two
requests share, and neither registration nor SMSC. `codec` leaves out
senders with a plus, validity periods in the enhanced and the absolute format, and texts
of more than 160 characters, which section 6 has. `AnswerReached` is about requests that come
when the message queue holds no entry of an earlier process that has not been read. `OneOwner` is about
bookings that the registry shows at once. More
properties carry their condition inside: `RelayGetsItsType` is about one life of the process
(the request to convert is not saved), `NotRelayedBack` about an HLR that does not
change and a message that is for the number in its To, whether by its Request-URI or by the
address in its TPDU. `AcceptedAgain` leaves out what was packed as SMS-DELIVER, and `TextPreserved` text
that `decode` refuses, if there is a relay to convert it for: there it says that exactly
nothing is left of it. `NoticeQuotesText` says for each case what is quoted,
also where that is nothing, or digits. What they leave out is in section 6.

Fairness. `SmqQueue!FairSpec` has weak fairness for `process_timeout` and for
`Tick`: the writer thread wakes at least every 200 ms and time passes.
`SmqThreads!FairSpec` has weak fairness for the reader, the writer and `main`: the scheduler runs a thread that
can run, and `poll()` and `mq_timedreceive()` return after their timeouts.
A thread blocked in `mq_send()` cannot run. `SmqSaveFile` has the same for its reader.
No fairness is assumed of the network, of senders or of crashes.

Deadlock checking is off where the model really may stop: the bounds are used up,
the process has ended, or it has crashed.

## 4. Proofs

`tlapm <module>.tla` checks the proofs of a module. All theorems hold for every
value of the constants, from the assumptions named in the modules that declare them.
Where a property is checked by a run, the theorem names the same definition.

| Module | Theorem | States |
|---|---|---|
| `SmqQueue_proofs` | `QueueInvariant` | the inductive invariant `QueueInv` |
| | `TypeCorrect`, `StatesFit`, `BouncesEnd`, `RetriesBoundSends` | `TypeOK`, `NoBadState`, `NoBounceLoop`, `SendsBounded` |
| | `HeadFirstUntilAnswered` | `OrderedUntilAnswered` |
| | `ServiceInvariant` | the inductive invariant `ServiceInv` |
| | `QueueImplementsService` | `ImplementsService`, the refinement |
| | `TagsIdentify`, `SecondAnswerIgnored` | `OnlyReloadedShareTag`, `DuplicateRegisterIgnored` |
| `SmqThreads_proofs` | `ThreadsInvariant` | the inductive invariant `ThreadsInv` |
| | `TypeCorrect`, `ListStaysLive`, `IteratorStaysValid` | `TypeOK`, `ListIsLive`, `IteratorValid` |
| `SmqSaveFile_proofs` | `SaveInvariant` | the inductive invariant `SaveInv` |
| | `TypeCorrect`, `RestoredInOrder`, `BoundedPerLife`, `NoRequestForgotten` | `TypeOK`, `RestoredAsSaved`, `TriesBoundedPerLife`, `NoneForgotten` |
| `SmqMessage_proofs` | `MessageInvariant` | the inductive invariant `MessageInv` |
| | `TypeCorrect`, `SentAsWritten`, `SentIsPacked`, `RelayServed`, `NoticesQuote`, `NothingStaleSent` | `TypeOK`, `TextPreserved`, `SentIsDownlink`, `RelayGetsItsType`, `NoticeQuotesText`, `SentIsCurrent` |
| `SmqIntake_proofs` | `IntakeInvariant` | the inductive invariant `IntakeInv` |
| | `TypeCorrect`, `NoAnswerLoop`, `PhraseAlwaysKnown`, `RelayNotEchoed`, `OnlyDeliverRefused` | `TypeOK`, `AnswersEnd`, `PhraseKnown`, `NotRelayedBack`, `AcceptedAgain` |
| `SmqRegister_proofs` | `RegisterInvariant` | the inductive invariant `RegisterInv` |
| | `TypeCorrect`, `NumbersHaveOneOwner`, `OneReplyEach`, `WelcomeIsTrue` | `TypeOK`, `OneOwner`, `OneReply`, `WelcomeReaches` |
| | `BookedWasAsked` | `BookedAsAsked` |
| `SmqCodec_proofs` | `CodecInvariant` | the inductive invariant `CodecInv` |
| | `CodecTypes`, `SubmitsUnderstood`, `FramesFilled`, `DeliveriesUnderstood` | `TypeOK`, `SubmitUnderstood`, `FrameFilled`, `DeliverUnderstood` |

Hardly one of these properties is inductive. What has to be added says why the
code is right, and is what a change of the code can break:

* **Queue.** `NoBadState` needs that what still has
  to run as a short code, or to have its sender looked up, came from outside
  (`Fits`): otherwise a reply could start a registration of its own. `NoBounceLoop`
  needs that a message of generation two is a bounce, that a bounce is never bounced, and
  that what the network may answer (`sent`) remembers its sender (`SentOK`).
  `SendsBounded` needs `sends <= retries`, since the code compares `retries` and not
  what was sent (`Bounded`). The lemmas go from the list operations through `set_state`,
  `insert_new_message` and the three ways to originate, to one lemma per group of
  actions; `StepInv` puts the actions together. `OrderedUntilAnswered` says
  only that the head is due when anything is; the invariant has to say that of
  every two messages (`Ordered`), since any of them may be the head next, and that the list holds no
  answer, whose handling would change a message in place.
* **Service.** The refinement is proved under the hypothesis `TagsApart`: clients and
  the random generator repeat no tag, use none that is the CSeq of a REGISTER, and have not
  done so in what an earlier process has left.
  The code does not guarantee that (section 6, `QtagUnique`), and without it the
  refinement is false. REGISTERs of the save file may share a tag with new ones all the same: the proof needs that
  only REGISTERs do, of which one at most is not from the file, and that what the network
  knows by such a tag has been sent or is of an earlier process (`Known`, `Twins`). `ServiceInv` says that a tag belongs to one request (an answer carries
  the tag of the request it answers), that a request whose tag the network knows has been
  sent or is from an earlier process, that an answer is to something sent, and
  that no CSeq beyond the counter is in use but by what is from the file. The list is looked at as a set of
  messages with a node each (`Holds`), so that no step of the simulation is about the
  order of the list: each action of the queue is shown to be one of a few changes
  of that set (replace one, drop some, replace one and add one), and each of those to be a step of
  `SmqService` or none.
* **Threads.** `ListIsLive` needs to know who owns a node: the reader, from
  allocation to the splice; the writer, while it holds the mutex and waits in
  `mq_send` with its iterator (`WriterInv`: the node it is at is the second of
  the list, behind what it originated, or already unlinked if it was a response);
  the save file, for what is still to be read (`FileInv`), since a new datagram may
  not get the place of a record that has yet to be loaded.
* **Save file.** `FileInv` ties the file to the queue of the last save (`atSave`),
  from its end; a crash inside a save leaves a part of that. While the file is read (`LoadInv`), all that is in the
  queue comes from the part that has been read, so that the next record, which
  goes to the front, was also in front when it was saved: this gives the order
  (`OrderInv`). For the times, `TimeSurvives` shows that writing as `time_t` and
  reading as `unsigned int` gives the same number whenever the stream does not
  fail, under `ClockAssumption` (the two have one width, or the clock is not negative).
  `TriesBoundedPerLife` needs that a message is sent in a life of
  the process only as often as its `retries` in that life say (`SentInv`), which are back at 0
  when the message is read, and that it can be read only once.
  `ModAssumption` (a power of two is a positive number) is there because the provers do not know powers.
* **Message.** The body exists as parsed form, as SIP text and in the save file.
  `MessageInv` says of each whether it is as it came or packed, which is what `need_repack`
  claims, and that where the text may be used instead of the parsed form
  the two have one body. Packed means that it says what came or, if there is a relay and the data cannot be
  decoded, nothing. `SentIsCurrent` needs that every way into the states that send
  goes through `lookup_uri_hostport`, which always announces a change (`OutgoingOK`).
* **Intake.** `AnswersEnd` needs the entries of the message queue that will be
  answered to be counted as answers that are owed. `PhraseKnown` needs that 402, for which
  there is no phrase, is found only in what is never answered (`CodesInv`).
  `AcceptedAgain` needs that what is queued or saved passed every check as it came, and
  that of the forms in which it may be saved only SMS-DELIVER adds a flaw (`AsSaved`). `NotRelayedBack` needs that what
  came from the relay and is queued had a To that the HLR knew, for as long as the HLR is what it was. The code is that of the first check that fails, and `MinIsLeast` of `SmqLists` is what
  is needed of it.
* **Registration.** `WelcomeReaches` needs that a REGISTER has a CSeq of its own, so that
  the one that was accepted has told Asterisk about the handset of its own SMS, and
  that an SMS that booked is run again only then. `OneOwner` needs that
  what the registry does not show was booked late. `BookedAsAsked` compares the number that the
  loop over the text collects with the digits that stand in it, by counting them; that the
  two agree after every character is the invariant of the loop (`ScannedOK`), and a loop
  is a function of the number of its rounds (`LoopExists`, `LoopInduction` of `SmqLists`).
* **Codec.** `CodecInv` says, for each stage, which bits the frame has and what was parsed of them.
  A frame is a row of fragments, each `At` its place. A writer puts fragments one
  behind the other (`HandsetTpduIs`, `DeliverIs`, `RPDataIs`), so that a place is the sum of the
  lengths in front of it; a reader that starts at that place reads the fragment whole
  (`SubmitParsed`, `RelayParsed`, `TextDecoded`, `DeliverRead`, `TextShown`). Where an octet is cut
  into digits or septets, one lemma each says that cutting and joining are inverse
  (`ValueOfBits`, `SemiOctets`, `OctetReversed`, `SeptetReversed`); a field has at most eight
  bits, so that its value is a sum that can be written out, and no induction over a frame is needed.

  The codec's theorems hold for all numbers, texts, headers, coding schemes, protocol identifiers and
  times, under hypotheses that each of them names. `PlainPeriods`: no validity period or a relative one.
  `PlainTexts`: characters of the 7-bit alphabet, since `encodeGSMChar` has no code for others.
  `ShortTexts` (of `FramesFilled` and `DeliveriesUnderstood`): at most 255 characters, which the length octet
  can count. `NationalSenders` (of `DeliveriesUnderstood`): no plus in front of the sender's
  number. The code checks none of them, and without the first, the third or the fourth not everything is
  understood: these are the counterexamples of `MCSmqEnhanced`, `MCSmqLongText` and `MCSmqPlus` in section 6.
  The run `codec` meets all four.

Each inductive invariant was checked with TLC on the instance of its component
before it was proved, that of the codec with texts of up to ten characters.

Every invariant and every action property that a passing run checks is a theorem, and so is
the refinement. Only model-checked, because they are out of the prover's reach, are the liveness
properties (`EventuallyDiscarded`, `AnswerReached`). The two runs that expect a violation check
liveness too (`ReadingEnds`, `WriterComesBack`), and a counterexample needs no proof. Every theorem rests on the
named assumptions and on the hypotheses it states (`TagsApart`, and those of the codec).

## 5. Not modelled

* Of `src/SMS` and `src/GSM`: the CP layer, RP-ACK, RP-ERROR and RP-SMMA,
  SMS-DELIVER-REPORT, and the layer 3 elements that no SMS carries. smqueue
  neither reads nor writes them. The code decodes no text but the 7-bit default alphabet.
* `mq_open` failing, errors of `mq_timedreceive` other than its timeout, and
  `mq_unlink`, which nothing calls.
* Opening and closing sockets, and splitting an address into host and port, in
  `smnet.cpp`; what comes and goes through them is in `SmqQueue` and `SmqIntake`.
* What the short codes other than the registration say (lists, dumps, uptime);
  `SmqQueue` has what they return and do to the queue.
* `poll.c`, a third-party emulation of `poll()` by `select()`; configuration
  keys (tables); the test tools, which are clients.
* osip, HLR and NodeManager are outside the repository and appear by their results.
* Change of configuration at run time.

## 6. Known disagreements

Where a comment, the configuration's documentation or a test says one thing and the
code does another, the definition states what is said, and TLC finds the
counterexample with the cfg. The first two are runs of the project; the others
can be repeated with `tlc -config`.

| Definition | cfg | What the counterexample shows |
|---|---|---|
| `WriterComesBack` | `MCSmqFull` | `insert_new_message` on the writer thread blocks in `mq_send` on the queue that only the writer empties, holding the list's mutex |
| `ReadingEnds` | `MCSmqSave64` | a time in milliseconds does not fit the `unsigned` it is read into; the stream fails and the loop tests `eof()` only |
| `EntryIsOurs` | `MCSmqStale` | the message queue outlives the process: a restarted writer receives pointers of the earlier one (`SmqMessageHandler.cpp:199`; "receiver deletes attached message", `237`) |
| `WriterIsSet` | `MCSmqStart` | the threads run before `smqWriter` is set; a first datagram is answered through a null pointer (`SmqMessageHandler.cpp:41`; "Queue opened  Process messages", `SmqWriter.cpp:59`) |
| `OneOwnerAlways` | `MCSmqOwner` | two handsets book one number while the first booking is delayed ("Neither the IMSI nor the phonenum is in use", `smcommands.cpp:346`) |
| `WelcomeIsFinal` | `MCSmqEarly` | a second SMS from the handset is welcomed before the REGISTER of the first is answered ("There are two ways to get here", `smcommands.cpp:324`) |
| `DeliverUnderstood` | `MCSmqPlus` | the plus of an international sender is counted as a digit of the address (`SMSMessages.cpp:448`) |
| `DeliverUnderstood` | `MCSmqLongText` | a text longer than `maxData` ("Maximum size of user data field", `SMSMessages.h:274`) is packed all the same, and from 256 characters its length octet wraps |
| `SubmitUnderstood` | `MCSmqEnhanced` | `rp += 7` skips seven bits, not octets (`SMSMessages.cpp:501`); `length()` also takes the relative and the enhanced format for each other (`463`) |
| `SubmitUnderstood` | `MCSmqEnhanced` with `PeriodFormats <- MCAbsolute` | the absolute validity period is read as 57 bits (`GSML3MMElements.cpp:93`) |
| `HeadIsNext` | `MCSmqBlocked` | an answer changes a message in place; a due message waits behind a head that is not ("thus the earliest one in time", `smqueue.cpp:983`) |
| `QtagUnique` | `MCSmqRetransmit` | a retransmission is queued with the tag of the original ("Tag that identifies this msg uniquely in the queue", `smqueue.h:553`) |
| `QtagUnique` | `MCSmqService` with this invariant | a REGISTER of the save file and one originated since have the same CSeq and so the same tag (`smqueue.cpp:1328`, `1698`) |
| `NothingLost` | `MCSmqUndecodable` | 8-bit or UCS-2 text that is converted for the relay goes out empty ("Get message text in plain text form", `smsc.cpp:537`; `smqueue.h:508`) |
| `NeverEchoed` | `MCSmqIntake` with this invariant | a message from the relay with a known To, but for an unknown number by its Request-URI or its TPDU, goes back to the relay ("We cannot deliver the message since we cannot resolve the TO", `smqueue.cpp:748`) |
| `AckNeverShortens` | `MCSmqAck` | seconds are added to a clock of milliseconds, so that a 100 Trying shortens the wait (`smqueue.cpp:270`) |
| `GivenUpAfterMaxRetries` | `MCSmqRateLimit` | a try that the rate limit stopped counts (`smqueue.cpp:1127`, `3324`) |
| `RetriedIsNotRouted` | `MCSmqHlrBusy` | "HLR is busy. Retry query later." (`smqueue.h:774`) routes the command as an SMS |
| `DeleteMeIsFinal` | `MCSmqRevived` | a redirect revives a message that was bounced (`smqueue.cpp:423`, `1078`) |
| `DeliveredIsDeleted` | `MCSmqTwoAnswers` | with two answers queued, one is taken for the message the other answers (`smqueue.cpp:280`, `304`) |
| `EventuallyDiscarded` | `MCSmqRegistering` | a registration that never completes keeps its SMS ("make sure messages eventually get discarded", `smqueue.cpp:1142`) |
| `InitialIsRunnable` | `MCSmqRerun` | the SMS that is to be rerun waits 50 minutes (`smqueue.cpp:364`, `369`) |
| `SmpIsLive` | `MCSmqSmp` | the reader uses `smp` after the writer may have freed it (`smqueue.cpp:2472`) |
| `SavedWhenExiting` | `MCSmqExit` | `main` returns before the reader has saved (`smqueue.cpp:2808`, `2895`) |
| `BadFileCleared` | `MCSmqBadFile` | `ifile.clear()` clears the stream's flags, not the file (`smqueue.cpp:2654`) |
| `TriesBounded` | `MCSmqTries` | `retries` is not saved (`smqueue.cpp:2533`, `3324`) |
| `ReadBack` | `MCSmqReload` | a message packed as SMS-DELIVER is refused at reload: `parseTPDU` knows SMS-SUBMIT only (`SMSMessages.cpp:176`; "read it back from a file", `smqueue.h:1214`) |
| `TagIsOptional` | `MCSmqIntake` with this property | `set_qtag` takes the length of a From tag that is not there ("No from tag", "This is valid", `smqueue.cpp:837`, `861`) |

## 7. Plan

Done: the queue and its proofs first, since everything else serves it; then
threads, save file, message object and intake; then the codecs, the abstract
service and its refinement, registration with the registry, start and restart;
then the proofs of all safety properties, those about what a loop makes of a text
or of a frame last.

Worth adding:

1. What `SmqSaveFile` and `SmqThreads` say of the save file, each for its own
   purpose, could be tied together by a refinement, so that `RestoredAsSaved`
   holds of the threads too.
2. An abstract specification of intake (each request is answered once, with the
   code of the first flaw) that `SmqIntake` implements, beside that of the queue.
3. `DeliverUnderstood` for senders with a plus, if the code comes to count the digits only.
