--------------------------- MODULE SmqQueueService ---------------------------
(***************************************************************************)
(* SmqQueue implements SmqService, if tags identify messages.              *)
(*                                                                         *)
(* A place is a list node.  A message in NO_STATE has failed, one in       *)
(* DELETE_ME_STATE is done, in every other state it is held.  Where it     *)
(* stands in the list, when it is due and what it waits for are not seen.  *)
(***************************************************************************)
EXTENDS SmqQueue

CSeqs == 1..MaxRegister

\* A REGISTER that is not smqueue's own is never sent.
ClientRegister(r) == r.method = "REGISTER" /\ r.uri # "none"
NeverSent(r) == r.state \in {"INITIAL_STATE", "NO_STATE", "DELETE_ME_STATE"} /\ r.qtag \notin CSeqs

\* What a process leaves behind whose tags were kept apart in the same way.
LeftApart(l) ==
    /\ \A i, j \in 1..Len(l.file) :
         l.file[i].qtag = l.file[j].qtag /\ i # j =>
            l.file[i].method = "REGISTER" /\ l.file[i].qtag \in CSeqs
    /\ \A i \in 1..Len(l.file) :
         /\ l.file[i].qtag \in CSeqs => l.file[i].method = "REGISTER"
         /\ ClientRegister(l.file[i]) =>
              NeverSent(l.file[i]) /\ \A s \in l.sent : s.qtag # l.file[i].qtag
    /\ \A s \in l.sent : s.qtag \in CSeqs => s.stale

\* Tags identify messages: no client and no random number repeats one, and none
\* of them is the CSeq of a REGISTER that smqueue originates.
TagsApart ==
    /\ UniqueTags /\ (UserTags \cup OwnNumbers) \cap CSeqs = {}
    /\ \A l \in Legacies : LeftApart(l)

\* A list node that is not in the list.
Free == [kind |-> "none"]

Phase(m) == CASE m.state = "NO_STATE" -> "failed"
              [] m.state = "DELETE_ME_STATE" -> "done"
              [] OTHER -> "held"

\* What is seen of the list node id.
Seen(q, id) ==
    IF \A i \in 1..Len(q) : q[i].id # id THEN Free
    ELSE LET m == q[CHOOSE i \in 1..Len(q) : q[i].id = id]
         IN  [kind |-> m.method, phase |-> Phase(m), sends |-> m.sends, gen |-> m.gen,
              old |-> m.old]

Service == INSTANCE SmqService WITH
    Places <- Ids, Idle <- Free, MaxOffers <- MaxRetries,
    place <- [id \in Ids |-> Seen(time_sorted_list, id)],
    backlog <- Len(file),
    offered <- sent # {},
    stale <- \E s \in sent : s.stale,
    up <- Up

\* The queue keeps the promises of SmqService: nothing that is held disappears
\* but by an answer to something that was sent (in an earlier life, perhaps) or by
\* the operator, nothing is sent more often than SMS.MaxRetries says, an answer
\* touches one message, and what smqueue itself originates comes from a message it
\* ends or registers.
ImplementsService == Service!Spec
=============================================================================
