----------------------------- MODULE SmqService -----------------------------
(***************************************************************************)
(* What the message queue of smqueue promises, without a list, a clock, a  *)
(* table of timeouts, addresses or tags: a place for each message it holds *)
(* and what may become of it.  SmqQueue is shown to implement this.        *)
(*                                                                         *)
(*   - what is accepted is held until it is ended, and forgotten only then *)
(*     or when an answer or the operator says so;                          *)
(*   - it is offered to the network at most MaxRetries times;              *)
(*   - an answer touches one message at most, and that one was offered (or *)
(*     is itself an answer to the same message), unless it is left over    *)
(*     from an earlier life or a REGISTER of an earlier life was offered;  *)
(*   - smqueue speaks for itself (a reply, a REGISTER, a bounce notice)    *)
(*     only when it ends or registers a message, and in chains of two;     *)
(*   - a service that has stopped changes nothing any more.                *)
(***************************************************************************)
EXTENDS Naturals

CONSTANTS
    Places,         \* where a message can be held
    Idle,           \* a place that holds none
    MaxOffers       \* SMS.MaxRetries, 0 = unlimited

VARIABLES
    place,      \* what each place holds
    backlog,    \* how many messages of an earlier life are still to be restored
    offered,    \* has anything been offered to the network yet?
    stale,      \* ... and was a REGISTER of an earlier life among it?
    up          \* does the service run?

vars == <<place, backlog, offered, stale, up>>

Kinds == {"MESSAGE", "REGISTER", "RESPONSE"}
Phases == {"held", "done", "failed"}
Entry == [kind : Kinds, phase : Phases, sends : Nat, gen : 0..2, old : BOOLEAN]

New(kind, gen) == [kind |-> kind, phase |-> "held", sends |-> 0, gen |-> gen, old |-> FALSE]
Left(kind, phase, gen) ==
    [kind |-> kind, phase |-> phase, sends |-> 0, gen |-> gen, old |-> TRUE]
Ended(p, how) == [place[p] EXCEPT !.phase = how]

Vacant == {p \in Places : place[p] = Idle}
Held == {p \in Places \ Vacant : place[p].phase = "held"}
Requests == {p \in Held : place[p].kind # "RESPONSE"}
Messages == {p \in Held : place[p].kind = "MESSAGE"}
Answers == {p \in Held : place[p].kind = "RESPONSE"}

\* What an answer may be about.
Answerable == {p \in Places \ Vacant :
                 \/ place[p].sends > 0 \/ place[p].kind = "RESPONSE"
                 \/ place[p].old \/ (stale /\ place[p].kind = "REGISTER")}

\* The step changes what the places hold and nothing else.
PlacesOnly == UNCHANGED <<backlog, offered, stale, up>>

-----------------------------------------------------------------------------
(* Messages come: first those that an earlier life has left.               *)

Restore(p, kind, phase, gen) ==
    /\ backlog > 0
    /\ place' = [place EXCEPT ![p] = Left(kind, phase, gen)]
    /\ backlog' = backlog - 1
    /\ UNCHANGED <<offered, stale, up>>

Accept(p, kind) ==
    /\ backlog = 0
    /\ place' = [place EXCEPT ![p] = New(kind, 0)]
    /\ PlacesOnly

AcceptAnswer(p, gen) ==
    /\ backlog = 0 /\ offered
    /\ place' = [place EXCEPT ![p] = New("RESPONSE", gen)]
    /\ PlacesOnly

-----------------------------------------------------------------------------
(* The service works on a request that it holds.                           *)

Offer(p) ==
    /\ MaxOffers # 0 => place[p].sends < MaxOffers
    /\ place' = [place EXCEPT ![p].sends = @ + 1]
    /\ offered' = TRUE
    /\ stale' = (stale \/ (place[p].old /\ place[p].kind = "REGISTER"))
    /\ UNCHANGED <<backlog, up>>

End(p, how) ==
    /\ place' = [place EXCEPT ![p] = Ended(p, how)]
    /\ PlacesOnly

\* The message is ended and its sender told why, or gets the reply.
EndAndTell(p, n) ==
    /\ place[p].gen < 2
    /\ place' = [place EXCEPT ![p] = Ended(p, "done"),
                              ![n] = New("MESSAGE", place[p].gen + 1)]
    /\ PlacesOnly

\* The handset that the message came from is registered; the message waits.
Register(p, n) ==
    /\ place[p].gen = 0
    /\ place' = [place EXCEPT ![n] = New("REGISTER", 1)]
    /\ PlacesOnly

\* Only what has ended is forgotten.
Forget(p) ==
    /\ place' = [place EXCEPT ![p] = Idle]
    /\ PlacesOnly

-----------------------------------------------------------------------------
(* Answers.  Each is used once, for one other message at most.             *)

\* It is about nothing that is held any more, or only about when to try again.
NoteAnswer(a) ==
    /\ place' = [place EXCEPT ![a] = Idle]
    /\ PlacesOnly

\* Delivered.
Settle(a, p) ==
    /\ place' = [place EXCEPT ![a] = Idle, ![p] = Idle]
    /\ PlacesOnly

\* Refused, or to be sent elsewhere: one that had ended is held again then.
Redirect(a, p, how) ==
    /\ place' = [place EXCEPT ![a] = Idle, ![p] = Ended(p, how)]
    /\ PlacesOnly

\* Refused, and the sender is told.
RefuseAndTell(a, p, n) ==
    /\ place[p].gen < 2
    /\ place' = [place EXCEPT ![a] = Idle, ![p] = Ended(p, "done"),
                              ![n] = New("MESSAGE", place[p].gen + 1)]
    /\ PlacesOnly

-----------------------------------------------------------------------------
(* The operator, whose command is the message p.                           *)

\* The message z is taken away, whatever it is.
Zap(p, z) ==
    /\ place' = [place EXCEPT ![p] = Ended(p, "done"), ![z] = Idle]
    /\ PlacesOnly

ZapAndTell(p, z, n) ==
    /\ place[p].gen < 2
    /\ place' = [place EXCEPT ![p] = Ended(p, "done"), ![z] = Idle,
                              ![n] = New("MESSAGE", place[p].gen + 1)]
    /\ PlacesOnly

Stop(p) ==
    /\ place' = [place EXCEPT ![p] = Ended(p, "done")]
    /\ up' = FALSE
    /\ UNCHANGED <<backlog, offered, stale>>

\* The process dies over something it holds.
Crash ==
    /\ Held # {}
    /\ up' = FALSE
    /\ UNCHANGED <<place, backlog, offered, stale>>

-----------------------------------------------------------------------------
Init ==
    /\ place = [p \in Places |-> Idle]
    /\ backlog \in Nat
    /\ offered \in BOOLEAN /\ stale \in BOOLEAN
    /\ stale => offered
    /\ up = TRUE

Come ==
    \E p \in Vacant :
        \/ Accept(p, "MESSAGE") \/ Accept(p, "REGISTER")
        \/ \E gen \in 0..2 :
             \/ AcceptAnswer(p, gen)
             \/ \E kind \in {"MESSAGE", "REGISTER"}, phase \in Phases :
                  Restore(p, kind, phase, gen)

Work ==
    \/ \E p \in Requests : Offer(p) \/ End(p, "done") \/ End(p, "failed")
    \/ \E p \in Messages, n \in Vacant : EndAndTell(p, n) \/ Register(p, n)
    \/ \E p \in Places \ (Vacant \cup Held) : Forget(p)

UseAnswer ==
    \E a \in Answers :
        \/ NoteAnswer(a)
        \/ \E p \in Answerable \ {a} :
             \/ Settle(a, p) \/ Redirect(a, p, "held") \/ Redirect(a, p, "failed")
             \/ \E n \in Vacant : RefuseAndTell(a, p, n)

Operate ==
    \E p \in Messages :
        \/ Stop(p)
        \/ \E z \in Places \ (Vacant \cup {p}) :
             Zap(p, z) \/ \E n \in Vacant : ZapAndTell(p, z, n)

Next == up /\ (Come \/ Work \/ UseAnswer \/ Operate \/ Crash)

Spec == Init /\ [][Next]_vars
=============================================================================
