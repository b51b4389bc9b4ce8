----------------------------- MODULE MCSmqQueue -----------------------------
(***************************************************************************)
(* Small instances of SmqQueue for TLC.  The delays of the code (0, 60 ms  *)
(* to 10 s, 15 s, 60 s to 75 s, 5 min, 50 min) keep their order on a scale *)
(* of a few ticks.                                                         *)
(***************************************************************************)
EXTENDS SmqQueueService

CONSTANTS u1, u2      \* tags chosen by clients

MCTicks == [d \in Delays |->
    CASE d = 0       -> 0
      [] d \in 1..10000      -> 1
      [] d \in 10001..15000  -> 2
      [] d \in 15001..300000 -> 3
      [] OTHER               -> 4]

\* Where more than one message is followed: something is due now, or it is not.
MCDueOrNot == [d \in Delays |-> IF d = 0 THEN 0 ELSE 1]

\* An earlier process has left nothing, or an SMS that waits for the answer to its
\* REGISTER, which has been sent once and whose CSeq is given again.
MCNothing == [file |-> <<>>, sent |-> {}, requests |-> 0, responses |-> 0]
MCRegister == [method |-> "REGISTER", from |-> "imsi", uri |-> "none", qtag |-> 1, gen |-> 1,
               state |-> "ASKED_FOR_MSG_DELIVERY", due |-> 1]
MCSms(tag, state, due) == [method |-> "MESSAGE", from |-> "imsi", uri |-> "short", qtag |-> tag,
                      gen |-> 0, state |-> state, due |-> due]
MCAnswer(tag, gen, stale) == [qtag |-> tag, from |-> "imsi", gen |-> gen, stale |-> stale]
MCHalfRegistered(tag) ==
    [file |-> <<MCRegister, MCSms(tag, "ASKED_TO_REGISTER_HANDSET", 0)>>,
     sent |-> {MCAnswer(1, 1, TRUE)}, requests |-> MaxRequests, responses |-> MaxResponses - 1]

\* ... or one that has been sent on and may be answered.
MCSent(tag) ==
    [file |-> << [MCSms(tag, "ASKED_FOR_MSG_DELIVERY", 1) EXCEPT !.uri = "imsi"] >>,
     sent |-> {MCAnswer(tag, 0, FALSE)}, requests |-> MaxRequests, responses |-> 0]

MCIds == 1..5
MCFewIds == 1..4
MCUserTags == {u1, u2}
MCTagSymmetry == Permutations(MCUserTags)
MCNothingLeft == {MCNothing}
MCOneLeft == {MCNothing} \cup {MCSent(t) : t \in UserTags}
MCSomeLeft == {MCNothing} \cup {MCSent(t) : t \in UserTags} \cup {MCHalfRegistered(t) : t \in UserTags}
MCOneTag == {u1}
MCOneNumber == {7}
MCMethods == {"MESSAGE", "REGISTER"}
MCMessageOnly == {"MESSAGE"}
MCFroms == {"imsi", "phone"}
MCImsi == {"imsi"}
MCTargets == {"phone", "imsi", "short", "bounce"}
MCPhone == {"phone"}
MCShort == {"short"}
MCShortPhone == {"short", "phone"}
MCShortCodes == {"short", "bounce"}
MCStatuses == {100, 200, 302, 404, 486, 700}
MCFinal == {200, 302, 404}
MCEnds == {200, 404, 700}
MCShortCodeActions ==
    {"SCA_TREAT_AS_ORDINARY", "SCA_REPLY", "SCA_INTERNAL_ERROR", "SCA_DONE",
     "SCA_QUIT_SMQUEUE", "SCA_RETRY_AFTER_DELAY", "SCA_AWAIT_REGISTER",
     "SCA_REGISTER", "SCA_RESTART_PROCESSING", "INFO", "ZAP"}
\* Without registration, and without the commands that touch other messages.
MCQuietActions ==
    {"SCA_TREAT_AS_ORDINARY", "SCA_REPLY", "SCA_INTERNAL_ERROR", "SCA_DONE",
     "SCA_RETRY_AFTER_DELAY"}
MCRegisterActions == {"SCA_AWAIT_REGISTER", "SCA_REGISTER", "SCA_REPLY"}
\* What refinement tells apart.
MCServiceActions ==
    {"SCA_TREAT_AS_ORDINARY", "SCA_REPLY", "SCA_REGISTER", "SCA_QUIT_SMQUEUE", "ZAP"}
=============================================================================
