---------------------------- MODULE MCSmqSaveFile ----------------------------
(***************************************************************************)
(* Small instances of SmqSaveFile for TLC: a build whose time_t is as wide *)
(* as its unsigned int (32 bits, scaled to 3), and one whose time_t is     *)
(* wider and whose clock is past the range of an unsigned int (though not  *)
(* yet when some records of the file were written).                        *)
(***************************************************************************)
EXTENDS SmqSaveFile

CONSTANTS m1, m2

MCMsgs == {m1, m2}
MCOneMsg == {m1}
MCStates == {"REQUEST_MSG_DELIVERY", "ASKED_FOR_MSG_DELIVERY"}
MCOneState == {"REQUEST_MSG_DELIVERY"}
MCTimes32 == {-3, 2}
MCTimes64 == {5}
MCTimesMixed == {2, 5}
MCAddrs == {"v4", "v6", "none"}
MCOneAddr == {"v4"}
=============================================================================
