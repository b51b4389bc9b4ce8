---------------------------- MODULE MCSmqThreads ----------------------------
(***************************************************************************)
(* Small instances of SmqThreads for TLC.                                  *)
(***************************************************************************)
EXTENDS SmqThreads, TLC

CONSTANTS m1, m2, m3

MCMsgs2 == {m1, m2}
MCMsgs3 == {m1, m2, m3}
MCKinds == {"request", "response", "bad"}
MCRequests == {"request"}
MCRequestResponse == {"request", "response"}
MCSymmetry == Permutations(Msgs)
=============================================================================
