---------------------------- MODULE MCSmqMessage ----------------------------
(***************************************************************************)
(* Small instances of SmqMessage for TLC.                                  *)
(***************************************************************************)
EXTENDS SmqMessage

CONSTANTS hello, privet

MCTexts == {hello, privet}
MCUndecodable == {privet}
MCAllRelays == {"none", "TEXT_PLAIN", "VND_3GPP_SMS"}
MCNoRelay == {"none"}
=============================================================================
