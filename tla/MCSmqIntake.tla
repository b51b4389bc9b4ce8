----------------------------- MODULE MCSmqIntake -----------------------------
(* A small instance of SmqIntake for TLC. *)
EXTENDS SmqIntake

MCSenders == {"client", "relay", "smq"}
MCUsers == {"user"}
MCStrangers == {"stranger"}
=============================================================================
