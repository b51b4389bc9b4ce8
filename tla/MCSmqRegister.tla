---------------------------- MODULE MCSmqRegister ----------------------------
(***************************************************************************)
(* Small instances of SmqRegister for TLC.                                 *)
(***************************************************************************)
EXTENDS SmqRegister

CONSTANTS i1, i2

MCImsis == {i1, i2}
\* Two ways to ask for 57, +57, and what is too short, too long, overridden or bad.
MCTexts == {<<"5", "7">>, <<"(", "5", ")", "7", "!">>, <<"+", "5", "7">>, <<"5">>,
            <<"5", "7", "5", "7">>, <<"5", "!", "!", "!">>, <<"5", "7", "+">>, <<"5", "x", "7">>}
MCFewTexts == {<<"5", "7">>, <<"+", "5", "7">>}
MCResults == {"SUCCESS", "DELAYED", "FAILURE", "TRYAGAIN"}
MCSymmetry == Permutations(Imsis)
=============================================================================
