--------------------------- MODULE MCSettingsFile ---------------------------
(***************************************************************************)
(* SettingsFile for TLC: two choices for each row, up to two video modes.  *)
(***************************************************************************)
EXTENDS SettingsFile

TwoLevels     == <<"none", "error">>
TwoPlacements == <<"full", "left">>
TwoRates      == <<"30", "60">>
SomeModes     == {<<>>, <<"480">>, <<"720">>, <<"480", "720">>}
=============================================================================
