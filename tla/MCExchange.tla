---------------------------- MODULE MCExchange -----------------------------
(***************************************************************************)
(* Small instances of the venue for TLC.                                   *)
(***************************************************************************)
EXTENDS Exchange

DayMoves  == {-5000, 5000}
TurnMoves == {-7500, 2500}
Still     == {0}
ShortOne  == -1
=============================================================================
