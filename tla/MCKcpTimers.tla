---------------------------- MODULE MCKcpTimers ----------------------------
(* An instance of KcpTimers for TLC; a unit of time is about 50 ms of the  *)
(* code's, and its long durations are cut to a few of them.                *)
EXTENDS KcpTimers

JustBeforeTheWrap == {Mod - 3}

(* Back by less and by more than Jump, and ahead.                          *)
BackAndAhead == {-3, -10, 7}
============================================================================
