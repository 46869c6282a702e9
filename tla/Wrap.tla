-------------------------------- MODULE Wrap --------------------------------
(* Unsigned integers that wrap around, and the signed difference by which  *)
(* ikcp.c compares sequence numbers and times.                             *)
EXTENDS Integers

CONSTANT Mod  \* 2^32: how many values an IUINT32 has

ASSUME WrapAssumption == Mod \in Nat \ {0} /\ Mod % 2 = 0

(* What an IUINT32 holds of the number n.                                  *)
Wrapped(n) == n % Mod

(* What an IINT32 holds of the number n.                                   *)
Signed(n) == IF Wrapped(n) < Mod \div 2 THEN Wrapped(n) ELSE Wrapped(n) - Mod

(* Slip: numbers are compared as they are.                                 *)
ITimeDiffPlain(later, earlier) == later - earlier

ITimeDiff(later, earlier) == Signed(later - earlier)
============================================================================
