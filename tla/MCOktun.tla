------------------------------ MODULE MCOktun ------------------------------
(* Instances of Oktun for TLC. *)
EXTENDS Oktun, TLC

CONSTANTS p1, p2, a1, a2

OneClient == {a1}
TwoClients == {a1, a2}

OnePc == {p1}
TwoPcs == {p1, p2}
NoPc == {}

PcSymmetry == Permutations(TwoPcs)
MCSymmetry == PcSymmetry \cup Permutations(TwoClients)

MCData == (Pcs \X (1 .. MaxSaid)) \cup ((1 .. MaxTargets) \X (1 .. MaxReply))
============================================================================
