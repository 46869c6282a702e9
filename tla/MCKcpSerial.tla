---------------------------- MODULE MCKcpSerial ----------------------------
(* An instance of KcpSerial for TLC: sequence numbers wrap after a few     *)
(* segments, and the assumptions hold with nothing to spare.               *)
EXTENDS KcpSerial

CONSTANT Length  \* how many segments go through

MCData == {1}
Ones == {<<1>>}
OneWay == [p \in Sides |-> IF p = "client" THEN Length ELSE 0]

(* Segments can overtake each other, acknowledgements cannot.              *)
SegmentsOvertake == [p \in Sides |-> IF p = "server" THEN 2 ELSE 1]
============================================================================
