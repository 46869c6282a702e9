---------------------------- MODULE MCKcpLink ----------------------------
(* Instances of KcpLink for TLC. *)
EXTENDS KcpLink

MCData == {1, 2}

Pairs == {<<1, 2>>, <<2, 1>>}

(* With RcvWnd = 2 the three-segment message is one ikcp_send refuses.      *)
SingleOrTooLong == {<<1>>, <<1, 2, 1>>}

(* Traffic in one direction; acknowledgements travel back.                 *)
OneWay == [p \in Sides |-> IF p = "client" THEN 3 ELSE 0]
FourOneWay == [p \in Sides |-> IF p = "client" THEN 4 ELSE 0]

(* Which datagrams can overtake each other: those to the side with two.    *)
AcksOvertake == [p \in Sides |-> IF p = "client" THEN 2 ELSE 1]
NoneOvertakes == [p \in Sides |-> 1]
============================================================================
