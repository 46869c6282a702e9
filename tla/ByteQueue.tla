----------------------------- MODULE ByteQueue -----------------------------
(* What the callbacks of both programs take a Buffer for, and what the     *)
(* modules of the tunnel have in its place: a queue of bytes with a limit. *)
EXTENDS Integers, Sequences

CONSTANT Byte

VARIABLES
    queue,  \* the bytes put and not taken yet
    limit   \* how many there can be

vars == <<queue, limit>>

Lesser(a, b) == IF a <= b THEN a ELSE b

Init == queue = <<>> /\ limit \in Nat

Put(bytes) ==
    /\ Len(queue) + Len(bytes) <= limit
    /\ queue' = queue \o bytes
    /\ UNCHANGED limit

(* More than there is takes all there is.                                  *)
Take(n) ==
    /\ queue' = SubSeq(queue, Lesser(n, Len(queue)) + 1, Len(queue))
    /\ UNCHANGED limit

(* What does not fit is lost at the end.                                   *)
SetLimit(n) ==
    /\ queue' = SubSeq(queue, 1, Lesser(n, Len(queue)))
    /\ limit' = n

Next ==
    \/ \E bytes \in Seq(Byte) : Put(bytes)
    \/ \E n \in Nat : Take(n) \/ SetLimit(n)

Spec == Init /\ [][Next]_vars
============================================================================
