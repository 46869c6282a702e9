------------------------------- MODULE Buffer -------------------------------
(***************************************************************************)
(* Buffer of oktun_buffer.cpp in memory: m_data, of which the first        *)
(* m_written bytes are in use.  What lies behind them is what was left     *)
(* there by earlier contents, and is still there when it is written over,  *)
(* moved or kept by a resize.                                              *)
(*                                                                         *)
(* Abstracted: callers write at Tail() no more than Unused() bytes, by     *)
(* recv, ikcp_recv or memcpy, and commit as many; that is one action.      *)
(***************************************************************************)
EXTENDS Integers, Sequences

VARIABLES
    data,     \* m_data
    written   \* m_written

vars == <<data, written>>

Byte == 0 .. 255

Lesser(a, b) == IF a <= b THEN a ELSE b

TypeOK == data \in Seq(Byte) /\ written \in 0 .. Len(data)

(* Buffer(size); a vector fills its new elements with 0.                   *)
Init ==
    /\ \E size \in Nat : data = [i \in 1 .. size |-> 0]
    /\ written = 0

Unused == Len(data) - written

(* Bytes from `from` on are overwritten.                                   *)
Overwritten(mem, from, bytes) ==
    [i \in DOMAIN mem |-> IF i - from \in 1 .. Len(bytes) THEN bytes[i - from] ELSE mem[i]]

(* Commit: no more than there is room for.                                 *)
Commit(n) == written' = written + Lesser(Unused, n)

Fill(bytes) ==
    /\ Len(bytes) <= Unused
    /\ data' = Overwritten(data, written, bytes)
    /\ Commit(Len(bytes))

(* More than is used empties it: Remove(-1) does.                          *)
Remove(n) ==
    LET gone   == Lesser(written, n)
        remain == written - gone
    IN  /\ data' = Overwritten(data, 0, SubSeq(data, gone + 1, gone + remain))
        /\ written' = remain

(* Clear, resize of the vector, and a commit of what was used and fits.    *)
Resize(n) ==
    /\ data' = [i \in 1 .. n |-> IF i <= Len(data) THEN data[i] ELSE 0]
    /\ written' = Lesser(n, Lesser(n, written))

Grow(n) == Resize(Len(data) + n)

Clear ==
    /\ written' = 0
    /\ UNCHANGED data

Next ==
    \/ \E bytes \in Seq(Byte) : Fill(bytes)
    \/ \E n \in Nat : Remove(n) \/ Resize(n) \/ Grow(n)
    \/ Clear

Spec == Init /\ [][Next]_vars

----------------------------------------------------------------------------

(* What is between Head() and Tail().                                      *)
Contents == SubSeq(data, 1, written)

Queue == INSTANCE ByteQueue WITH queue <- Contents, limit <- Len(data)

(* Whatever sequence of calls, what is read at Head() is what was written  *)
(* at Tail(), first in first out: the bytes left behind m_written never    *)
(* come back, and moving the rest to the front loses and repeats none.     *)
ImplementsQueue == Queue!Spec
============================================================================
