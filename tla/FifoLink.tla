------------------------------ MODULE FifoLink ------------------------------
(***************************************************************************)
(* What a KCP session promises to the two applications that share it, as   *)
(* README.en.md and ikcp.h describe ikcp_send and ikcp_recv: two           *)
(* independent reliable streams of messages, each read whole, once, and in *)
(* the order it was written.  Nothing is said of datagrams, windows or     *)
(* timers.                                                                 *)
(***************************************************************************)
EXTENDS Integers, Sequences

CONSTANTS
    Message,  \* the messages an application may write
    Side,     \* the two ends
    Other(_)  \* the end at which a message written at an end is read

VARIABLES
    written,  \* written[p]: the messages written at p
    read      \* read[p]: the messages read at p

vars == <<written, read>>

Init ==
    /\ written = [p \in Side |-> <<>>]
    /\ read = [p \in Side |-> <<>>]

Write(p) ==
    /\ \E msg \in Message : written' = [written EXCEPT ![p] = Append(@, msg)]
    /\ UNCHANGED read

Read(p) ==
    /\ Len(read[p]) < Len(written[Other(p)])
    /\ read' = [read EXCEPT
                   ![p] = Append(@, written[Other(p)][Len(@) + 1])]
    /\ UNCHANGED written

Next == \E p \in Side : Write(p) \/ Read(p)

Spec == Init /\ [][Next]_vars
============================================================================
