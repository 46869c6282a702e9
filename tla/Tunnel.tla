------------------------------- MODULE Tunnel -------------------------------
(* What a user of the tunnel may rely on, whatever sessions, buffers,      *)
(* datagrams and restarts lie between: connections of two sides, and what  *)
(* each says the other side hears from the beginning, in order, up to some *)
(* point.  How far it gets, and that it gets there, is not promised.       *)
EXTENDS Sequences, Integers

CONSTANTS
    Here,  \* the connections of the one side
    There  \* the connections of the other

VARIABLES
    phase,  \* phase[x]: what the connection x can still do
    said,   \* said[x]: how many bytes it has said
    heard   \* heard[x]: what it has heard

vars == <<phase, said, heard>>

Ends == Here \cup There

(* silent: it says no more, but may hear.                                  *)
Phases == {"absent", "open", "silent", "over"}

Across(x, y) == <<x, y>> \in (Here \X There) \cup (There \X Here)

Init ==
    /\ phase = [x \in Ends |-> "absent"]
    /\ said = [x \in Ends |-> 0]
    /\ heard = [x \in Ends |-> <<>>]

Opens(x) ==
    /\ phase[x] = "absent"
    /\ phase' = [phase EXCEPT ![x] = "open"]
    /\ UNCHANGED <<said, heard>>

Says(x) ==
    /\ phase[x] = "open"
    /\ said'[x] \in Nat /\ said'[x] > said[x]
    /\ said' = [said EXCEPT ![x] = said'[x]]
    /\ UNCHANGED <<phase, heard>>

(* The next bytes of y; x never hears two connections.                     *)
Hears(x, y) ==
    /\ phase[x] \in {"open", "silent"}
    /\ Across(x, y)
    /\ \A i \in DOMAIN heard[x] : heard[x][i][1] = y
    /\ \E upTo \in Len(heard[x]) + 1 .. said[y] :
          heard' = [heard EXCEPT ![x] =
                       @ \o [i \in 1 .. upTo - Len(@) |-> <<y, Len(@) + i>>]]
    /\ UNCHANGED <<phase, said>>

(* Some fall silent or are over, for whatever reason, and stay so.         *)
Stop ==
    /\ \A x \in Ends :
          \/ phase'[x] = phase[x]
          \/ phase[x] = "absent" /\ phase'[x] = "over"
          \/ phase[x] = "open" /\ phase'[x] \in {"silent", "over"}
          \/ phase[x] = "silent" /\ phase'[x] = "over"
    /\ phase' \in [Ends -> Phases]
    /\ UNCHANGED <<said, heard>>

Next ==
    \/ \E x \in Ends : Opens(x) \/ Says(x)
    \/ \E x, y \in Ends : Hears(x, y)
    \/ Stop

Spec == Init /\ [][Next]_vars
=============================================================================
