----------------------------- MODULE KcpSerial -----------------------------
(***************************************************************************)
(* The data structures of ikcp.c as they are: sequence numbers of a fixed  *)
(* width, compared by their signed difference, and linked lists kept in    *)
(* order by the position at which a segment is inserted.  Kcp has          *)
(* unbounded numbers and sets in their place.  Here the two run in step    *)
(* over one path: raw[p] does with lists what kcp[p] does with sets.       *)
(*                                                                         *)
(* The numbers cannot tell a datagram from one that is Mod segments older, *)
(* so the path is assumed not to keep a datagram that long: none arrives   *)
(* after Life segments have followed it.                                   *)
(***************************************************************************)
EXTENDS KcpLink, Wrap, SequencesExt

CONSTANTS
    Life,    \* segments that may overtake a datagram under way
    Backlog  \* bound: segments that wait in snd_queue

(* What keeps every difference that is taken below half of Mod.  The last  *)
(* bound is for the segments of one datagram: the first of them may let    *)
(* the window move on by RcvWnd before the next is compared with its end.  *)
ASSUME SerialAssumption ==
    /\ Life \in Nat
    /\ Life + SndWnd <= Mod \div 2 /\ Life + RcvWnd <= Mod \div 2
    /\ SndWnd < Mod \div 2
    /\ RcvWnd + RcvWnd <= Mod \div 2 + 1
    /\ Backlog \in Nat \ {0}

VARIABLE raw  \* raw[p]: the control block of p as ikcp.c keeps it

serialVars == <<vars, raw>>

----------------------------------------------------------------------------
(* Acknowledgements.                                                       *)

ShrinkBuf(k) ==
    [k EXCEPT !.snd_una = IF k.snd_buf = <<>> THEN k.snd_nxt ELSE k.snd_buf[1].sn]

(* The loop deletes from the front of snd_buf and stops at the first       *)
(* segment that una does not cover.                                        *)
ParseUna(k, una) ==
    LET stop == Least({i \in 1 .. Len(k.snd_buf) + 1 :
                          \/ i = Len(k.snd_buf) + 1
                          \/ ITimeDiff(una, k.snd_buf[i].sn) <= 0})
    IN  [k EXCEPT !.snd_buf = SubSeq(@, stop, Len(@))]

(* The loop stops at the segment that is acknowledged or at the first      *)
(* behind it.                                                              *)
ParseAck(k, sn) ==
    LET stop == Least({i \in 1 .. Len(k.snd_buf) + 1 :
                          \/ i = Len(k.snd_buf) + 1
                          \/ ITimeDiff(sn, k.snd_buf[i].sn) <= 0})
    IN  IF \/ ITimeDiff(sn, k.snd_una) < 0
           \/ ITimeDiff(sn, k.snd_nxt) >= 0
           \/ stop > Len(k.snd_buf)
           \/ k.snd_buf[stop].sn # sn
        THEN k
        ELSE ShrinkBuf([k EXCEPT !.snd_buf = RemoveAt(@, stop)])

----------------------------------------------------------------------------
(* Data.                                                                   *)

(* "move available data from rcv_buf -> rcv_queue"                         *)
MoveAvailable(k) ==
    LET n == Least({i \in 0 .. Len(k.rcv_buf) :
                       \/ i = Len(k.rcv_buf)
                       \/ i = WndUnused(k)
                       \/ k.rcv_buf[i + 1].sn # Wrapped(k.rcv_nxt + i)})
    IN  [k EXCEPT
            !.rcv_nxt   = Wrapped(@ + n),
            !.rcv_buf   = SubSeq(@, n + 1, Len(@)),
            !.rcv_queue = @ \o [i \in 1 .. n |-> k.rcv_buf[i].seg]]

(* The loop goes from the back of rcv_buf to the first segment that is not *)
(* behind the new one, and inserts there unless it is the same.            *)
ParseData(k, s) ==
    LET place == {i \in 1 .. Len(k.rcv_buf) : ITimeDiff(s.sn, k.rcv_buf[i].sn) >= 0}
        at == IF place = {} THEN 0
              ELSE CHOOSE i \in place : \A j \in place : i >= j
        repeat == at > 0 /\ k.rcv_buf[at].sn = s.sn
    IN  IF \/ ITimeDiff(s.sn, k.rcv_nxt + RcvWnd) >= 0
           \/ ITimeDiff(s.sn, k.rcv_nxt) < 0
        THEN k
        ELSE MoveAvailable(
                IF repeat THEN k
                ELSE [k EXCEPT !.rcv_buf = InsertAt(@, at + 1, s)])

TakePush(k, s) ==
    IF ITimeDiff(s.sn, k.rcv_nxt + RcvWnd) < 0
    THEN ParseData([k EXCEPT !.acklist = @ \cup {s.sn}], s)
    ELSE k

----------------------------------------------------------------------------
(* The entry points of the library, as in Kcp.  An encoded datagram has    *)
(* its acknowledgements and its segments in sequences.                     *)

(* The loop over the datagram parses its ACK commands in their order...    *)
ParseAcks(k, acks) ==
    LET upTo[i \in 0 .. Len(acks)] ==
            IF i = 0 THEN k ELSE ParseAck(upTo[i - 1], acks[i])
    IN  upTo[Len(acks)]

(* ... and its PUSH commands in theirs.                                    *)
TakeEachPush(k, push) ==
    LET upTo[i \in 0 .. Len(push)] ==
            IF i = 0 THEN k ELSE TakePush(upTo[i - 1], push[i])
    IN  upTo[Len(push)]

SerialInput(k, d, grow) ==
    LET heard == [k EXCEPT !.rmt_wnd = d.wnd, !.tell = @ \/ d.wask]
        acked == ParseAcks(ShrinkBuf(ParseUna(heard, d.una)), d.acks)
        after == TakeEachPush(acked, d.push)
        opens == /\ ITimeDiff(after.snd_una, k.snd_una) > 0
                 /\ after.cwnd < after.rmt_wnd
                 /\ after.cwnd < after.ssthresh \/ grow
    IN  IF opens THEN [after EXCEPT !.cwnd = @ + 1] ELSE after

SerialMoveCount(k) ==
    Least({n \in 0 .. Len(k.snd_queue) :
              \/ n = Len(k.snd_queue)
              \/ ITimeDiff(k.snd_nxt + n, k.snd_una + CwndNow(k)) >= 0})

SerialFlush(k, due) ==
    LET n == SerialMoveCount(k)
        lost == \E i \in DOMAIN k.snd_buf : k.snd_buf[i].sn \in due
    IN  [k EXCEPT
            !.acklist    = {},
            !.tell       = FALSE,
            !.probe_wait = k.rmt_wnd = 0,
            !.snd_queue  = SubSeq(@, n + 1, Len(@)),
            !.snd_buf    = @ \o [i \in 1 .. n |->
                                   [sn  |-> Wrapped(k.snd_nxt + i - 1),
                                    seg |-> k.snd_queue[i]]],
            !.snd_nxt    = Wrapped(@ + n),
            !.ssthresh   = IF lost THEN Greater(ThreshMin, CwndNow(k) \div 2) ELSE @,
            !.cwnd       = IF lost \/ @ < 1 THEN 1 ELSE @]

SerialRecv(k) ==
    LET read == MoveAvailable([k EXCEPT
                    !.rcv_queue = SubSeq(@, Len(FirstMessage(k)) + 1, Len(@))])
    IN  [read EXCEPT !.tell = @ \/ /\ Len(k.rcv_queue) >= RcvWnd
                                   /\ Len(read.rcv_queue) < RcvWnd]

----------------------------------------------------------------------------
(* How the sets and unbounded numbers of Kcp look in memory.               *)

Ascending(segs) ==
    {list \in SetToSeqs(segs) :
        \A i, j \in DOMAIN list : i < j => list[i].sn < list[j].sn}

InMemory(list) == [i \in DOMAIN list |-> [list[i] EXCEPT !.sn = Wrapped(@)]]

(* The lists that hold these segments: there is one.                       *)
Lists(segs) == {InMemory(list) : list \in Ascending(segs)}

Images(k) ==
    {[k EXCEPT !.snd_una = Wrapped(@), !.snd_nxt = Wrapped(@),
               !.rcv_nxt = Wrapped(@), !.snd_buf = unacked,
               !.rcv_buf = early,
               !.acklist = {Wrapped(n) : n \in @}] :
        unacked \in Lists(k.snd_buf), early \in Lists(k.rcv_buf)}

(* A datagram on the wire: its acknowledgements are in the order in which  *)
(* the segments came in.                                                   *)
Encoding(d, segs, acks) ==
    [d EXCEPT !.una = Wrapped(@), !.push = segs,
              !.acks = [i \in DOMAIN acks |-> Wrapped(acks[i])]]

Encodings(d) ==
    {Encoding(d, segs, acks) : segs \in Lists(d.push), acks \in SetToSeqs(d.acks)}

----------------------------------------------------------------------------

SerialInit ==
    /\ Init
    /\ raw = [p \in Sides |->
                 [KcpCreate(Conv) EXCEPT !.snd_buf = <<>>, !.rcv_buf = <<>>]]

Becomes(p, k) == raw' = [raw EXCEPT ![p] = k]

SerialSend(p) ==
    /\ Len(kcp[p].snd_queue) < Backlog
    /\ \E msg \in Messages : Send(p, msg) /\ Becomes(p, KcpSend(raw[p], msg))

SerialUpdate(p) ==
    \E due \in SUBSET Sns(kcp[p].snd_buf), probeDue \in ProbeTimer(kcp[p]) :
      \E cuts \in Cuts(kcp[p], due) :
        \E kept \in SUBSET KcpOutput(kcp[p], due, probeDue, cuts) :
            /\ Fits(p, kept)
            /\ Update(p, due, probeDue, cuts, kept)
            /\ Becomes(p, SerialFlush(raw[p], {Wrapped(n) : n \in due}))

SerialHears(p) ==
    \E d \in net[p], grow \in BOOLEAN, duplicated \in BOOLEAN :
        /\ Input(p, d, grow, duplicated)
        /\ \E e \in Encodings(d) : Becomes(p, SerialInput(raw[p], e, grow))

SerialReads(p) == Recv(p) /\ Becomes(p, SerialRecv(raw[p]))

(* What is under way to a side names no segment that is Life behind.       *)
PathIsYoung ==
    \A p \in Sides : \A d \in net[p] :
        /\ \A n \in d.acks \cup {d.una} : kcp[p].snd_una - n <= Life
        /\ \A n \in Sns(d.push) : kcp[p].rcv_nxt - n <= Life

SerialNext ==
    /\ \E p \in Sides :
          SerialSend(p) \/ SerialUpdate(p) \/ SerialHears(p) \/ SerialReads(p)
    /\ PathIsYoung'

SerialSpec == SerialInit /\ [][SerialNext]_serialVars

(* Numbers that wrap and lists ordered by signed differences decide as     *)
(* true numbers and sets do, also while the numbers pass zero and while    *)
(* old datagrams arrive: which segment is acknowledged, accepted, dropped  *)
(* as a repetition, delivered next, and how far the sender may go.         *)
WrapInvisible == \A p \in Sides : raw[p] \in Images(kcp[p])
============================================================================
