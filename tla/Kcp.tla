-------------------------------- MODULE Kcp --------------------------------
(***************************************************************************)
(* The ARQ engine of the tunnel, src/thirdparties/kcp/ikcp.c, as operators *)
(* on a control block: a record with one field per field of IKCPCB that    *)
(* the protocol's behaviour depends on.  Each operator is one entry point  *)
(* of the library and returns the control block the call leaves behind;    *)
(* the modules that compose endpoints turn the calls into actions.         *)
(*                                                                         *)
(* Abstracted: bytes are members of Data and Mss of them fill a segment;   *)
(* a timer is the choice of what has expired, so ts, rto, srtt, xmit and   *)
(* current have no field; `incr`, the byte part of the congestion window,  *)
(* is the choice `grow`; a list sorted by sn is a set of numbered          *)
(* segments; fast retransmit is absent because the tunnel leaves           *)
(* fastresend at 0, which makes its threshold 2^32 - 1.                    *)
(*                                                                         *)
(* An operator introduced as a slip is what a likely mistake would make of *)
(* the operator after it; the specification does not use it.  Putting it   *)
(* in the other's place shows that a property can fail.                    *)
(***************************************************************************)
EXTENDS Integers, Sequences, FiniteSets

CONSTANTS
    Data,    \* the bytes an application may send
    Mss,     \* kcp->mss: bytes of payload in one segment
    SndWnd,  \* IKCP_WND_SND
    RcvWnd,  \* IKCP_WND_RCV
    MaxFull  \* bound: the datagrams a flush fills with acknowledgements alone

ASSUME KcpAssumption ==
    /\ Mss \in Nat \ {0}
    /\ SndWnd \in Nat \ {0}
    /\ RcvWnd \in Nat \ {0}
    /\ MaxFull \in Nat

ThreshMin == 2  \* IKCP_THRESH_MIN and IKCP_THRESH_INIT

(* A segment of a message: frg counts the fragments that follow it.        *)
Segment == [frg : Nat, data : Seq(Data)]

(* A segment that has been given its place in the stream.                  *)
Numbered == [sn : Nat, seg : Segment]

Sns(segs) == {s.sn : s \in segs}

(***************************************************************************)
(* What one ikcp_output call puts on the wire: the segments that share a   *)
(* datagram carry the same wnd and una; commands (ACK, WASK, WINS) are     *)
(* encoded before the PUSH segments.                                       *)
(***************************************************************************)
Datagram == [conv : Nat, wnd : Nat, una : Nat, acks : SUBSET Nat,
             wask : BOOLEAN, wins : BOOLEAN, push : SUBSET Numbered]

ControlBlock == [conv : Nat, snd_una : Nat, snd_nxt : Nat, rcv_nxt : Nat,
                 rmt_wnd : Nat, cwnd : Nat, ssthresh : Nat,
                 tell : BOOLEAN, probe_wait : BOOLEAN,
                 snd_queue : Seq(Segment), snd_buf : SUBSET Numbered,
                 rcv_buf : SUBSET Numbered, rcv_queue : Seq(Segment),
                 acklist : SUBSET Nat]

Least(S) == CHOOSE x \in S : \A y \in S : x <= y
Lesser(a, b) == IF a <= b THEN a ELSE b
Greater(a, b) == IF a >= b THEN a ELSE b

KcpCreate(conv) ==
    [conv |-> conv, snd_una |-> 0, snd_nxt |-> 0, rcv_nxt |-> 0,
     rmt_wnd |-> RcvWnd, cwnd |-> 0, ssthresh |-> ThreshMin,
     tell |-> FALSE, probe_wait |-> FALSE,
     snd_queue |-> <<>>, snd_buf |-> {}, rcv_buf |-> {}, rcv_queue |-> <<>>,
     acklist |-> {}]

----------------------------------------------------------------------------
(* ikcp_send: a message becomes fragments numbered downwards to 0; an      *)
(* empty message is one empty segment.  The call is refused (-2) when the  *)
(* fragments would not fit the peer's receive queue.                       *)

FragCount(msg) ==
    IF Len(msg) <= Mss THEN 1 ELSE (Len(msg) + Mss - 1) \div Mss

(* Slip: the last fragment of a message is numbered -1.                    *)
FragmentsFromOneLess(msg) ==
    [i \in 1 .. FragCount(msg) |->
        [frg  |-> FragCount(msg) - i - 1,
         data |-> SubSeq(msg, (i - 1) * Mss + 1, Lesser(i * Mss, Len(msg)))]]

Fragments(msg) ==
    [i \in 1 .. FragCount(msg) |->
        [frg  |-> FragCount(msg) - i,
         data |-> SubSeq(msg, (i - 1) * Mss + 1, Lesser(i * Mss, Len(msg)))]]

(* Slip: no limit on the number of fragments.                              *)
KcpSendNeverRefused(msg) == FALSE

KcpSendRefused(msg) == FragCount(msg) >= RcvWnd

KcpSend(k, msg) ==
    IF KcpSendRefused(msg) THEN k
    ELSE [k EXCEPT !.snd_queue = @ \o Fragments(msg)]

----------------------------------------------------------------------------
(* The receive side: rcv_buf holds what arrived early, rcv_queue what is   *)
(* in order and waits for ikcp_recv.                                       *)

WndUnused(k) == Greater(0, RcvWnd - Len(k.rcv_queue))

(* How many segments of rcv_buf continue the stream at rcv_nxt and fit.    *)
InOrderRun(k) ==
    Least({n \in 0 .. WndUnused(k) :
              n = WndUnused(k) \/ k.rcv_nxt + n \notin Sns(k.rcv_buf)})

SegmentAt(segs, sn) == (CHOOSE s \in segs : s.sn = sn).seg

(* Slip: the first segment of rcv_buf moves whatever its sn is.            *)
DrainWhateverSn(k) ==
    LET first == Least(Sns(k.rcv_buf)) IN
    IF k.rcv_buf = {} \/ WndUnused(k) = 0 THEN k
    ELSE [k EXCEPT !.rcv_nxt   = @ + 1,
                   !.rcv_buf   = {s \in @ : s.sn # first},
                   !.rcv_queue = Append(@, SegmentAt(k.rcv_buf, first))]

(* "move available data from rcv_buf -> rcv_queue"                         *)
Drain(k) ==
    LET n == InOrderRun(k) IN
    [k EXCEPT
        !.rcv_nxt   = @ + n,
        !.rcv_buf   = {s \in @ : s.sn \notin k.rcv_nxt .. k.rcv_nxt + n - 1},
        !.rcv_queue = @ \o [i \in 1 .. n |->
                               SegmentAt(k.rcv_buf, k.rcv_nxt + i - 1)]]

(* Slip: a message is read before all of it is there.                      *)
KcpReadableInPart(k) == k.rcv_queue # <<>>

(* ikcp_peeksize >= 0: the first message of rcv_queue is all there, as far *)
(* as the fragment count of its first segment tells.                       *)
KcpReadable(k) ==
    /\ k.rcv_queue # <<>>
    /\ \/ k.rcv_queue[1].frg = 0
       \/ Len(k.rcv_queue) >= k.rcv_queue[1].frg + 1

(* The segments ikcp_recv takes: up to the first whose frg is 0.           *)
FirstMessage(k) ==
    SubSeq(k.rcv_queue, 1,
           Least({i \in 1 .. Len(k.rcv_queue) :
                     i = Len(k.rcv_queue) \/ k.rcv_queue[i].frg = 0}))

(* The bytes ikcp_recv copies to the caller.                               *)
Payload(segs) ==
    LET upTo[i \in 0 .. Len(segs)] ==
            IF i = 0 THEN <<>> ELSE upTo[i - 1] \o segs[i].data
    IN  upTo[Len(segs)]

(* ikcp_recv >= 0: a whole message is there and fits the caller's buffer.  *)
KcpReceivable(k, room) ==
    KcpReadable(k) /\ Len(Payload(FirstMessage(k))) <= room

(* Slip: every ikcp_recv only peeks.                                       *)
KcpRecvKeeps(k) == k

(* Slip: ikcp_recv does not refill rcv_queue from rcv_buf.                 *)
KcpRecvWithoutRefill(k) ==
    [k EXCEPT
        !.rcv_queue = SubSeq(@, Len(FirstMessage(k)) + 1, Len(@)),
        !.tell = @ \/ Len(k.rcv_queue) >= RcvWnd]

KcpRecv(k) ==
    LET rest == SubSeq(k.rcv_queue, Len(FirstMessage(k)) + 1, Len(k.rcv_queue))
        read == Drain([k EXCEPT !.rcv_queue = rest])
    IN  [read EXCEPT !.tell = @ \/ /\ Len(k.rcv_queue) >= RcvWnd
                                   /\ Len(read.rcv_queue) < RcvWnd]

----------------------------------------------------------------------------
(* ikcp_input of one datagram.                                             *)

(* Slip: una acknowledges the segment it names as well.                    *)
TakeAcksThroughUna(k, d) ==
    LET left == {s \in k.snd_buf : s.sn > d.una /\ s.sn \notin d.acks}
    IN  [k EXCEPT !.snd_buf = left,
                  !.snd_una = IF left = {} THEN k.snd_nxt ELSE Least(Sns(left))]

(* Acknowledgements: una acknowledges everything below it, acks one each.  *)
TakeAcks(k, d) ==
    LET left == {s \in k.snd_buf : s.sn >= d.una /\ s.sn \notin d.acks}
    IN  [k EXCEPT !.snd_buf = left,
                  !.snd_una = IF left = {} THEN k.snd_nxt ELSE Least(Sns(left))]

(* ikcp_parse_data for several segments; one that is in rcv_buf already,   *)
(* or was delivered before, is dropped.                                    *)
Insert(k, segs) ==
    Drain([k EXCEPT !.rcv_buf =
             @ \cup {s \in segs : s.sn >= k.rcv_nxt /\ s.sn \notin Sns(@)}])

(* The PUSH segments of a datagram, handled in the order of their sn: one  *)
(* within the window as the segments before it left it is acknowledged,    *)
(* even when it is a duplicate, and one beyond it is ignored.              *)
TakePushes(k, push) ==
    LET Before(s) == Insert(k, {t \in push : t.sn < s.sn})
        inWindow  == {s \in push : s.sn < Before(s).rcv_nxt + RcvWnd}
    IN  [Insert(k, inWindow) EXCEPT !.acklist = @ \cup Sns(inWindow)]

(* The congestion window opens when the datagram advanced snd_una; beyond  *)
(* ssthresh it does so when `incr` has gathered a segment's worth.         *)
OpenCwnd(k, una, grow) ==
    IF k.snd_una > una /\ k.cwnd < k.rmt_wnd /\ (k.cwnd < k.ssthresh \/ grow)
    THEN [k EXCEPT !.cwnd = @ + 1] ELSE k

KcpInput(k, d, grow) ==
    IF d.conv # k.conv THEN k
    ELSE LET heard == [TakeAcks(k, d) EXCEPT !.rmt_wnd = d.wnd,
                                             !.tell = @ \/ d.wask]
         IN  OpenCwnd(TakePushes(heard, d.push), k.snd_una, grow)

----------------------------------------------------------------------------
(* ikcp_flush, as ikcp_update calls it when the interval has passed.       *)
(*   due       the sns whose retransmission timer has expired              *)
(*   probeDue  whether the window probe timer has expired                  *)
(*   cuts      where what did not fit the datagram being filled was put:   *)
(*     acks[n]   the datagrams in which n is acknowledged; the last one, in  *)
(*               which other commands and segments follow, is number 0.      *)
(*               Only a repetition in acklist takes n to several             *)
(*     wins      whether WINS did not fit any more                           *)
(*     sns       the segments that did not                                   *)

CwndNow(k) == Lesser(k.cwnd, Lesser(SndWnd, k.rmt_wnd))

(* How many segments move from snd_queue to snd_buf.                       *)
MoveCount(k) ==
    Lesser(Len(k.snd_queue), Greater(0, k.snd_una + CwndNow(k) - k.snd_nxt))

Moved(k) ==
    {[sn |-> k.snd_nxt + i - 1, seg |-> k.snd_queue[i]] : i \in 1 .. MoveCount(k)}

(* Slip: nothing is ever sent again.                                       *)
ResentNever(k, due) == {}

Resent(k, due) == {s \in k.snd_buf : s.sn \in due}

(* Slip: a closed window is never probed.                                  *)
AskSendNever(k, probeDue) == FALSE

AskSend(k, probeDue) == k.rmt_wnd = 0 /\ k.probe_wait /\ probeDue

(* What probeDue can be: the timer runs while the window stays closed.     *)
ProbeTimer(k) == {k.rmt_wnd = 0 /\ k.probe_wait, FALSE}

KcpFlush(k, due) ==
    LET lost == Resent(k, due) # {} IN
    [k EXCEPT
        !.acklist    = {},
        !.tell       = FALSE,
        !.probe_wait = k.rmt_wnd = 0,
        !.snd_queue  = SubSeq(@, MoveCount(k) + 1, Len(@)),
        !.snd_buf    = @ \cup Moved(k),
        !.snd_nxt    = @ + MoveCount(k),
        !.ssthresh   = IF lost THEN Greater(ThreshMin, CwndNow(k) \div 2) ELSE @,
        !.cwnd       = IF lost \/ @ < 1 THEN 1 ELSE @]

(* 58 commands fill a datagram.  How often each segment was acknowledged   *)
(* again is not kept, so that any acknowledgement may be the one that did  *)
(* not fit; MaxFull bounds how often that happens.                         *)
Cuts(k, due) ==
    [acks : [k.acklist -> (SUBSET (0 .. MaxFull)) \ {{}}],
     wins : {k.tell /\ MaxFull > 0, FALSE},
     sns  : SUBSET Sns(Moved(k) \cup Resent(k, due))]

(* A flush whose output fits one datagram.                                 *)
Uncut(k) == [acks |-> [n \in k.acklist |-> {0}], wins |-> FALSE, sns |-> {}]

(* The datagrams of one flush carry the same wnd and una.                  *)
Frame(k, acks, wask, wins, push) ==
    [conv |-> k.conv, wnd |-> WndUnused(k), una |-> k.rcv_nxt,
     acks |-> acks, wask |-> wask, wins |-> wins, push |-> push]

(* The commands in the order of the code, with the segments that still fit *)
(* behind them.                                                            *)
Commands(k, ask, cuts, push) ==
    LET Acked(i) == {n \in k.acklist : i \in cuts.acks[n]} IN
    {Frame(k, Acked(i), FALSE, FALSE, {}) : i \in 1 .. MaxFull}
      \cup IF cuts.wins
           THEN {Frame(k, Acked(0), ask, FALSE, {}), Frame(k, {}, FALSE, k.tell, push)}
           ELSE {Frame(k, Acked(0), ask, k.tell, push)}

(* What the flush hands to the output callback: the commands and the       *)
(* segments before the first cut, then one datagram from each cut to the   *)
(* next.  Nothing is handed over while the buffer is empty.                *)
KcpOutput(k, due, probeDue, cuts) ==
    LET out == Moved(k) \cup Resent(k, due)
        First == {s \in out : \A c \in cuts.sns : s.sn < c}
        From(c) == {s \in out : s.sn >= c /\ \A e \in cuts.sns : e > c => s.sn < e}
    IN  (Commands(k, AskSend(k, probeDue), cuts, First)
          \cup {Frame(k, {}, FALSE, FALSE, From(c)) : c \in cuts.sns})
          \ {Frame(k, {}, FALSE, FALSE, {})}

(* What a flush sends that finds every timer expired and fits a datagram.  *)
WholeOutput(k) == KcpOutput(k, Sns(k.snd_buf), TRUE, Uncut(k))
============================================================================
