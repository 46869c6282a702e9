------------------------------ MODULE KcpLink ------------------------------
(***************************************************************************)
(* One KCP session: two control blocks of the same conv, as the tunnel     *)
(* client and the tunnel server each create one, and the UDP path between  *)
(* them.  A datagram may be lost (also because OutputCB's send fails, which*)
(* ikcp_flush does not notice), overtaken, or delivered again.             *)
(*                                                                         *)
(* The histories sent and taken are not in the program: sent[p] is every   *)
(* segment ikcp_send queued at p, taken[p] every segment ikcp_recv removed *)
(* at p.                                                                   *)
(***************************************************************************)
EXTENDS Kcp

CONSTANTS
    Conv,      \* the conversation id of the session
    Messages,  \* what the application may hand to ikcp_send
    MaxSent,   \* bound: segments queued by each side
    MaxNet     \* bound: datagrams under way to each side

Sides == {"client", "server"}

ASSUME LinkAssumption ==
    /\ Conv \in Nat
    /\ Messages \subseteq Seq(Data)
    /\ MaxSent \in [Sides -> Nat]
    /\ MaxNet \in [Sides -> Nat]

Peer(p) == IF p = "client" THEN "server" ELSE "client"

VARIABLES
    kcp,    \* kcp[p]: the control block of p
    net,    \* net[p]: the datagrams under way to p
    sent,   \* history: the segments queued at p, in order
    taken   \* history: the segments read at p, in order

vars == <<kcp, net, sent, taken>>

TypeOK ==
    /\ kcp \in [Sides -> ControlBlock]
    /\ net \in [Sides -> SUBSET Datagram]
    /\ sent \in [Sides -> Seq(Segment)]
    /\ taken \in [Sides -> Seq(Segment)]

Init ==
    /\ kcp = [p \in Sides |-> KcpCreate(Conv)]
    /\ net = [p \in Sides |-> {}]
    /\ sent = [p \in Sides |-> <<>>]
    /\ taken = [p \in Sides |-> <<>>]

Send(p, msg) ==
    /\ ~ KcpSendRefused(msg)
    /\ Len(sent[p]) + FragCount(msg) <= MaxSent[p]
    /\ kcp' = [kcp EXCEPT ![p] = KcpSend(@, msg)]
    /\ sent' = [sent EXCEPT ![p] = @ \o Fragments(msg)]
    /\ UNCHANGED <<net, taken>>

(* A timer tick in which the flush interval has passed; `kept` is what the *)
(* socket and the network accept of the output.                            *)
Update(p, due, probeDue, cuts, kept) ==
    /\ kcp' = [kcp EXCEPT ![p] = KcpFlush(@, due)]
    /\ kept \subseteq KcpOutput(kcp[p], due, probeDue, cuts)
    /\ net' = [net EXCEPT ![Peer(p)] = @ \cup kept]
    /\ UNCHANGED <<sent, taken>>

(* Arrival of a datagram; one the network duplicates remains under way.    *)
Input(p, d, grow, duplicated) ==
    /\ kcp' = [kcp EXCEPT ![p] = KcpInput(@, d, grow)]
    /\ net' = [net EXCEPT ![p] = IF duplicated THEN @ ELSE @ \ {d}]
    /\ UNCHANGED <<sent, taken>>

Recv(p) ==
    /\ KcpReadable(kcp[p])
    /\ kcp' = [kcp EXCEPT ![p] = KcpRecv(@)]
    /\ taken' = [taken EXCEPT ![p] = @ \o FirstMessage(kcp[p])]
    /\ UNCHANGED <<net, sent>>

SendSome(p) == \E msg \in Messages : Send(p, msg)

Fits(p, datagrams) == Cardinality(net[Peer(p)] \cup datagrams) <= MaxNet[Peer(p)]

UpdateSome(p) ==
    \E due \in SUBSET Sns(kcp[p].snd_buf), probeDue \in ProbeTimer(kcp[p]) :
        \E cuts \in Cuts(kcp[p], due) :
            \E kept \in SUBSET KcpOutput(kcp[p], due, probeDue, cuts) :
                Fits(p, kept) /\ Update(p, due, probeDue, cuts, kept)

InputSome(p) ==
    \E d \in net[p], grow \in BOOLEAN, duplicated \in BOOLEAN :
        Input(p, d, grow, duplicated)

Next ==
    \E p \in Sides : SendSome(p) \/ UpdateSome(p) \/ InputSome(p) \/ Recv(p)

Spec == Init /\ [][Next]_vars

----------------------------------------------------------------------------
(* Safety.                                                                 *)

(* What is read at one end is what was queued at the other, in order and   *)
(* without a gap or a repetition, whatever the network does: ikcp_recv     *)
(* hands over a prefix of the peer's stream.                               *)
InOrderDelivery ==
    \A p \in Sides :
        /\ Len(taken[Peer(p)]) <= Len(sent[p])
        /\ taken[Peer(p)] = SubSeq(sent[p], 1, Len(taken[Peer(p)]))

(* The segments q holds or has held: delivered in order, or early.         *)
Received(q) == Sns(kcp[q].rcv_buf) \cup 0 .. kcp[q].rcv_nxt - 1

(* A segment leaves the sender's retransmission buffer only once the       *)
(* receiver holds it: stale, repeated and reordered ACK and una fields     *)
(* never acknowledge a segment that could still be lost.                   *)
NothingForgotten ==
    \A p \in Sides : \A n \in 0 .. kcp[p].snd_nxt - 1 :
        n \in Sns(kcp[p].snd_buf) \/ n \in Received(Peer(p))

(* What the receiver must buffer is bounded, and nothing it could deliver  *)
(* waits: rcv_buf stays within the window, and holds the next segment only *)
(* while rcv_queue is full.  The sender alone would not keep the bound: a  *)
(* wnd field overtaken by a newer one lets it send, and the receiver       *)
(* acknowledge, more than there is room for.                               *)
ReceiverBounded ==
    \A p \in Sides :
        LET k == kcp[p] IN
        /\ Len(k.rcv_queue) <= RcvWnd
        /\ Sns(k.rcv_buf) \subseteq k.rcv_nxt .. k.rcv_nxt + RcvWnd - 1
        /\ k.rcv_nxt \in Sns(k.rcv_buf) => Len(k.rcv_queue) = RcvWnd

(* The application always receives whole messages, and a receive queue     *)
(* that is full holds one that can be read: otherwise the window stays     *)
(* closed and the session is stuck.  ikcp_send's limit on the number of    *)
(* fragments is there for this.                                            *)
WholeMessages ==
    \A p \in Sides :
        /\ taken[p] # <<>> => taken[p][Len(taken[p])].frg = 0
        /\ Len(kcp[p].rcv_queue) >= RcvWnd => KcpReadable(kcp[p])
        /\ KcpReadable(kcp[p]) =>
              LET msg == FirstMessage(kcp[p]) IN
              msg[Len(msg)].frg = 0 /\ Len(msg) = msg[1].frg + 1

----------------------------------------------------------------------------
(* Refinement: seen through the messages its histories spell, a session is *)
(* a FifoLink.                                                             *)

(* The messages a stream of segments spells; a message ends at frg = 0.    *)
Spelled(segs) ==
    LET upTo[i \in 0 .. Len(segs)] ==
            IF i = 0 THEN [whole |-> <<>>, open |-> <<>>]
            ELSE LET before == upTo[i - 1]
                     bytes  == before.open \o segs[i].data
                 IN  IF segs[i].frg = 0
                     THEN [whole |-> Append(before.whole, bytes), open |-> <<>>]
                     ELSE [before EXCEPT !.open = bytes]
    IN  upTo[Len(segs)].whole

Fifo == INSTANCE FifoLink WITH
            Message <- Messages, Side <- Sides, Other <- Peer,
            written <- [p \in Sides |-> Spelled(sent[p])],
            read    <- [p \in Sides |-> Spelled(taken[p])]

(* Every step of the session is a step of the two message streams, or is   *)
(* invisible to them: a read returns the bytes of exactly the next message *)
(* the peer wrote, however it was cut into segments and datagrams.         *)
ImplementsFifo == Fifo!Spec

----------------------------------------------------------------------------
(* Liveness, over a path that may lose but not for ever: infinitely often  *)
(* a tick finds every timer expired and its whole output arrives.  The     *)
(* ticks are the 20 ms timer both programs re-arm in UpdateCB; that the    *)
(* application reads what is there is the caller's side of the contract.   *)
(* The formulas are WF_vars of the arrival and of Recv, and SF_vars of the *)
(* tick, with ENABLED written out.                                         *)

Arrival(p) == \E d \in net[p] : Input(p, d, FALSE, FALSE)

GoodTick(p) ==
    LET all == Sns(kcp[p].snd_buf) IN
    /\ net[Peer(p)] = {}
    /\ Update(p, all, TRUE, Uncut(kcp[p]), WholeOutput(kcp[p]))

GoodTickEnabled(p) ==
    LET all == Sns(kcp[p].snd_buf) IN
    /\ net[Peer(p)] = {}
    /\ \/ KcpFlush(kcp[p], all) # kcp[p]
       \/ WholeOutput(kcp[p]) # {}

FairSpec ==
    /\ Spec
    /\ \A p \in Sides :
          /\ []<>(net[p] = {}) \/ []<><<Arrival(p)>>_vars
          /\ []<>(~ KcpReadable(kcp[p])) \/ []<><<Recv(p)>>_vars
          /\ <>[](~ GoodTickEnabled(p)) \/ []<><<GoodTick(p)>>_vars

(* Whatever is queued is read at the other end in the end, across losses,  *)
(* closed windows and lost window updates.                                 *)
EventuallyRead ==
    \A p \in Sides : \A n \in 1 .. MaxSent[p] :
        Len(sent[p]) >= n ~> Len(taken[Peer(p)]) >= n
============================================================================
