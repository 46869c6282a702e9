-------------------------- MODULE KcpDeliveryProofs --------------------------
(***************************************************************************)
(* More theorems about a session, for every window, message set and bound: *)
(* the sender forgets nothing the receiver does not hold, the receiver     *)
(* holds no more than its window, and a session implements two reliable    *)
(* streams of messages, FifoLink: the messages that what is queued and     *)
(* what is read spell make the steps of FifoLink, or none.                 *)
(***************************************************************************)
EXTENDS KcpLinkProofs

(* The sequence numbers a control block has delivered or holds early.      *)
Got(k) == Sns(k.rcv_buf) \cup 0 .. k.rcv_nxt - 1

(* k has received at least what r has.                                     *)
GotMore(k, r) == Got(r) \subseteq Got(k)

(* Moving segments to rcv_queue forgets none of them.                      *)
LEMMA DrainGot ==
    ASSUME NEW k \in ControlBlock
    PROVE  GotMore(Drain(k), k) /\ Drain(k).acklist = k.acklist
  <1>1. PICK n : n = InOrderRun(k)
    OBVIOUS
  <1>2. PICK r : r = Drain(k)
    OBVIOUS
  <1>3. n \in Nat /\ k.rcv_nxt \in Nat /\ k.rcv_buf \in SUBSET Numbered
    BY <1>1, InOrderRunProperty, WndUnusedNat DEF ControlBlock
  <1>4. /\ r = [k EXCEPT !.rcv_nxt = r.rcv_nxt, !.rcv_buf = r.rcv_buf,
                         !.rcv_queue = r.rcv_queue]
        /\ r.rcv_nxt = k.rcv_nxt + n
        /\ r.rcv_buf = {s \in k.rcv_buf : s.sn \notin k.rcv_nxt .. k.rcv_nxt + n - 1}
    BY <1>1, <1>2, DrainProperty
  <1>5. r.acklist = k.acklist
    BY <1>4 DEF ControlBlock
  <1>6. ASSUME NEW s \in k.rcv_buf
        PROVE  s.sn \in Got(r)
    <2>1. s.sn \in Nat
      BY <1>3 DEF Numbered
    <2>2. CASE s.sn \in k.rcv_nxt .. k.rcv_nxt + n - 1
      <3>1. s.sn \in 0 .. r.rcv_nxt - 1
        BY <1>3, <1>4, <2>1, <2>2
      <3>. QED
        BY <3>1 DEF Got
    <2>3. CASE s.sn \notin k.rcv_nxt .. k.rcv_nxt + n - 1
      <3>1. s \in r.rcv_buf
        BY <1>4, <2>3
      <3>. QED
        BY <3>1 DEF Got, Sns
    <2>. QED
      BY <2>2, <2>3
  <1>7. ASSUME NEW i \in 0 .. k.rcv_nxt - 1
        PROVE  i \in Got(r)
    <2>1. i \in 0 .. r.rcv_nxt - 1
      BY <1>3, <1>4
    <2>. QED
      BY <2>1 DEF Got
  <1>8. Got(k) \subseteq Got(r)
    BY <1>6, <1>7 DEF Got, Sns
  <1>. QED
    BY <1>2, <1>5, <1>8 DEF GotMore

(* What Insert hands to Drain: rcv_buf with the new segments in it.        *)
Stored(k, segs) ==
    [k EXCEPT !.rcv_buf =
        @ \cup {s \in segs : s.sn >= k.rcv_nxt /\ s.sn \notin Sns(@)}]

(* Insert stores and then drains.                                          *)
LEMMA StoredProperty ==
    ASSUME NEW k \in ControlBlock, NEW segs \in SUBSET Numbered
    PROVE  /\ Stored(k, segs) \in ControlBlock
           /\ Insert(k, segs) = Drain(Stored(k, segs))
           /\ Stored(k, segs).rcv_nxt = k.rcv_nxt
           /\ Stored(k, segs).rcv_queue = k.rcv_queue
           /\ Stored(k, segs).acklist = k.acklist
           /\ Stored(k, segs).rcv_buf =
                k.rcv_buf \cup {s \in segs : s.sn >= k.rcv_nxt
                                              /\ s.sn \notin Sns(k.rcv_buf)}
  <1>1. PICK buf : buf = k.rcv_buf \cup {s \in segs : s.sn >= k.rcv_nxt
                                              /\ s.sn \notin Sns(k.rcv_buf)}
    OBVIOUS
  <1>2. buf \in SUBSET Numbered
    BY <1>1 DEF ControlBlock
  <1>3. PICK r : r = [k EXCEPT !.rcv_buf = buf]
    OBVIOUS
  <1>4. /\ r \in ControlBlock
        /\ r.rcv_buf = buf
        /\ r.rcv_nxt = k.rcv_nxt
        /\ r.rcv_queue = k.rcv_queue
        /\ r.acklist = k.acklist
    BY <1>2, <1>3 DEF ControlBlock
  <1>5. Stored(k, segs) = r
    BY <1>1, <1>3 DEF Stored
  <1>6. Insert(k, segs) = Drain(r)
    BY <1>1, <1>3 DEF Insert
  <1>. QED
    BY <1>1, <1>4, <1>5, <1>6

(* Storing arrived segments forgets none of the old ones, and afterwards   *)
(* every one of them has been received.                                    *)
LEMMA InsertGot ==
    ASSUME NEW k \in ControlBlock, NEW segs \in SUBSET Numbered
    PROVE  /\ GotMore(Insert(k, segs), k)
           /\ Sns(segs) \subseteq Got(Insert(k, segs))
           /\ Insert(k, segs).acklist = k.acklist
  <1>1. PICK r : r = Stored(k, segs)
    OBVIOUS
  <1>2. /\ r \in ControlBlock
        /\ Insert(k, segs) = Drain(r)
        /\ r.rcv_nxt = k.rcv_nxt
        /\ r.acklist = k.acklist
        /\ r.rcv_buf = k.rcv_buf \cup {s \in segs : s.sn >= k.rcv_nxt
                                              /\ s.sn \notin Sns(k.rcv_buf)}
    BY <1>1, StoredProperty
  <1>3. Got(k) \subseteq Got(r)
    BY <1>2 DEF Got, Sns
  <1>4. ASSUME NEW s \in segs
        PROVE  s.sn \in Got(r)
    <2>1. s.sn \in Nat /\ k.rcv_nxt \in Nat
      BY DEF Numbered, ControlBlock
    <2>2. CASE s.sn < k.rcv_nxt
      <3>1. s.sn \in 0 .. r.rcv_nxt - 1
        BY <1>2, <2>1, <2>2
      <3>. QED
        BY <3>1 DEF Got
    <2>3. CASE s.sn \in Sns(k.rcv_buf)
      BY <1>3, <2>3 DEF Got
    <2>4. CASE s.sn >= k.rcv_nxt /\ s.sn \notin Sns(k.rcv_buf)
      <3>1. s \in r.rcv_buf
        BY <1>2, <2>4
      <3>. QED
        BY <3>1 DEF Got, Sns
    <2>. QED
      BY <2>1, <2>2, <2>3, <2>4
  <1>5. Sns(segs) \subseteq Got(r)
    BY <1>4 DEF Sns
  <1>6. GotMore(Drain(r), r) /\ Drain(r).acklist = r.acklist
    BY <1>2, DrainGot
  <1>. QED
    BY <1>2, <1>3, <1>5, <1>6 DEF GotMore

(* A control block acknowledges only what it has received.                 *)
Honest(k) == k.acklist \subseteq Got(k)

(* Handling PUSH segments forgets nothing, and what it acknowledges, a     *)
(* duplicate included, has been received.                                  *)
LEMMA TakePushesGot ==
    ASSUME NEW k \in ControlBlock, NEW push \in SUBSET Numbered, Honest(k)
    PROVE  /\ GotMore(TakePushes(k, push), k)
           /\ Honest(TakePushes(k, push))
  <1>1. PICK inWindow \in SUBSET push :
          TakePushes(k, push) =
            [Insert(k, inWindow) EXCEPT !.acklist = @ \cup Sns(inWindow)]
    BY DEF TakePushes
  <1>2. PICK r : r = Insert(k, inWindow)
    OBVIOUS
  <1>3. /\ r \in ControlBlock
        /\ GotMore(r, k)
        /\ Sns(inWindow) \subseteq Got(r)
        /\ r.acklist = k.acklist
    BY <1>2, InsertType, InsertGot
  <1>4. PICK t : t = TakePushes(k, push)
    OBVIOUS
  <1>5. /\ t.rcv_buf = r.rcv_buf
        /\ t.rcv_nxt = r.rcv_nxt
        /\ t.acklist = r.acklist \cup Sns(inWindow)
    BY <1>1, <1>2, <1>3, <1>4 DEF ControlBlock
  <1>6. Got(t) = Got(r)
    BY <1>5 DEF Got
  <1>. QED
    BY <1>3, <1>4, <1>5, <1>6 DEF GotMore, Honest

(* ikcp_input forgets nothing of what was received, acknowledges only what *)
(* has been, and drops from snd_buf only what the datagram acknowledges.   *)
LEMMA KcpInputGot ==
    ASSUME NEW k \in ControlBlock, NEW d \in Datagram, NEW grow \in BOOLEAN,
           Honest(k)
    PROVE  /\ GotMore(KcpInput(k, d, grow), k)
           /\ Honest(KcpInput(k, d, grow))
           /\ \A n \in Sns(k.snd_buf) :
                 \/ n \in Sns(KcpInput(k, d, grow).snd_buf)
                 \/ n \in d.acks
                 \/ n \in 0 .. d.una - 1
  <1>1. PICK acked : acked = TakeAcks(k, d)
    OBVIOUS
  <1>2. acked \in ControlBlock /\ SameReceiver(acked, k)
    BY <1>1, TakeAcksType
  <1>3. /\ acked.acklist = k.acklist
        /\ \A s \in k.snd_buf : \/ s \in acked.snd_buf
                                \/ s.sn \in d.acks
                                \/ s.sn \in 0 .. d.una - 1
    <2>1. PICK left : left = {s \in k.snd_buf : s.sn >= d.una /\ s.sn \notin d.acks}
      OBVIOUS
    <2>2. PICK una : acked = [k EXCEPT !.snd_buf = left, !.snd_una = una]
      BY <1>1, <2>1 DEF TakeAcks
    <2>3. acked.acklist = k.acklist /\ acked.snd_buf = left
      BY <2>2 DEF ControlBlock
    <2>4. ASSUME NEW s \in k.snd_buf, s \notin left
          PROVE  s.sn \in d.acks \/ s.sn \in 0 .. d.una - 1
      <3>1. s.sn \in Nat /\ d.una \in Nat
        BY DEF ControlBlock, Numbered, Datagram
      <3>. QED
        BY <2>1, <2>4, <3>1
    <2>. QED
      BY <2>3, <2>4
  <1>4. PICK heard : heard = [acked EXCEPT !.rmt_wnd = d.wnd, !.tell = @ \/ d.wask]
    OBVIOUS
  <1>5. /\ heard \in ControlBlock
        /\ SameReceiver(heard, acked)
        /\ heard.acklist = acked.acklist
        /\ heard.snd_buf = acked.snd_buf
    <2>1. acked.tell \in BOOLEAN /\ d.wask \in BOOLEAN /\ d.wnd \in Nat
      BY <1>2 DEF ControlBlock, Datagram
    <2>2. (acked.tell \/ d.wask) \in BOOLEAN
      BY <2>1
    <2>. QED
      BY <1>2, <1>4, <2>1, <2>2 DEF ControlBlock, SameReceiver
  <1>6. Got(heard) = Got(k) /\ Honest(heard)
    BY <1>2, <1>3, <1>5 DEF Got, Honest, SameReceiver
  <1>7. PICK stored : stored = TakePushes(heard, d.push)
    OBVIOUS
  <1>8. /\ stored \in ControlBlock
        /\ SameSender(stored, heard)
        /\ GotMore(stored, heard)
        /\ Honest(stored)
    <2>1. d.push \in SUBSET Numbered
      BY DEF Datagram
    <2>. QED
      BY <1>5, <1>6, <1>7, <2>1, TakePushesType, TakePushesGot
  <1>9. PICK opened : opened = OpenCwnd(stored, k.snd_una, grow)
    OBVIOUS
  <1>10. /\ Got(opened) = Got(stored)
         /\ opened.acklist = stored.acklist
         /\ opened.snd_buf = stored.snd_buf
    BY <1>8, <1>9 DEF OpenCwnd, Got, ControlBlock
  <1>11. KcpInput(k, d, grow) = IF d.conv # k.conv THEN k ELSE opened
    BY <1>1, <1>4, <1>7, <1>9 DEF KcpInput
  <1>12. GotMore(opened, k) /\ Honest(opened)
    BY <1>6, <1>8, <1>10 DEF GotMore, Honest
  <1>13. ASSUME NEW n \in Sns(k.snd_buf)
         PROVE  \/ n \in Sns(opened.snd_buf)
                \/ n \in d.acks
                \/ n \in 0 .. d.una - 1
    <2>1. PICK s \in k.snd_buf : s.sn = n
      BY DEF Sns
    <2>2. opened.snd_buf = acked.snd_buf
      BY <1>5, <1>8, <1>10 DEF SameSender
    <2>. QED
      BY <1>3, <2>1, <2>2 DEF Sns
  <1>. QED
    BY <1>11, <1>12, <1>13 DEF GotMore

(* ikcp_recv forgets nothing of what was received.                         *)
LEMMA KcpRecvGot ==
    ASSUME NEW k \in ControlBlock, k.rcv_queue # <<>>
    PROVE  /\ GotMore(KcpRecv(k), k)
           /\ KcpRecv(k).acklist = k.acklist
  <1>1. PICK rest : rest = SubSeq(k.rcv_queue, Len(FirstMessage(k)) + 1, Len(k.rcv_queue))
    OBVIOUS
  <1>2. rest \in Seq(Segment)
    <2>1. PICK m \in 1 .. Len(k.rcv_queue) : FirstMessage(k) = SubSeq(k.rcv_queue, 1, m)
      BY FirstMessageProperty
    <2>2. k.rcv_queue \in Seq(Segment) /\ Len(SubSeq(k.rcv_queue, 1, m)) = m
      BY <2>1 DEF ControlBlock
    <2>3. SubSeq(k.rcv_queue, m + 1, Len(k.rcv_queue)) \in Seq(Segment)
      BY <2>1, <2>2
    <2>. QED
      BY <1>1, <2>1, <2>2, <2>3
  <1>3. PICK cut : cut = [k EXCEPT !.rcv_queue = rest]
    OBVIOUS
  <1>4. cut \in ControlBlock /\ Got(cut) = Got(k) /\ cut.acklist = k.acklist
    BY <1>2, <1>3 DEF ControlBlock, Got
  <1>5. PICK read : read = Drain(cut)
    OBVIOUS
  <1>6. read \in ControlBlock /\ GotMore(read, cut) /\ read.acklist = cut.acklist
    BY <1>4, <1>5, DrainFrame, DrainGot
  <1>7. PICK told : KcpRecv(k) = [read EXCEPT !.tell = told]
    BY <1>1, <1>3, <1>5 DEF KcpRecv
  <1>8. Got(KcpRecv(k)) = Got(read) /\ KcpRecv(k).acklist = read.acklist
    BY <1>6, <1>7 DEF ControlBlock, Got
  <1>. QED
    BY <1>4, <1>6, <1>8 DEF GotMore

(* A datagram carries the acknowledgements of the control block it is from.*)
LEMMA KcpOutputAcks ==
    ASSUME NEW k \in ControlBlock, NEW due, NEW probeDue \in BOOLEAN, NEW cuts,
           NEW d \in KcpOutput(k, due, probeDue, cuts)
    PROVE  d.acks \subseteq k.acklist /\ d.una = k.rcv_nxt
  <1>1. FrameOf(k, due, probeDue, d)
    BY OutputFrames, Zenon
  <1>2. PICK acks \in SUBSET k.acklist, wask \in {AskSend(k, probeDue), FALSE},
             wins \in {k.tell, FALSE},
             push \in SUBSET (Moved(k) \cup Resent(k, due)) :
                d = Frame(k, acks, wask, wins, push)
    BY <1>1, Zenon DEF FrameOf
  <1>3. d.acks = acks /\ d.una = k.rcv_nxt
    BY <1>2 DEF Frame
  <1>. QED
    BY <1>3

(* A flush puts every number it gives out into snd_buf, and keeps what is  *)
(* there; its acknowledgements are gone with it.                           *)
LEMMA KcpFlushKeeps ==
    ASSUME NEW k \in ControlBlock, NEW due
    PROVE  /\ \A n \in k.snd_nxt .. KcpFlush(k, due).snd_nxt - 1 :
                 n \in Sns(KcpFlush(k, due).snd_buf)
           /\ Sns(k.snd_buf) \subseteq Sns(KcpFlush(k, due).snd_buf)
           /\ KcpFlush(k, due).acklist = {}
           /\ Got(KcpFlush(k, due)) = Got(k)
  <1>1. PICK r : r = KcpFlush(k, due)
    OBVIOUS
  <1>2. /\ SameReceiver(r, k)
        /\ r.snd_nxt = k.snd_nxt + MoveCount(k)
        /\ r.snd_buf = k.snd_buf \cup Moved(k)
    BY <1>1, KcpFlushType
  <1>3. k.snd_nxt \in Nat /\ MoveCount(k) \in Nat
    <2>1. Len(k.snd_queue) \in Nat
      BY DEF ControlBlock
    <2>. QED
      BY <2>1, MoveCountType DEF ControlBlock
  <1>4. ASSUME NEW n \in k.snd_nxt .. r.snd_nxt - 1
        PROVE  n \in Sns(r.snd_buf)
    <2>1. PICK i \in 1 .. MoveCount(k) : n = k.snd_nxt + i - 1
      <3>1. n - k.snd_nxt + 1 \in 1 .. MoveCount(k)
            /\ n = k.snd_nxt + (n - k.snd_nxt + 1) - 1
        BY <1>2, <1>3
      <3>. QED
        BY <3>1
    <2>2. [sn |-> k.snd_nxt + i - 1, seg |-> k.snd_queue[i]] \in Moved(k)
      BY DEF Moved
    <2>3. PICK s \in Moved(k) : s.sn = n
      BY <2>1, <2>2
    <2>. QED
      BY <1>2, <2>3 DEF Sns
  <1>5. r.acklist = {}
    BY <1>1 DEF KcpFlush, ControlBlock
  <1>6. Sns(k.snd_buf) \subseteq Sns(r.snd_buf) /\ Got(r) = Got(k)
    BY <1>2 DEF Sns, Got, SameReceiver
  <1>. QED
    BY <1>1, <1>4, <1>5, <1>6

(* Queueing a message numbers nothing and receives nothing.                *)
LEMMA KcpSendKeeps ==
    ASSUME NEW k \in ControlBlock, NEW msg
    PROVE  /\ KcpSend(k, msg).snd_nxt = k.snd_nxt
           /\ KcpSend(k, msg).snd_buf = k.snd_buf
           /\ KcpSend(k, msg).acklist = k.acklist
           /\ SameReceiver(KcpSend(k, msg), k)
  BY DEF KcpSend, ControlBlock, SameReceiver

----------------------------------------------------------------------------
(* Nothing is forgotten.                                                   *)

(* Each number the sender gave out is still in its snd_buf, or received.   *)
Remembers(k, peer) ==
    \A n \in 0 .. k.snd_nxt - 1 : n \in Sns(k.snd_buf) \/ n \in Got(peer)

(* What a datagram acknowledges has been received where it comes from.     *)
Attests(d, from) == d.acks \cup 0 .. d.una - 1 \subseteq Got(from)

(* The inductive invariant: every acknowledgement, in acklist or under     *)
(* way, however old, is one of something the receiver has.                 *)
Remembered(p) ==
    /\ Remembers(kcp[p], kcp[Peer(p)])
    /\ Honest(kcp[p])
    /\ \A d \in net[p] : Attests(d, kcp[Peer(p)])

AckInv == TypeOK /\ \A p \in Sides : Remembered(p)

(* A peer that has received more remembers more and attests as much.       *)
LEMMA GotMoreKeeps ==
    ASSUME NEW k, NEW peer, NEW later, GotMore(later, peer)
    PROVE  /\ Remembers(k, peer) => Remembers(k, later)
           /\ \A d : Attests(d, peer) => Attests(d, later)
  BY DEF GotMore, Remembers, Attests

(* What the invariant says of one end.                                     *)
LEMMA AckFacts ==
    ASSUME AckInv, NEW p \in Sides
    PROVE  /\ kcp[p] \in ControlBlock
           /\ net[p] \in SUBSET Datagram
           /\ Remembers(kcp[p], kcp[Peer(p)])
           /\ Honest(kcp[p])
           /\ \A d \in net[p] : Attests(d, kcp[Peer(p)])
  BY DEF AckInv, TypeOK, Remembered

(* Queueing a message forgets nothing.                                     *)
LEMMA SendRemembered ==
    ASSUME AckInv, NEW p \in Sides, NEW msg \in Messages, Send(p, msg),
           NEW x \in Sides
    PROVE  Remembered(x)'
  <1>1. PICK k : k = kcp[p]
    OBVIOUS
  <1>2. PICK r : r = KcpSend(k, msg)
    OBVIOUS
  <1>3. /\ r.snd_nxt = k.snd_nxt
        /\ r.snd_buf = k.snd_buf
        /\ r.acklist = k.acklist
        /\ Got(r) = Got(k)
    BY <1>1, <1>2, AckFacts, KcpSendKeeps DEF SameReceiver, Got
  <1>4. /\ kcp' = [kcp EXCEPT ![p] = r]
        /\ net' = net
        /\ kcp \in [Sides -> ControlBlock]
    BY <1>1, <1>2 DEF Send, AckInv, TypeOK
  <1>5. Peer(x) \in Sides /\ Peer(x) # x
    BY PeerType
  <1>6. CASE x = p
    <2>1. kcp'[x] = r /\ kcp'[Peer(x)] = kcp[Peer(x)]
      BY <1>4, <1>5, <1>6
    <2>2. Remembers(r, kcp[Peer(x)]) /\ Honest(r)
      <3>1. Remembers(k, kcp[Peer(x)]) /\ Honest(k)
        BY <1>1, <1>6, AckFacts
      <3>. QED
        BY <1>3, <3>1 DEF Remembers, Honest
    <2>. QED
      BY <1>4, <2>1, <2>2, AckFacts DEF Remembered
  <1>7. CASE x # p
    <2>1. Peer(x) = p
      BY <1>7 DEF Peer, Sides
    <2>2. kcp'[x] = kcp[x] /\ kcp'[p] = r
      BY <1>4, <1>7
    <2>3. GotMore(r, kcp[p])
      BY <1>1, <1>3 DEF GotMore
    <2>4. Remembers(kcp[x], r) /\ \A d \in net[x] : Attests(d, r)
      BY <2>1, <2>3, AckFacts, GotMoreKeeps
    <2>. QED
      BY <1>4, <2>1, <2>2, <2>4, AckFacts DEF Remembered
  <1>. QED
    BY <1>6, <1>7

(* A tick forgets nothing: what it numbers it keeps, and what it           *)
(* acknowledges is there.                                                  *)
LEMMA UpdateRemembered ==
    ASSUME AckInv, NEW p \in Sides, UpdateSome(p), NEW x \in Sides
    PROVE  Remembered(x)'
  <1>1. PICK probeDue \in BOOLEAN :
          \E due, cuts, kept : Update(p, due, probeDue, cuts, kept)
    BY UpdateSomeIsUpdate
  <1>2. PICK due, cuts, kept : Update(p, due, probeDue, cuts, kept)
    BY <1>1
  <1>3. PICK k : k = kcp[p]
    OBVIOUS
  <1>4. k \in ControlBlock /\ Honest(k)
    BY <1>3, AckFacts
  <1>5. PICK r : r = KcpFlush(k, due)
    OBVIOUS
  <1>6. /\ r \in ControlBlock
        /\ \A n \in k.snd_nxt .. r.snd_nxt - 1 : n \in Sns(r.snd_buf)
        /\ Sns(k.snd_buf) \subseteq Sns(r.snd_buf)
        /\ r.acklist = {}
        /\ Got(r) = Got(k)
    BY <1>4, <1>5, KcpFlushType, KcpFlushKeeps
  <1>7. /\ kcp' = [kcp EXCEPT ![p] = r]
        /\ kept \subseteq KcpOutput(k, due, probeDue, cuts)
        /\ net' = [net EXCEPT ![Peer(p)] = @ \cup kept]
    BY <1>2, <1>3, <1>5 DEF Update
  <1>8. /\ Peer(x) \in Sides
        /\ Peer(x) # x
        /\ kcp \in [Sides -> ControlBlock]
        /\ net \in [Sides -> SUBSET Datagram]
    BY PeerType DEF AckInv, TypeOK
  <1>9. CASE x = p
    <2>1. /\ kcp'[x] = r
          /\ kcp'[Peer(x)] = kcp[Peer(x)]
          /\ net'[x] = net[x]
      BY <1>7, <1>8, <1>9
    <2>2. Remembers(r, kcp[Peer(x)])
      <3>1. Remembers(k, kcp[Peer(x)])
        BY <1>3, <1>9, AckFacts
      <3>2. ASSUME NEW n \in 0 .. r.snd_nxt - 1
            PROVE  n \in Sns(r.snd_buf) \/ n \in Got(kcp[Peer(x)])
        <4>1. k.snd_nxt \in Nat /\ r.snd_nxt \in Nat
          BY <1>4, <1>6 DEF ControlBlock
        <4>2. n \in 0 .. k.snd_nxt - 1 \/ n \in k.snd_nxt .. r.snd_nxt - 1
          BY <4>1
        <4>. QED
          BY <1>6, <3>1, <4>2 DEF Remembers
      <3>. QED
        BY <3>2 DEF Remembers
    <2>3. Honest(r)
      BY <1>6 DEF Honest
    <2>. QED
      BY <2>1, <2>2, <2>3, AckFacts DEF Remembered
  <1>10. CASE x # p
    <2>1. Peer(x) = p /\ Peer(p) = x
      BY <1>10 DEF Peer, Sides
    <2>2. kcp'[x] = kcp[x] /\ kcp'[p] = r /\ net'[x] = net[x] \cup kept
      BY <1>7, <1>8, <1>10, <2>1
    <2>3. GotMore(r, kcp[p])
      BY <1>3, <1>6 DEF GotMore
    <2>4. Remembers(kcp[x], r) /\ \A d \in net[x] : Attests(d, r)
      BY <2>1, <2>3, AckFacts, GotMoreKeeps
    <2>5. ASSUME NEW d \in kept
          PROVE  Attests(d, r)
      <3>1. d.acks \subseteq k.acklist /\ d.una = k.rcv_nxt
        BY <1>4, <1>7, KcpOutputAcks
      <3>. QED
        BY <1>4, <1>6, <3>1 DEF Attests, Honest, Got
    <2>. QED
      BY <2>1, <2>2, <2>4, <2>5, AckFacts DEF Remembered
  <1>. QED
    BY <1>9, <1>10

(* The arrival of a datagram forgets nothing, however stale the datagram.  *)
LEMMA InputRemembered ==
    ASSUME AckInv, NEW p \in Sides, InputSome(p), NEW x \in Sides
    PROVE  Remembered(x)'
  <1>1. PICK d \in net[p], grow \in BOOLEAN, duplicated \in BOOLEAN :
          Input(p, d, grow, duplicated)
    BY DEF InputSome
  <1>2. PICK k : k = kcp[p]
    OBVIOUS
  <1>3. k \in ControlBlock /\ Honest(k) /\ d \in Datagram
    BY <1>1, <1>2, AckFacts
  <1>4. PICK r : r = KcpInput(k, d, grow)
    OBVIOUS
  <1>5. /\ r.snd_nxt = k.snd_nxt
        /\ GotMore(r, k)
        /\ Honest(r)
        /\ \A n \in Sns(k.snd_buf) : \/ n \in Sns(r.snd_buf)
                                     \/ n \in d.acks
                                     \/ n \in 0 .. d.una - 1
    BY <1>3, <1>4, KcpInputType, KcpInputGot
  <1>6. /\ kcp' = [kcp EXCEPT ![p] = r]
        /\ \A q \in Sides : net'[q] \subseteq net[q]
    BY <1>1, <1>2, <1>4 DEF Input, AckInv, TypeOK
  <1>7. /\ Peer(x) \in Sides
        /\ Peer(x) # x
        /\ kcp \in [Sides -> ControlBlock]
    BY PeerType DEF AckInv, TypeOK
  <1>8. CASE x = p
    <2>1. kcp'[x] = r /\ kcp'[Peer(x)] = kcp[Peer(x)]
      BY <1>6, <1>7, <1>8
    <2>2. Remembers(r, kcp[Peer(x)])
      <3>1. Remembers(k, kcp[Peer(x)]) /\ Attests(d, kcp[Peer(x)])
        BY <1>2, <1>8, AckFacts
      <3>. QED
        BY <1>5, <3>1 DEF Remembers, Attests
    <2>. QED
      BY <1>5, <1>6, <2>1, <2>2, AckFacts DEF Remembered
  <1>9. CASE x # p
    <2>1. Peer(x) = p
      BY <1>9 DEF Peer, Sides
    <2>2. kcp'[x] = kcp[x] /\ kcp'[p] = r
      BY <1>6, <1>7, <1>9
    <2>3. Remembers(kcp[x], r) /\ \A e \in net[x] : Attests(e, r)
      BY <1>2, <1>5, <2>1, AckFacts, GotMoreKeeps
    <2>. QED
      BY <1>6, <2>1, <2>2, <2>3, AckFacts DEF Remembered
  <1>. QED
    BY <1>8, <1>9

(* Reading a message forgets nothing.                                      *)
LEMMA RecvRemembered ==
    ASSUME AckInv, NEW p \in Sides, Recv(p), NEW x \in Sides
    PROVE  Remembered(x)'
  <1>1. PICK k : k = kcp[p]
    OBVIOUS
  <1>2. k \in ControlBlock /\ Honest(k) /\ k.rcv_queue # <<>>
    BY <1>1, AckFacts DEF Recv, KcpReadable
  <1>3. PICK r : r = KcpRecv(k)
    OBVIOUS
  <1>4. /\ SameSender(r, k)
        /\ GotMore(r, k)
        /\ r.acklist = k.acklist
    BY <1>2, <1>3, KcpRecvType, KcpRecvGot
  <1>5. /\ kcp' = [kcp EXCEPT ![p] = r]
        /\ net' = net
        /\ kcp \in [Sides -> ControlBlock]
    BY <1>1, <1>3 DEF Recv, AckInv, TypeOK
  <1>6. Peer(x) \in Sides /\ Peer(x) # x
    BY PeerType
  <1>7. CASE x = p
    <2>1. kcp'[x] = r /\ kcp'[Peer(x)] = kcp[Peer(x)]
      BY <1>5, <1>6, <1>7
    <2>2. Remembers(r, kcp[Peer(x)])
      <3>1. Remembers(k, kcp[Peer(x)])
        BY <1>1, <1>7, AckFacts
      <3>. QED
        BY <1>4, <3>1 DEF Remembers, SameSender
    <2>3. Honest(r)
      BY <1>2, <1>4 DEF Honest, GotMore
    <2>. QED
      BY <1>5, <2>1, <2>2, <2>3, AckFacts DEF Remembered
  <1>8. CASE x # p
    <2>1. Peer(x) = p
      BY <1>8 DEF Peer, Sides
    <2>2. kcp'[x] = kcp[x] /\ kcp'[p] = r
      BY <1>5, <1>8
    <2>3. Remembers(kcp[x], r) /\ \A d \in net[x] : Attests(d, r)
      BY <1>1, <1>4, <2>1, AckFacts, GotMoreKeeps
    <2>. QED
      BY <1>5, <2>1, <2>2, <2>3, AckFacts DEF Remembered
  <1>. QED
    BY <1>7, <1>8

(* Nothing has been numbered or acknowledged at the start.                 *)
LEMMA AckInit ==
    ASSUME Init
    PROVE  AckInv
  <1>1. TypeOK
    BY TypeInit
  <1>2. PICK k : k = KcpCreate(Conv)
    OBVIOUS
  <1>3. k.snd_nxt = 0 /\ k.acklist = {}
    BY <1>2 DEF KcpCreate
  <1>4. ASSUME NEW p \in Sides
        PROVE  Remembered(p)
    <2>1. kcp[p] = k /\ kcp[Peer(p)] = k /\ net[p] = {}
      BY <1>2, PeerType DEF Init
    <2>. QED
      BY <1>3, <2>1 DEF Remembered, Remembers, Honest
  <1>. QED
    BY <1>1, <1>4 DEF AckInv

(* The invariant is inductive.                                             *)
LEMMA AckStep ==
    ASSUME AckInv, [Next]_vars
    PROVE  AckInv'
  <1>1. TypeOK'
    BY TypeStep DEF AckInv
  <1>2. ASSUME NEW x \in Sides
        PROVE  Remembered(x)'
    <2>1. CASE \E p \in Sides : \E msg \in Messages : Send(p, msg)
      BY <2>1, SendRemembered
    <2>2. CASE \E p \in Sides : UpdateSome(p)
      BY <2>2, UpdateRemembered
    <2>3. CASE \E p \in Sides : InputSome(p)
      BY <2>3, InputRemembered
    <2>4. CASE \E p \in Sides : Recv(p)
      BY <2>4, RecvRemembered
    <2>5. CASE UNCHANGED vars
      <3>1. Remembered(x)
        BY DEF AckInv
      <3>. QED
        BY <2>5, <3>1 DEF Remembered, vars
    <2>. QED
      BY <2>1, <2>2, <2>3, <2>4, <2>5 DEF Next, SendSome
  <1>. QED
    BY <1>1, <1>2 DEF AckInv

(* Whatever is lost, repeated and overtaken, a segment leaves the sender's *)
(* snd_buf only when the receiver has it.                                  *)
THEOREM NothingForgottenCorrect == Spec => []NothingForgotten
  <1>1. Init => AckInv
    BY AckInit
  <1>2. AckInv /\ [Next]_vars => AckInv'
    BY AckStep
  <1>3. AckInv => NothingForgotten
    BY DEF AckInv, Remembered, Remembers, NothingForgotten, Received, Got
  <1>. QED
    BY <1>1, <1>2, <1>3, PTL DEF Spec

----------------------------------------------------------------------------
(* The receiver's bound.                                                   *)

(* What a control block holds early lies within its window.                *)
InWindow(k) == \A s \in k.rcv_buf : k.rcv_nxt <= s.sn /\ s.sn < k.rcv_nxt + RcvWnd

(* The next segment waits in rcv_buf only when there is no room for it.    *)
NothingWaits(k) == k.rcv_nxt \in Sns(k.rcv_buf) => Len(k.rcv_queue) = RcvWnd

Bounded(k) == Len(k.rcv_queue) <= RcvWnd /\ InWindow(k) /\ NothingWaits(k)

(* Drain establishes the bound wherever the segments it leaves are not     *)
(* beyond the window it arrives at.                                        *)
LEMMA DrainBounded ==
    ASSUME NEW k \in ControlBlock, Len(k.rcv_queue) <= RcvWnd,
           \A s \in k.rcv_buf : /\ k.rcv_nxt <= s.sn
                                /\ s.sn < Drain(k).rcv_nxt + RcvWnd
    PROVE  Bounded(Drain(k))
  <1>1. PICK n : n = InOrderRun(k)
    OBVIOUS
  <1>2. PICK r : r = Drain(k)
    OBVIOUS
  <1>3. PICK q \in Nat : q = Len(k.rcv_queue)
    BY DEF ControlBlock
  <1>4. WndUnused(k) = RcvWnd - q /\ RcvWnd - q \in Nat
    BY <1>3, KcpAssumption DEF WndUnused, Greater
  <1>5. /\ n \in Nat
        /\ n <= RcvWnd - q
        /\ n = RcvWnd - q \/ k.rcv_nxt + n \notin Sns(k.rcv_buf)
    BY <1>1, <1>4, InOrderRunProperty
  <1>6. /\ r.rcv_nxt = k.rcv_nxt + n
        /\ r.rcv_buf = {s \in k.rcv_buf : s.sn \notin k.rcv_nxt .. k.rcv_nxt + n - 1}
        /\ Len(r.rcv_queue) = q + n
    BY <1>1, <1>2, <1>3, DrainProperty
  <1>7. k.rcv_nxt \in Nat /\ k.rcv_buf \in SUBSET Numbered
    BY DEF ControlBlock
  <1>8. Len(r.rcv_queue) <= RcvWnd
    BY <1>3, <1>5, <1>6, KcpAssumption
  <1>9. ASSUME NEW s \in r.rcv_buf
        PROVE  r.rcv_nxt <= s.sn /\ s.sn < r.rcv_nxt + RcvWnd
    <2>1. s \in k.rcv_buf /\ s.sn \in Nat
      BY <1>6, <1>7 DEF Numbered
    <2>2. k.rcv_nxt <= s.sn /\ s.sn < r.rcv_nxt + RcvWnd
      BY <1>2, <2>1
    <2>3. s.sn \notin k.rcv_nxt .. k.rcv_nxt + n - 1
      BY <1>6
    <2>. QED
      BY <1>5, <1>6, <1>7, <2>1, <2>2, <2>3
  <1>10. ASSUME r.rcv_nxt \in Sns(r.rcv_buf)
         PROVE  Len(r.rcv_queue) = RcvWnd
    <2>1. k.rcv_nxt + n \in Sns(k.rcv_buf)
      BY <1>6, <1>10 DEF Sns
    <2>2. n = RcvWnd - q
      BY <1>5, <2>1
    <2>. QED
      BY <1>3, <1>6, <2>2, KcpAssumption
  <1>. QED
    BY <1>2, <1>8, <1>9, <1>10 DEF Bounded, InWindow, NothingWaits

(* Storing more segments takes the stream at least as far.  Of those it    *)
(* stores in addition, only the ones below the first window can count.     *)
LEMMA InsertReach ==
    ASSUME NEW k \in ControlBlock,
           NEW few \in SUBSET Numbered, NEW many \in SUBSET Numbered,
           \A s \in few : s.sn < k.rcv_nxt + RcvWnd => s \in many
    PROVE  /\ k.rcv_nxt <= Insert(k, many).rcv_nxt
           /\ Insert(k, few).rcv_nxt <= Insert(k, many).rcv_nxt
           /\ Insert(k, few).rcv_nxt \in Nat
           /\ Insert(k, many).rcv_nxt \in Nat
  <1>1. PICK a, b : a = Stored(k, few) /\ b = Stored(k, many)
    OBVIOUS
  <1>2. /\ a \in ControlBlock
        /\ b \in ControlBlock
        /\ Insert(k, few) = Drain(a)
        /\ Insert(k, many) = Drain(b)
        /\ a.rcv_nxt = k.rcv_nxt
        /\ b.rcv_nxt = k.rcv_nxt
        /\ a.rcv_queue = k.rcv_queue
        /\ b.rcv_queue = k.rcv_queue
        /\ a.rcv_buf = k.rcv_buf \cup {s \in few : s.sn >= k.rcv_nxt
                                              /\ s.sn \notin Sns(k.rcv_buf)}
        /\ b.rcv_buf = k.rcv_buf \cup {s \in many : s.sn >= k.rcv_nxt
                                              /\ s.sn \notin Sns(k.rcv_buf)}
    BY <1>1, StoredProperty
  <1>3. PICK m, n : m = InOrderRun(a) /\ n = InOrderRun(b)
    OBVIOUS
  <1>4. PICK w \in Nat : /\ w = WndUnused(k)
                         /\ w = WndUnused(a)
                         /\ w = WndUnused(b)
                         /\ w <= RcvWnd
    <2>1. WndUnused(a) = WndUnused(k) /\ WndUnused(b) = WndUnused(k)
      BY <1>2 DEF WndUnused
    <2>2. WndUnused(k) \in Nat
      BY WndUnusedNat
    <2>3. WndUnused(k) <= RcvWnd
      <3>1. Len(k.rcv_queue) \in Nat
        BY DEF ControlBlock
      <3>. QED
        BY <3>1, KcpAssumption DEF WndUnused, Greater
    <2>. QED
      BY <2>1, <2>2, <2>3
  <1>5. /\ m \in 0 .. w
        /\ \A j \in 0 .. m - 1 : k.rcv_nxt + j \in Sns(a.rcv_buf)
    BY <1>2, <1>3, <1>4, InOrderRunProperty
  <1>6. /\ n \in 0 .. w
        /\ n = w \/ k.rcv_nxt + n \notin Sns(b.rcv_buf)
    BY <1>2, <1>3, <1>4, InOrderRunProperty
  <1>7. k.rcv_nxt \in Nat
    BY DEF ControlBlock
  <1>8. m <= n
    <2>1. SUFFICES ASSUME n < m
                   PROVE  FALSE
      BY <1>4, <1>5, <1>6
    <2>2. n \in 0 .. m - 1
      BY <1>4, <1>5, <1>6, <2>1
    <2>3. PICK s \in a.rcv_buf : s.sn = k.rcv_nxt + n
      BY <1>5, <2>2 DEF Sns
    <2>4. k.rcv_nxt + n < k.rcv_nxt + RcvWnd
      BY <1>4, <1>5, <1>6, <1>7, <2>1, KcpAssumption
    <2>5. s \in b.rcv_buf
      BY <1>2, <2>3, <2>4
    <2>6. k.rcv_nxt + n \in Sns(b.rcv_buf)
      BY <2>3, <2>5 DEF Sns
    <2>. QED
      BY <1>4, <1>5, <1>6, <2>1, <2>6
  <1>9. Insert(k, few).rcv_nxt = k.rcv_nxt + m /\ Insert(k, many).rcv_nxt = k.rcv_nxt + n
    BY <1>2, <1>3, DrainProperty
  <1>. QED
    BY <1>4, <1>5, <1>6, <1>7, <1>8, <1>9

(* Handling PUSH segments keeps the bound: a segment that is in the window *)
(* as the ones before it left it is in the window all of them leave.       *)
LEMMA TakePushesBounded ==
    ASSUME NEW k \in ControlBlock, NEW push \in SUBSET Numbered, Bounded(k)
    PROVE  Bounded(TakePushes(k, push))
  <1>. DEFINE Before(s) == Insert(k, {t \in push : t.sn < s.sn})
  <1>1. PICK inWindow :
          /\ inWindow = {s \in push : s.sn < Before(s).rcv_nxt + RcvWnd}
          /\ TakePushes(k, push) =
               [Insert(k, inWindow) EXCEPT !.acklist = @ \cup Sns(inWindow)]
    BY DEF TakePushes
  <1>2. k.rcv_nxt \in Nat /\ inWindow \in SUBSET Numbered /\ RcvWnd \in Nat
    BY <1>1, KcpAssumption DEF ControlBlock
  <1>3. PICK r : r = Insert(k, inWindow)
    OBVIOUS
  <1>4. ASSUME NEW t \in push, t.sn < k.rcv_nxt + RcvWnd
        PROVE  t \in inWindow
    <2>1. {u \in push : u.sn < t.sn} \in SUBSET Numbered
      OBVIOUS
    <2>2. PICK few : few = {u \in push : u.sn < t.sn}
      OBVIOUS
    <2>3. k.rcv_nxt <= Insert(k, few).rcv_nxt /\ Insert(k, few).rcv_nxt \in Nat
      BY <2>1, <2>2, InsertReach
    <2>4. k.rcv_nxt <= Before(t).rcv_nxt /\ Before(t).rcv_nxt \in Nat
      BY <2>2, <2>3
    <2>5. t.sn \in Nat
      BY DEF Numbered
    <2>6. t.sn < Before(t).rcv_nxt + RcvWnd
      <3>. HIDE DEF Before
      <3>. QED
        BY <1>2, <1>4, <2>4, <2>5
    <2>. QED
      BY <1>1, <2>6
  <1>5. ASSUME NEW s \in inWindow
        PROVE  s.sn < r.rcv_nxt + RcvWnd
    <2>1. PICK few : few = {u \in push : u.sn < s.sn}
      OBVIOUS
    <2>2. few \in SUBSET Numbered
          /\ \A u \in few : u.sn < k.rcv_nxt + RcvWnd => u \in inWindow
      BY <1>4, <2>1
    <2>3. /\ Insert(k, few).rcv_nxt <= Insert(k, inWindow).rcv_nxt
          /\ Insert(k, few).rcv_nxt \in Nat
          /\ Insert(k, inWindow).rcv_nxt \in Nat
      BY <1>2, <2>2, InsertReach
    <2>4. s.sn < Insert(k, few).rcv_nxt + RcvWnd
      BY <1>1, <2>1
    <2>5. s.sn \in Nat
      BY <1>2 DEF Numbered
    <2>. QED
      BY <1>2, <1>3, <2>3, <2>4, <2>5
  <1>6. PICK st : st = Stored(k, inWindow)
    OBVIOUS
  <1>7. /\ st \in ControlBlock
        /\ r = Drain(st)
        /\ st.rcv_nxt = k.rcv_nxt
        /\ st.rcv_queue = k.rcv_queue
        /\ st.rcv_buf = k.rcv_buf \cup {s \in inWindow : s.sn >= k.rcv_nxt
                                              /\ s.sn \notin Sns(k.rcv_buf)}
    BY <1>2, <1>3, <1>6, StoredProperty
  <1>8. k.rcv_nxt <= r.rcv_nxt /\ r.rcv_nxt \in Nat
    BY <1>2, <1>3, InsertReach
  <1>9. ASSUME NEW s \in st.rcv_buf
        PROVE  st.rcv_nxt <= s.sn /\ s.sn < Drain(st).rcv_nxt + RcvWnd
    <2>1. s.sn \in Nat
      BY <1>7 DEF ControlBlock, Numbered
    <2>2. CASE s \in k.rcv_buf
      <3>1. k.rcv_nxt <= s.sn /\ s.sn < k.rcv_nxt + RcvWnd
        BY <2>2 DEF Bounded, InWindow
      <3>. QED
        BY <1>2, <1>7, <1>8, <2>1, <3>1
    <2>3. CASE s \in inWindow /\ s.sn >= k.rcv_nxt
      BY <1>2, <1>5, <1>7, <2>1, <2>3
    <2>. QED
      BY <1>7, <2>2, <2>3
  <1>10. Len(st.rcv_queue) <= RcvWnd
    BY <1>7 DEF Bounded
  <1>11. Bounded(r)
    BY <1>7, <1>9, <1>10, DrainBounded
  <1>12. PICK t : t = TakePushes(k, push)
    OBVIOUS
  <1>13. SameReceiver(t, r)
    <2>1. r \in ControlBlock
      BY <1>2, <1>3, InsertType
    <2>2. t = [r EXCEPT !.acklist = @ \cup Sns(inWindow)]
      BY <1>1, <1>3, <1>12
    <2>. QED
      BY <2>1, <2>2 DEF SameReceiver, ControlBlock
  <1>. QED
    BY <1>11, <1>12, <1>13 DEF Bounded, InWindow, NothingWaits, SameReceiver

(* The bound is about the receiving half alone.                            *)
LEMMA SameReceiverBounded ==
    ASSUME NEW r, NEW k, SameReceiver(r, k), Bounded(k)
    PROVE  Bounded(r)
  BY DEF SameReceiver, Bounded, InWindow, NothingWaits

(* ikcp_input keeps the bound, whatever the peer has sent.                 *)
LEMMA KcpInputBounded ==
    ASSUME NEW k \in ControlBlock, NEW d \in Datagram, NEW grow \in BOOLEAN,
           Bounded(k)
    PROVE  Bounded(KcpInput(k, d, grow))
  <1>1. PICK acked : acked = TakeAcks(k, d)
    OBVIOUS
  <1>2. acked \in ControlBlock /\ SameReceiver(acked, k)
    BY <1>1, TakeAcksType
  <1>3. PICK heard : heard = [acked EXCEPT !.rmt_wnd = d.wnd, !.tell = @ \/ d.wask]
    OBVIOUS
  <1>4. heard \in ControlBlock /\ SameReceiver(heard, acked)
    <2>1. acked.tell \in BOOLEAN /\ d.wask \in BOOLEAN /\ d.wnd \in Nat
      BY <1>2 DEF ControlBlock, Datagram
    <2>2. (acked.tell \/ d.wask) \in BOOLEAN
      BY <2>1
    <2>. QED
      BY <1>2, <1>3, <2>1, <2>2 DEF ControlBlock, SameReceiver
  <1>5. Bounded(heard)
    BY <1>2, <1>4, SameReceiverBounded
  <1>6. PICK stored : stored = TakePushes(heard, d.push)
    OBVIOUS
  <1>7. stored \in ControlBlock /\ Bounded(stored)
    <2>1. d.push \in SUBSET Numbered
      BY DEF Datagram
    <2>. QED
      BY <1>4, <1>5, <1>6, <2>1, TakePushesType, TakePushesBounded
  <1>8. PICK opened : opened = OpenCwnd(stored, k.snd_una, grow)
    OBVIOUS
  <1>9. SameReceiver(opened, stored)
    BY <1>7, <1>8 DEF OpenCwnd, SameReceiver, ControlBlock
  <1>10. Bounded(opened)
    BY <1>7, <1>9, SameReceiverBounded
  <1>11. KcpInput(k, d, grow) = IF d.conv # k.conv THEN k ELSE opened
    BY <1>1, <1>3, <1>6, <1>8 DEF KcpInput
  <1>. QED
    BY <1>10, <1>11

(* ikcp_recv keeps the bound: it refills rcv_queue from rcv_buf.           *)
LEMMA KcpRecvBounded ==
    ASSUME NEW k \in ControlBlock, k.rcv_queue # <<>>, Bounded(k)
    PROVE  Bounded(KcpRecv(k))
  <1>1. PICK rest : rest = SubSeq(k.rcv_queue, Len(FirstMessage(k)) + 1, Len(k.rcv_queue))
    OBVIOUS
  <1>2. rest \in Seq(Segment) /\ Len(rest) <= Len(k.rcv_queue)
    <2>1. PICK m \in 1 .. Len(k.rcv_queue) : FirstMessage(k) = SubSeq(k.rcv_queue, 1, m)
      BY FirstMessageProperty
    <2>2. k.rcv_queue \in Seq(Segment) /\ Len(SubSeq(k.rcv_queue, 1, m)) = m
      BY <2>1 DEF ControlBlock
    <2>3. SubSeq(k.rcv_queue, m + 1, Len(k.rcv_queue)) \in Seq(Segment)
      BY <2>1, <2>2
    <2>4. Len(SubSeq(k.rcv_queue, m + 1, Len(k.rcv_queue))) <= Len(k.rcv_queue)
      BY <2>1, <2>2
    <2>. QED
      BY <1>1, <2>1, <2>2, <2>3, <2>4
  <1>3. PICK cut : cut = [k EXCEPT !.rcv_queue = rest]
    OBVIOUS
  <1>4. /\ cut \in ControlBlock
        /\ cut.rcv_queue = rest
        /\ cut.rcv_nxt = k.rcv_nxt
        /\ cut.rcv_buf = k.rcv_buf
    BY <1>2, <1>3 DEF ControlBlock
  <1>5. PICK read : read = Drain(cut)
    OBVIOUS
  <1>6. k.rcv_nxt \in Nat /\ read.rcv_nxt \in Nat /\ k.rcv_nxt <= read.rcv_nxt
    <2>1. InOrderRun(cut) \in Nat
      BY <1>4, InOrderRunProperty, WndUnusedNat
    <2>2. read.rcv_nxt = k.rcv_nxt + InOrderRun(cut)
      BY <1>4, <1>5, DrainProperty
    <2>3. k.rcv_nxt \in Nat
      BY DEF ControlBlock
    <2>. QED
      BY <2>1, <2>2, <2>3
  <1>7. ASSUME NEW s \in cut.rcv_buf
        PROVE  cut.rcv_nxt <= s.sn /\ s.sn < Drain(cut).rcv_nxt + RcvWnd
    <2>1. s.sn \in Nat /\ RcvWnd \in Nat
      BY <1>4, KcpAssumption DEF ControlBlock, Numbered
    <2>2. k.rcv_nxt <= s.sn /\ s.sn < k.rcv_nxt + RcvWnd
      BY <1>4 DEF Bounded, InWindow
    <2>. QED
      BY <1>4, <1>5, <1>6, <2>1, <2>2
  <1>8. Len(cut.rcv_queue) <= RcvWnd
    <2>1. Len(rest) \in Nat /\ Len(k.rcv_queue) \in Nat /\ Len(k.rcv_queue) <= RcvWnd
      BY <1>2 DEF Bounded, ControlBlock
    <2>. QED
      BY <1>2, <1>4, <2>1, KcpAssumption
  <1>9. Bounded(read) /\ read \in ControlBlock
    BY <1>4, <1>5, <1>7, <1>8, DrainBounded, DrainFrame
  <1>10. PICK told : KcpRecv(k) = [read EXCEPT !.tell = told]
    BY <1>1, <1>3, <1>5 DEF KcpRecv
  <1>11. SameReceiver(KcpRecv(k), read)
    BY <1>9, <1>10 DEF ControlBlock, SameReceiver
  <1>. QED
    BY <1>9, <1>11, SameReceiverBounded

(* The inductive invariant: both receivers are bounded.                    *)
BoundInv == TypeOK /\ \A p \in Sides : Bounded(kcp[p])

(* Every step replaces one control block by what one call leaves behind.   *)
LEMMA BoundStep ==
    ASSUME BoundInv, [Next]_vars
    PROVE  BoundInv'
  <1>1. TypeOK'
    BY TypeStep DEF BoundInv
  <1>2. kcp \in [Sides -> ControlBlock] /\ \A x \in Sides : Bounded(kcp[x])
    BY DEF BoundInv, TypeOK
  <1>3. ASSUME NEW p \in Sides, NEW r, kcp' = [kcp EXCEPT ![p] = r], Bounded(r)
        PROVE  \A x \in Sides : Bounded(kcp'[x])
    BY <1>2, <1>3
  <1>4. ASSUME NEW p \in Sides, NEW msg \in Messages, Send(p, msg)
        PROVE  \A x \in Sides : Bounded(kcp'[x])
    <2>1. Bounded(KcpSend(kcp[p], msg))
      BY <1>2, KcpSendKeeps, SameReceiverBounded
    <2>2. kcp' = [kcp EXCEPT ![p] = KcpSend(kcp[p], msg)]
      BY <1>4 DEF Send
    <2>. QED
      BY <1>3, <2>1, <2>2
  <1>5. ASSUME NEW p \in Sides, UpdateSome(p)
        PROVE  \A x \in Sides : Bounded(kcp'[x])
    <2>1. PICK probeDue \in BOOLEAN :
            \E due, cuts, kept : Update(p, due, probeDue, cuts, kept)
      BY <1>5, UpdateSomeIsUpdate
    <2>2. PICK due, cuts, kept : Update(p, due, probeDue, cuts, kept)
      BY <2>1
    <2>3. Bounded(KcpFlush(kcp[p], due))
      BY <1>2, KcpFlushType, SameReceiverBounded
    <2>4. kcp' = [kcp EXCEPT ![p] = KcpFlush(kcp[p], due)]
      BY <2>2 DEF Update
    <2>. QED
      BY <1>3, <2>3, <2>4
  <1>6. ASSUME NEW p \in Sides, InputSome(p)
        PROVE  \A x \in Sides : Bounded(kcp'[x])
    <2>1. PICK d \in net[p], grow \in BOOLEAN, duplicated \in BOOLEAN :
            Input(p, d, grow, duplicated)
      BY <1>6 DEF InputSome
    <2>2. d \in Datagram
      BY DEF BoundInv, TypeOK
    <2>3. Bounded(KcpInput(kcp[p], d, grow))
      BY <1>2, <2>2, KcpInputBounded
    <2>4. kcp' = [kcp EXCEPT ![p] = KcpInput(kcp[p], d, grow)]
      BY <2>1 DEF Input
    <2>. QED
      BY <1>3, <2>3, <2>4
  <1>7. ASSUME NEW p \in Sides, Recv(p)
        PROVE  \A x \in Sides : Bounded(kcp'[x])
    <2>1. kcp[p].rcv_queue # <<>>
      BY <1>7 DEF Recv, KcpReadable
    <2>2. Bounded(KcpRecv(kcp[p]))
      BY <1>2, <2>1, KcpRecvBounded
    <2>3. kcp' = [kcp EXCEPT ![p] = KcpRecv(kcp[p])]
      BY <1>7 DEF Recv
    <2>. QED
      BY <1>3, <2>2, <2>3
  <1>8. CASE UNCHANGED vars
    BY <1>1, <1>2, <1>8 DEF BoundInv, vars
  <1>. QED
    BY <1>1, <1>4, <1>5, <1>6, <1>7, <1>8 DEF BoundInv, Next, SendSome

(* Whatever the peer sends and the network does, a receiver holds at most  *)
(* its window, and what it can deliver does not wait.                      *)
THEOREM ReceiverBoundedCorrect == Spec => []ReceiverBounded
  <1>1. Init => BoundInv
    <2>1. ASSUME Init, NEW p \in Sides
          PROVE  Bounded(kcp[p])
      BY <2>1, KcpAssumption DEF Init, KcpCreate, Bounded, InWindow, NothingWaits, Sns
    <2>. QED
      BY <2>1, TypeInit DEF BoundInv
  <1>2. BoundInv /\ [Next]_vars => BoundInv'
    BY BoundStep
  <1>3. BoundInv => ReceiverBounded
    <2>1. ASSUME BoundInv, NEW p \in Sides
          PROVE  Sns(kcp[p].rcv_buf) \subseteq
                   kcp[p].rcv_nxt .. kcp[p].rcv_nxt + RcvWnd - 1
      <3>1. kcp[p] \in ControlBlock /\ InWindow(kcp[p])
        BY <2>1 DEF BoundInv, TypeOK, Bounded
      <3>2. kcp[p].rcv_nxt \in Nat /\ Sns(kcp[p].rcv_buf) \in SUBSET Nat
        BY <3>1, SnsType DEF ControlBlock
      <3>. QED
        BY <3>1, <3>2, KcpAssumption DEF InWindow, Sns
    <2>. QED
      BY <2>1 DEF BoundInv, Bounded, NothingWaits, ReceiverBounded
  <1>. QED
    BY <1>1, <1>2, <1>3, PTL DEF Spec

----------------------------------------------------------------------------
(* Whole messages.                                                         *)

(* A stream of whole messages: the frg of a segment is the number of       *)
(* segments of its message that follow it, and they are there.             *)
WholeStream(stream) ==
    \A i \in 1 .. Len(stream) :
        /\ stream[i].frg < RcvWnd
        /\ \A j \in 0 .. stream[i].frg :
              i + j <= Len(stream) /\ stream[i + j].frg = stream[i].frg - j

(* A message's fragments count down to 0.                                  *)
LEMMA FragmentsShape ==
    ASSUME NEW msg \in Seq(Data)
    PROVE  \A i \in 1 .. FragCount(msg) : Fragments(msg)[i].frg = FragCount(msg) - i
  BY DEF Fragments

(* Queueing a message that ikcp_send accepts keeps the stream whole.       *)
LEMMA WholeStreamGrows ==
    ASSUME NEW stream \in Seq(Segment), NEW msg \in Seq(Data),
           ~ KcpSendRefused(msg), WholeStream(stream)
    PROVE  WholeStream(stream \o Fragments(msg))
  <1>1. PICK n \in Nat, l \in Nat : n = FragCount(msg) /\ l = Len(stream)
    BY FragCountType
  <1>2. PICK parts \in Seq(Segment) : parts = Fragments(msg)
    BY FragmentsType
  <1>3. /\ Len(parts) = n
        /\ n < RcvWnd
        /\ \A i \in 1 .. n : parts[i].frg = n - i
    BY <1>1, <1>2, FragmentsType, FragmentsShape, KcpAssumption DEF KcpSendRefused
  <1>4. PICK longer : longer = stream \o parts
    OBVIOUS
  <1>5. /\ Len(longer) = l + n
        /\ \A i \in 1 .. l : longer[i] = stream[i]
        /\ \A i \in 1 .. n : longer[l + i] = parts[i]
    <2>1. Len(stream \o parts) = l + n
      BY <1>1, <1>3
    <2>2. \A i \in 1 .. l : (stream \o parts)[i] = stream[i]
      BY <1>1
    <2>3. \A i \in 1 .. n : (stream \o parts)[l + i] = parts[i]
      BY <1>1, <1>3
    <2>. QED
      BY <1>4, <2>1, <2>2, <2>3
  <1>6. \A i \in 1 .. n : longer[l + i].frg = n - i
    BY <1>3, <1>5
  <1>7. ASSUME NEW i \in 1 .. l + n
        PROVE  /\ longer[i].frg < RcvWnd
               /\ \A j \in 0 .. longer[i].frg :
                     /\ i + j <= l + n
                     /\ longer[i + j].frg = longer[i].frg - j
    <2>1. CASE i \in 1 .. l
      <3>1. /\ longer[i] = stream[i]
            /\ stream[i].frg < RcvWnd
            /\ \A j \in 0 .. stream[i].frg :
                  i + j <= l /\ stream[i + j].frg = stream[i].frg - j
        BY <1>1, <1>5, <2>1 DEF WholeStream
      <3>2. ASSUME NEW j \in 0 .. stream[i].frg
            PROVE  i + j <= l + n /\ longer[i + j].frg = stream[i].frg - j
        <4>1. i + j <= l /\ stream[i + j].frg = stream[i].frg - j
          BY <3>1
        <4>2. i + j \in 1 .. l
          BY <2>1, <4>1
        <4>. QED
          BY <1>5, <4>1, <4>2
      <3>. QED
        BY <3>1, <3>2
    <2>2. CASE i \notin 1 .. l
      <3>1. PICK h \in 1 .. n : i = l + h
        <4>1. i - l \in 1 .. n /\ i = l + (i - l)
          BY <2>2
        <4>. QED
          BY <4>1
      <3>2. longer[i].frg = n - h
        BY <1>6, <3>1
      <3>3. ASSUME NEW j \in 0 .. n - h
            PROVE  i + j <= l + n /\ longer[i + j].frg = n - h - j
        <4>1. h + j \in 1 .. n /\ i + j = l + (h + j)
          BY <3>1
        <4>2. longer[i + j].frg = n - (h + j)
          BY <1>6, <4>1
        <4>. QED
          BY <3>1, <4>1, <4>2
      <3>. QED
        BY <1>3, <3>2, <3>3, KcpAssumption
    <2>. QED
      BY <2>1, <2>2
  <1>. QED
    BY <1>2, <1>4, <1>5, <1>7 DEF WholeStream

(* What a full queue and a readable one hold, of a stream of whole         *)
(* messages.                                                               *)
LEMMA ReadsWhole ==
    ASSUME NEW k \in ControlBlock, NEW got \in Seq(Segment),
           NEW stream \in Seq(Segment), NEW limit \in Nat, limit <= Len(stream),
           Holds(k, got, stream, limit), WholeStream(stream)
    PROVE  /\ Len(k.rcv_queue) >= RcvWnd => KcpReadable(k)
           /\ KcpReadable(k) =>
                 /\ FirstMessage(k) \in Seq(Segment)
                 /\ Len(FirstMessage(k)) = FirstMessage(k)[1].frg + 1
                 /\ FirstMessage(k)[Len(FirstMessage(k))].frg = 0
  <1>1. PICK queue \in Seq(Segment) : queue = k.rcv_queue
    BY DEF ControlBlock
  <1>2. PICK l \in Nat, g \in Nat, len \in Nat :
          l = Len(queue) /\ g = Len(got) /\ len = Len(stream)
    BY <1>1
  <1>3. /\ g + l <= len
        /\ \A i \in 1 .. l : queue[i] = stream[g + i]
    BY <1>1, <1>2 DEF Holds, ControlBlock
  <1>4. CASE queue = <<>>
    <2>1. ~ KcpReadable(k) /\ ~ (Len(k.rcv_queue) >= RcvWnd)
      BY <1>1, <1>4, KcpAssumption DEF KcpReadable
    <2>. QED
      BY <2>1
  <1>5. CASE queue # <<>>
    <2>1. l >= 1
      BY <1>2, <1>5
    <2>2. PICK f \in Nat : f = queue[1].frg
      <3>1. queue[1] \in Segment
        BY <1>2, <2>1
      <3>. QED
        BY <3>1 DEF Segment
    <2>3. /\ f < RcvWnd
          /\ \A j \in 0 .. f : g + 1 + j <= len /\ stream[g + 1 + j].frg = f - j
      <3>1. g + 1 \in 1 .. len /\ stream[g + 1].frg = f
        BY <1>3, <2>1, <2>2
      <3>. QED
        BY <1>2, <3>1 DEF WholeStream
    <2>4. KcpReadable(k) <=> l >= f + 1
      BY <1>1, <1>2, <1>5, <2>1, <2>2 DEF KcpReadable
    <2>5. Len(k.rcv_queue) >= RcvWnd => KcpReadable(k)
      BY <1>1, <1>2, <2>3, <2>4, KcpAssumption
    <2>6. ASSUME KcpReadable(k)
          PROVE  /\ FirstMessage(k) \in Seq(Segment)
                 /\ Len(FirstMessage(k)) = FirstMessage(k)[1].frg + 1
                 /\ FirstMessage(k)[Len(FirstMessage(k))].frg = 0
      <3>. DEFINE ends == {i \in 1 .. l : i = l \/ queue[i].frg = 0}
      <3>1. l >= f + 1
        BY <2>4, <2>6
      <3>2. ASSUME NEW i \in 1 .. f + 1
            PROVE  queue[i].frg = f - (i - 1)
        <4>1. i - 1 \in 0 .. f /\ g + 1 + (i - 1) = g + i /\ i \in 1 .. l
          BY <3>1
        <4>. QED
          BY <1>3, <2>3, <4>1
      <3>3. f + 1 \in ends
        <4>1. f + 1 \in 1 .. l /\ f + 1 \in 1 .. f + 1
          BY <3>1
        <4>2. queue[f + 1].frg = 0
          BY <3>2, <4>1
        <4>. QED
          BY <4>1, <4>2
      <3>4. ASSUME NEW i \in ends
            PROVE  f + 1 <= i
        <4>1. SUFFICES ASSUME i < f + 1
                       PROVE  FALSE
          OBVIOUS
        <4>2. i \in 1 .. f + 1 /\ i # l
          BY <3>1, <4>1
        <4>3. queue[i].frg = f - (i - 1) /\ queue[i].frg = 0
          BY <3>2, <4>2
        <4>. QED
          BY <4>1, <4>3
      <3>5. ends \in SUBSET Nat
        OBVIOUS
      <3>6. Least(ends) \in ends /\ \A y \in ends : Least(ends) <= y
        BY <3>3, <3>5, LeastIsLeast
      <3>7. Least(ends) = f + 1
        <4>1. Least(ends) \in Nat
          BY <3>5, <3>6
        <4>2. Least(ends) <= f + 1 /\ f + 1 <= Least(ends)
          BY <3>3, <3>4, <3>6
        <4>. HIDE DEF ends
        <4>. QED
          BY <4>1, <4>2
      <3>8. FirstMessage(k) = SubSeq(queue, 1, f + 1)
        BY <1>1, <1>2, <3>7 DEF FirstMessage
      <3>9. SubSeq(queue, 1, f + 1) \in Seq(Segment)
        BY <1>2, <3>1
      <3>10. Len(SubSeq(queue, 1, f + 1)) = f + 1
        BY <1>2, <3>1
      <3>11. /\ SubSeq(queue, 1, f + 1)[1] = queue[1]
             /\ SubSeq(queue, 1, f + 1)[f + 1] = queue[f + 1]
        BY <1>2, <3>1
      <3>12. queue[f + 1].frg = 0
        <4>1. f + 1 \in 1 .. f + 1
          OBVIOUS
        <4>. QED
          BY <3>2, <4>1
      <3>. QED
        BY <2>2, <3>8, <3>9, <3>10, <3>11, <3>12
    <2>. QED
      BY <2>5, <2>6
  <1>. QED
    BY <1>4, <1>5

(* What the application has read ends where a message ends.                *)
EndsWhole(got) == got # <<>> => got[Len(got)].frg = 0

(* The inductive invariant, beside that of in-order delivery: only whole   *)
(* messages are queued, and only whole messages are read.                  *)
MessageInv ==
    /\ StreamInv
    /\ \A p \in Sides : WholeStream(sent[p]) /\ EndsWhole(taken[p])

(* What a receiver holds of its peer's stream of whole messages.           *)
LEMMA ReceiverReadsWhole ==
    ASSUME MessageInv, NEW p \in Sides
    PROVE  /\ Len(kcp[p].rcv_queue) >= RcvWnd => KcpReadable(kcp[p])
           /\ KcpReadable(kcp[p]) =>
                 /\ FirstMessage(kcp[p]) \in Seq(Segment)
                 /\ Len(FirstMessage(kcp[p])) = FirstMessage(kcp[p])[1].frg + 1
                 /\ FirstMessage(kcp[p])[Len(FirstMessage(kcp[p]))].frg = 0
  <1>1. PICK q \in Sides : q = Peer(p) /\ p = Peer(q)
    BY PeerType
  <1>2. StreamInv /\ WholeStream(sent[q])
    BY DEF MessageInv
  <1>3. /\ Holds(kcp[p], taken[p], sent[q], kcp[q].snd_nxt)
        /\ kcp[p] \in ControlBlock
        /\ taken[p] \in Seq(Segment)
        /\ sent[q] \in Seq(Segment)
        /\ kcp[q].snd_nxt \in Nat
        /\ kcp[q].snd_nxt <= Len(sent[q])
    BY <1>1, <1>2, FaithfulFacts
  <1>. QED
    BY <1>2, <1>3, ReadsWhole

(* Nothing has been queued or read.                                        *)
LEMMA MessageInit ==
    ASSUME Init
    PROVE  MessageInv
  <1>1. ASSUME NEW p \in Sides
        PROVE  WholeStream(sent[p]) /\ EndsWhole(taken[p])
    BY DEF Init, WholeStream, EndsWhole
  <1>. QED
    BY <1>1, StreamInit DEF MessageInv

(* The invariant is inductive: a message is queued and read in one piece.  *)
LEMMA MessageStep ==
    ASSUME MessageInv, [Next]_vars
    PROVE  MessageInv'
  <1>1. StreamInv'
    BY StreamStep DEF MessageInv
  <1>2. /\ \A x \in Sides : WholeStream(sent[x]) /\ EndsWhole(taken[x])
        /\ sent \in [Sides -> Seq(Segment)]
        /\ taken \in [Sides -> Seq(Segment)]
    BY DEF MessageInv, StreamInv, TypeOK
  <1>3. ASSUME NEW p \in Sides, NEW msg \in Messages, Send(p, msg)
        PROVE  \A x \in Sides : WholeStream(sent'[x]) /\ EndsWhole(taken'[x])
    <2>1. msg \in Seq(Data) /\ ~ KcpSendRefused(msg)
      BY <1>3, LinkAssumption DEF Send
    <2>2. PICK longer : longer = sent[p] \o Fragments(msg)
      OBVIOUS
    <2>3. WholeStream(longer)
      BY <1>2, <2>1, <2>2, WholeStreamGrows
    <2>4. sent' = [sent EXCEPT ![p] = longer] /\ taken' = taken
      BY <1>3, <2>2 DEF Send
    <2>. QED
      BY <1>2, <2>3, <2>4
  <1>4. ASSUME NEW p \in Sides, Recv(p)
        PROVE  \A x \in Sides : WholeStream(sent'[x]) /\ EndsWhole(taken'[x])
    <2>1. PICK first : first = FirstMessage(kcp[p])
      OBVIOUS
    <2>2. /\ first \in Seq(Segment)
          /\ Len(first) >= 1
          /\ first[Len(first)].frg = 0
      <3>1. KcpReadable(kcp[p])
        BY <1>4 DEF Recv
      <3>2. first \in Seq(Segment) /\ first[Len(first)].frg = 0
        BY <2>1, <3>1, ReceiverReadsWhole
      <3>3. kcp[p] \in ControlBlock /\ kcp[p].rcv_queue # <<>>
        BY <3>1 DEF KcpReadable, MessageInv, StreamInv, TypeOK
      <3>4. PICK m \in 1 .. Len(kcp[p].rcv_queue) :
              first = SubSeq(kcp[p].rcv_queue, 1, m)
        BY <2>1, <3>3, FirstMessageProperty
      <3>5. Len(first) = m
        BY <3>3, <3>4 DEF ControlBlock
      <3>. QED
        BY <3>2, <3>4, <3>5
    <2>3. PICK more : more = taken[p] \o first
      OBVIOUS
    <2>4. EndsWhole(more)
      <3>1. Len(taken[p] \o first) = Len(taken[p]) + Len(first)
        BY <1>2, <2>2
      <3>2. (taken[p] \o first)[Len(taken[p]) + Len(first)] = first[Len(first)]
        BY <1>2, <2>2
      <3>. QED
        BY <2>2, <2>3, <3>1, <3>2 DEF EndsWhole
    <2>5. taken' = [taken EXCEPT ![p] = more] /\ sent' = sent
      BY <1>4, <2>1, <2>3 DEF Recv
    <2>. QED
      BY <1>2, <2>4, <2>5
  <1>5. ASSUME NEW p \in Sides, UpdateSome(p) \/ InputSome(p)
        PROVE  UNCHANGED <<sent, taken>>
    <2>1. CASE UpdateSome(p)
      <3>1. PICK probeDue \in BOOLEAN :
              \E due, cuts, kept : Update(p, due, probeDue, cuts, kept)
        BY <2>1, UpdateSomeIsUpdate
      <3>. QED
        BY <3>1 DEF Update
    <2>2. CASE InputSome(p)
      BY <2>2 DEF InputSome, Input
    <2>. QED
      BY <1>5, <2>1, <2>2
  <1>6. CASE UNCHANGED <<sent, taken>>
    BY <1>1, <1>2, <1>6 DEF MessageInv
  <1>7. UNCHANGED vars => UNCHANGED <<sent, taken>>
    BY DEF vars
  <1>. QED
    BY <1>1, <1>3, <1>4, <1>5, <1>6, <1>7 DEF MessageInv, Next, SendSome

(* A read returns one whole message, and a full receive queue holds one:   *)
(* the window never closes for good over part of a message.                *)
THEOREM WholeMessagesCorrect == Spec => []WholeMessages
  <1>1. Init => MessageInv
    BY MessageInit
  <1>2. MessageInv /\ [Next]_vars => MessageInv'
    BY MessageStep
  <1>3. MessageInv => WholeMessages
    BY ReceiverReadsWhole DEF MessageInv, EndsWhole, WholeMessages
  <1>. QED
    BY <1>1, <1>2, <1>3, PTL DEF Spec

----------------------------------------------------------------------------
(* The messages a stream spells.                                           *)

(* The whole messages so far, and the bytes of the one that is open.       *)
Words == [whole : Seq(Seq(Data)), open : Seq(Data)]

NoWords == [whole |-> <<>>, open |-> <<>>]

(* What one more segment makes of them.                                    *)
Spell(before, s) ==
    LET bytes == before.open \o s.data IN
    IF s.frg = 0
    THEN [whole |-> Append(before.whole, bytes), open |-> <<>>]
    ELSE [before EXCEPT !.open = bytes]

(* f takes the words of every prefix of segs, from none to all.            *)
Spells(f, segs) ==
    /\ f \in [0 .. Len(segs) -> Words]
    /\ f[0] = NoWords
    /\ \A i \in 1 .. Len(segs) : f[i] = Spell(f[i - 1], segs[i])

(* A segment either closes the open message or adds to it.                 *)
LEMMA SpellType ==
    ASSUME NEW w \in Words, NEW s \in Segment
    PROVE  /\ Spell(w, s) \in Words
           /\ s.frg = 0 => Spell(w, s) = [whole |-> Append(w.whole, w.open \o s.data),
                                          open  |-> <<>>]
           /\ s.frg # 0 => Spell(w, s) = [whole |-> w.whole,
                                          open  |-> w.open \o s.data]
  <1>1. PICK whole \in Seq(Seq(Data)), open \in Seq(Data) :
          w = [whole |-> whole, open |-> open]
    BY DEF Words
  <1>2. s.data \in Seq(Data)
    BY DEF Segment
  <1>3. open \o s.data \in Seq(Data)
    BY <1>2
  <1>4. Append(whole, open \o s.data) \in Seq(Seq(Data))
    BY <1>3
  <1>5. CASE s.frg = 0
    <2>1. Spell(w, s) = [whole |-> Append(whole, open \o s.data), open |-> <<>>]
      BY <1>1, <1>5 DEF Spell
    <2>2. <<>> \in Seq(Data)
      OBVIOUS
    <2>3. Spell(w, s) \in Words
      BY <1>4, <2>1, <2>2 DEF Words
    <2>. QED
      BY <1>1, <1>5, <2>1, <2>3
  <1>6. CASE s.frg # 0
    <2>1. Spell(w, s) = [whole |-> whole, open |-> open \o s.data]
      BY <1>1, <1>6 DEF Spell
    <2>2. Spell(w, s) \in Words
      BY <1>3, <2>1 DEF Words
    <2>. QED
      BY <1>1, <1>6, <2>1, <2>2
  <1>. QED
    BY <1>5, <1>6

(* Spelled is the last of the values that the function in it takes.        *)
LEMMA SpelledUnfolds ==
    ASSUME NEW segs \in Seq(Segment)
    PROVE  \E f : Spells(f, segs) /\ Spelled(segs) = f[Len(segs)].whole
  <1>1. PICK n \in Nat : n = Len(segs)
    OBVIOUS
  <1>2. \A i \in 1 .. n : segs[i] \in Segment
    BY <1>1
  <1>. DEFINE Unrolls(f) ==
                  f = [i \in 0 .. Len(segs) |->
                         IF i = 0 THEN NoWords ELSE Spell(f[i - 1], segs[i])]
  <1>3. PICK f \in [0 .. n -> Words] :
          f[0] = NoWords /\ \A i \in 1 .. n : f[i] = Spell(f[i - 1], segs[i])
    <2>. DEFINE step == [i \in 1 .. n |-> [w \in Words |-> Spell(w, segs[i])]]
    <2>1. step \in Steps(n, Words)
      BY <1>2, SpellType DEF Steps
    <2>2. NoWords \in Words
      BY DEF NoWords, Words
    <2>. HIDE DEF step
    <2>3. PICK f : Takes(f, n, Words, NoWords, step)
      BY <2>1, <2>2, RecursiveFunction
    <2>4. ASSUME NEW i \in 1 .. n
          PROVE  f[i] = Spell(f[i - 1], segs[i])
      <3>1. f[i] = step[i][f[i - 1]]
        BY <2>3 DEF Takes
      <3>2. f[i - 1] \in Words
        BY <2>3 DEF Takes
      <3>. QED
        BY <3>1, <3>2 DEF step
    <2>. QED
      BY <2>3, <2>4 DEF Takes
  <1>4. Unrolls(f)
    <2>1. ASSUME NEW i \in 0 .. n
          PROVE  f[i] = IF i = 0 THEN NoWords ELSE Spell(f[i - 1], segs[i])
      <3>1. CASE i = 0
        BY <1>3, <3>1
      <3>2. CASE i # 0
        <4>1. i \in 1 .. n
          BY <3>2
        <4>. QED
          BY <1>3, <3>2, <4>1
      <3>. QED
        BY <3>1, <3>2
    <2>2. f = [i \in 0 .. n |-> f[i]]
      BY <1>3
    <2>3. f = [i \in 0 .. n |->
                 IF i = 0 THEN NoWords ELSE Spell(f[i - 1], segs[i])]
      BY <2>1, <2>2, Zenon
    <2>. QED
      BY <1>1, <2>3, Zenon
  <1>5. PICK upTo : upTo = CHOOSE g : Unrolls(g)
    OBVIOUS
  <1>6. Unrolls(upTo)
    BY <1>4, <1>5, Zenon
  <1>7. Spelled(segs) = upTo[n].whole
    BY <1>1, <1>5, Zenon DEF Spelled, NoWords, Spell
  <1>8. upTo = [i \in 0 .. n |->
                  IF i = 0 THEN NoWords ELSE Spell(upTo[i - 1], segs[i])]
    BY <1>1, <1>6, Zenon
  <1>9. 0 \in 0 .. n /\ \A i \in 1 .. n : i \in 0 .. n /\ i # 0
    OBVIOUS
  <1>. DEFINE S == {i \in 0 .. n : upTo[i] = f[i]}
  <1>10. \A i \in 0 .. n : i \in S
    <2>1. 0 \in S
      BY <1>3, <1>8, <1>9, Zenon
    <2>2. ASSUME NEW i \in 1 .. n, i - 1 \in S
          PROVE  i \in S
      <3>1. upTo[i - 1] = f[i - 1]
        BY <2>2
      <3>2. upTo[i] = Spell(upTo[i - 1], segs[i])
        BY <1>8, <1>9, Zenon
      <3>3. f[i] = Spell(f[i - 1], segs[i])
        BY <1>3
      <3>. QED
        BY <1>9, <3>1, <3>2, <3>3, Zenon
    <2>. HIDE DEF S
    <2>3. \A i \in 1 .. n : i - 1 \in S => i \in S
      BY <2>2
    <2>. QED
      BY <2>1, <2>3, Climb
  <1>11. upTo = f
    <2>1. upTo = [i \in 0 .. n |-> upTo[i]] /\ f = [i \in 0 .. n |-> f[i]]
      BY <1>3, <1>8, Zenon
    <2>2. \A i \in 0 .. n : upTo[i] = f[i]
      BY <1>10
    <2>. QED
      BY <2>1, <2>2, Zenon
  <1>12. Spells(f, segs)
    BY <1>1, <1>3 DEF Spells
  <1>. QED
    BY <1>1, <1>7, <1>11, <1>12, Zenon
(* What is spelled are messages.                                           *)
LEMMA SpelledType ==
    ASSUME NEW segs \in Seq(Segment)
    PROVE  Spelled(segs) \in Seq(Seq(Data))
  <1>1. PICK f : Spells(f, segs) /\ Spelled(segs) = f[Len(segs)].whole
    BY SpelledUnfolds
  <1>2. Len(segs) \in 0 .. Len(segs)
    OBVIOUS
  <1>3. f[Len(segs)] \in Words
    BY <1>1, <1>2 DEF Spells
  <1>. QED
    BY <1>1, <1>3 DEF Words

(* The first l segments of a and of b are the same.                        *)
SameUpTo(a, b, l) ==
    l <= Len(a) /\ l <= Len(b) /\ \A i \in 1 .. l : a[i] = b[i]

(* Streams that agree so far spell the same so far.                        *)
LEMMA SpellsAgree ==
    ASSUME NEW a \in Seq(Segment), NEW b \in Seq(Segment),
           NEW l \in Nat, SameUpTo(a, b, l),
           NEW f, Spells(f, a), NEW g, Spells(g, b)
    PROVE  \A i \in 0 .. l : f[i] = g[i]
  <1>. DEFINE S == {i \in 0 .. l : f[i] = g[i]}
  <1>1. 0 \in S
    BY DEF Spells
  <1>2. ASSUME NEW i \in 1 .. l, i - 1 \in S
        PROVE  i \in S
    <2>1. i \in 1 .. Len(a) /\ i \in 1 .. Len(b) /\ a[i] = b[i]
      BY DEF SameUpTo
    <2>2. f[i] = Spell(f[i - 1], a[i]) /\ g[i] = Spell(g[i - 1], b[i])
      BY <2>1 DEF Spells
    <2>3. f[i - 1] = g[i - 1]
      BY <1>2
    <2>4. f[i] = g[i]
      BY <2>1, <2>2, <2>3, Zenon
    <2>. QED
      BY <2>4
  <1>. HIDE DEF S
  <1>3. \A i \in 1 .. l : i - 1 \in S => i \in S
    BY <1>2
  <1>4. \A i \in 0 .. l : i \in S
    BY <1>1, <1>3, Climb
  <1>. QED
    BY <1>4 DEF S

(* After the last segment of a message none is open.                       *)
LEMMA SpellsEnd ==
    ASSUME NEW a \in Seq(Segment), EndsWhole(a), NEW f, Spells(f, a)
    PROVE  f[Len(a)].open = <<>>
  <1>1. CASE Len(a) = 0
    BY <1>1 DEF Spells, NoWords
  <1>2. CASE Len(a) # 0
    <2>1. PICK l \in Nat \ {0} : l = Len(a)
      BY <1>2
    <2>2. l \in 1 .. l /\ l - 1 \in 0 .. l
      OBVIOUS
    <2>3. a[l] \in Segment /\ a[l].frg = 0
      BY <2>1 DEF EndsWhole
    <2>4. f[l] = Spell(f[l - 1], a[l]) /\ f[l - 1] \in Words
      BY <2>1, <2>2 DEF Spells
    <2>5. f[l] = [whole |-> Append(f[l - 1].whole, f[l - 1].open \o a[l].data),
                  open  |-> <<>>]
      BY <2>3, <2>4, SpellType
    <2>. QED
      BY <2>1, <2>5
  <1>. QED
    BY <1>1, <1>2

(* One more message.                                                       *)
LEMMA SpelledMessage ==
    ASSUME NEW a \in Seq(Segment), EndsWhole(a),
           NEW t \in Seq(Segment), Len(t) >= 1,
           \A i \in 1 .. Len(t) : t[i].frg = 0 <=> i = Len(t)
    PROVE  Spelled(a \o t) = Append(Spelled(a), Payload(t))
  <1>1. PICK l \in Nat, m \in Nat \ {0} : l = Len(a) /\ m = Len(t)
    OBVIOUS
  <1>2. PICK b \in Seq(Segment) : b = a \o t
    <2>1. a \o t \in Seq(Segment)
      OBVIOUS
    <2>. QED
      BY <2>1, Zenon
  <1>3. /\ Len(b) = l + m
        /\ \A i \in 1 .. l : b[i] = a[i]
        /\ \A i \in 1 .. m : b[l + i] = t[i] /\ t[i] \in Segment
    <2>1. Len(a \o t) = l + m
      BY <1>1
    <2>2. \A i \in 1 .. l : (a \o t)[i] = a[i]
      BY <1>1
    <2>3. \A i \in 1 .. m : (a \o t)[l + i] = t[i] /\ t[i] \in Segment
      BY <1>1
    <2>. QED
      BY <1>2, <2>1, <2>2, <2>3
  <1>4. PICK f : Spells(f, a) /\ Spelled(a) = f[l].whole
    BY <1>1, SpelledUnfolds
  <1>5. PICK g : Spells(g, b) /\ Spelled(b) = g[l + m].whole
    BY <1>3, SpelledUnfolds
  <1>6. PICK h \in [0 .. m -> Seq(Data)] :
          /\ h[0] = <<>>
          /\ \A i \in 1 .. m : h[i] = h[i - 1] \o t[i].data
          /\ Payload(t) = h[m]
    BY <1>1, PayloadUnfolds
  <1>7. PICK ms \in Seq(Seq(Data)) : ms = Spelled(a)
    BY SpelledType
  <1>8. g[l] = [whole |-> ms, open |-> <<>>]
    <2>1. f[l] = g[l]
      <3>1. SameUpTo(a, b, l)
        BY <1>1, <1>3 DEF SameUpTo
      <3>2. Spells(f, a) /\ Spells(g, b)
        BY <1>4, <1>5
      <3>3. \A i \in 0 .. l : f[i] = g[i]
        BY <3>1, <3>2, SpellsAgree
      <3>. QED
        BY <3>3
    <2>2. f[l].open = <<>>
      BY <1>1, <1>4, SpellsEnd
    <2>3. f[l] \in Words
      BY <1>1, <1>4 DEF Spells
    <2>. QED
      BY <1>4, <1>7, <2>1, <2>2, <2>3 DEF Words
  <1>9. ASSUME NEW i \in 1 .. m, g[l + i - 1] = [whole |-> ms, open |-> h[i - 1]]
        PROVE  /\ i # m => g[l + i] = [whole |-> ms, open |-> h[i]]
               /\ i = m => g[l + i].whole = Append(ms, h[i])
    <2>1. l + i \in 1 .. Len(b) /\ b[l + i] = t[i] /\ t[i] \in Segment
      BY <1>3
    <2>2. PICK w : w = g[l + i - 1]
      OBVIOUS
    <2>3. g[l + i] = Spell(w, t[i])
      <3>1. PICK x \in 1 .. Len(b) : x = l + i
        BY <2>1
      <3>2. g[x] = Spell(g[x - 1], b[x])
        BY <1>5 DEF Spells
      <3>. QED
        BY SMTT(30), <2>1, <2>2, <3>1, <3>2
    <2>4. h[i] = h[i - 1] \o t[i].data
      BY <1>6
    <2>5. w \in Words /\ w.whole = ms /\ w.open = h[i - 1]
      <3>1. h[i - 1] \in Seq(Data)
        BY <1>6
      <3>. QED
        BY <1>9, <2>2, <3>1 DEF Words
    <2>6. t[i].frg = 0 <=> i = m
      BY <1>1
    <2>7. CASE i # m
      BY <2>1, <2>3, <2>4, <2>5, <2>6, <2>7, SpellType
    <2>8. CASE i = m
      <3>1. Spell(w, t[i]) = [whole |-> Append(w.whole, w.open \o t[i].data),
                              open  |-> <<>>]
        BY <2>1, <2>5, <2>6, <2>8, SpellType
      <3>2. Spell(w, t[i]) = [whole |-> Append(ms, h[i]), open |-> <<>>]
        BY <2>4, <2>5, <3>1, Zenon
      <3>. QED
        BY <2>3, <2>8, <3>2
    <2>. QED
      BY <2>7, <2>8
  <1>. DEFINE S == {i \in 0 .. m - 1 : g[l + i] = [whole |-> ms, open |-> h[i]]}
  <1>10. 0 \in S
    <2>1. g[l + 0] = [whole |-> ms, open |-> h[0]]
      BY <1>6, <1>8
    <2>. QED
      BY <2>1
  <1>11. ASSUME NEW i \in 1 .. m - 1, i - 1 \in S
         PROVE  i \in S
    <2>1. g[l + (i - 1)] = [whole |-> ms, open |-> h[i - 1]]
      BY <1>11
    <2>2. l + (i - 1) = l + i - 1 /\ i \in 1 .. m /\ i # m
      OBVIOUS
    <2>3. g[l + i] = [whole |-> ms, open |-> h[i]]
      BY <1>9, <2>1, <2>2
    <2>. QED
      BY <2>3
  <1>12. m - 1 \in S
    <2>. HIDE DEF S
    <2>1. \A i \in 1 .. m - 1 : i - 1 \in S => i \in S
      BY <1>11
    <2>2. PICK e \in Nat : e = m - 1
      OBVIOUS
    <2>3. \A i \in 0 .. e : i \in S
      BY <1>10, <2>1, <2>2, Climb
    <2>. QED
      BY <2>2, <2>3
  <1>13. g[l + m].whole = Append(ms, h[m])
    <2>1. g[l + (m - 1)] = [whole |-> ms, open |-> h[m - 1]]
      BY <1>12
    <2>2. l + (m - 1) = l + m - 1 /\ m \in 1 .. m
      OBVIOUS
    <2>. QED
      BY <1>9, <2>1, <2>2
  <1>. QED
    BY <1>2, <1>5, <1>6, <1>7, <1>13

(* The words of a stream go on with more segments and never change.        *)
LEMMA SpelledPrefix ==
    ASSUME NEW a \in Seq(Segment), NEW b \in Seq(Segment), SameUpTo(a, b, Len(a))
    PROVE  /\ Len(Spelled(a)) <= Len(Spelled(b))
           /\ \A j \in 1 .. Len(Spelled(a)) : Spelled(b)[j] = Spelled(a)[j]
  <1>1. PICK l \in Nat, n \in Nat : l = Len(a) /\ n = Len(b)
    OBVIOUS
  <1>2. l <= n
    BY <1>1 DEF SameUpTo
  <1>3. PICK f : Spells(f, a) /\ Spelled(a) = f[l].whole
    BY <1>1, SpelledUnfolds
  <1>4. PICK g : Spells(g, b) /\ Spelled(b) = g[n].whole
    BY <1>1, SpelledUnfolds
  <1>5. PICK ms \in Seq(Seq(Data)) : ms = Spelled(a)
    BY SpelledType
  <1>. DEFINE Continues(ws) ==
                  Len(ms) <= Len(ws) /\ \A j \in 1 .. Len(ms) : ws[j] = ms[j]
              S == {i \in Nat : l + i <= n => Continues(g[l + i].whole)}
  <1>6. 0 \in S
    <2>1. \A i \in 0 .. l : f[i] = g[i]
      BY <1>1, <1>3, <1>4, SpellsAgree
    <2>2. g[l].whole = ms
      BY <1>3, <1>5, <2>1
    <2>3. Continues(g[l].whole)
      BY <2>2
    <2>. QED
      BY <2>3
  <1>7. ASSUME NEW i \in Nat \ {0}, i - 1 \in S
        PROVE  i \in S
    <2>1. SUFFICES ASSUME l + i <= n
                   PROVE  Continues(g[l + i].whole)
      OBVIOUS
    <2>2. PICK x \in 1 .. n : x = l + i
      BY <2>1
    <2>3. x - 1 \in 0 .. n /\ x - 1 = l + (i - 1)
      BY <2>2
    <2>4. b[x] \in Segment
      BY <1>1
    <2>5. g[x] = Spell(g[x - 1], b[x]) /\ g[x - 1] \in Words
      BY <1>1, <1>4, <2>2, <2>3 DEF Spells
    <2>6. PICK w \in Words : w = g[x - 1]
      BY <2>5
    <2>7. Continues(w.whole)
      BY <1>7, <2>1, <2>3, <2>6
    <2>8. w.whole \in Seq(Seq(Data)) /\ w.open \in Seq(Data) /\ b[x].data \in Seq(Data)
      BY <2>4 DEF Words, Segment
    <2>9. CASE b[x].frg = 0
      <3>1. PICK more : more = Append(w.whole, w.open \o b[x].data)
        OBVIOUS
      <3>2. Spell(w, b[x]) = [whole |-> more, open |-> <<>>]
        BY <2>4, <2>9, <3>1, SpellType
      <3>3. Continues(more)
        BY <2>7, <2>8, <3>1
      <3>4. Spell(w, b[x]).whole = more
        BY <3>2
      <3>. QED
        BY <2>2, <2>5, <2>6, <3>3, <3>4
    <2>10. CASE b[x].frg # 0
      <3>0. Spell(w, b[x]) = [whole |-> w.whole, open |-> w.open \o b[x].data]
        BY <2>4, <2>10, SpellType
      <3>1. Spell(w, b[x]).whole = w.whole
        BY <3>0
      <3>. QED
        BY <2>2, <2>5, <2>6, <2>7, <3>1
    <2>. QED
      BY <2>9, <2>10
  <1>8. PICK e \in Nat : e = n - l
    BY <1>2
  <1>9. e \in S
    <2>. HIDE DEF S
    <2>1. \A i \in 1 .. e : i - 1 \in S => i \in S
      BY <1>7
    <2>2. \A i \in 0 .. e : i \in S
      BY <1>6, <2>1, Climb
    <2>. QED
      BY <2>2
  <1>10. Continues(g[n].whole)
    BY <1>8, <1>9
  <1>. QED
    BY <1>4, <1>5, <1>10

(* ikcp_recv stops at the first segment that ends a message.               *)
LEMMA FirstMessageStops ==
    ASSUME NEW k \in ControlBlock, k.rcv_queue # <<>>
    PROVE  \E m \in 1 .. Len(k.rcv_queue) :
              /\ FirstMessage(k) = SubSeq(k.rcv_queue, 1, m)
              /\ \A i \in 1 .. m - 1 : k.rcv_queue[i].frg # 0
  <1>1. PICK l \in Nat \ {0} : l = Len(k.rcv_queue)
    BY DEF ControlBlock
  <1>. DEFINE S == {i \in 1 .. l : i = l \/ k.rcv_queue[i].frg = 0}
  <1>2. S \in SUBSET Nat /\ l \in S
    OBVIOUS
  <1>3. Least(S) \in S /\ \A y \in S : Least(S) <= y
    BY <1>2, LeastIsLeast
  <1>4. PICK m \in S : m = Least(S)
    BY <1>3
  <1>5. ASSUME NEW i \in 1 .. m - 1
        PROVE  k.rcv_queue[i].frg # 0
    <2>1. i \in 1 .. l /\ ~ (m <= i)
      OBVIOUS
    <2>2. i \notin S
      BY <1>3, <1>4, <2>1
    <2>. QED
      BY <2>1, <2>2
  <1>6. FirstMessage(k) = SubSeq(k.rcv_queue, 1, m)
    BY <1>1, <1>4 DEF FirstMessage
  <1>. QED
    BY <1>1, <1>5, <1>6

(* The last segment of a stream of whole messages ends one.                *)
LEMMA WholeStreamEnds ==
    ASSUME NEW stream \in Seq(Segment), WholeStream(stream)
    PROVE  EndsWhole(stream)
  <1>1. PICK l \in Nat : l = Len(stream)
    OBVIOUS
  <1>2. ASSUME stream # <<>>
        PROVE  stream[l].frg = 0
    <2>1. l \in 1 .. l
      BY <1>1, <1>2
    <2>2. PICK f \in Nat : f = stream[l].frg
      <3>1. stream[l] \in Segment
        BY <1>1, <2>1
      <3>. QED
        BY <3>1 DEF Segment
    <2>3. \A j \in 0 .. f : l + j <= l
      BY <1>1, <2>1, <2>2 DEF WholeStream
    <2>4. f \in 0 .. f
      OBVIOUS
    <2>5. l + f <= l
      BY <2>3, <2>4
    <2>. QED
      BY <2>2, <2>5
  <1>. QED
    BY <1>1, <1>2 DEF EndsWhole

(* ikcp_send writes the message it is given.                               *)
LEMMA SendWrites ==
    ASSUME MessageInv, NEW p \in Sides, NEW msg \in Messages, Send(p, msg)
    PROVE  Fifo!Write(p)
  <1>1. PICK stream \in Seq(Segment), n \in Nat \ {0} :
          stream = sent[p] /\ n = FragCount(msg)
    BY FragCountType, LinkAssumption DEF MessageInv, StreamInv, TypeOK
  <1>2. PICK parts \in Seq(Segment) : parts = Fragments(msg)
    BY FragmentsType, LinkAssumption
  <1>3. Len(parts) = n /\ \A i \in 1 .. n : parts[i].frg = n - i
    BY <1>1, <1>2, FragmentsType, FragmentsShape, LinkAssumption
  <1>4. \A i \in 1 .. Len(parts) : parts[i].frg = 0 <=> i = Len(parts)
    BY <1>3
  <1>5. EndsWhole(stream)
    BY <1>1, WholeStreamEnds DEF MessageInv
  <1>6. Spelled(stream \o parts) = Append(Spelled(stream), Payload(parts))
    BY <1>3, <1>4, <1>5, SpelledMessage
  <1>7. Payload(parts) = msg
    BY <1>2, FragmentsPayload, LinkAssumption
  <1>8. /\ sent' = [sent EXCEPT ![p] = stream \o parts]
        /\ taken' = taken
        /\ sent \in [Sides -> Seq(Segment)]
    BY <1>1, <1>2 DEF Send, MessageInv, StreamInv, TypeOK
  <1>9. Spelled(sent'[p]) = Append(Spelled(sent[p]), msg)
    BY <1>1, <1>6, <1>7, <1>8
  <1>10. \A q \in Sides : q # p => sent'[q] = sent[q]
    BY <1>8
  <1>. QED
    BY <1>8, <1>9, <1>10 DEF Fifo!Write

(* ikcp_recv reads the next message the peer wrote.                        *)
LEMMA RecvReads ==
    ASSUME MessageInv, NEW p \in Sides, Recv(p)
    PROVE  Fifo!Read(p)
  <1>1. PICK q \in Sides : q = Peer(p) /\ p = Peer(q)
    BY PeerType
  <1>2. StreamInv
    BY DEF MessageInv
  <1>3. /\ Holds(kcp[p], taken[p], sent[q], kcp[q].snd_nxt)
        /\ kcp[p] \in ControlBlock
        /\ kcp[q].snd_nxt \in Nat
        /\ kcp[q].snd_nxt <= Len(sent[q])
    BY <1>1, <1>2, FaithfulFacts
  <1>4. PICK got \in Seq(Segment), stream \in Seq(Segment) :
          got = taken[p] /\ stream = sent[q]
    BY <1>1, <1>2, FaithfulFacts
  <1>5. PICK queue \in Seq(Segment) : queue = kcp[p].rcv_queue
    BY <1>3 DEF ControlBlock
  <1>6. PICK g \in Nat, l \in Nat, len \in Nat :
          g = Len(got) /\ l = Len(queue) /\ len = Len(stream)
    OBVIOUS
  <1>7. /\ g + l <= len
        /\ \A i \in 1 .. g : got[i] = stream[i]
        /\ \A i \in 1 .. l : queue[i] = stream[g + i]
    <2>1. PICK k \in ControlBlock, limit \in Nat :
            k = kcp[p] /\ limit = kcp[q].snd_nxt /\ limit <= len
      BY <1>3, <1>4, <1>6
    <2>2. Holds(k, got, stream, limit) /\ k.rcv_queue = queue
      BY <1>3, <1>4, <1>5, <2>1
    <2>3. g + l = k.rcv_nxt /\ k.rcv_nxt <= limit
      BY <1>6, <2>2 DEF Holds
    <2>4. g + l <= len
      BY <2>1, <2>3
    <2>5. \A i \in 1 .. g : got[i] = stream[i]
      BY <1>6, <2>2 DEF Holds
    <2>6. \A i \in 1 .. l : queue[i] = stream[g + i]
      BY <1>6, <2>2 DEF Holds
    <2>. QED
      BY <2>4, <2>5, <2>6
  <1>8. KcpReadable(kcp[p]) /\ queue # <<>>
    BY <1>5 DEF Recv, KcpReadable
  <1>9. PICK m \in 1 .. l :
          /\ FirstMessage(kcp[p]) = SubSeq(queue, 1, m)
          /\ \A i \in 1 .. m - 1 : queue[i].frg # 0
    BY <1>3, <1>5, <1>6, <1>8, FirstMessageStops
  <1>10. PICK first \in Seq(Segment) : first = FirstMessage(kcp[p])
    BY <1>8, ReceiverReadsWhole
  <1>11. Len(first) = m /\ \A i \in 1 .. m : first[i] = queue[i]
    BY <1>6, <1>9, <1>10
  <1>12. first[m].frg = 0
    BY <1>8, <1>10, <1>11, ReceiverReadsWhole
  <1>13. \A i \in 1 .. Len(first) : first[i].frg = 0 <=> i = Len(first)
    BY <1>9, <1>11, <1>12
  <1>14. EndsWhole(got)
    BY <1>4 DEF MessageInv
  <1>15. PICK more \in Seq(Segment) : more = got \o first
    <2>1. got \o first \in Seq(Segment)
      OBVIOUS
    <2>. QED
      BY <2>1, Zenon
  <1>16. Spelled(more) = Append(Spelled(got), Payload(first))
    <2>1. Len(first) >= 1
      BY <1>11
    <2>2. Spelled(got \o first) = Append(Spelled(got), Payload(first))
      BY <1>13, <1>14, <2>1, SpelledMessage
    <2>. QED
      BY <1>15, <2>2
  <1>17. SameUpTo(more, stream, Len(more))
    <2>0. /\ Len(got \o first) = Len(got) + Len(first)
          /\ \A i \in 1 .. Len(got) : (got \o first)[i] = got[i]
          /\ \A i \in 1 .. Len(first) : (got \o first)[Len(got) + i] = first[i]
      OBVIOUS
    <2>1. Len(more) = g + m
      BY <1>6, <1>11, <1>15, <2>0
    <2>2. \A i \in 1 .. g : more[i] = got[i]
      BY <1>6, <1>15, <2>0
    <2>3. \A i \in 1 .. m : more[g + i] = first[i]
      BY <1>6, <1>11, <1>15, <2>0
    <2>4. ASSUME NEW i \in 1 .. g + m
          PROVE  more[i] = stream[i]
      <3>1. CASE i <= g
        BY <1>7, <2>2, <3>1
      <3>2. CASE i > g
        <4>1. PICK j \in 1 .. m : i = g + j
          <5>1. i - g \in 1 .. m /\ i = g + (i - g)
            BY <3>2
          <5>. QED
            BY <5>1
        <4>2. j \in 1 .. l
          OBVIOUS
        <4>. QED
          BY <1>7, <1>11, <2>3, <4>1, <4>2
      <3>. QED
        BY <3>1, <3>2
    <2>. QED
      BY <1>6, <1>7, <2>1, <2>4 DEF SameUpTo
  <1>18. PICK read \in Seq(Seq(Data)), written \in Seq(Seq(Data)) :
           read = Spelled(got) /\ written = Spelled(stream)
    BY SpelledType
  <1>19. PICK msg \in Seq(Data) : msg = Payload(first)
    BY PayloadType
  <1>20. /\ Len(Append(read, msg)) <= Len(written)
         /\ \A j \in 1 .. Len(Append(read, msg)) : written[j] = Append(read, msg)[j]
    <2>1. Spelled(more) = Append(read, msg)
      BY <1>16, <1>18, <1>19, Zenon
    <2>2. /\ Len(Spelled(more)) <= Len(written)
          /\ \A j \in 1 .. Len(Spelled(more)) : written[j] = Spelled(more)[j]
      BY <1>17, <1>18, SpelledPrefix
    <2>. QED
      BY <2>1, <2>2, Zenon
  <1>21. Len(read) < Len(written) /\ written[Len(read) + 1] = msg
    <2>1. /\ Len(Append(read, msg)) = Len(read) + 1
          /\ Append(read, msg)[Len(read) + 1] = msg
      OBVIOUS
    <2>2. Len(read) + 1 \in 1 .. Len(Append(read, msg))
      BY <2>1
    <2>3. written[Len(read) + 1] = msg
      BY <1>20, <2>1, <2>2, Zenon
    <2>4. Len(read) + 1 <= Len(written)
      BY <1>20, <2>1, Zenon
    <2>5. Len(read) < Len(written)
      BY <2>4
    <2>. QED
      BY <2>3, <2>5
  <1>22. /\ taken' = [taken EXCEPT ![p] = more]
         /\ sent' = sent
         /\ taken \in [Sides -> Seq(Segment)]
    BY <1>2, <1>4, <1>10, <1>15 DEF Recv, StreamInv, TypeOK
  <1>23. Spelled(taken'[p]) = Append(read, written[Len(read) + 1])
    BY <1>16, <1>18, <1>19, <1>21, <1>22
  <1>24. \A x \in Sides : x # p => taken'[x] = taken[x]
    BY <1>22
  <1>25. read = Spelled(taken[p]) /\ written = Spelled(sent[Peer(p)])
    BY <1>1, <1>4, <1>18
  <1>. QED
    BY <1>1, <1>21, <1>22, <1>23, <1>24, <1>25 DEF Fifo!Read

(* The timers and the network change neither stream.                       *)
LEMMA StepImplementsFifo ==
    ASSUME MessageInv, [Next]_vars
    PROVE  [Fifo!Next]_Fifo!vars
  <1>1. ASSUME NEW p \in Sides, NEW msg \in Messages, Send(p, msg)
        PROVE  Fifo!Next
    BY <1>1, SendWrites DEF Fifo!Next
  <1>2. ASSUME NEW p \in Sides, Recv(p)
        PROVE  Fifo!Next
    BY <1>2, RecvReads DEF Fifo!Next
  <1>3. ASSUME UNCHANGED <<sent, taken>>
        PROVE  UNCHANGED Fifo!vars
    BY <1>3 DEF Fifo!vars
  <1>4. ASSUME NEW p \in Sides, UpdateSome(p)
        PROVE  UNCHANGED <<sent, taken>>
    <2>1. PICK probeDue \in BOOLEAN :
            \E due, cuts, kept : Update(p, due, probeDue, cuts, kept)
      BY <1>4, UpdateSomeIsUpdate
    <2>. QED
      BY <2>1 DEF Update
  <1>5. ASSUME NEW p \in Sides, InputSome(p)
        PROVE  UNCHANGED <<sent, taken>>
    BY <1>5 DEF InputSome, Input
  <1>6. UNCHANGED vars => UNCHANGED <<sent, taken>>
    BY DEF vars
  <1>. QED
    BY <1>1, <1>2, <1>3, <1>4, <1>5, <1>6 DEF Next, SendSome

(* Whatever the network does, and however messages are cut into segments   *)
(* and datagrams, a session is two reliable streams of messages: each read *)
(* returns exactly the next message that the peer's application sent.      *)
THEOREM ImplementsFifoCorrect == Spec => ImplementsFifo
  <1>1. Init => MessageInv
    BY MessageInit
  <1>2. MessageInv /\ [Next]_vars => MessageInv'
    BY MessageStep
  <1>3. Init => Fifo!Init
    <2>1. Spelled(<<>>) = <<>>
      <3>1. <<>> \in Seq(Segment) /\ Len(<<>>) = 0
        OBVIOUS
      <3>2. PICK f : Spells(f, <<>>) /\ Spelled(<<>>) = f[0].whole
        BY <3>1, SpelledUnfolds
      <3>3. f[0] = NoWords
        BY <3>2 DEF Spells
      <3>. QED
        BY <3>2, <3>3 DEF NoWords
    <2>. QED
      BY <2>1 DEF Init, Fifo!Init
  <1>4. MessageInv /\ [Next]_vars => [Fifo!Next]_Fifo!vars
    BY StepImplementsFifo
  <1>. QED
    BY <1>1, <1>2, <1>3, <1>4, PTL DEF Spec, ImplementsFifo, Fifo!Spec
============================================================================
