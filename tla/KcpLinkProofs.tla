--------------------------- MODULE KcpLinkProofs ---------------------------
(* Theorems about a session, for every window, message set and bound.      *)
EXTENDS KcpLink, KcpProofs

(* There are two ends, and each is the other's peer.                       *)
LEMMA PeerType ==
    ASSUME NEW p \in Sides
    PROVE  Peer(p) \in Sides /\ Peer(p) # p /\ Peer(Peer(p)) = p
  BY DEF Sides, Peer

(* A tick is an Update with some timers expired, some datagrams and some   *)
(* of them lost.                                                           *)
LEMMA UpdateSomeIsUpdate ==
    ASSUME NEW p \in Sides, UpdateSome(p)
    PROVE  \E probeDue \in BOOLEAN : \E due, cuts, kept :
              Update(p, due, probeDue, cuts, kept)
  <1>1. PICK due \in SUBSET Sns(kcp[p].snd_buf), probeDue \in ProbeTimer(kcp[p]) :
          \E cuts \in Cuts(kcp[p], due) :
            \E kept \in SUBSET KcpOutput(kcp[p], due, probeDue, cuts) :
              Fits(p, kept) /\ Update(p, due, probeDue, cuts, kept)
    BY Zenon DEF UpdateSome
  <1>2. PICK cuts, kept : Update(p, due, probeDue, cuts, kept)
    BY <1>1, Zenon
  <1>3. probeDue \in BOOLEAN
    BY ProbeTimerType
  <1>. QED
    BY <1>2, <1>3, Zenon

(* A session starts with two fresh control blocks.                         *)
LEMMA TypeInit ==
    ASSUME Init
    PROVE  TypeOK
  <1>1. KcpCreate(Conv) \in ControlBlock
    BY LinkAssumption, KcpCreateType
  <1>. QED
    BY <1>1 DEF Init, TypeOK

(* TypeOK is inductive: every call of the library keeps the two control    *)
(* blocks, the datagrams and the streams well-formed.                      *)
LEMMA TypeStep ==
    ASSUME TypeOK, [Next]_vars
    PROVE  TypeOK'
  <1>1. ASSUME NEW p \in Sides, NEW msg \in Messages, Send(p, msg)
        PROVE  TypeOK'
    <2>1. msg \in Seq(Data)
      BY LinkAssumption
    <2>2. KcpSend(kcp[p], msg) \in ControlBlock
      BY <2>1, KcpSendType DEF TypeOK
    <2>3. sent[p] \o Fragments(msg) \in Seq(Segment)
      <3>1. sent[p] \in Seq(Segment) /\ Fragments(msg) \in Seq(Segment)
        BY <2>1, FragmentsType DEF TypeOK
      <3>. QED
        BY <3>1
    <2>. QED
      BY <1>1, <2>2, <2>3 DEF TypeOK, Send
  <1>2. ASSUME NEW p \in Sides, UpdateSome(p)
        PROVE  TypeOK'
    <2>1. PICK probeDue \in BOOLEAN :
            \E due, cuts, kept : Update(p, due, probeDue, cuts, kept)
      BY <1>2, UpdateSomeIsUpdate
    <2>2. PICK due, cuts, kept : Update(p, due, probeDue, cuts, kept)
      BY <2>1
    <2>3. KcpFlush(kcp[p], due) \in ControlBlock
      BY KcpFlushType DEF TypeOK
    <2>4. kept \in SUBSET Datagram
      <3>1. kcp[p] \in ControlBlock
        BY DEF TypeOK
      <3>2. KcpOutput(kcp[p], due, probeDue, cuts) \in SUBSET Datagram
        BY <3>1, KcpOutputType
      <3>. QED
        BY <2>2, <3>2 DEF Update
    <2>5. net[Peer(p)] \cup kept \in SUBSET Datagram
      BY <2>4, PeerType DEF TypeOK
    <2>. QED
      BY <2>2, <2>3, <2>5 DEF TypeOK, Update
  <1>3. ASSUME NEW p \in Sides, InputSome(p)
        PROVE  TypeOK'
    <2>1. PICK d \in net[p], grow \in BOOLEAN, duplicated \in BOOLEAN :
            Input(p, d, grow, duplicated)
      BY <1>3 DEF InputSome
    <2>2. d \in Datagram /\ kcp[p] \in ControlBlock
      BY DEF TypeOK
    <2>3. KcpInput(kcp[p], d, grow) \in ControlBlock
      BY <2>2, KcpInputType
    <2>. QED
      BY <2>1, <2>3 DEF TypeOK, Input
  <1>4. ASSUME NEW p \in Sides, Recv(p)
        PROVE  TypeOK'
    <2>1. kcp[p] \in ControlBlock /\ kcp[p].rcv_queue # <<>>
      BY <1>4 DEF Recv, KcpReadable, TypeOK
    <2>2. KcpRecv(kcp[p]) \in ControlBlock
      BY <2>1, KcpRecvType
    <2>3. FirstMessage(kcp[p]) \in Seq(Segment)
      BY <2>1, FirstMessageType
    <2>4. taken[p] \o FirstMessage(kcp[p]) \in Seq(Segment)
      <3>1. taken[p] \in Seq(Segment)
        BY DEF TypeOK
      <3>. QED
        BY <2>3, <3>1
    <2>. QED
      BY <1>4, <2>2, <2>4 DEF TypeOK, Recv
  <1>5. CASE UNCHANGED vars
    BY <1>5 DEF TypeOK, vars
  <1>. QED
    BY <1>1, <1>2, <1>3, <1>4, <1>5 DEF Next, SendSome

(* A session is always well-formed, whatever its windows and messages.     *)
THEOREM TypeCorrect == Spec => []TypeOK
  <1>1. Init => TypeOK
    BY TypeInit
  <1>2. TypeOK /\ [Next]_vars => TypeOK'
    BY TypeStep
  <1>. QED
    BY <1>1, <1>2, PTL DEF Spec

----------------------------------------------------------------------------
(* In-order delivery.                                                      *)

(* The inductive invariant: every copy of a segment, wherever it is, is    *)
(* the segment of the sender's stream with its number.                     *)
Faithful(p) ==
    /\ Sends(kcp[p], sent[p])
    /\ Holds(kcp[Peer(p)], taken[Peer(p)], sent[p], kcp[p].snd_nxt)
    /\ \A d \in net[Peer(p)] : Agrees(d.push, sent[p], kcp[p].snd_nxt)

StreamInv == TypeOK /\ \A p \in Sides : Faithful(p)

(* What TypeOK and faithfulness say of one direction of the session.       *)
LEMMA FaithfulFacts ==
    ASSUME StreamInv, NEW p \in Sides
    PROVE  /\ kcp[p] \in ControlBlock
           /\ kcp[p].snd_nxt \in Nat
           /\ kcp[p].snd_nxt <= Len(sent[p])
           /\ sent[p] \in Seq(Segment)
           /\ taken[p] \in Seq(Segment)
           /\ net[p] \in SUBSET Datagram
           /\ Sends(kcp[p], sent[p])
           /\ Holds(kcp[Peer(p)], taken[Peer(p)], sent[p], kcp[p].snd_nxt)
           /\ \A d \in net[Peer(p)] : Agrees(d.push, sent[p], kcp[p].snd_nxt)
  <1>1. /\ kcp[p] \in ControlBlock
        /\ sent[p] \in Seq(Segment)
        /\ taken[p] \in Seq(Segment)
        /\ net[p] \in SUBSET Datagram
    BY DEF StreamInv, TypeOK
  <1>2. Faithful(p)
    BY DEF StreamInv
  <1>3. kcp[p].snd_nxt \in Nat /\ kcp[p].snd_queue \in Seq(Segment)
    BY <1>1 DEF ControlBlock
  <1>4. kcp[p].snd_nxt <= Len(sent[p])
    <2>1. PICK a \in Nat, b \in Nat : a = kcp[p].snd_nxt /\ b = Len(kcp[p].snd_queue)
      BY <1>3
    <2>2. Len(sent[p]) = a + b
      BY <1>2, <2>1 DEF Faithful, Sends
    <2>3. a <= a + b
      OBVIOUS
    <2>. QED
      BY <2>1, <2>2, <2>3, Zenon
  <1>. QED
    BY <1>1, <1>2, <1>3, <1>4 DEF Faithful

(* Queueing a message keeps both streams faithful.                         *)
LEMMA SendFaithful ==
    ASSUME StreamInv, NEW p \in Sides, NEW msg \in Messages, Send(p, msg),
           NEW x \in Sides
    PROVE  Faithful(x)'
  <1>1. msg \in Seq(Data) /\ ~ KcpSendRefused(msg)
    BY LinkAssumption DEF Send
  <1>2. PICK r : r = KcpSend(kcp[p], msg)
    OBVIOUS
  <1>3. PICK longer : longer = sent[p] \o Fragments(msg)
    OBVIOUS
  <1>4. /\ Sends(r, longer)
        /\ SameReceiver(r, kcp[p])
        /\ r.snd_nxt = kcp[p].snd_nxt
    BY <1>1, <1>2, <1>3, FaithfulFacts, KcpSendSends
  <1>5. /\ longer \in Seq(Segment)
        /\ \A i \in 1 .. Len(sent[p]) : longer[i] = sent[p][i]
    <2>1. sent[p] \in Seq(Segment) /\ Fragments(msg) \in Seq(Segment)
      BY <1>1, FaithfulFacts, FragmentsType
    <2>2. sent[p] \o Fragments(msg) \in Seq(Segment)
      BY <2>1
    <2>3. \A i \in 1 .. Len(sent[p]) : (sent[p] \o Fragments(msg))[i] = sent[p][i]
      BY <2>1
    <2>. QED
      BY <1>3, <2>2, <2>3
  <1>6. /\ kcp' = [kcp EXCEPT ![p] = r]
        /\ sent' = [sent EXCEPT ![p] = longer]
        /\ net' = net
        /\ taken' = taken
    BY <1>2, <1>3 DEF Send
  <1>7. Peer(x) \in Sides /\ Peer(x) # x
    BY PeerType
  <1>8. kcp \in [Sides -> ControlBlock] /\ sent \in [Sides -> Seq(Segment)]
    BY DEF StreamInv, TypeOK
  <1>9. CASE x = p
    <2>1. /\ kcp'[x] = r
          /\ sent'[x] = longer
          /\ kcp'[Peer(x)] = kcp[Peer(x)]
      BY <1>6, <1>7, <1>8, <1>9
    <2>2. kcp[p].snd_nxt \in Nat /\ kcp[p].snd_nxt <= kcp[p].snd_nxt
      BY FaithfulFacts
    <2>3. Holds(kcp[Peer(x)], taken[Peer(x)], longer, kcp[p].snd_nxt)
      BY <1>5, <1>7, <1>9, <2>2, FaithfulFacts, HoldsGrows
    <2>4. ASSUME NEW d \in net[Peer(x)]
          PROVE  Agrees(d.push, longer, kcp[p].snd_nxt)
      <3>1. d.push \in SUBSET Numbered
        BY <1>7, FaithfulFacts DEF Datagram
      <3>2. /\ sent[p] \in Seq(Segment)
            /\ kcp[p].snd_nxt <= Len(sent[p])
            /\ Agrees(d.push, sent[p], kcp[p].snd_nxt)
        BY <1>9, FaithfulFacts
      <3>. QED
        BY <1>5, <2>2, <3>1, <3>2, AgreesGrows, Zenon
    <2>. QED
      BY <1>4, <1>6, <2>1, <2>3, <2>4 DEF Faithful
  <1>10. CASE x # p
    <2>1. Peer(x) = p
      BY <1>10 DEF Peer, Sides
    <2>2. /\ kcp'[x] = kcp[x]
          /\ sent'[x] = sent[x]
          /\ kcp'[p] = r
      BY <1>6, <1>8, <1>10
    <2>3. Holds(r, taken[p], sent[x], kcp[x].snd_nxt)
      <3>1. Holds(kcp[p], taken[p], sent[x], kcp[x].snd_nxt)
        BY <2>1, FaithfulFacts
      <3>. QED
        BY <1>4, <3>1 DEF Holds, SameReceiver
    <2>. QED
      BY <1>6, <2>1, <2>2, <2>3, FaithfulFacts DEF Faithful
  <1>. QED
    BY <1>9, <1>10

(* A tick keeps both streams faithful, whatever it resends and loses.      *)
LEMMA UpdateFaithful ==
    ASSUME StreamInv, NEW p \in Sides, UpdateSome(p), NEW x \in Sides
    PROVE  Faithful(x)'
  <1>1. PICK probeDue \in BOOLEAN :
          \E due, cuts, kept : Update(p, due, probeDue, cuts, kept)
    BY UpdateSomeIsUpdate
  <1>2. PICK due, cuts, kept : Update(p, due, probeDue, cuts, kept)
    BY <1>1
  <1>3. PICK k : k = kcp[p]
    OBVIOUS
  <1>4. /\ k \in ControlBlock
        /\ Sends(k, sent[p])
        /\ sent[p] \in Seq(Segment)
        /\ k.snd_nxt \in Nat
        /\ k.snd_nxt <= Len(sent[p])
    BY <1>3, FaithfulFacts
  <1>5. PICK r : r = KcpFlush(k, due)
    OBVIOUS
  <1>6. /\ Sends(r, sent[p])
        /\ k.snd_nxt <= r.snd_nxt
        /\ r.snd_nxt <= Len(sent[p])
        /\ Agrees(Moved(k), sent[p], r.snd_nxt)
    BY <1>4, <1>5, KcpFlushSends, Zenon
  <1>7. /\ r \in ControlBlock
        /\ SameReceiver(r, k)
        /\ r.snd_buf = k.snd_buf \cup Moved(k)
    BY <1>4, <1>5, KcpFlushType
  <1>8. r.snd_nxt \in Nat
    BY <1>7 DEF ControlBlock
  <1>9. /\ kcp' = [kcp EXCEPT ![p] = r]
        /\ kept \subseteq KcpOutput(k, due, probeDue, cuts)
        /\ net' = [net EXCEPT ![Peer(p)] = @ \cup kept]
        /\ sent' = sent
        /\ taken' = taken
    BY <1>2, <1>3, <1>5 DEF Update
  <1>10. /\ Peer(x) \in Sides
         /\ Peer(x) # x
         /\ kcp \in [Sides -> ControlBlock]
         /\ net \in [Sides -> SUBSET Datagram]
    BY PeerType DEF StreamInv, TypeOK
  <1>11. CASE x = p
    <2>1. /\ kcp'[x] = r
          /\ kcp'[Peer(x)] = kcp[Peer(x)]
          /\ net'[Peer(x)] = net[Peer(x)] \cup kept
      BY <1>9, <1>10, <1>11
    <2>2. Holds(kcp[Peer(x)], taken[Peer(x)], sent[x], r.snd_nxt)
      <3>1. Holds(kcp[Peer(x)], taken[Peer(x)], sent[x], k.snd_nxt)
        BY <1>3, <1>11, FaithfulFacts
      <3>2. kcp[Peer(x)] \in ControlBlock /\ taken[Peer(x)] \in Seq(Segment)
        BY <1>10, FaithfulFacts
      <3>3. \A i \in 1 .. Len(sent[x]) : sent[x][i] = sent[x][i]
        OBVIOUS
      <3>. QED
        BY <1>4, <1>6, <1>8, <1>11, <3>1, <3>2, <3>3, HoldsGrows, Zenon
    <2>3. ASSUME NEW d \in net[Peer(x)]
          PROVE  Agrees(d.push, sent[x], r.snd_nxt)
      <3>1. d.push \in SUBSET Numbered
        BY <1>10 DEF Datagram
      <3>2. Agrees(d.push, sent[x], k.snd_nxt)
        BY <1>3, <1>11, FaithfulFacts
      <3>3. \A i \in 1 .. Len(sent[x]) : sent[x][i] = sent[x][i]
        OBVIOUS
      <3>. QED
        BY <1>4, <1>6, <1>8, <1>11, <3>1, <3>2, <3>3, AgreesGrows, Zenon
    <2>4. ASSUME NEW d \in kept
          PROVE  Agrees(d.push, sent[x], r.snd_nxt)
      <3>1. d.push \subseteq r.snd_buf
        BY <1>4, <1>7, <1>9, KcpOutputPushes
      <3>2. Agrees(r.snd_buf, sent[x], r.snd_nxt)
        BY <1>6, <1>11 DEF Sends
      <3>. QED
        BY <3>1, <3>2 DEF Agrees
    <2>. QED
      BY <1>6, <1>9, <1>11, <2>1, <2>2, <2>3, <2>4 DEF Faithful
  <1>12. CASE x # p
    <2>1. Peer(x) = p /\ Peer(p) = x
      BY <1>12 DEF Peer, Sides
    <2>2. kcp'[x] = kcp[x] /\ kcp'[p] = r /\ net'[p] = net[p]
      BY <1>9, <1>10, <1>12, <2>1
    <2>3. Holds(r, taken[p], sent[x], kcp[x].snd_nxt)
      <3>1. Holds(k, taken[p], sent[x], kcp[x].snd_nxt)
        BY <1>3, <2>1, FaithfulFacts
      <3>. QED
        BY <1>7, <3>1 DEF Holds, SameReceiver
    <2>. QED
      BY <1>9, <2>1, <2>2, <2>3, FaithfulFacts DEF Faithful
  <1>. QED
    BY <1>11, <1>12

(* The arrival of a datagram keeps both streams faithful.                  *)
LEMMA InputFaithful ==
    ASSUME StreamInv, NEW p \in Sides, InputSome(p), NEW x \in Sides
    PROVE  Faithful(x)'
  <1>1. PICK d \in net[p], grow \in BOOLEAN, duplicated \in BOOLEAN :
          Input(p, d, grow, duplicated)
    BY DEF InputSome
  <1>2. PICK k : k = kcp[p]
    OBVIOUS
  <1>3. k \in ControlBlock /\ d \in Datagram
    BY <1>1, <1>2, FaithfulFacts
  <1>4. PICK r : r = KcpInput(k, d, grow)
    OBVIOUS
  <1>5. /\ r \in ControlBlock
        /\ r.snd_nxt = k.snd_nxt
        /\ r.snd_queue = k.snd_queue
        /\ r.snd_buf \subseteq k.snd_buf
    BY <1>3, <1>4, KcpInputType
  <1>6. /\ kcp' = [kcp EXCEPT ![p] = r]
        /\ net'[p] \subseteq net[p]
        /\ \A q \in Sides : q # p => net'[q] = net[q]
        /\ sent' = sent
        /\ taken' = taken
    BY <1>1, <1>2, <1>4 DEF Input, StreamInv, TypeOK
  <1>7. /\ Peer(x) \in Sides
        /\ Peer(x) # x
        /\ kcp \in [Sides -> ControlBlock]
    BY PeerType DEF StreamInv, TypeOK
  <1>8. CASE x = p
    <2>1. /\ kcp'[x] = r
          /\ kcp'[Peer(x)] = kcp[Peer(x)]
          /\ net'[Peer(x)] = net[Peer(x)]
      BY <1>6, <1>7, <1>8
    <2>2. Sends(r, sent[x])
      <3>1. Sends(k, sent[x])
        BY <1>2, <1>8, FaithfulFacts
      <3>. QED
        BY <1>5, <3>1 DEF Sends, Agrees
    <2>3. r.snd_nxt = kcp[x].snd_nxt
      BY <1>2, <1>5, <1>8
    <2>. QED
      BY <1>6, <2>1, <2>2, <2>3, FaithfulFacts DEF Faithful
  <1>9. CASE x # p
    <2>1. Peer(x) = p
      BY <1>9 DEF Peer, Sides
    <2>2. kcp'[x] = kcp[x] /\ kcp'[p] = r
      BY <1>6, <1>7, <1>9
    <2>3. Holds(r, taken[p], sent[x], kcp[x].snd_nxt)
      <3>1. /\ Holds(k, taken[p], sent[x], kcp[x].snd_nxt)
            /\ Agrees(d.push, sent[x], kcp[x].snd_nxt)
        BY <1>2, <2>1, FaithfulFacts
      <3>2. /\ taken[p] \in Seq(Segment)
            /\ sent[x] \in Seq(Segment)
            /\ kcp[x].snd_nxt \in Nat
        BY FaithfulFacts
      <3>. QED
        BY <1>3, <1>4, <3>1, <3>2, KcpInputHolds, Zenon
    <2>. QED
      BY <1>6, <2>1, <2>2, <2>3, FaithfulFacts DEF Faithful
  <1>. QED
    BY <1>8, <1>9

(* Reading a message keeps both streams faithful.                          *)
LEMMA RecvFaithful ==
    ASSUME StreamInv, NEW p \in Sides, Recv(p), NEW x \in Sides
    PROVE  Faithful(x)'
  <1>1. PICK k : k = kcp[p]
    OBVIOUS
  <1>2. k \in ControlBlock /\ k.rcv_queue # <<>>
    BY <1>1, FaithfulFacts DEF Recv, KcpReadable
  <1>3. PICK r : r = KcpRecv(k)
    OBVIOUS
  <1>4. r \in ControlBlock /\ SameSender(r, k)
    BY <1>2, <1>3, KcpRecvType
  <1>5. PICK more : more = taken[p] \o FirstMessage(k)
    OBVIOUS
  <1>6. /\ kcp' = [kcp EXCEPT ![p] = r]
        /\ taken' = [taken EXCEPT ![p] = more]
        /\ net' = net
        /\ sent' = sent
    BY <1>1, <1>3, <1>5 DEF Recv
  <1>7. /\ Peer(x) \in Sides
        /\ Peer(x) # x
        /\ kcp \in [Sides -> ControlBlock]
        /\ taken \in [Sides -> Seq(Segment)]
    BY PeerType DEF StreamInv, TypeOK
  <1>8. CASE x = p
    <2>1. /\ kcp'[x] = r
          /\ kcp'[Peer(x)] = kcp[Peer(x)]
          /\ taken'[Peer(x)] = taken[Peer(x)]
      BY <1>6, <1>7, <1>8
    <2>2. Sends(r, sent[x]) /\ r.snd_nxt = kcp[x].snd_nxt
      <3>1. Sends(k, sent[x]) /\ k = kcp[x]
        BY <1>1, <1>8, FaithfulFacts
      <3>. QED
        BY <1>4, <3>1 DEF Sends, Agrees, SameSender
    <2>. QED
      BY <1>6, <2>1, <2>2, FaithfulFacts DEF Faithful
  <1>9. CASE x # p
    <2>1. Peer(x) = p
      BY <1>9 DEF Peer, Sides
    <2>2. kcp'[x] = kcp[x] /\ kcp'[p] = r /\ taken'[p] = more
      BY <1>6, <1>7, <1>9
    <2>3. Holds(r, more, sent[x], kcp[x].snd_nxt)
      <3>1. Holds(k, taken[p], sent[x], kcp[x].snd_nxt)
        BY <1>1, <2>1, FaithfulFacts
      <3>2. /\ taken[p] \in Seq(Segment)
            /\ sent[x] \in Seq(Segment)
            /\ kcp[x].snd_nxt \in Nat
        BY FaithfulFacts
      <3>. QED
        BY <1>2, <1>3, <1>5, <3>1, <3>2, KcpRecvHolds, Zenon
    <2>. QED
      BY <1>6, <2>1, <2>2, <2>3, FaithfulFacts DEF Faithful
  <1>. QED
    BY <1>8, <1>9

(* A session starts with two empty, faithful streams.                      *)
LEMMA StreamInit ==
    ASSUME Init
    PROVE  StreamInv
  <1>1. TypeOK
    BY TypeInit
  <1>2. PICK k : k = KcpCreate(Conv)
    OBVIOUS
  <1>3. /\ k.snd_nxt = 0 /\ k.rcv_nxt = 0
        /\ k.snd_queue = <<>> /\ k.rcv_queue = <<>>
        /\ k.snd_buf = {} /\ k.rcv_buf = {}
    BY <1>2 DEF KcpCreate
  <1>4. ASSUME NEW p \in Sides
        PROVE  Faithful(p)
    <2>1. /\ kcp[p] = k /\ kcp[Peer(p)] = k
          /\ sent[p] = <<>> /\ taken[Peer(p)] = <<>>
          /\ net[Peer(p)] = {}
      BY <1>2, PeerType DEF Init
    <2>2. Sends(k, <<>>) /\ Holds(k, <<>>, <<>>, 0)
      BY <1>3 DEF Sends, Holds, Agrees
    <2>. QED
      BY <1>3, <2>1, <2>2 DEF Faithful
  <1>. QED
    BY <1>1, <1>4 DEF StreamInv

(* The invariant is inductive.                                             *)
LEMMA StreamStep ==
    ASSUME StreamInv, [Next]_vars
    PROVE  StreamInv'
  <1>1. TypeOK'
    BY TypeStep DEF StreamInv
  <1>2. ASSUME NEW x \in Sides
        PROVE  Faithful(x)'
    <2>1. CASE \E p \in Sides : \E msg \in Messages : Send(p, msg)
      BY <2>1, SendFaithful
    <2>2. CASE \E p \in Sides : UpdateSome(p)
      BY <2>2, UpdateFaithful
    <2>3. CASE \E p \in Sides : InputSome(p)
      BY <2>3, InputFaithful
    <2>4. CASE \E p \in Sides : Recv(p)
      BY <2>4, RecvFaithful
    <2>5. CASE UNCHANGED vars
      <3>1. Faithful(x)
        BY DEF StreamInv
      <3>. QED
        BY <2>5, <3>1 DEF Faithful, vars
    <2>. QED
      BY <2>1, <2>2, <2>3, <2>4, <2>5 DEF Next, SendSome
  <1>. QED
    BY <1>1, <1>2 DEF StreamInv

(* Faithful streams are delivered in order: what was read is a prefix of   *)
(* what was queued.                                                        *)
LEMMA StreamImpliesInOrder ==
    ASSUME StreamInv
    PROVE  InOrderDelivery
  <1>1. ASSUME NEW p \in Sides
        PROVE  /\ Len(taken[Peer(p)]) <= Len(sent[p])
               /\ taken[Peer(p)] = SubSeq(sent[p], 1, Len(taken[Peer(p)]))
    <2>1. PICK got \in Seq(Segment), stream \in Seq(Segment) :
            got = taken[Peer(p)] /\ stream = sent[p]
      BY PeerType, FaithfulFacts
    <2>2. PICK k \in ControlBlock : k = kcp[Peer(p)]
      BY PeerType, FaithfulFacts
    <2>3. PICK limit \in Nat : limit = kcp[p].snd_nxt /\ limit <= Len(stream)
      BY <2>1, FaithfulFacts
    <2>4. Holds(k, got, stream, limit)
      BY <2>1, <2>2, <2>3, FaithfulFacts
    <2>5. Len(got) <= Len(stream)
      <3>1. PICK a \in Nat, b \in Nat : a = Len(got) /\ b = Len(k.rcv_queue)
        BY DEF ControlBlock
      <3>2. a + b = k.rcv_nxt /\ k.rcv_nxt <= limit
        BY <2>4, <3>1 DEF Holds
      <3>3. a + b <= limit
        BY <3>2, Zenon
      <3>4. a <= Len(stream)
        BY <2>3, <3>3
      <3>. QED
        BY <3>1, <3>4
    <2>6. got = SubSeq(stream, 1, Len(got))
      <3>1. SubSeq(stream, 1, Len(got)) \in Seq(Segment)
        BY <2>5
      <3>2. Len(SubSeq(stream, 1, Len(got))) = Len(got)
        BY <2>5
      <3>3. \A i \in 1 .. Len(got) : SubSeq(stream, 1, Len(got))[i] = stream[i]
        BY <2>5
      <3>4. \A i \in 1 .. Len(got) : got[i] = stream[i]
        BY <2>4 DEF Holds
      <3>5. \A i \in 1 .. Len(got) : got[i] = SubSeq(stream, 1, Len(got))[i]
        BY <3>3, <3>4
      <3>. QED
        BY <3>1, <3>2, <3>5, SeqEqual, Zenon
    <2>. QED
      BY <2>1, <2>5, <2>6
  <1>. QED
    BY <1>1 DEF InOrderDelivery

(* Whatever the network loses, repeats and reorders, and for every window  *)
(* and message set, ikcp_recv returns a prefix of what ikcp_send queued at *)
(* the other end.                                                          *)
THEOREM InOrderCorrect == Spec => []InOrderDelivery
  <1>1. Init => StreamInv
    BY StreamInit
  <1>2. StreamInv /\ [Next]_vars => StreamInv'
    BY StreamStep
  <1>3. StreamInv => InOrderDelivery
    BY StreamImpliesInOrder
  <1>. QED
    BY <1>1, <1>2, <1>3, PTL DEF Spec
============================================================================
