----------------------------- MODULE KcpProofs -----------------------------
(***************************************************************************)
(* What the operators of Kcp return, for every control block: the lemmas   *)
(* the proofs about a session rest on.                                     *)
(***************************************************************************)
EXTENDS Kcp, SequenceTheorems, WellFoundedInduction, TLAPS

(* Every nonempty set of numbers has a least one, and Least is it.         *)
LEMMA LeastIsLeast ==
    ASSUME NEW S \in SUBSET Nat, S # {}
    PROVE  Least(S) \in S /\ \A y \in S : Least(S) <= y
  <1>. DEFINE R == OpToRel(<, Nat)
  <1>1. \A a, b \in Nat : a < b => <<a, b>> \in R
    BY Zenon DEF OpToRel
  <1>2. IsWellFoundedOn(R, Nat)
    BY NatLessThanWellFounded, Zenon
  <1>. HIDE DEF R
  <1>3. PICK x \in S : \A y \in S : ~ (<<y, x>> \in R)
    BY <1>2, WFMin, Zenon
  <1>4. ASSUME NEW y \in S, y < x
        PROVE  FALSE
    BY <1>1, <1>3, <1>4
  <1>5. x \in Nat /\ \A y \in S : y \in Nat /\ ~ (y < x)
    BY <1>4
  <1>6. \A y \in S : x <= y
    BY <1>5
  <1>. QED
    BY <1>6 DEF Least

(* Induction over the numbers 0 .. n, for the set of those that have some  *)
(* property.                                                               *)
LEMMA Climb ==
    ASSUME NEW n \in Nat, NEW S, 0 \in S,
           \A i \in 1 .. n : i - 1 \in S => i \in S
    PROVE  \A i \in 0 .. n : i \in S
  <1>. DEFINE missed == {i \in 0 .. n : i \notin S}
  <1>1. SUFFICES ASSUME missed # {}
                 PROVE  FALSE
    OBVIOUS
  <1>2. missed \in SUBSET Nat
    OBVIOUS
  <1>3. PICK m \in missed : \A y \in missed : m <= y
    BY <1>1, <1>2, LeastIsLeast
  <1>4. m \in 1 .. n /\ m \notin S
    BY <1>3
  <1>5. m - 1 \in 0 .. n /\ m - 1 \notin missed
    BY <1>3, <1>4
  <1>. QED
    BY <1>4, <1>5

(* For each number up to n, a way to get from one value to the next.       *)
Steps(n, T) == [1 .. n -> [T -> T]]

(* f takes these steps, from first.                                        *)
Takes(f, n, T, first, step) ==
    /\ f \in [0 .. n -> T]
    /\ f[0] = first
    /\ \A i \in 1 .. n : f[i] = step[i][f[i - 1]]

(* A function can be defined by its first value and, for each other one, by*)
(* the step to it from the one before.                                     *)
LEMMA RecursiveFunction ==
    ASSUME NEW T, NEW n \in Nat, NEW first \in T, NEW step \in Steps(n, T)
    PROVE  \E f : Takes(f, n, T, first, step)
  <1>. DEFINE Defined(m) == \E f \in [0 .. m -> T] :
                  f[0] = first /\ \A i \in 1 .. m : f[i] = step[i][f[i - 1]]
              S == {m \in Nat : Defined(m)}
  <1>1. 0 \in S
    <2>1. PICK f \in [0 .. 0 -> T] : f = [i \in 0 .. 0 |-> first]
      OBVIOUS
    <2>2. f \in [0 .. 0 -> T] /\ f[0] = first
      BY <2>1
    <2>3. Defined(0)
      BY <2>2
    <2>. QED
      BY <2>3
  <1>2. ASSUME NEW m \in 1 .. n, m - 1 \in S
        PROVE  m \in S
    <2>1. PICK f \in [0 .. m - 1 -> T] :
            f[0] = first /\ \A i \in 1 .. m - 1 : f[i] = step[i][f[i - 1]]
      BY <1>2
    <2>. DEFINE g == [i \in 0 .. m |-> IF i = m THEN step[m][f[m - 1]] ELSE f[i]]
    <2>2. step[m][f[m - 1]] \in T
      BY <2>1 DEF Steps
    <2>3. g \in [0 .. m -> T]
      BY <2>1, <2>2
    <2>4. g[0] = first
      BY <2>1
    <2>5. ASSUME NEW i \in 1 .. m
          PROVE  g[i] = step[i][g[i - 1]]
      BY <2>1
    <2>6. Defined(m)
      BY <2>3, <2>4, <2>5
    <2>. QED
      BY <2>6
  <1>. HIDE DEF S
  <1>3. \A m \in 1 .. n : m - 1 \in S => m \in S
    BY <1>2
  <1>4. \A m \in 0 .. n : m \in S
    BY <1>1, <1>3, Climb
  <1>5. n \in S
    BY <1>4
  <1>. QED
    BY <1>5 DEF S, Takes

(* The advertised window is a number, also when rcv_queue is over-full.   *)
LEMMA WndUnusedNat ==
    ASSUME NEW k \in ControlBlock
    PROVE  WndUnused(k) \in Nat
  BY KcpAssumption DEF WndUnused, Greater, ControlBlock

(* The run of segments that Drain moves: every one is in rcv_buf, it fits, *)
(* and it is as long as that allows.                                       *)
LEMMA InOrderRunProperty ==
    ASSUME NEW k \in ControlBlock
    PROVE  /\ InOrderRun(k) \in 0 .. WndUnused(k)
           /\ \A j \in 0 .. InOrderRun(k) - 1 : k.rcv_nxt + j \in Sns(k.rcv_buf)
           /\ \/ InOrderRun(k) = WndUnused(k)
              \/ k.rcv_nxt + InOrderRun(k) \notin Sns(k.rcv_buf)
  <1>. DEFINE S == {n \in 0 .. WndUnused(k) :
                      n = WndUnused(k) \/ k.rcv_nxt + n \notin Sns(k.rcv_buf)}
  <1>1. WndUnused(k) \in Nat
    BY WndUnusedNat
  <1>2. S \in SUBSET Nat /\ WndUnused(k) \in S
    BY <1>1
  <1>3. Least(S) \in S /\ \A y \in S : Least(S) <= y
    BY <1>2, LeastIsLeast
  <1>4. InOrderRun(k) = Least(S)
    BY DEF InOrderRun
  <1>. QED
    BY <1>1, <1>3, <1>4

(* Looking a sequence number up among numbered segments finds a segment.   *)
LEMMA SegmentAtProperty ==
    ASSUME NEW segs \in SUBSET Numbered, NEW sn \in Sns(segs)
    PROVE  /\ \E s \in segs : s.sn = sn /\ SegmentAt(segs, sn) = s.seg
           /\ SegmentAt(segs, sn) \in Segment
  BY DEF Sns, SegmentAt, Numbered

(* Drain moves the next segments of the stream from rcv_buf to the end of  *)
(* rcv_queue, and touches nothing else.                                    *)
LEMMA DrainProperty ==
    ASSUME NEW k \in ControlBlock
    PROVE  /\ Drain(k) \in ControlBlock
           /\ Drain(k) = [k EXCEPT !.rcv_nxt = Drain(k).rcv_nxt,
                                   !.rcv_buf = Drain(k).rcv_buf,
                                   !.rcv_queue = Drain(k).rcv_queue]
           /\ Drain(k).rcv_nxt = k.rcv_nxt + InOrderRun(k)
           /\ Drain(k).rcv_buf =
                {s \in k.rcv_buf : s.sn \notin k.rcv_nxt .. k.rcv_nxt + InOrderRun(k) - 1}
           /\ Len(Drain(k).rcv_queue) = Len(k.rcv_queue) + InOrderRun(k)
           /\ \A i \in 1 .. Len(k.rcv_queue) :
                 Drain(k).rcv_queue[i] = k.rcv_queue[i]
           /\ \A i \in 1 .. InOrderRun(k) : \E s \in k.rcv_buf :
                 /\ s.sn = k.rcv_nxt + i - 1
                 /\ Drain(k).rcv_queue[Len(k.rcv_queue) + i] = s.seg
  <1>1. PICK n \in Nat :
           /\ n = InOrderRun(k)
           /\ \A i \in 1 .. n : k.rcv_nxt + i - 1 \in Sns(k.rcv_buf)
    <2>. DEFINE n == InOrderRun(k)
    <2>1. n \in 0 .. WndUnused(k)
          /\ \A j \in 0 .. n - 1 : k.rcv_nxt + j \in Sns(k.rcv_buf)
      BY InOrderRunProperty
    <2>2. k.rcv_nxt \in Nat
      BY DEF ControlBlock
    <2>3. ASSUME NEW i \in 1 .. n
          PROVE  k.rcv_nxt + i - 1 \in Sns(k.rcv_buf)
      <3>1. i - 1 \in 0 .. n - 1 /\ k.rcv_nxt + (i - 1) = k.rcv_nxt + i - 1
        BY <2>1, <2>2, WndUnusedNat
      <3>. QED
        BY <2>1, <3>1
    <2>. QED
      BY <2>1, <2>3, WndUnusedNat
  <1>2. PICK moved : moved = [i \in 1 .. n |-> SegmentAt(k.rcv_buf, k.rcv_nxt + i - 1)]
    OBVIOUS
  <1>3. \A i \in 1 .. n : /\ moved[i] \in Segment
                          /\ \E s \in k.rcv_buf : s.sn = k.rcv_nxt + i - 1
                                                  /\ moved[i] = s.seg
    BY ZenonT(60), <1>1, <1>2, SegmentAtProperty DEF ControlBlock
  <1>4. moved \in Seq(Segment) /\ Len(moved) = n
    BY <1>2, <1>3
  <1>5. k.rcv_queue \in Seq(Segment)
    BY DEF ControlBlock
  <1>6. /\ k.rcv_queue \o moved \in Seq(Segment)
        /\ Len(k.rcv_queue \o moved) = Len(k.rcv_queue) + n
        /\ \A i \in 1 .. Len(k.rcv_queue) :
              (k.rcv_queue \o moved)[i] = k.rcv_queue[i]
        /\ \A i \in 1 .. n :
              (k.rcv_queue \o moved)[Len(k.rcv_queue) + i] = moved[i]
    <2>1. k.rcv_queue \o moved \in Seq(Segment)
      BY <1>4, <1>5
    <2>2. Len(k.rcv_queue \o moved) = Len(k.rcv_queue) + n
      BY <1>4, <1>5
    <2>3. \A i \in 1 .. Len(k.rcv_queue) :
              (k.rcv_queue \o moved)[i] = k.rcv_queue[i]
      BY <1>1, <1>4, <1>5
    <2>4. \A i \in 1 .. n :
              (k.rcv_queue \o moved)[Len(k.rcv_queue) + i] = moved[i]
      BY <1>1, <1>4, <1>5
    <2>. QED
      BY <2>1, <2>2, <2>3, <2>4
  <1>7. PICK queue : queue = k.rcv_queue \o moved
    OBVIOUS
  <1>8. PICK buf : buf = {s \in k.rcv_buf : s.sn \notin k.rcv_nxt .. k.rcv_nxt + n - 1}
    OBVIOUS
  <1>9. Drain(k) = [k EXCEPT !.rcv_nxt = @ + n, !.rcv_buf = buf, !.rcv_queue = queue]
    BY <1>1, <1>2, <1>7, <1>8 DEF Drain
  <1>10. /\ Drain(k) \in ControlBlock
         /\ Drain(k).rcv_nxt = k.rcv_nxt + n
         /\ Drain(k).rcv_buf = buf
         /\ Drain(k).rcv_queue = queue
    <2>1. k.rcv_nxt + n \in Nat /\ buf \in SUBSET Numbered /\ queue \in Seq(Segment)
      BY SMTT(30), <1>1, <1>6, <1>7, <1>8 DEF ControlBlock
    <2>. QED
      BY <1>9, <2>1 DEF ControlBlock
  <1>11. Drain(k) = [k EXCEPT !.rcv_nxt = Drain(k).rcv_nxt,
                              !.rcv_buf = Drain(k).rcv_buf,
                              !.rcv_queue = Drain(k).rcv_queue]
    BY <1>9, <1>10
  <1>12. /\ Len(queue) = Len(k.rcv_queue) + n
         /\ \A i \in 1 .. Len(k.rcv_queue) : queue[i] = k.rcv_queue[i]
         /\ \A i \in 1 .. n : queue[Len(k.rcv_queue) + i] = moved[i]
    BY <1>6, <1>7
  <1>13. \A i \in 1 .. n : \E s \in k.rcv_buf :
                 /\ s.sn = k.rcv_nxt + i - 1
                 /\ queue[Len(k.rcv_queue) + i] = s.seg
    BY <1>3, <1>12
  <1>. QED
    BY <1>1, <1>8, <1>10, <1>11, <1>12, <1>13

----------------------------------------------------------------------------
(* Types and frames: every entry point maps a control block to a control   *)
(* block, and those of one half leave the other half alone.                *)

SameSender(r, k) ==
    /\ r.snd_nxt = k.snd_nxt
    /\ r.snd_queue = k.snd_queue
    /\ r.snd_buf = k.snd_buf

SameReceiver(r, k) ==
    /\ r.rcv_nxt = k.rcv_nxt
    /\ r.rcv_queue = k.rcv_queue
    /\ r.rcv_buf = k.rcv_buf

(* Sequence numbers are natural numbers.                                   *)
LEMMA SnsType ==
    ASSUME NEW segs \in SUBSET Numbered
    PROVE  Sns(segs) \in SUBSET Nat
  BY DEF Sns, Numbered

(* A control block fresh from ikcp_create is well-formed.                  *)
LEMMA KcpCreateType ==
    ASSUME NEW conv \in Nat
    PROVE  KcpCreate(conv) \in ControlBlock
  BY KcpAssumption DEF KcpCreate, ControlBlock, ThreshMin

(* Every message, the empty one included, makes at least one fragment.     *)
LEMMA FragCountType ==
    ASSUME NEW msg \in Seq(Data)
    PROVE  FragCount(msg) \in Nat \ {0}
  BY KcpAssumption DEF FragCount

(* ikcp_send cuts a message into FragCount segments.                       *)
LEMMA FragmentsType ==
    ASSUME NEW msg \in Seq(Data)
    PROVE  Fragments(msg) \in Seq(Segment) /\ Len(Fragments(msg)) = FragCount(msg)
  <1>1. FragCount(msg) \in Nat
    BY FragCountType
  <1>2. ASSUME NEW i \in 1 .. FragCount(msg)
        PROVE  SubSeq(msg, (i - 1) * Mss + 1, Lesser(i * Mss, Len(msg))) \in Seq(Data)
    <2>. DEFINE from == (i - 1) * Mss + 1
                to == Lesser(i * Mss, Len(msg))
    <2>1. from \in Nat \ {0} /\ i * Mss \in Nat
      BY <1>1, KcpAssumption
    <2>2. to \in Nat /\ to <= Len(msg)
      BY <2>1 DEF Lesser
    <2>. HIDE DEF from, to
    <2>3. from \in Int /\ to \in Int /\ \A j \in from .. to : msg[j] \in Data
      BY <2>1, <2>2
    <2>4. SubSeq(msg, from, to) \in Seq(Data)
      BY <2>3, SubSeqProperties, Zenon
    <2>. QED
      BY <2>4 DEF from, to
  <1>3. \A i \in 1 .. FragCount(msg) :
           [frg  |-> FragCount(msg) - i,
            data |-> SubSeq(msg, (i - 1) * Mss + 1, Lesser(i * Mss, Len(msg)))]
             \in Segment
    BY <1>1, <1>2 DEF Segment
  <1>. QED
    BY <1>1, <1>3 DEF Fragments

(* ikcp_send leaves a well-formed control block.                           *)
LEMMA KcpSendType ==
    ASSUME NEW k \in ControlBlock, NEW msg \in Seq(Data)
    PROVE  KcpSend(k, msg) \in ControlBlock
  <1>1. k.snd_queue \o Fragments(msg) \in Seq(Segment)
    BY FragmentsType DEF ControlBlock
  <1>. QED
    BY <1>1 DEF KcpSend, ControlBlock

(* What ikcp_recv removes is a nonempty prefix of rcv_queue.               *)
LEMMA FirstMessageProperty ==
    ASSUME NEW k \in ControlBlock, k.rcv_queue # <<>>
    PROVE  \E m \in 1 .. Len(k.rcv_queue) : FirstMessage(k) = SubSeq(k.rcv_queue, 1, m)
  <1>. DEFINE S == {i \in 1 .. Len(k.rcv_queue) :
                      i = Len(k.rcv_queue) \/ k.rcv_queue[i].frg = 0}
  <1>1. k.rcv_queue \in Seq(Segment) /\ Len(k.rcv_queue) \in Nat \ {0}
    BY DEF ControlBlock
  <1>2. S \in SUBSET Nat /\ Len(k.rcv_queue) \in S
    BY <1>1
  <1>3. Least(S) \in S
    BY <1>2, LeastIsLeast
  <1>. QED
    BY <1>3 DEF FirstMessage

(* A message ikcp_recv removes is a sequence of segments.                  *)
LEMMA FirstMessageType ==
    ASSUME NEW k \in ControlBlock, k.rcv_queue # <<>>
    PROVE  FirstMessage(k) \in Seq(Segment)
  <1>1. PICK m \in 1 .. Len(k.rcv_queue) : FirstMessage(k) = SubSeq(k.rcv_queue, 1, m)
    BY FirstMessageProperty
  <1>2. k.rcv_queue \in Seq(Segment)
    BY DEF ControlBlock
  <1>. QED
    BY <1>1, <1>2

(* The bytes of a message, segment by segment: Payload is the last of the  *)
(* values that the function in it takes.                                   *)
LEMMA PayloadUnfolds ==
    ASSUME NEW segs \in Seq(Segment)
    PROVE  \E f \in [0 .. Len(segs) -> Seq(Data)] :
              /\ f[0] = <<>>
              /\ \A i \in 1 .. Len(segs) : f[i] = f[i - 1] \o segs[i].data
              /\ Payload(segs) = f[Len(segs)]
  <1>0. PICK n \in Nat : n = Len(segs)
    OBVIOUS
  <1>1. PICK data \in [1 .. n -> Seq(Data)] :
          n = Len(segs) /\ \A i \in 1 .. n : data[i] = segs[i].data
    <2>1. ASSUME NEW i \in 1 .. n
          PROVE  segs[i].data \in Seq(Data)
      <3>1. segs[i] \in Segment
        BY <1>0
      <3>. QED
        BY <3>1 DEF Segment
    <2>2. [i \in 1 .. n |-> segs[i].data] \in [1 .. n -> Seq(Data)]
      BY <2>1
    <2>. QED
      BY <1>0, <2>2, Zenon
  <1>. DEFINE Unrolls(f) ==
                  f = [i \in 0 .. Len(segs) |->
                         IF i = 0 THEN <<>> ELSE f[i - 1] \o segs[i].data]
  <1>2. PICK f \in [0 .. n -> Seq(Data)] :
          f[0] = <<>> /\ \A i \in 1 .. n : f[i] = f[i - 1] \o data[i]
    <2>. DEFINE step == [i \in 1 .. n |-> [x \in Seq(Data) |-> x \o data[i]]]
    <2>1. step \in Steps(n, Seq(Data))
      BY DEF Steps
    <2>2. <<>> \in Seq(Data)
      OBVIOUS
    <2>. HIDE DEF step
    <2>3. PICK f : Takes(f, n, Seq(Data), <<>>, step)
      BY <2>1, <2>2, RecursiveFunction
    <2>4. ASSUME NEW i \in 1 .. n
          PROVE  f[i] = f[i - 1] \o data[i]
      <3>1. f[i] = step[i][f[i - 1]]
        BY <2>3 DEF Takes
      <3>2. f[i - 1] \in Seq(Data)
        BY <2>3 DEF Takes
      <3>. QED
        BY <3>1, <3>2 DEF step
    <2>. QED
      BY <2>3, <2>4 DEF Takes
  <1>3. Unrolls(f)
    <2>1. ASSUME NEW i \in 0 .. n
          PROVE  f[i] = IF i = 0 THEN <<>> ELSE f[i - 1] \o segs[i].data
      <3>1. CASE i = 0
        BY <1>2, <3>1
      <3>2. CASE i # 0
        <4>1. i \in 1 .. n
          BY <3>2
        <4>2. f[i] = f[i - 1] \o data[i] /\ data[i] = segs[i].data
          BY <1>1, <1>2, <4>1
        <4>. QED
          BY <3>2, <4>2, Zenon
      <3>. QED
        BY <3>1, <3>2
    <2>2. f = [i \in 0 .. n |-> f[i]]
      BY <1>2
    <2>3. f = [i \in 0 .. n |->
                 IF i = 0 THEN <<>> ELSE f[i - 1] \o segs[i].data]
      BY <2>1, <2>2, Zenon
    <2>. QED
      BY <1>1, <2>3, Zenon
  <1>4. PICK upTo : upTo = CHOOSE g : Unrolls(g)
    OBVIOUS
  <1>5. Unrolls(upTo)
    BY <1>3, <1>4, Zenon
  <1>6. Payload(segs) = upTo[n]
    BY <1>1, <1>4, Zenon DEF Payload
  <1>7. upTo = [i \in 0 .. n |-> IF i = 0 THEN <<>> ELSE upTo[i - 1] \o segs[i].data]
    BY <1>1, <1>5, Zenon
  <1>8. 0 \in 0 .. n /\ \A i \in 1 .. n : i \in 0 .. n /\ i # 0
    OBVIOUS
  <1>9. upTo[0] = <<>>
    BY <1>7, <1>8, Zenon
  <1>10. \A i \in 1 .. n : upTo[i] = upTo[i - 1] \o segs[i].data
    BY <1>7, <1>8, Zenon
  <1>. DEFINE S == {i \in 0 .. n : upTo[i] = f[i]}
  <1>11. \A i \in 0 .. n : i \in S
    <2>1. 0 \in S
      BY <1>2, <1>8, <1>9, Zenon
    <2>2. ASSUME NEW i \in 1 .. n, i - 1 \in S
          PROVE  i \in S
      <3>1. upTo[i - 1] = f[i - 1]
        BY <2>2
      <3>2. upTo[i] = f[i - 1] \o data[i] /\ f[i] = f[i - 1] \o data[i]
        BY <1>1, <1>2, <1>10, <3>1, Zenon
      <3>. QED
        BY <1>8, <3>2, Zenon
    <2>. HIDE DEF S
    <2>3. \A i \in 1 .. n : i - 1 \in S => i \in S
      BY <2>2
    <2>. QED
      BY <2>1, <2>3, Climb
  <1>12. upTo = f
    <2>1. upTo = [i \in 0 .. n |-> upTo[i]] /\ f = [i \in 0 .. n |-> f[i]]
      BY <1>2, <1>7, Zenon
    <2>2. \A i \in 0 .. n : upTo[i] = f[i]
      BY <1>11
    <2>. QED
      BY <2>1, <2>2, Zenon
  <1>. QED
    <2>1. Payload(segs) = f[n]
      BY <1>6, <1>12
    <2>2. \A i \in 1 .. n : f[i] = f[i - 1] \o segs[i].data
      BY <1>1, <1>2, Zenon
    <2>. QED
      BY <1>1, <1>2, <2>1, <2>2, Zenon

(* What ikcp_recv copies to the caller is a sequence of bytes.             *)
LEMMA PayloadType ==
    ASSUME NEW segs \in Seq(Segment)
    PROVE  Payload(segs) \in Seq(Data)
  <1>1. Len(segs) \in 0 .. Len(segs)
    OBVIOUS
  <1>. QED
    BY ZenonT(60), <1>1, PayloadUnfolds

(* Moving segments to rcv_queue concerns the receiving half only.          *)
LEMMA DrainFrame ==
    ASSUME NEW k \in ControlBlock
    PROVE  Drain(k) \in ControlBlock /\ SameSender(Drain(k), k)
  <1>1. PICK r : r = Drain(k)
    OBVIOUS
  <1>2. /\ r \in ControlBlock
        /\ r = [k EXCEPT !.rcv_nxt = r.rcv_nxt, !.rcv_buf = r.rcv_buf,
                         !.rcv_queue = r.rcv_queue]
    BY <1>1, DrainProperty
  <1>3. SameSender(r, k)
    BY <1>2 DEF SameSender, ControlBlock
  <1>. QED
    BY <1>1, <1>2, <1>3

(* Storing arrived segments leaves a well-formed control block.            *)
LEMMA InsertType ==
    ASSUME NEW k \in ControlBlock, NEW segs \in SUBSET Numbered
    PROVE  Insert(k, segs) \in ControlBlock /\ SameSender(Insert(k, segs), k)
  <1>. DEFINE buf == k.rcv_buf \cup {s \in segs : s.sn >= k.rcv_nxt
                                                  /\ s.sn \notin Sns(k.rcv_buf)}
  <1>1. [k EXCEPT !.rcv_buf = buf] \in ControlBlock
    BY DEF ControlBlock
  <1>2. PICK r : r = [k EXCEPT !.rcv_buf = buf]
    OBVIOUS
  <1>3. Insert(k, segs) = Drain(r) /\ r \in ControlBlock /\ SameSender(r, k)
    BY <1>1, <1>2 DEF Insert, SameSender, ControlBlock
  <1>4. Drain(r) \in ControlBlock /\ SameSender(Drain(r), r)
    BY <1>3, DrainFrame
  <1>. QED
    BY <1>3, <1>4 DEF SameSender

(* ikcp_recv leaves a well-formed control block.                           *)
LEMMA KcpRecvType ==
    ASSUME NEW k \in ControlBlock, k.rcv_queue # <<>>
    PROVE  KcpRecv(k) \in ControlBlock /\ SameSender(KcpRecv(k), k)
  <1>1. PICK rest : rest = SubSeq(k.rcv_queue, Len(FirstMessage(k)) + 1, Len(k.rcv_queue))
    OBVIOUS
  <1>2. rest \in Seq(Segment)
    <2>1. PICK m \in 1 .. Len(k.rcv_queue) : FirstMessage(k) = SubSeq(k.rcv_queue, 1, m)
      BY FirstMessageProperty
    <2>2. k.rcv_queue \in Seq(Segment) /\ Len(SubSeq(k.rcv_queue, 1, m)) = m
      BY <2>1 DEF ControlBlock
    <2>3. SubSeq(k.rcv_queue, m + 1, Len(k.rcv_queue)) \in Seq(Segment)
      BY <2>1, <2>2
    <2>. QED
      BY <1>1, <2>1, <2>2, <2>3
  <1>3. PICK cut : cut = [k EXCEPT !.rcv_queue = rest]
    OBVIOUS
  <1>4. cut \in ControlBlock /\ SameSender(cut, k)
    BY <1>2, <1>3 DEF ControlBlock, SameSender
  <1>5. PICK read : read = Drain(cut)
    OBVIOUS
  <1>6. read \in ControlBlock /\ SameSender(read, cut)
    BY <1>4, <1>5, DrainFrame
  <1>7. KcpRecv(k) = [read EXCEPT !.tell = @ \/ /\ Len(k.rcv_queue) >= RcvWnd
                                                /\ Len(read.rcv_queue) < RcvWnd]
    BY <1>1, <1>3, <1>5 DEF KcpRecv
  <1>8. read.tell \in BOOLEAN
    BY <1>6 DEF ControlBlock
  <1>9. (read.tell \/ (Len(k.rcv_queue) >= RcvWnd /\ Len(read.rcv_queue) < RcvWnd)) \in BOOLEAN
    BY <1>8
  <1>10. PICK told \in BOOLEAN : KcpRecv(k) = [read EXCEPT !.tell = told]
    BY <1>7, <1>9
  <1>. QED
    BY <1>4, <1>6, <1>10 DEF ControlBlock, SameSender

(* Handling acknowledgements leaves a well-formed control block.           *)
LEMMA TakeAcksType ==
    ASSUME NEW k \in ControlBlock, NEW d \in Datagram
    PROVE  /\ TakeAcks(k, d) \in ControlBlock
           /\ SameReceiver(TakeAcks(k, d), k)
           /\ TakeAcks(k, d).snd_nxt = k.snd_nxt
           /\ TakeAcks(k, d).snd_queue = k.snd_queue
           /\ TakeAcks(k, d).snd_buf \subseteq k.snd_buf
  <1>1. PICK left : left = {s \in k.snd_buf : s.sn >= d.una /\ s.sn \notin d.acks}
    OBVIOUS
  <1>2. left \in SUBSET Numbered
    BY <1>1 DEF ControlBlock
  <1>3. PICK una : una = IF left = {} THEN k.snd_nxt ELSE Least(Sns(left))
    OBVIOUS
  <1>4. una \in Nat
    <2>1. CASE left = {}
      BY <1>3, <2>1 DEF ControlBlock
    <2>2. CASE left # {}
      <3>1. Sns(left) # {} /\ Sns(left) \in SUBSET Nat
        BY <1>2, <2>2, SnsType DEF Sns
      <3>. QED
        BY <1>3, <2>2, <3>1, LeastIsLeast
    <2>. QED
      BY <2>1, <2>2
  <1>5. TakeAcks(k, d) = [k EXCEPT !.snd_buf = left, !.snd_una = una]
    BY <1>1, <1>3 DEF TakeAcks
  <1>6. left \subseteq k.snd_buf
    BY <1>1
  <1>. QED
    BY <1>2, <1>4, <1>5, <1>6 DEF ControlBlock, SameReceiver

(* Handling PUSH segments leaves a well-formed control block.              *)
LEMMA TakePushesType ==
    ASSUME NEW k \in ControlBlock, NEW push \in SUBSET Numbered
    PROVE  TakePushes(k, push) \in ControlBlock /\ SameSender(TakePushes(k, push), k)
  <1>1. PICK inWindow : /\ inWindow \in SUBSET push
                        /\ TakePushes(k, push) =
                             [Insert(k, inWindow) EXCEPT !.acklist = @ \cup Sns(inWindow)]
    BY DEF TakePushes
  <1>2. PICK r : r = Insert(k, inWindow)
    OBVIOUS
  <1>3. inWindow \in SUBSET Numbered
    BY <1>1
  <1>4. r \in ControlBlock /\ SameSender(r, k) /\ Sns(inWindow) \in SUBSET Nat
    BY <1>2, <1>3, InsertType, SnsType
  <1>. QED
    BY <1>1, <1>2, <1>4 DEF ControlBlock, SameSender

(* ikcp_input leaves a well-formed control block.                          *)
LEMMA KcpInputType ==
    ASSUME NEW k \in ControlBlock, NEW d \in Datagram, NEW grow \in BOOLEAN
    PROVE  /\ KcpInput(k, d, grow) \in ControlBlock
           /\ KcpInput(k, d, grow).snd_nxt = k.snd_nxt
           /\ KcpInput(k, d, grow).snd_queue = k.snd_queue
           /\ KcpInput(k, d, grow).snd_buf \subseteq k.snd_buf
  <1>1. PICK acked : acked = TakeAcks(k, d)
    OBVIOUS
  <1>2. /\ acked \in ControlBlock
        /\ acked.snd_nxt = k.snd_nxt
        /\ acked.snd_queue = k.snd_queue
        /\ acked.snd_buf \subseteq k.snd_buf
    BY <1>1, TakeAcksType
  <1>3. PICK heard : heard = [acked EXCEPT !.rmt_wnd = d.wnd, !.tell = @ \/ d.wask]
    OBVIOUS
  <1>4. heard \in ControlBlock /\ SameSender(heard, acked)
    <2>1. acked.tell \in BOOLEAN /\ d.wask \in BOOLEAN /\ d.wnd \in Nat
      BY <1>2 DEF ControlBlock, Datagram
    <2>2. (acked.tell \/ d.wask) \in BOOLEAN
      BY <2>1
    <2>. QED
      BY <1>2, <1>3, <2>1, <2>2 DEF ControlBlock, SameSender
  <1>5. PICK got : got = TakePushes(heard, d.push)
    OBVIOUS
  <1>6. got \in ControlBlock /\ SameSender(got, heard)
    BY <1>4, <1>5, TakePushesType DEF Datagram
  <1>7. PICK opened : opened = OpenCwnd(got, k.snd_una, grow)
    OBVIOUS
  <1>8. opened \in ControlBlock /\ SameSender(opened, got)
    <2>1. got.cwnd + 1 \in Nat
      BY SMTT(30), <1>6 DEF ControlBlock
    <2>2. PICK more : more = [got EXCEPT !.cwnd = @ + 1]
      OBVIOUS
    <2>3. more \in ControlBlock /\ SameSender(more, got)
      BY <1>6, <2>1, <2>2 DEF ControlBlock, SameSender
    <2>4. opened = more \/ opened = got
      BY <1>7, <2>2 DEF OpenCwnd
    <2>. QED
      BY <1>6, <2>3, <2>4 DEF SameSender
  <1>9. KcpInput(k, d, grow) = IF d.conv # k.conv THEN k ELSE opened
    BY <1>1, <1>3, <1>5, <1>7 DEF KcpInput
  <1>. QED
    BY <1>2, <1>4, <1>6, <1>8, <1>9 DEF SameSender

(* A flush moves no more segments than wait.                               *)
LEMMA MoveCountType ==
    ASSUME NEW k \in ControlBlock
    PROVE  /\ CwndNow(k) \in Nat
           /\ MoveCount(k) \in 0 .. Len(k.snd_queue)
  <1>1. CwndNow(k) \in Nat
    BY KcpAssumption DEF CwndNow, Lesser, ControlBlock
  <1>2. Len(k.snd_queue) \in Nat /\ k.snd_una \in Nat /\ k.snd_nxt \in Nat
    BY DEF ControlBlock
  <1>3. Greater(0, k.snd_una + CwndNow(k) - k.snd_nxt) \in Nat
    BY <1>1, <1>2 DEF Greater
  <1>. QED
    BY <1>1, <1>2, <1>3 DEF MoveCount, Lesser

(* The segments a flush moves are numbered segments.                       *)
LEMMA MovedType ==
    ASSUME NEW k \in ControlBlock
    PROVE  Moved(k) \in SUBSET Numbered
  <1>1. k.snd_nxt \in Nat /\ k.snd_queue \in Seq(Segment)
    BY DEF ControlBlock
  <1>2. ASSUME NEW i \in 1 .. MoveCount(k)
        PROVE  [sn |-> k.snd_nxt + i - 1, seg |-> k.snd_queue[i]] \in Numbered
    <2>1. i \in 1 .. Len(k.snd_queue)
      BY <1>1, MoveCountType
    <2>2. k.snd_queue[i] \in Segment /\ k.snd_nxt + i - 1 \in Nat
      BY <1>1, <2>1
    <2>. QED
      BY <2>2 DEF Numbered
  <1>. QED
    BY <1>2 DEF Moved

(* ikcp_flush leaves a well-formed control block.                          *)
LEMMA KcpFlushType ==
    ASSUME NEW k \in ControlBlock, NEW due
    PROVE  /\ KcpFlush(k, due) \in ControlBlock
           /\ SameReceiver(KcpFlush(k, due), k)
           /\ KcpFlush(k, due).snd_nxt = k.snd_nxt + MoveCount(k)
           /\ KcpFlush(k, due).snd_queue =
                 SubSeq(k.snd_queue, MoveCount(k) + 1, Len(k.snd_queue))
           /\ KcpFlush(k, due).snd_buf = k.snd_buf \cup Moved(k)
  <1>1. PICK lost : lost = (Resent(k, due) # {})
    OBVIOUS
  <1>2. PICK m \in 0 .. Len(k.snd_queue) : m = MoveCount(k)
    BY MoveCountType
  <1>3. PICK queue : queue = SubSeq(k.snd_queue, m + 1, Len(k.snd_queue))
    OBVIOUS
  <1>4. queue \in Seq(Segment)
    <2>1. k.snd_queue \in Seq(Segment)
      BY DEF ControlBlock
    <2>2. SubSeq(k.snd_queue, m + 1, Len(k.snd_queue)) \in Seq(Segment)
      BY <2>1
    <2>. QED
      BY <1>3, <2>2
  <1>5. PICK buf : buf = k.snd_buf \cup Moved(k)
    OBVIOUS
  <1>6. buf \in SUBSET Numbered
    BY <1>5, MovedType DEF ControlBlock
  <1>7. PICK thresh : thresh = IF lost THEN Greater(ThreshMin, CwndNow(k) \div 2)
                               ELSE k.ssthresh
    OBVIOUS
  <1>8. thresh \in Nat
    <2>1. CwndNow(k) \div 2 \in Nat
      BY MoveCountType
    <2>2. Greater(ThreshMin, CwndNow(k) \div 2) \in Nat
      BY <2>1 DEF Greater, ThreshMin
    <2>. QED
      BY <1>7, <2>2 DEF ControlBlock
  <1>9. PICK cwnd : cwnd = IF lost \/ k.cwnd < 1 THEN 1 ELSE k.cwnd
    OBVIOUS
  <1>10. PICK nxt : nxt = k.snd_nxt + m
    OBVIOUS
  <1>11. PICK armed : armed = (k.rmt_wnd = 0)
    OBVIOUS
  <1>12. cwnd \in Nat /\ nxt \in Nat /\ armed \in BOOLEAN
    BY <1>2, <1>9, <1>10, <1>11 DEF ControlBlock
  <1>13. PICK told : told = [k EXCEPT !.acklist = {}, !.tell = FALSE,
                                     !.probe_wait = armed, !.snd_queue = queue]
    OBVIOUS
  <1>14. told \in ControlBlock /\ SameReceiver(told, k) /\ told.snd_queue = queue
    BY <1>4, <1>12, <1>13 DEF ControlBlock, SameReceiver
  <1>15. PICK r : r = [told EXCEPT !.snd_buf = buf, !.snd_nxt = nxt,
                                   !.ssthresh = thresh, !.cwnd = cwnd]
    OBVIOUS
  <1>16. KcpFlush(k, due) =
           [k EXCEPT !.acklist = {}, !.tell = FALSE, !.probe_wait = armed,
                     !.snd_queue = queue, !.snd_buf = buf, !.snd_nxt = nxt,
                     !.ssthresh = thresh, !.cwnd = cwnd]
    BY <1>1, <1>2, <1>3, <1>5, <1>7, <1>9, <1>10, <1>11 DEF KcpFlush
  <1>17. KcpFlush(k, due) = r
    BY <1>13, <1>15, <1>16 DEF ControlBlock
  <1>18. /\ r \in ControlBlock
         /\ SameReceiver(r, told)
         /\ r.snd_queue = told.snd_queue
         /\ r.snd_nxt = nxt
         /\ r.snd_buf = buf
    BY <1>6, <1>8, <1>12, <1>14, <1>15 DEF ControlBlock, SameReceiver
  <1>. QED
    BY <1>2, <1>3, <1>5, <1>10, <1>14, <1>17, <1>18 DEF SameReceiver

(* A probe timer has expired or not.                                       *)
LEMMA ProbeTimerType ==
    ASSUME NEW k
    PROVE  ProbeTimer(k) \subseteq BOOLEAN
  BY DEF ProbeTimer

(* A datagram that carries wnd and una of the control block, some of its   *)
(* acknowledgements and some of the segments that are sent.                *)
FrameOf(k, due, probeDue, d) ==
    \E acks \in SUBSET k.acklist, wask \in {AskSend(k, probeDue), FALSE},
       wins \in {k.tell, FALSE}, push \in SUBSET (Moved(k) \cup Resent(k, due)) :
          d = Frame(k, acks, wask, wins, push)

(* Such is what a flush emits, wherever its output is cut.                 *)
LEMMA OutputFrames ==
    ASSUME NEW k, NEW due, NEW probeDue, NEW cuts,
           NEW d \in KcpOutput(k, due, probeDue, cuts)
    PROVE  FrameOf(k, due, probeDue, d)
  <1>1. PICK out, ask : out = Moved(k) \cup Resent(k, due) /\ ask = AskSend(k, probeDue)
    OBVIOUS
  <1>2. PICK first : first = {s \in out : \A c \in cuts.sns : s.sn < c}
    OBVIOUS
  <1>3. \/ d \in Commands(k, ask, cuts, first)
        \/ \E c \in cuts.sns : d = Frame(k, {}, FALSE, FALSE,
              {s \in out : s.sn >= c /\ \A e \in cuts.sns : e > c => s.sn < e})
    BY <1>1, <1>2 DEF KcpOutput
  <1>4. CASE \E c \in cuts.sns : d = Frame(k, {}, FALSE, FALSE,
              {s \in out : s.sn >= c /\ \A e \in cuts.sns : e > c => s.sn < e})
    <2>1. PICK push \in SUBSET out : d = Frame(k, {}, FALSE, FALSE, push)
      BY <1>4
    <2>2. {} \in SUBSET k.acklist
      OBVIOUS
    <2>. QED
      BY <1>1, <2>1, <2>2 DEF FrameOf
  <1>5. CASE d \in Commands(k, ask, cuts, first)
    <2>1. PICK acked : acked = [i \in 0 .. MaxFull |-> {n \in k.acklist : i \in cuts.acks[n]}]
      OBVIOUS
    <2>2. \A i \in 0 .. MaxFull : {n \in k.acklist : i \in cuts.acks[n]} \in SUBSET k.acklist
      OBVIOUS
    <2>3. {n \in k.acklist : 0 \in cuts.acks[n]} \in SUBSET k.acklist
      OBVIOUS
    <2>4. {} \in SUBSET k.acklist /\ {} \in SUBSET out /\ first \in SUBSET out
      BY <1>2
    <2>5. \/ \E i \in 1 .. MaxFull :
                d = Frame(k, {n \in k.acklist : i \in cuts.acks[n]}, FALSE, FALSE, {})
          \/ d = Frame(k, {n \in k.acklist : 0 \in cuts.acks[n]}, ask, FALSE, {})
          \/ d = Frame(k, {}, FALSE, k.tell, first)
          \/ d = Frame(k, {n \in k.acklist : 0 \in cuts.acks[n]}, ask, k.tell, first)
      BY <1>5 DEF Commands
    <2>6. PICK acks \in SUBSET k.acklist, wask \in {ask, FALSE}, wins \in {k.tell, FALSE},
               push \in SUBSET out : d = Frame(k, acks, wask, wins, push)
      BY <2>3, <2>4, <2>5
    <2>. QED
      BY <1>1, <2>6, Zenon DEF FrameOf
  <1>. QED
    BY <1>3, <1>4, <1>5

(* ikcp_flush emits well-formed datagrams.                                 *)
LEMMA KcpOutputType ==
    ASSUME NEW k \in ControlBlock, NEW due, NEW probeDue \in BOOLEAN, NEW cuts
    PROVE  KcpOutput(k, due, probeDue, cuts) \in SUBSET Datagram
  <1>1. ASSUME NEW d \in KcpOutput(k, due, probeDue, cuts)
        PROVE  d \in Datagram
    <2>1. FrameOf(k, due, probeDue, d)
      BY OutputFrames, Zenon
    <2>2. PICK acks \in SUBSET k.acklist, wask \in {AskSend(k, probeDue), FALSE},
               wins \in {k.tell, FALSE},
               push \in SUBSET (Moved(k) \cup Resent(k, due)) :
                  d = Frame(k, acks, wask, wins, push)
      BY <2>1, Zenon DEF FrameOf
    <2>3. AskSend(k, probeDue) \in BOOLEAN
      BY DEF AskSend, ControlBlock
    <2>4. wask \in BOOLEAN /\ wins \in BOOLEAN
      BY <2>3 DEF ControlBlock
    <2>5. push \in SUBSET Numbered
      BY MovedType DEF Resent, ControlBlock
    <2>6. acks \in SUBSET Nat /\ k.conv \in Nat /\ k.rcv_nxt \in Nat
      BY DEF ControlBlock
    <2>. QED
      BY <2>2, <2>4, <2>5, <2>6, WndUnusedNat DEF Frame, Datagram
  <1>. QED
    BY <1>1

----------------------------------------------------------------------------
(* The id of a conversation is set by ikcp_create and by nothing else, and *)
(* every datagram carries that of the control block it comes from.         *)

(* Moving segments to rcv_queue leaves the id alone.                       *)
LEMMA DrainConv ==
    ASSUME NEW k \in ControlBlock
    PROVE  Drain(k).conv = k.conv
  <1>1. PICK r : r = Drain(k)
    OBVIOUS
  <1>2. r = [k EXCEPT !.rcv_nxt = r.rcv_nxt, !.rcv_buf = r.rcv_buf,
                      !.rcv_queue = r.rcv_queue]
    BY <1>1, DrainProperty
  <1>. QED
    BY <1>1, <1>2 DEF ControlBlock

(* So do ikcp_send, ikcp_recv and ikcp_flush.                              *)
LEMMA CallsKeepConv ==
    ASSUME NEW k \in ControlBlock
    PROVE  /\ \A msg : KcpSend(k, msg).conv = k.conv
           /\ k.rcv_queue # <<>> => KcpRecv(k).conv = k.conv
           /\ \A due : KcpFlush(k, due).conv = k.conv
  <1>1. ASSUME NEW msg
        PROVE  KcpSend(k, msg).conv = k.conv
    BY DEF KcpSend, ControlBlock
  <1>2. ASSUME k.rcv_queue # <<>>
        PROVE  KcpRecv(k).conv = k.conv
    <2>1. PICK rest : rest = SubSeq(k.rcv_queue, Len(FirstMessage(k)) + 1, Len(k.rcv_queue))
      OBVIOUS
    <2>2. rest \in Seq(Segment)
      <3>1. PICK m \in 1 .. Len(k.rcv_queue) : FirstMessage(k) = SubSeq(k.rcv_queue, 1, m)
        BY <1>2, FirstMessageProperty
      <3>2. k.rcv_queue \in Seq(Segment) /\ Len(SubSeq(k.rcv_queue, 1, m)) = m
        BY <3>1 DEF ControlBlock
      <3>3. SubSeq(k.rcv_queue, m + 1, Len(k.rcv_queue)) \in Seq(Segment)
        BY <3>1, <3>2
      <3>. QED
        BY <2>1, <3>1, <3>2, <3>3
    <2>3. PICK cut : cut = [k EXCEPT !.rcv_queue = rest]
      OBVIOUS
    <2>4. cut \in ControlBlock /\ cut.conv = k.conv
      BY <2>2, <2>3 DEF ControlBlock
    <2>5. PICK read : read = Drain(cut)
      OBVIOUS
    <2>6. read \in ControlBlock /\ read.conv = k.conv
      BY <2>4, <2>5, DrainConv, DrainFrame
    <2>7. KcpRecv(k) = [read EXCEPT !.tell = @ \/ /\ Len(k.rcv_queue) >= RcvWnd
                                                  /\ Len(read.rcv_queue) < RcvWnd]
      BY <2>1, <2>3, <2>5 DEF KcpRecv
    <2>. QED
      BY <2>6, <2>7 DEF ControlBlock
  <1>3. ASSUME NEW due
        PROVE  KcpFlush(k, due).conv = k.conv
    BY DEF KcpFlush, ControlBlock
  <1>. QED
    BY <1>1, <1>2, <1>3

(* And ikcp_input.                                                         *)
LEMMA InputKeepsConv ==
    ASSUME NEW k \in ControlBlock, NEW d \in Datagram, NEW grow \in BOOLEAN
    PROVE  KcpInput(k, d, grow).conv = k.conv
  <1>1. PICK acked : acked = TakeAcks(k, d)
    OBVIOUS
  <1>2. acked \in ControlBlock /\ acked.conv = k.conv
    <2>1. PICK left, una : TakeAcks(k, d) = [k EXCEPT !.snd_buf = left, !.snd_una = una]
      BY Zenon DEF TakeAcks
    <2>. QED
      BY <1>1, <2>1, TakeAcksType DEF ControlBlock
  <1>3. PICK heard : heard = [acked EXCEPT !.rmt_wnd = d.wnd, !.tell = @ \/ d.wask]
    OBVIOUS
  <1>4. heard \in ControlBlock /\ heard.conv = k.conv
    <2>1. acked.tell \in BOOLEAN /\ d.wask \in BOOLEAN /\ d.wnd \in Nat
      BY <1>2 DEF ControlBlock, Datagram
    <2>2. (acked.tell \/ d.wask) \in BOOLEAN
      BY <2>1
    <2>. QED
      BY <1>2, <1>3, <2>1, <2>2 DEF ControlBlock
  <1>5. PICK inWindow : /\ inWindow \in SUBSET d.push
                        /\ TakePushes(heard, d.push) =
                             [Insert(heard, inWindow) EXCEPT !.acklist = @ \cup Sns(inWindow)]
    BY DEF TakePushes
  <1>6. PICK stored : stored = [heard EXCEPT !.rcv_buf =
             @ \cup {s \in inWindow : s.sn >= heard.rcv_nxt /\ s.sn \notin Sns(@)}]
    OBVIOUS
  <1>7. inWindow \in SUBSET Numbered
    BY <1>5 DEF Datagram
  <1>8. stored \in ControlBlock /\ stored.conv = k.conv
    BY <1>4, <1>6, <1>7 DEF ControlBlock
  <1>9. PICK got : got = Drain(stored)
    OBVIOUS
  <1>10. got \in ControlBlock /\ got.conv = k.conv
    BY <1>8, <1>9, DrainConv, DrainFrame
  <1>11. PICK pushed : pushed = [got EXCEPT !.acklist = @ \cup Sns(inWindow)]
    OBVIOUS
  <1>12. pushed \in ControlBlock /\ pushed.conv = k.conv
    BY <1>7, <1>10, <1>11, SnsType DEF ControlBlock
  <1>13. pushed = TakePushes(heard, d.push)
    BY <1>5, <1>6, <1>9, <1>11 DEF Insert
  <1>14. OpenCwnd(pushed, k.snd_una, grow).conv = k.conv
    BY <1>12 DEF OpenCwnd, ControlBlock
  <1>15. KcpInput(k, d, grow) = IF d.conv # k.conv THEN k
                                ELSE OpenCwnd(pushed, k.snd_una, grow)
    BY <1>1, <1>3, <1>13 DEF KcpInput
  <1>. QED
    BY <1>14, <1>15

(* What ikcp_flush emits carries the id.                                   *)
LEMMA OutputConv ==
    ASSUME NEW k \in ControlBlock, NEW due, NEW probeDue, NEW cuts,
           NEW d \in KcpOutput(k, due, probeDue, cuts)
    PROVE  d.conv = k.conv
  <1>1. FrameOf(k, due, probeDue, d)
    BY OutputFrames, Zenon
  <1>2. PICK acks, wask, wins, push : d = Frame(k, acks, wask, wins, push)
    BY <1>1, Zenon DEF FrameOf
  <1>. QED
    BY <1>2 DEF Frame

----------------------------------------------------------------------------
(* What a message's fragments carry.                                       *)

(* The two parts a sequence is cut into make it up.                        *)
LEMMA CutInTwo ==
    ASSUME NEW T, NEW seq \in Seq(T), NEW upTo \in 0 .. Len(seq),
           NEW cut \in 0 .. upTo
    PROVE  SubSeq(seq, 1, cut) \o SubSeq(seq, cut + 1, upTo) = SubSeq(seq, 1, upTo)
  <1>1. PICK a \in Seq(T), b \in Seq(T), c \in Seq(T) :
          /\ a = SubSeq(seq, 1, cut)
          /\ b = SubSeq(seq, cut + 1, upTo)
          /\ c = SubSeq(seq, 1, upTo)
    <2>1. SubSeq(seq, 1, cut) \in Seq(T)
      OBVIOUS
    <2>2. SubSeq(seq, cut + 1, upTo) \in Seq(T)
      OBVIOUS
    <2>3. SubSeq(seq, 1, upTo) \in Seq(T)
      OBVIOUS
    <2>. QED
      BY <2>1, <2>2, <2>3, Zenon
  <1>2. Len(a) = cut /\ \A i \in 1 .. cut : a[i] = seq[i]
    BY <1>1
  <1>3. Len(b) = upTo - cut /\ \A i \in 1 .. upTo - cut : b[i] = seq[cut + i]
    BY <1>1
  <1>4. Len(c) = upTo /\ \A i \in 1 .. upTo : c[i] = seq[i]
    BY <1>1
  <1>5. PICK d \in Seq(T) : d = a \o b
    <2>1. a \o b \in Seq(T)
      OBVIOUS
    <2>. QED
      BY <2>1, Zenon
  <1>6. /\ Len(d) = Len(a) + Len(b)
        /\ \A i \in 1 .. Len(a) : d[i] = a[i]
        /\ \A i \in 1 .. Len(b) : d[Len(a) + i] = b[i]
    <2>1. Len(a \o b) = Len(a) + Len(b)
      OBVIOUS
    <2>2. \A i \in 1 .. Len(a) : (a \o b)[i] = a[i]
      OBVIOUS
    <2>3. \A i \in 1 .. Len(b) : (a \o b)[Len(a) + i] = b[i]
      OBVIOUS
    <2>. QED
      BY <1>5, <2>1, <2>2, <2>3
  <1>7. ASSUME NEW i \in 1 .. upTo
        PROVE  d[i] = c[i]
    <2>1. CASE i <= cut
      BY SMTT(30), <1>2, <1>4, <1>6, <2>1
    <2>2. CASE i > cut
      <3>1. PICK j \in 1 .. upTo - cut : i = cut + j
        <4>1. i - cut \in 1 .. upTo - cut /\ i = cut + (i - cut)
          BY <2>2
        <4>. QED
          BY <4>1
      <3>2. d[cut + j] = b[j]
        BY <1>2, <1>3, <1>6
      <3>. QED
        BY <1>3, <1>4, <3>1, <3>2
    <2>. QED
      BY <2>1, <2>2
  <1>8. Len(d) = Len(c)
    BY <1>2, <1>3, <1>4, <1>6
  <1>9. d = c
    BY <1>4, <1>7, <1>8, SeqEqual
  <1>. QED
    BY <1>1, <1>5, <1>9

(* A message's fragments carry its bytes, none twice.                      *)
LEMMA FragmentsPayload ==
    ASSUME NEW msg \in Seq(Data)
    PROVE  Payload(Fragments(msg)) = msg
  <1>1. PICK n \in Nat \ {0}, l \in Nat : n = FragCount(msg) /\ l = Len(msg)
    BY FragCountType
  <1>2. PICK parts \in Seq(Segment) : parts = Fragments(msg)
    BY FragmentsType
  <1>3. Len(parts) = n
    BY <1>1, <1>2, FragmentsType
  <1>4. \A i \in 1 .. n :
           parts[i].data = SubSeq(msg, (i - 1) * Mss + 1, Lesser(i * Mss, l))
    BY <1>1, <1>2 DEF Fragments
  <1>5. PICK h \in [0 .. n -> Seq(Data)] :
          /\ h[0] = <<>>
          /\ \A i \in 1 .. n : h[i] = h[i - 1] \o parts[i].data
          /\ Payload(parts) = h[n]
    BY <1>3, PayloadUnfolds
  <1>. DEFINE S == {i \in 0 .. n : h[i] = SubSeq(msg, 1, Lesser(i * Mss, l))}
  <1>6. 0 \in S
    <2>1. Lesser(0 * Mss, l) = 0
      BY KcpAssumption DEF Lesser
    <2>2. SubSeq(msg, 1, 0) = <<>>
      OBVIOUS
    <2>. QED
      BY <1>5, <2>1, <2>2
  <1>7. ASSUME NEW i \in 1 .. n, i - 1 \in S
        PROVE  i \in S
    <2>1. PICK from \in Nat, to \in Nat :
            from = (i - 1) * Mss /\ to = i * Mss /\ from <= to
      BY KcpAssumption
    <2>2. h[i - 1] = SubSeq(msg, 1, Lesser(from, l))
      BY <1>7, <2>1
    <2>3. h[i] = h[i - 1] \o SubSeq(msg, from + 1, Lesser(to, l))
      BY <1>4, <1>5, <2>1
    <2>4. h[i] = SubSeq(msg, 1, Lesser(to, l))
      <3>1. CASE from <= l
        <4>1. PICK upTo \in 0 .. l : upTo = Lesser(to, l) /\ from <= upTo
          BY <2>1, <3>1 DEF Lesser
        <4>2. Lesser(from, l) = from
          BY <3>1 DEF Lesser
        <4>3. SubSeq(msg, 1, from) \o SubSeq(msg, from + 1, upTo)
                = SubSeq(msg, 1, upTo)
          BY SMTT(30), <1>1, <3>1, <4>1, CutInTwo
        <4>. QED
          BY <2>2, <2>3, <4>1, <4>2, <4>3
      <3>2. CASE from > l
        <4>1. Lesser(from, l) = l /\ Lesser(to, l) = l
          BY <2>1, <3>2 DEF Lesser
        <4>2. SubSeq(msg, from + 1, l) = <<>>
          BY <1>1, <3>2
        <4>3. SubSeq(msg, 1, l) \o <<>> = SubSeq(msg, 1, l)
          BY <1>1
        <4>. QED
          BY <2>2, <2>3, <4>1, <4>2, <4>3
      <3>. QED
        BY <3>1, <3>2
    <2>. QED
      BY <2>1, <2>4
  <1>8. h[n] = SubSeq(msg, 1, Lesser(n * Mss, l))
    <2>. HIDE DEF S
    <2>1. \A i \in 1 .. n : i - 1 \in S => i \in S
      BY <1>7
    <2>2. \A i \in 0 .. n : i \in S
      BY <1>6, <2>1, Climb
    <2>. QED
      BY <2>2 DEF S
  <1>9. Lesser(n * Mss, l) = l
    <2>1. n * Mss >= l
      BY <1>1, KcpAssumption DEF FragCount
    <2>. QED
      BY <1>1, <2>1, KcpAssumption DEF Lesser
  <1>10. SubSeq(msg, 1, l) = msg
    BY <1>1
  <1>. QED
    BY <1>2, <1>5, <1>8, <1>9, <1>10

----------------------------------------------------------------------------
(* The steps of a session.                                                 *)

----------------------------------------------------------------------------
(* In-order delivery.  A stream is what one end has queued so far; a       *)
(* segment's place in it is its sequence number.                           *)

(* Numbered segments are those of the stream, below limit.                 *)
Agrees(segs, stream, limit) ==
    \A s \in segs : s.sn < limit /\ s.seg = stream[s.sn + 1]

(* A sender has numbered the stream up to snd_nxt and queues the rest.     *)
Sends(k, stream) ==
    /\ Len(stream) = k.snd_nxt + Len(k.snd_queue)
    /\ \A i \in 1 .. Len(k.snd_queue) : k.snd_queue[i] = stream[k.snd_nxt + i]
    /\ Agrees(k.snd_buf, stream, k.snd_nxt)

(* A receiver whose application has read `got` holds what comes next.      *)
Holds(k, got, stream, limit) ==
    /\ Len(got) + Len(k.rcv_queue) = k.rcv_nxt
    /\ k.rcv_nxt <= limit
    /\ \A i \in 1 .. Len(got) : got[i] = stream[i]
    /\ \A i \in 1 .. Len(k.rcv_queue) : k.rcv_queue[i] = stream[Len(got) + i]
    /\ Agrees(k.rcv_buf, stream, limit)

(* A longer stream still agrees with what agreed with it.                  *)
LEMMA AgreesGrows ==
    ASSUME NEW segs \in SUBSET Numbered, NEW stream \in Seq(Segment),
           NEW longer \in Seq(Segment), NEW limit \in Nat, NEW higher \in Nat,
           limit <= higher, limit <= Len(stream),
           \A i \in 1 .. Len(stream) : longer[i] = stream[i],
           Agrees(segs, stream, limit)
    PROVE  Agrees(segs, longer, higher)
  <1>1. ASSUME NEW s \in segs
        PROVE  s.sn < higher /\ s.seg = longer[s.sn + 1]
    <2>1. s.sn \in Nat /\ s.sn < limit /\ s.seg = stream[s.sn + 1]
      BY DEF Agrees, Numbered
    <2>2. s.sn + 1 \in 1 .. Len(stream)
      BY <2>1
    <2>. QED
      BY <2>1, <2>2
  <1>. QED
    BY <1>1 DEF Agrees

(* Moving segments from rcv_buf to rcv_queue keeps a receiver's hold.      *)
LEMMA DrainHolds ==
    ASSUME NEW k \in ControlBlock, NEW got \in Seq(Segment),
           NEW stream \in Seq(Segment), NEW limit \in Nat,
           Holds(k, got, stream, limit)
    PROVE  Holds(Drain(k), got, stream, limit)
  <1>1. PICK n : n = InOrderRun(k)
    OBVIOUS
  <1>2. n \in Nat
    BY <1>1, InOrderRunProperty, WndUnusedNat
  <1>3. PICK r : r = Drain(k)
    OBVIOUS
  <1>4. /\ r \in ControlBlock
        /\ r.rcv_nxt = k.rcv_nxt + n
        /\ r.rcv_buf \subseteq k.rcv_buf
        /\ Len(r.rcv_queue) = Len(k.rcv_queue) + n
        /\ \A i \in 1 .. Len(k.rcv_queue) : r.rcv_queue[i] = k.rcv_queue[i]
        /\ \A i \in 1 .. n : \E s \in k.rcv_buf :
              /\ s.sn = k.rcv_nxt + i - 1
              /\ r.rcv_queue[Len(k.rcv_queue) + i] = s.seg
    BY <1>1, <1>3, DrainProperty
  <1>5. /\ Len(got) \in Nat /\ Len(k.rcv_queue) \in Nat /\ k.rcv_nxt \in Nat
        /\ k.rcv_buf \in SUBSET Numbered
    BY DEF ControlBlock
  <1>6. /\ Len(got) + Len(k.rcv_queue) = k.rcv_nxt
        /\ k.rcv_nxt <= limit
        /\ \A i \in 1 .. Len(got) : got[i] = stream[i]
        /\ \A i \in 1 .. Len(k.rcv_queue) : k.rcv_queue[i] = stream[Len(got) + i]
        /\ \A s \in k.rcv_buf : s.sn < limit /\ s.seg = stream[s.sn + 1]
    BY DEF Holds, Agrees
  <1>7. ASSUME NEW i \in 1 .. n
        PROVE  /\ r.rcv_queue[Len(k.rcv_queue) + i] = stream[Len(got) + (Len(k.rcv_queue) + i)]
               /\ k.rcv_nxt + i <= limit
    <2>1. PICK s \in k.rcv_buf : /\ s.sn = k.rcv_nxt + i - 1
                                 /\ r.rcv_queue[Len(k.rcv_queue) + i] = s.seg
      BY <1>4
    <2>2. s.sn < limit /\ s.seg = stream[s.sn + 1]
      BY <1>6
    <2>3. s.sn + 1 = Len(got) + (Len(k.rcv_queue) + i)
      BY <1>2, <1>5, <1>6, <2>1
    <2>. QED
      BY <1>2, <1>5, <2>1, <2>2, <2>3
  <1>8. r.rcv_nxt <= limit
    <2>1. CASE n = 0
      BY <1>4, <1>5, <1>6, <2>1
    <2>2. CASE n # 0
      <3>1. n \in 1 .. n
        BY <1>2, <2>2
      <3>. QED
        BY <1>4, <1>7, <3>1
    <2>. QED
      BY <2>1, <2>2
  <1>9. ASSUME NEW i \in 1 .. Len(r.rcv_queue)
        PROVE  r.rcv_queue[i] = stream[Len(got) + i]
    <2>1. CASE i <= Len(k.rcv_queue)
      BY <1>4, <1>5, <1>6, <2>1
    <2>2. CASE i > Len(k.rcv_queue)
      <3>1. PICK j \in 1 .. n : i = Len(k.rcv_queue) + j
        <4>1. i - Len(k.rcv_queue) \in 1 .. n /\ i = Len(k.rcv_queue) + (i - Len(k.rcv_queue))
          BY <1>2, <1>4, <1>5, <2>2
        <4>. QED
          BY <4>1
      <3>. QED
        BY <1>7, <3>1
    <2>. QED
      BY <1>4, <1>5, <2>1, <2>2
  <1>10. Len(got) + Len(r.rcv_queue) = r.rcv_nxt
    BY <1>2, <1>4, <1>5, <1>6
  <1>11. Agrees(r.rcv_buf, stream, limit)
    BY <1>4, <1>6 DEF Agrees
  <1>. QED
    BY <1>3, <1>6, <1>8, <1>9, <1>10, <1>11 DEF Holds

(* Storing arrived segments of the stream keeps a receiver's hold.         *)
LEMMA InsertHolds ==
    ASSUME NEW k \in ControlBlock, NEW got \in Seq(Segment),
           NEW stream \in Seq(Segment), NEW limit \in Nat,
           NEW segs \in SUBSET Numbered,
           Holds(k, got, stream, limit), Agrees(segs, stream, limit)
    PROVE  Holds(Insert(k, segs), got, stream, limit)
  <1>1. PICK buf : buf = k.rcv_buf \cup {s \in segs : s.sn >= k.rcv_nxt
                                                  /\ s.sn \notin Sns(k.rcv_buf)}
    OBVIOUS
  <1>2. buf \in SUBSET Numbered
    BY <1>1 DEF ControlBlock
  <1>3. Agrees(buf, stream, limit)
    BY <1>1 DEF Holds, Agrees
  <1>4. PICK r : r = [k EXCEPT !.rcv_buf = buf]
    OBVIOUS
  <1>5. /\ r \in ControlBlock
        /\ r.rcv_buf = buf
        /\ r.rcv_nxt = k.rcv_nxt
        /\ r.rcv_queue = k.rcv_queue
    BY <1>2, <1>4 DEF ControlBlock
  <1>6. Holds(r, got, stream, limit)
    BY <1>3, <1>5 DEF Holds
  <1>7. Insert(k, segs) = Drain(r)
    BY <1>1, <1>4 DEF Insert
  <1>. QED
    BY <1>5, <1>6, <1>7, DrainHolds

(* ikcp_input of a datagram that carries the stream keeps a receiver's     *)
(* hold: duplicates and segments out of the window change nothing.         *)
LEMMA KcpInputHolds ==
    ASSUME NEW k \in ControlBlock, NEW got \in Seq(Segment),
           NEW stream \in Seq(Segment), NEW limit \in Nat,
           NEW d \in Datagram, NEW grow \in BOOLEAN,
           Holds(k, got, stream, limit), Agrees(d.push, stream, limit)
    PROVE  Holds(KcpInput(k, d, grow), got, stream, limit)
  <1>1. PICK acked : acked = TakeAcks(k, d)
    OBVIOUS
  <1>2. acked \in ControlBlock /\ SameReceiver(acked, k)
    BY <1>1, TakeAcksType
  <1>3. PICK heard : heard = [acked EXCEPT !.rmt_wnd = d.wnd, !.tell = @ \/ d.wask]
    OBVIOUS
  <1>4. heard \in ControlBlock /\ SameReceiver(heard, acked)
    <2>1. acked.tell \in BOOLEAN /\ d.wask \in BOOLEAN /\ d.wnd \in Nat
      BY <1>2 DEF ControlBlock, Datagram
    <2>2. (acked.tell \/ d.wask) \in BOOLEAN
      BY <2>1
    <2>. QED
      BY <1>2, <1>3, <2>1, <2>2 DEF ControlBlock, SameReceiver
  <1>5. Holds(heard, got, stream, limit)
    BY <1>2, <1>4 DEF SameReceiver, Holds
  <1>6. PICK inWindow \in SUBSET d.push :
          TakePushes(heard, d.push) =
            [Insert(heard, inWindow) EXCEPT !.acklist = @ \cup Sns(inWindow)]
    BY DEF TakePushes
  <1>7. inWindow \in SUBSET Numbered /\ Agrees(inWindow, stream, limit)
    BY DEF Agrees, Datagram
  <1>8. PICK r : r = Insert(heard, inWindow)
    OBVIOUS
  <1>9. Holds(r, got, stream, limit) /\ r \in ControlBlock
    BY <1>4, <1>5, <1>7, <1>8, InsertHolds, InsertType
  <1>10. PICK stored : stored = TakePushes(heard, d.push)
    OBVIOUS
  <1>11. stored \in ControlBlock /\ SameReceiver(stored, r)
    <2>1. stored = [r EXCEPT !.acklist = @ \cup Sns(inWindow)]
      BY <1>6, <1>8, <1>10
    <2>2. Sns(inWindow) \in SUBSET Nat
      BY <1>7, SnsType
    <2>. QED
      BY <1>9, <2>1, <2>2 DEF ControlBlock, SameReceiver
  <1>12. PICK opened : opened = OpenCwnd(stored, k.snd_una, grow)
    OBVIOUS
  <1>13. SameReceiver(opened, stored)
    BY <1>11, <1>12 DEF OpenCwnd, SameReceiver, ControlBlock
  <1>14. Holds(opened, got, stream, limit)
    BY <1>9, <1>11, <1>13 DEF SameReceiver, Holds
  <1>15. KcpInput(k, d, grow) = IF d.conv # k.conv THEN k ELSE opened
    BY <1>1, <1>3, <1>10, <1>12 DEF KcpInput
  <1>. QED
    BY <1>14, <1>15

(* ikcp_recv moves the hold on by exactly the segments it removes.         *)
LEMMA KcpRecvHolds ==
    ASSUME NEW k \in ControlBlock, k.rcv_queue # <<>>, NEW got \in Seq(Segment),
           NEW stream \in Seq(Segment), NEW limit \in Nat,
           Holds(k, got, stream, limit)
    PROVE  Holds(KcpRecv(k), got \o FirstMessage(k), stream, limit)
  <1>1. PICK m \in 1 .. Len(k.rcv_queue) : FirstMessage(k) = SubSeq(k.rcv_queue, 1, m)
    BY FirstMessageProperty
  <1>2. PICK first : first = FirstMessage(k)
    OBVIOUS
  <1>3. k.rcv_queue \in Seq(Segment) /\ Len(k.rcv_queue) \in Nat
    BY DEF ControlBlock
  <1>4. /\ first \in Seq(Segment)
        /\ Len(first) = m
        /\ \A i \in 1 .. m : first[i] = k.rcv_queue[i]
    BY <1>1, <1>2, <1>3
  <1>5. PICK rest : rest = SubSeq(k.rcv_queue, m + 1, Len(k.rcv_queue))
    OBVIOUS
  <1>6. /\ rest \in Seq(Segment)
        /\ Len(rest) = Len(k.rcv_queue) - m
        /\ \A i \in 1 .. Len(k.rcv_queue) - m : rest[i] = k.rcv_queue[m + i]
    <2>1. SubSeq(k.rcv_queue, m + 1, Len(k.rcv_queue)) \in Seq(Segment)
      BY <1>3
    <2>2. Len(SubSeq(k.rcv_queue, m + 1, Len(k.rcv_queue))) = Len(k.rcv_queue) - m
      BY <1>3
    <2>3. \A i \in 1 .. Len(k.rcv_queue) - m :
             SubSeq(k.rcv_queue, m + 1, Len(k.rcv_queue))[i] = k.rcv_queue[m + i]
      BY <1>3
    <2>. QED
      BY <1>5, <2>1, <2>2, <2>3
  <1>7. PICK cut : cut = [k EXCEPT !.rcv_queue = rest]
    OBVIOUS
  <1>8. /\ cut \in ControlBlock
        /\ cut.rcv_queue = rest
        /\ cut.rcv_nxt = k.rcv_nxt
        /\ cut.rcv_buf = k.rcv_buf
    BY <1>6, <1>7 DEF ControlBlock
  <1>9. PICK more : more = got \o first
    OBVIOUS
  <1>10. /\ more \in Seq(Segment)
         /\ Len(more) = Len(got) + m
         /\ \A i \in 1 .. Len(got) : more[i] = got[i]
         /\ \A i \in 1 .. m : more[Len(got) + i] = first[i]
    <2>1. got \o first \in Seq(Segment)
      BY <1>4
    <2>2. Len(got \o first) = Len(got) + m
      BY SMTT(30), <1>4
    <2>3. \A i \in 1 .. Len(got) : (got \o first)[i] = got[i]
      BY <1>4
    <2>4. \A i \in 1 .. m : (got \o first)[Len(got) + i] = first[i]
      BY <1>4
    <2>. QED
      BY <1>9, <2>1, <2>2, <2>3, <2>4
  <1>11. /\ Len(got) + Len(k.rcv_queue) = k.rcv_nxt
         /\ k.rcv_nxt <= limit
         /\ \A i \in 1 .. Len(got) : got[i] = stream[i]
         /\ \A i \in 1 .. Len(k.rcv_queue) : k.rcv_queue[i] = stream[Len(got) + i]
         /\ Agrees(k.rcv_buf, stream, limit)
    BY DEF Holds
  <1>12. ASSUME NEW i \in 1 .. Len(more)
         PROVE  more[i] = stream[i]
    <2>1. CASE i <= Len(got)
      BY <1>10, <1>11, <2>1
    <2>2. CASE i > Len(got)
      <3>1. i - Len(got) \in 1 .. m /\ i = Len(got) + (i - Len(got))
        BY <1>10, <2>2
      <3>2. more[i] = first[i - Len(got)]
        BY <1>10, <3>1
      <3>3. first[i - Len(got)] = k.rcv_queue[i - Len(got)]
        BY <1>4, <3>1
      <3>4. i - Len(got) \in 1 .. Len(k.rcv_queue)
        BY <1>3, <3>1
      <3>. QED
        BY <1>11, <3>1, <3>2, <3>3, <3>4
    <2>. QED
      BY <1>10, <2>1, <2>2
  <1>13. ASSUME NEW i \in 1 .. Len(rest)
         PROVE  rest[i] = stream[Len(more) + i]
    <2>1. m + i \in 1 .. Len(k.rcv_queue) /\ Len(got) + (m + i) = Len(more) + i
      BY SMTT(30), <1>3, <1>6, <1>10
    <2>2. rest[i] = k.rcv_queue[m + i]
      BY <1>6
    <2>3. k.rcv_queue[m + i] = stream[Len(got) + (m + i)]
      BY <1>11, <2>1
    <2>. QED
      BY <2>1, <2>2, <2>3
  <1>14. Len(more) + Len(rest) = k.rcv_nxt
    <2>1. /\ Len(rest) = Len(k.rcv_queue) - m
          /\ Len(more) = Len(got) + m
          /\ Len(got) + Len(k.rcv_queue) = k.rcv_nxt
      BY <1>6, <1>10, <1>11
    <2>2. Len(got) \in Nat /\ Len(k.rcv_queue) \in Nat /\ m \in Nat
      BY <1>3
    <2>3. Len(more) + Len(rest) = (Len(got) + m) + (Len(k.rcv_queue) - m)
      BY <2>1, Zenon
    <2>4. (Len(got) + m) + (Len(k.rcv_queue) - m) = Len(got) + Len(k.rcv_queue)
      <3>1. \A a, b, c \in Nat : (a + c) + (b - c) = a + b
        OBVIOUS
      <3>. QED
        BY <2>2, <3>1, Zenon
    <2>. QED
      BY <2>1, <2>3, <2>4, Zenon
  <1>15. Holds(cut, more, stream, limit)
    BY <1>8, <1>11, <1>12, <1>13, <1>14 DEF Holds
  <1>16. PICK read : read = Drain(cut)
    OBVIOUS
  <1>17. Holds(read, more, stream, limit) /\ read \in ControlBlock
    BY <1>8, <1>10, <1>15, <1>16, DrainHolds, DrainProperty
  <1>18. SameReceiver(KcpRecv(k), read)
    <2>1. PICK told : KcpRecv(k) = [read EXCEPT !.tell = told]
      BY <1>1, <1>2, <1>4, <1>5, <1>7, <1>16 DEF KcpRecv
    <2>. QED
      BY <1>17, <2>1 DEF SameReceiver, ControlBlock
  <1>. QED
    BY <1>2, <1>9, <1>17, <1>18 DEF Holds, SameReceiver

(* A flush numbers the next segments of the stream and forgets none.       *)
LEMMA KcpFlushSends ==
    ASSUME NEW k \in ControlBlock, NEW due, NEW stream \in Seq(Segment),
           Sends(k, stream)
    PROVE  /\ Sends(KcpFlush(k, due), stream)
           /\ k.snd_nxt <= KcpFlush(k, due).snd_nxt
           /\ KcpFlush(k, due).snd_nxt <= Len(stream)
           /\ Agrees(Moved(k), stream, KcpFlush(k, due).snd_nxt)
  <1>1. PICK m \in 0 .. Len(k.snd_queue) : m = MoveCount(k)
    BY MoveCountType
  <1>2. PICK r : r = KcpFlush(k, due)
    OBVIOUS
  <1>3. /\ r \in ControlBlock
        /\ r.snd_nxt = k.snd_nxt + m
        /\ r.snd_queue = SubSeq(k.snd_queue, m + 1, Len(k.snd_queue))
        /\ r.snd_buf = k.snd_buf \cup Moved(k)
    BY <1>1, <1>2, KcpFlushType
  <1>4. /\ k.snd_queue \in Seq(Segment)
        /\ Len(k.snd_queue) \in Nat
        /\ k.snd_nxt \in Nat
        /\ k.snd_buf \in SUBSET Numbered
    BY DEF ControlBlock
  <1>5. /\ Len(r.snd_queue) = Len(k.snd_queue) - m
        /\ \A i \in 1 .. Len(k.snd_queue) - m : r.snd_queue[i] = k.snd_queue[m + i]
    <2>1. Len(SubSeq(k.snd_queue, m + 1, Len(k.snd_queue))) = Len(k.snd_queue) - m
      BY <1>4
    <2>2. \A i \in 1 .. Len(k.snd_queue) - m :
             SubSeq(k.snd_queue, m + 1, Len(k.snd_queue))[i] = k.snd_queue[m + i]
      BY <1>4
    <2>. QED
      BY <1>3, <2>1, <2>2
  <1>6. /\ Len(stream) = k.snd_nxt + Len(k.snd_queue)
        /\ \A i \in 1 .. Len(k.snd_queue) : k.snd_queue[i] = stream[k.snd_nxt + i]
        /\ Agrees(k.snd_buf, stream, k.snd_nxt)
    BY DEF Sends
  <1>7. ASSUME NEW s \in Moved(k)
        PROVE  s.sn < r.snd_nxt /\ s.seg = stream[s.sn + 1]
    <2>1. PICK i \in 1 .. m : s = [sn |-> k.snd_nxt + i - 1, seg |-> k.snd_queue[i]]
      BY <1>1 DEF Moved
    <2>2. s.sn = k.snd_nxt + i - 1 /\ s.seg = k.snd_queue[i]
      BY <2>1
    <2>3. i \in 1 .. Len(k.snd_queue) /\ s.sn + 1 = k.snd_nxt + i
      BY <1>1, <1>4, <2>2
    <2>4. s.seg = stream[s.sn + 1]
      BY <1>6, <2>2, <2>3
    <2>5. s.sn < r.snd_nxt
      BY <1>1, <1>3, <1>4, <2>2
    <2>. QED
      BY <2>4, <2>5
  <1>8. Agrees(Moved(k), stream, r.snd_nxt)
    BY <1>7 DEF Agrees
  <1>9. Agrees(r.snd_buf, stream, r.snd_nxt)
    <2>1. ASSUME NEW s \in k.snd_buf
          PROVE  s.sn < r.snd_nxt /\ s.seg = stream[s.sn + 1]
      <3>1. s.sn \in Nat /\ s.sn < k.snd_nxt /\ s.seg = stream[s.sn + 1]
        BY <1>4, <1>6 DEF Agrees, Numbered
      <3>. QED
        BY <1>1, <1>3, <1>4, <3>1
    <2>. QED
      BY <1>3, <1>7, <2>1 DEF Agrees
  <1>10. ASSUME NEW i \in 1 .. Len(r.snd_queue)
         PROVE  r.snd_queue[i] = stream[r.snd_nxt + i]
    <2>1. m + i \in 1 .. Len(k.snd_queue) /\ k.snd_nxt + (m + i) = r.snd_nxt + i
      <3>1. Len(r.snd_queue) = Len(k.snd_queue) - m /\ r.snd_nxt = k.snd_nxt + m
        BY <1>3, <1>5
      <3>2. i \in 1 .. Len(k.snd_queue) - m
        BY <3>1
      <3>. QED
        BY <1>1, <1>4, <3>1, <3>2
    <2>2. r.snd_queue[i] = k.snd_queue[m + i]
      BY <1>5
    <2>. QED
      BY <1>6, <2>1, <2>2
  <1>11. /\ Len(stream) = r.snd_nxt + Len(r.snd_queue)
         /\ k.snd_nxt <= r.snd_nxt /\ r.snd_nxt <= Len(stream)
    <2>1. PICK queued \in Nat, nxt \in Nat : queued = Len(k.snd_queue) /\ nxt = k.snd_nxt
      BY <1>4
    <2>2. m \in 0 .. queued /\ Len(stream) = nxt + queued
      BY <1>6, <2>1
    <2>3. r.snd_nxt = nxt + m /\ Len(r.snd_queue) = queued - m
      BY <1>3, <1>5, <2>1
    <2>. QED
      BY <2>1, <2>2, <2>3
  <1>. QED
    BY <1>2, <1>8, <1>9, <1>10, <1>11 DEF Sends

(* Every PUSH segment a flush emits is in snd_buf afterwards.              *)
LEMMA KcpOutputPushes ==
    ASSUME NEW k \in ControlBlock, NEW due, NEW probeDue, NEW cuts,
           NEW d \in KcpOutput(k, due, probeDue, cuts)
    PROVE  d.push \subseteq k.snd_buf \cup Moved(k)
  <1>1. FrameOf(k, due, probeDue, d)
    BY OutputFrames, Zenon
  <1>2. PICK acks \in SUBSET k.acklist, wask \in {AskSend(k, probeDue), FALSE},
             wins \in {k.tell, FALSE},
             push \in SUBSET (Moved(k) \cup Resent(k, due)) :
                d = Frame(k, acks, wask, wins, push)
    BY <1>1, Zenon DEF FrameOf
  <1>3. d.push = push
    BY <1>2 DEF Frame
  <1>4. Resent(k, due) \subseteq k.snd_buf
    BY DEF Resent
  <1>. QED
    BY <1>3, <1>4

(* The sender's numbering and what the receiver holds survive when the     *)
(* stream grows and more of it is numbered.                                *)
LEMMA HoldsGrows ==
    ASSUME NEW k \in ControlBlock, NEW got \in Seq(Segment),
           NEW stream \in Seq(Segment), NEW longer \in Seq(Segment),
           NEW limit \in Nat, NEW higher \in Nat,
           limit <= higher, limit <= Len(stream),
           \A i \in 1 .. Len(stream) : longer[i] = stream[i],
           Holds(k, got, stream, limit)
    PROVE  Holds(k, got, longer, higher)
  <1>1. /\ Len(got) + Len(k.rcv_queue) = k.rcv_nxt
        /\ k.rcv_nxt <= limit
        /\ \A i \in 1 .. Len(got) : got[i] = stream[i]
        /\ \A i \in 1 .. Len(k.rcv_queue) : k.rcv_queue[i] = stream[Len(got) + i]
        /\ Agrees(k.rcv_buf, stream, limit)
    BY DEF Holds
  <1>2. /\ Len(got) \in Nat
        /\ Len(k.rcv_queue) \in Nat
        /\ k.rcv_nxt \in Nat
        /\ k.rcv_buf \in SUBSET Numbered
    BY DEF ControlBlock
  <1>3. Len(got) + Len(k.rcv_queue) <= Len(stream)
    <2>1. Len(got) + Len(k.rcv_queue) = k.rcv_nxt /\ k.rcv_nxt <= limit
      BY <1>1
    <2>. QED
      BY <1>2, <2>1
  <1>4. ASSUME NEW i \in 1 .. Len(got)
        PROVE  got[i] = longer[i]
    <2>1. i \in 1 .. Len(stream)
      BY <1>2, <1>3
    <2>. QED
      BY <1>1, <2>1
  <1>5. ASSUME NEW i \in 1 .. Len(k.rcv_queue)
        PROVE  k.rcv_queue[i] = longer[Len(got) + i]
    <2>1. Len(got) + i \in 1 .. Len(stream)
      BY <1>2, <1>3
    <2>. QED
      BY <1>1, <2>1
  <1>6. Agrees(k.rcv_buf, longer, higher)
    BY <1>1, <1>2, AgreesGrows
  <1>7. k.rcv_nxt <= higher
    <2>1. k.rcv_nxt <= limit
      BY <1>1
    <2>. QED
      BY <1>2, <2>1
  <1>. QED
    BY <1>1, <1>4, <1>5, <1>6, <1>7 DEF Holds

(* Queueing a message appends its fragments to the stream.                 *)
LEMMA KcpSendSends ==
    ASSUME NEW k \in ControlBlock, NEW stream \in Seq(Segment),
           NEW msg \in Seq(Data), ~ KcpSendRefused(msg), Sends(k, stream)
    PROVE  /\ Sends(KcpSend(k, msg), stream \o Fragments(msg))
           /\ SameReceiver(KcpSend(k, msg), k)
           /\ KcpSend(k, msg).snd_nxt = k.snd_nxt
  <1>1. PICK m \in Seq(Segment) : m = Fragments(msg)
    BY FragmentsType
  <1>2. PICK q : q = k.snd_queue \o m
    OBVIOUS
  <1>3. k.snd_queue \in Seq(Segment) /\ Len(k.snd_queue) \in Nat /\ k.snd_nxt \in Nat
        /\ k.snd_buf \in SUBSET Numbered
    BY DEF ControlBlock
  <1>4. /\ q \in Seq(Segment)
        /\ Len(q) = Len(k.snd_queue) + Len(m)
        /\ \A i \in 1 .. Len(k.snd_queue) : q[i] = k.snd_queue[i]
        /\ \A i \in 1 .. Len(m) : q[Len(k.snd_queue) + i] = m[i]
    <2>1. k.snd_queue \o m \in Seq(Segment)
      BY <1>3
    <2>2. Len(k.snd_queue \o m) = Len(k.snd_queue) + Len(m)
      BY <1>3
    <2>3. \A i \in 1 .. Len(k.snd_queue) : (k.snd_queue \o m)[i] = k.snd_queue[i]
      BY <1>3
    <2>4. \A i \in 1 .. Len(m) : (k.snd_queue \o m)[Len(k.snd_queue) + i] = m[i]
      BY <1>3
    <2>. QED
      BY <1>2, <2>1, <2>2, <2>3, <2>4
  <1>5. PICK r : r = [k EXCEPT !.snd_queue = q]
    OBVIOUS
  <1>6. /\ r.snd_queue = q
        /\ r.snd_nxt = k.snd_nxt
        /\ r.snd_buf = k.snd_buf
        /\ SameReceiver(r, k)
    BY <1>5 DEF SameReceiver, ControlBlock
  <1>7. KcpSend(k, msg) = r
    BY <1>1, <1>2, <1>5 DEF KcpSend
  <1>8. PICK longer : longer = stream \o m
    OBVIOUS
  <1>9. /\ longer \in Seq(Segment)
        /\ Len(longer) = Len(stream) + Len(m)
        /\ \A i \in 1 .. Len(stream) : longer[i] = stream[i]
        /\ \A i \in 1 .. Len(m) : longer[Len(stream) + i] = m[i]
    <2>1. stream \o m \in Seq(Segment)
      OBVIOUS
    <2>2. Len(stream \o m) = Len(stream) + Len(m)
      OBVIOUS
    <2>3. \A i \in 1 .. Len(stream) : (stream \o m)[i] = stream[i]
      OBVIOUS
    <2>4. \A i \in 1 .. Len(m) : (stream \o m)[Len(stream) + i] = m[i]
      OBVIOUS
    <2>. QED
      BY <1>8, <2>1, <2>2, <2>3, <2>4
  <1>10. /\ Len(stream) = k.snd_nxt + Len(k.snd_queue)
         /\ \A i \in 1 .. Len(k.snd_queue) : k.snd_queue[i] = stream[k.snd_nxt + i]
         /\ Agrees(k.snd_buf, stream, k.snd_nxt)
    BY DEF Sends
  <1>11. PICK a \in Nat, b \in Nat, c \in Nat :
            /\ a = k.snd_nxt
            /\ b = Len(k.snd_queue)
            /\ c = Len(m)
            /\ Len(stream) = a + b
            /\ Len(longer) = a + b + c
            /\ Len(q) = b + c
    BY <1>3, <1>4, <1>9, <1>10
  <1>12. ASSUME NEW i \in 1 .. Len(q)
         PROVE  q[i] = longer[k.snd_nxt + i]
    <2>. i \in 1 .. b + c
      BY <1>11, Zenon
    <2>1. CASE i <= b
      <3>1. i \in 1 .. b /\ a + i \in 1 .. a + b
        BY <2>1
      <3>2. q[i] = k.snd_queue[i] /\ k.snd_queue[i] = stream[a + i]
        BY <1>4, <1>10, <1>11, <3>1
      <3>3. longer[a + i] = stream[a + i]
        BY <1>9, <1>11, <3>1
      <3>. QED
        BY <1>11, <3>2, <3>3
    <2>2. CASE i > b
      <3>1. i - b \in 1 .. c /\ i = b + (i - b) /\ a + i = (a + b) + (i - b)
        BY <2>2
      <3>2. q[i] = m[i - b]
        BY <1>4, <1>11, <3>1
      <3>3. longer[a + i] = m[i - b]
        BY <1>9, <1>11, <3>1
      <3>. QED
        BY <1>11, <3>2, <3>3
    <2>. QED
      BY <2>1, <2>2
  <1>13. Agrees(k.snd_buf, longer, k.snd_nxt)
    <2>1. a <= a + b /\ a <= a
      OBVIOUS
    <2>2. k.snd_nxt <= Len(stream) /\ k.snd_nxt <= k.snd_nxt
      BY <1>11, <2>1, Zenon
    <2>3. longer \in Seq(Segment) /\ \A i \in 1 .. Len(stream) : longer[i] = stream[i]
      BY <1>9
    <2>. QED
      BY <1>3, <1>10, <2>2, <2>3, AgreesGrows, Zenon
  <1>14. Len(longer) = k.snd_nxt + Len(q)
    <2>1. a + b + c = a + (b + c)
      OBVIOUS
    <2>. QED
      BY <1>11, <2>1, Zenon
  <1>15. Sends(r, longer)
    BY <1>6, <1>12, <1>13, <1>14 DEF Sends
  <1>. QED
    BY <1>1, <1>6, <1>7, <1>8, <1>15

----------------------------------------------------------------------------
(* What a stream carries.                                                  *)

(* No segments carry no bytes.                                             *)
LEMMA PayloadEmpty == Payload(<<>>) = <<>>
  <1>1. <<>> \in Seq(Segment) /\ Len(<<>>) = 0
    OBVIOUS
  <1>2. PICK seg : seg = <<>>
    OBVIOUS
  <1>3. PICK f : f[0] = <<>> /\ Payload(seg) = f[Len(seg)]
    BY <1>1, <1>2, PayloadUnfolds
  <1>. QED
    BY <1>1, <1>2, <1>3

(* Three stretches of bytes make the same whole either way.                *)
LEMMA ThreeStretches ==
    ASSUME NEW x \in Seq(Data), NEW y \in Seq(Data), NEW z \in Seq(Data)
    PROVE  (x \o y) \o z = x \o (y \o z)
  BY SMT, ConcatAssociative

(* The bytes of two stretches of a stream are those of the first, then     *)
(* those of the second.                                                    *)
LEMMA PayloadAppends ==
    ASSUME NEW a \in Seq(Segment), NEW b \in Seq(Segment)
    PROVE  Payload(a \o b) = Payload(a) \o Payload(b)
  <1>1. PICK l \in Nat, m \in Nat : l = Len(a) /\ m = Len(b)
    OBVIOUS
  <1>2. PICK c \in Seq(Segment) : c = a \o b
    <2>1. a \o b \in Seq(Segment)
      OBVIOUS
    <2>. QED
      BY <2>1, Zenon
  <1>3. /\ Len(c) = l + m
        /\ \A i \in 1 .. l : c[i] = a[i]
        /\ \A i \in 1 .. m : c[l + i] = b[i]
    <2>1. Len(a \o b) = l + m
      BY <1>1
    <2>2. \A i \in 1 .. l : (a \o b)[i] = a[i]
      BY <1>1
    <2>3. \A i \in 1 .. m : (a \o b)[l + i] = b[i]
      BY <1>1
    <2>. QED
      BY <1>2, <2>1, <2>2, <2>3
  <1>4. PICK n \in Nat : n = l + m /\ n = Len(c)
    BY <1>3
  <1>5. PICK f \in [0 .. l -> Seq(Data)] :
          /\ f[0] = <<>> /\ Payload(a) = f[l]
          /\ \A i \in 1 .. l : f[i] = f[i - 1] \o a[i].data
    BY <1>1, PayloadUnfolds
  <1>6. PICK g \in [0 .. m -> Seq(Data)] :
          /\ g[0] = <<>> /\ Payload(b) = g[m]
          /\ \A i \in 1 .. m : g[i] = g[i - 1] \o b[i].data
    BY <1>1, PayloadUnfolds
  <1>7. PICK h \in [0 .. n -> Seq(Data)] :
          /\ h[0] = <<>> /\ Payload(c) = h[n]
          /\ \A i \in 1 .. n : h[i] = h[i - 1] \o c[i].data
    BY <1>4, PayloadUnfolds
  <1>8. h[l] = f[l]
    <2>. DEFINE S == {i \in 0 .. l : h[i] = f[i]}
    <2>1. 0 \in S
      BY <1>5, <1>7
    <2>2. ASSUME NEW i \in 1 .. l, i - 1 \in S
          PROVE  i \in S
      <3>1. i \in 1 .. n /\ h[i - 1] = f[i - 1]
        BY <1>4, <2>2
      <3>2. h[i] = h[i - 1] \o c[i].data /\ f[i] = f[i - 1] \o a[i].data /\ c[i] = a[i]
        BY <1>3, <1>5, <1>7, <3>1
      <3>3. h[i] = f[i]
        BY <3>1, <3>2, Zenon
      <3>. QED
        BY <3>3
    <2>. HIDE DEF S
    <2>3. \A i \in 0 .. l : i \in S
      BY <2>1, <2>2, Climb
    <2>. QED
      BY <2>3 DEF S
  <1>9. h[l + m] = f[l] \o g[m]
    <2>. DEFINE S == {i \in 0 .. m : h[l + i] = f[l] \o g[i]}
    <2>1. f[l] \in Seq(Data) /\ \A i \in 0 .. m : g[i] \in Seq(Data)
      <3>1. l \in 0 .. l
        OBVIOUS
      <3>. QED
        BY <3>1, Zenon
    <2>2. 0 \in S
      <3>1. f[l] \o <<>> = f[l] /\ l + 0 = l
        BY <2>1, ConcatEmptySeq
      <3>2. h[l + 0] = f[l] \o g[0]
        BY <1>6, <1>8, <3>1, Zenon
      <3>. QED
        BY <3>2
    <2>3. ASSUME NEW i \in 1 .. m, i - 1 \in S
          PROVE  i \in S
      <3>1. h[l + (i - 1)] = f[l] \o g[i - 1] /\ i - 1 \in 0 .. m
        BY <2>3
      <3>2. l + i \in 1 .. n /\ (l + i) - 1 = l + (i - 1)
        BY <1>4
      <3>3. h[l + i] = h[(l + i) - 1] \o c[l + i].data
        BY <1>7, <3>2, Zenon
      <3>4. h[l + i] = h[l + (i - 1)] \o b[i].data
        BY <1>3, <3>2, <3>3, Zenon
      <3>5. b[i].data \in Seq(Data)
        <4>1. b[i] \in Segment
          BY <1>1
        <4>. QED
          BY <4>1 DEF Segment
      <3>6. (f[l] \o g[i - 1]) \o b[i].data = f[l] \o (g[i - 1] \o b[i].data)
        <4>1. PICK x \in Seq(Data), y \in Seq(Data), z \in Seq(Data) :
                x = f[l] /\ y = g[i - 1] /\ z = b[i].data
          BY <2>1, <3>1, <3>5, Zenon
        <4>2. (x \o y) \o z = x \o (y \o z)
          BY ThreeStretches, Zenon
        <4>. QED
          BY <4>1, <4>2, Zenon
      <3>7. h[l + i] = f[l] \o g[i]
        BY <1>6, <3>1, <3>4, <3>6, Zenon
      <3>8. i \in 0 .. m
        OBVIOUS
      <3>. QED
        BY <3>7, <3>8, Zenon
    <2>. HIDE DEF S
    <2>4. \A i \in 0 .. m : i \in S
      BY <2>2, <2>3, Climb
    <2>. QED
      BY <2>4 DEF S
  <1>. QED
    BY <1>2, <1>4, <1>5, <1>6, <1>7, <1>9, Zenon

(* What the beginning of a stream carries, the stream begins with.         *)
LEMMA PayloadBegins ==
    ASSUME NEW got \in Seq(Segment), NEW stream \in Seq(Segment),
           Len(got) <= Len(stream), \A i \in 1 .. Len(got) : got[i] = stream[i]
    PROVE  \E rest \in Seq(Data) : Payload(stream) = Payload(got) \o rest
  <1>1. PICK l \in Nat, n \in Nat : l = Len(got) /\ n = Len(stream) /\ l <= n
    OBVIOUS
  <1>2. PICK left \in Seq(Segment) : left = SubSeq(stream, l + 1, n)
    <2>1. SubSeq(stream, l + 1, n) \in Seq(Segment)
      BY <1>1
    <2>. QED
      BY <2>1
  <1>3. got = SubSeq(stream, 1, l)
    <2>1. PICK s \in Seq(Segment) : s = SubSeq(stream, 1, l)
      <3>1. SubSeq(stream, 1, l) \in Seq(Segment)
        BY <1>1
      <3>. QED
        BY <3>1
    <2>2. Len(s) = l /\ \A i \in 1 .. l : s[i] = stream[i]
      BY <1>1, <2>1
    <2>3. s = got
      BY <1>1, <2>2
    <2>. QED
      BY <2>1, <2>3
  <1>4. got \o left = SubSeq(stream, 1, n)
    <2>1. SubSeq(stream, 1, l) \o SubSeq(stream, l + 1, n) = SubSeq(stream, 1, n)
      <3>1. n \in 0 .. Len(stream) /\ l \in 0 .. n
        BY <1>1
      <3>. QED
        BY <3>1, CutInTwo, Zenon
    <2>. QED
      BY <1>2, <1>3, <2>1, Zenon
  <1>5. SubSeq(stream, 1, n) = stream
    BY <1>1
  <1>6. Payload(stream) = Payload(got) \o Payload(left)
    <2>1. Payload(got \o left) = Payload(got) \o Payload(left)
      BY PayloadAppends
    <2>. QED
      BY <1>4, <1>5, <2>1
  <1>7. Payload(left) \in Seq(Data)
    BY PayloadType
  <1>. QED
    BY <1>6, <1>7

----------------------------------------------------------------------------
(* One direction of a session, whatever is left of it: at most one sender, *)
(* datagrams and at most one receiver.                                     *)

Flow(senders, receivers, wire, stream, got, limit) ==
    /\ limit <= Len(stream)
    /\ \A k \in senders : k \in ControlBlock /\ Sends(k, stream) /\ k.snd_nxt = limit
    /\ \A d \in wire : d \in Datagram /\ Agrees(d.push, stream, limit)
    /\ \A k \in receivers : k \in ControlBlock /\ Holds(k, got, stream, limit)

(* What a sender was given: bytes, and whether the close signal after them.*)
Utterance(bytes, ends) == [bytes |-> bytes, ends |-> ends]

(* The signal is a segment with no data, the last of its stream.           *)
Speaks(stream, words) ==
    /\ Payload(stream) = words.bytes
    /\ \A i \in 1 .. Len(stream) :
          stream[i].data = <<>> => i = Len(stream) /\ words.ends

(* The sender was given these words, and what ikcp_recv returned is read.  *)
Carries(senders, receivers, wire, words, read) ==
    \E stream \in Seq(Segment), got \in Seq(Segment), limit \in Nat :
        /\ Flow(senders, receivers, wire, stream, got, limit)
        /\ Speaks(stream, words)
        /\ Payload(got) = read

(* Of a direction that has lost parts, what is left carries the same.      *)
LEMMA CarriesLess ==
    ASSUME NEW senders, NEW receivers, NEW wire, NEW words, NEW read,
           Carries(senders, receivers, wire, words, read),
           NEW fewer \in SUBSET senders, NEW less \in SUBSET receivers,
           NEW lost \in SUBSET wire
    PROVE  Carries(fewer, less, lost, words, read)
  <1>1. PICK stream \in Seq(Segment), got \in Seq(Segment), limit \in Nat :
          /\ Flow(senders, receivers, wire, stream, got, limit)
          /\ Speaks(stream, words)
          /\ Payload(got) = read
    BY DEF Carries
  <1>2. Flow(fewer, less, lost, stream, got, limit)
    BY <1>1 DEF Flow
  <1>. QED
    BY <1>1, <1>2 DEF Carries

(* The stream of no segments.                                              *)
LEMMA NoSegments == <<>> \in Seq(Segment) /\ Len(<<>>) = 0
  OBVIOUS

(* Nothing was sent yet.                                                   *)
LEMMA CarriesNothing ==
    ASSUME NEW senders, NEW receivers,
           \A k \in senders \cup receivers : \E conv \in Nat : k = KcpCreate(conv)
    PROVE  Carries(senders, receivers, {}, Utterance(<<>>, FALSE), <<>>)
  <1>1. PICK none \in Seq(Segment) : none = <<>> /\ Len(none) = 0
    BY NoSegments, Zenon
  <1>2. ASSUME NEW k \in senders \cup receivers
        PROVE  /\ k \in ControlBlock /\ Sends(k, none) /\ k.snd_nxt = 0
               /\ Holds(k, none, none, 0)
    <2>1. PICK conv \in Nat : k = KcpCreate(conv)
      OBVIOUS
    <2>2. k \in ControlBlock
      BY <2>1, KcpCreateType
    <2>3. /\ k.snd_nxt = 0 /\ k.snd_queue = <<>> /\ k.snd_buf = {}
          /\ k.rcv_nxt = 0 /\ k.rcv_queue = <<>> /\ k.rcv_buf = {}
      BY <2>1 DEF KcpCreate
    <2>. QED
      BY <1>1, <2>2, <2>3 DEF Sends, Holds, Agrees
  <1>3. Flow(senders, receivers, {}, none, none, 0)
    BY <1>1, <1>2 DEF Flow
  <1>4. Payload(none) = <<>>
    BY <1>1, PayloadEmpty, Zenon
  <1>5. Speaks(none, Utterance(<<>>, FALSE))
    BY <1>1, <1>4 DEF Speaks, Utterance
  <1>. QED
    BY <1>3, <1>4, <1>5 DEF Carries

(* A receiver that starts afresh has read nothing of what is sent.         *)
LEMMA CarriesToNew ==
    ASSUME NEW senders, NEW wire, NEW words, NEW read, NEW conv \in Nat,
           Carries(senders, {}, wire, words, read)
    PROVE  Carries(senders, {KcpCreate(conv)}, wire, words, <<>>)
  <1>1. PICK stream \in Seq(Segment), got \in Seq(Segment), limit \in Nat :
          /\ Flow(senders, {}, wire, stream, got, limit)
          /\ Speaks(stream, words)
    BY DEF Carries
  <1>2. PICK none \in Seq(Segment) : none = <<>> /\ Len(none) = 0
    BY NoSegments, Zenon
  <1>3. PICK k : k = KcpCreate(conv)
    OBVIOUS
  <1>4. k \in ControlBlock
    BY <1>3, KcpCreateType
  <1>5. k.rcv_nxt = 0 /\ k.rcv_queue = <<>> /\ k.rcv_buf = {}
    BY <1>3 DEF KcpCreate
  <1>6. Holds(k, none, stream, limit)
    BY <1>2, <1>5 DEF Holds, Agrees
  <1>7. Flow(senders, {k}, wire, stream, none, limit)
    BY <1>1, <1>4, <1>6 DEF Flow
  <1>8. Payload(none) = <<>>
    BY <1>2, PayloadEmpty, Zenon
  <1>. QED
    BY <1>1, <1>3, <1>7, <1>8 DEF Carries

(* A sender that starts afresh goes with a receiver that has nothing.      *)
LEMMA CarriesFromNew ==
    ASSUME NEW receivers, NEW wire, NEW words, NEW read, NEW conv \in Nat,
           Carries({}, receivers, wire, words, read),
           \A k \in receivers : k.rcv_nxt = 0 /\ k.rcv_buf = {}
    PROVE  /\ Carries({KcpCreate(conv)}, receivers, {}, Utterance(<<>>, FALSE), <<>>)
           /\ receivers # {} => read = <<>>
  <1>1. PICK stream \in Seq(Segment), got \in Seq(Segment), limit \in Nat :
          /\ Flow({}, receivers, wire, stream, got, limit)
          /\ Payload(got) = read
    BY DEF Carries
  <1>2. PICK none \in Seq(Segment) : none = <<>> /\ Len(none) = 0
    BY NoSegments, Zenon
  <1>3. PICK k : k = KcpCreate(conv)
    OBVIOUS
  <1>4. k \in ControlBlock
    BY <1>3, KcpCreateType
  <1>5. k.snd_nxt = 0 /\ k.snd_queue = <<>> /\ k.snd_buf = {}
    BY <1>3 DEF KcpCreate
  <1>6. Sends(k, none)
    BY <1>2, <1>5 DEF Sends, Agrees
  <1>7. ASSUME NEW r \in receivers
        PROVE  r \in ControlBlock /\ Holds(r, none, none, 0) /\ got = none
    <2>1. r \in ControlBlock /\ Holds(r, got, stream, limit)
      BY <1>1 DEF Flow
    <2>2. r.rcv_queue \in Seq(Segment) /\ Len(r.rcv_queue) \in Nat /\ Len(got) \in Nat
      BY <2>1 DEF ControlBlock
    <2>3. Len(got) + Len(r.rcv_queue) = 0 /\ r.rcv_nxt = 0 /\ r.rcv_buf = {}
      BY <2>1 DEF Holds
    <2>4. Len(got) = 0 /\ Len(r.rcv_queue) = 0
      BY <2>2, <2>3
    <2>5. Holds(r, none, none, 0)
      BY <1>2, <2>3, <2>4 DEF Holds, Agrees
    <2>. QED
      BY <1>2, <2>1, <2>4, <2>5
  <1>8. Flow({k}, receivers, {}, none, none, 0)
    BY <1>2, <1>4, <1>5, <1>6, <1>7 DEF Flow
  <1>9. Payload(none) = <<>>
    BY <1>2, PayloadEmpty, Zenon
  <1>10. Speaks(none, Utterance(<<>>, FALSE))
    BY <1>2, <1>9 DEF Speaks, Utterance
  <1>11. Carries({k}, receivers, {}, Utterance(<<>>, FALSE), <<>>)
    BY <1>8, <1>9, <1>10 DEF Carries
  <1>. QED
    BY <1>1, <1>3, <1>7, <1>9, <1>11

(* What was read is how the bytes begin.                                   *)
LEMMA CarriesBegins ==
    ASSUME NEW senders, NEW receivers, NEW wire, NEW words, NEW read,
           Carries(senders, receivers, wire, words, read), receivers # {}
    PROVE  \E rest \in Seq(Data) : words.bytes = read \o rest
  <1>1. PICK stream \in Seq(Segment), got \in Seq(Segment), limit \in Nat :
          /\ Flow(senders, receivers, wire, stream, got, limit)
          /\ Speaks(stream, words)
          /\ Payload(got) = read
    BY DEF Carries
  <1>2. PICK k \in receivers : k \in ControlBlock /\ Holds(k, got, stream, limit)
    BY <1>1 DEF Flow
  <1>3. limit <= Len(stream)
    BY <1>1 DEF Flow
  <1>4. k.rcv_queue \in Seq(Segment) /\ Len(k.rcv_queue) \in Nat /\ k.rcv_nxt \in Nat
    BY <1>2 DEF ControlBlock
  <1>5. /\ Len(got) + Len(k.rcv_queue) = k.rcv_nxt /\ k.rcv_nxt <= limit
        /\ \A i \in 1 .. Len(got) : got[i] = stream[i]
    BY <1>2 DEF Holds
  <1>6. Len(got) <= Len(stream)
    BY <1>3, <1>4, <1>5
  <1>. QED
    BY <1>1, <1>5, <1>6, PayloadBegins DEF Speaks

(* A call that leaves the sending half alone.                              *)
LEMMA CarriesSender ==
    ASSUME NEW k, NEW r \in ControlBlock, r.snd_nxt = k.snd_nxt,
           r.snd_queue = k.snd_queue, r.snd_buf \subseteq k.snd_buf,
           NEW receivers, NEW wire, NEW words, NEW read,
           Carries({k}, receivers, wire, words, read)
    PROVE  Carries({r}, receivers, wire, words, read)
  <1>1. PICK stream \in Seq(Segment), got \in Seq(Segment), limit \in Nat :
          /\ Flow({k}, receivers, wire, stream, got, limit)
          /\ Speaks(stream, words)
          /\ Payload(got) = read
    BY DEF Carries
  <1>2. Sends(k, stream) /\ k.snd_nxt = limit
    BY <1>1 DEF Flow
  <1>3. Sends(r, stream)
    BY <1>2 DEF Sends, Agrees
  <1>4. Flow({r}, receivers, wire, stream, got, limit)
    BY <1>1, <1>2, <1>3 DEF Flow
  <1>. QED
    BY <1>1, <1>4 DEF Carries

(* A call that leaves the receiving half alone.                            *)
LEMMA CarriesReceiver ==
    ASSUME NEW k, NEW r \in ControlBlock, SameReceiver(r, k),
           NEW senders, NEW wire, NEW words, NEW read,
           Carries(senders, {k}, wire, words, read)
    PROVE  Carries(senders, {r}, wire, words, read)
  <1>1. PICK stream \in Seq(Segment), got \in Seq(Segment), limit \in Nat :
          /\ Flow(senders, {k}, wire, stream, got, limit)
          /\ Speaks(stream, words)
          /\ Payload(got) = read
    BY DEF Carries
  <1>2. Holds(k, got, stream, limit)
    BY <1>1 DEF Flow
  <1>3. Holds(r, got, stream, limit)
    BY <1>2 DEF Holds, SameReceiver
  <1>4. Flow(senders, {r}, wire, stream, got, limit)
    BY <1>1, <1>3 DEF Flow
  <1>. QED
    BY <1>1, <1>4 DEF Carries

(* Only the message of no bytes has a fragment of none.                    *)
LEMMA EmptyFragment ==
    ASSUME NEW msg \in Seq(Data), NEW frags, frags = Fragments(msg),
           NEW j \in 1 .. Len(frags), frags[j].data = <<>>
    PROVE  msg = <<>> /\ Len(frags) = 1
  <1>1. PICK n \in Nat \ {0}, l \in Nat : n = FragCount(msg) /\ l = Len(msg)
    BY FragCountType
  <1>2. Len(frags) = n /\ j \in 1 .. n
    BY <1>1, FragmentsType
  <1>3. SubSeq(msg, (j - 1) * Mss + 1, Lesser(j * Mss, l)) = <<>>
    BY <1>1, <1>2 DEF Fragments
  <1>4. PICK from \in Nat, to \in Nat :
          from = (j - 1) * Mss /\ to = j * Mss /\ to = from + Mss
    BY <1>2, KcpAssumption
  <1>5. PICK upTo \in 0 .. l : upTo = Lesser(to, l)
    BY <1>4 DEF Lesser
  <1>6. upTo <= from
    <2>1. SUFFICES ASSUME upTo > from PROVE FALSE
      OBVIOUS
    <2>2. Len(SubSeq(msg, from + 1, upTo)) = upTo - from
      BY <1>1, <1>5, <2>1
    <2>3. SubSeq(msg, from + 1, upTo) = <<>>
      BY <1>3, <1>4, <1>5, Zenon
    <2>4. Len(<<>>) = 0
      BY EmptySeq
    <2>5. upTo - from = 0
      BY <2>2, <2>3, <2>4, Zenon
    <2>. QED
      BY <1>5, <2>1, <2>5
  <1>7. l <= from
    BY <1>4, <1>5, <1>6, KcpAssumption DEF Lesser
  <1>8. CASE l <= Mss
    <2>1. n = 1
      BY <1>1, <1>8 DEF FragCount
    <2>2. from = 0
      BY <1>2, <1>4, <2>1, KcpAssumption
    <2>3. msg = <<>>
      BY <1>1, <1>7, <2>2
    <2>. QED
      BY <1>2, <2>1, <2>3
  <1>9. CASE l > Mss
    <2>1. n = (l + Mss - 1) \div Mss
      BY <1>1, <1>9, KcpAssumption DEF FragCount
    <2>2. n * Mss <= l + Mss - 1
      BY <2>1, KcpAssumption
    <2>3. to <= n * Mss
      BY <1>2, <1>4, KcpAssumption
    <2>. QED
      BY <1>4, <1>7, <2>2, <2>3, KcpAssumption
  <1>. QED
    BY <1>1, <1>8, <1>9, KcpAssumption

(* ikcp_send of a message it does not refuse.                              *)
LEMMA CarriesSend ==
    ASSUME NEW k, NEW msg \in Seq(Data), ~ KcpSendRefused(msg),
           NEW receivers, NEW wire, NEW bytes, NEW read,
           Carries({k}, receivers, wire, Utterance(bytes, FALSE), read)
    PROVE  Carries({KcpSend(k, msg)}, receivers, wire, Utterance(bytes \o msg, msg = <<>>), read)
  <1>1. PICK stream \in Seq(Segment), got \in Seq(Segment), limit \in Nat :
          /\ Flow({k}, receivers, wire, stream, got, limit)
          /\ Speaks(stream, Utterance(bytes, FALSE))
          /\ Payload(got) = read
    BY DEF Carries
  <1>2. k \in ControlBlock /\ Sends(k, stream) /\ k.snd_nxt = limit
    BY <1>1 DEF Flow
  <1>3. PICK frags \in Seq(Segment) : frags = Fragments(msg)
    BY FragmentsType
  <1>4. PICK longer \in Seq(Segment) : longer = stream \o frags
    <2>1. stream \o frags \in Seq(Segment)
      OBVIOUS
    <2>. QED
      BY <2>1, Zenon
  <1>5. PICK r : r = KcpSend(k, msg)
    OBVIOUS
  <1>6. r \in ControlBlock /\ Sends(r, longer) /\ r.snd_nxt = limit
    BY <1>2, <1>3, <1>4, <1>5, KcpSendType, KcpSendSends
  <1>7. limit <= Len(stream) /\ Len(stream) <= Len(longer)
        /\ \A i \in 1 .. Len(stream) : longer[i] = stream[i]
    <2>1. Len(stream \o frags) = Len(stream) + Len(frags)
          /\ \A i \in 1 .. Len(stream) : (stream \o frags)[i] = stream[i]
      OBVIOUS
    <2>. QED
      BY <1>1, <1>4, <2>1 DEF Flow
  <1>8. limit <= limit /\ limit <= Len(longer)
    BY <1>7
  <1>9. ASSUME NEW d \in wire
        PROVE  d \in Datagram /\ Agrees(d.push, longer, limit)
    <2>1. d \in Datagram /\ Agrees(d.push, stream, limit)
      BY <1>1 DEF Flow
    <2>2. d.push \in SUBSET Numbered
      BY <2>1 DEF Datagram
    <2>. QED
      BY <1>7, <1>8, <2>1, <2>2, AgreesGrows
  <1>10. ASSUME NEW h \in receivers
         PROVE  h \in ControlBlock /\ Holds(h, got, longer, limit)
    <2>1. h \in ControlBlock /\ Holds(h, got, stream, limit)
      BY <1>1 DEF Flow
    <2>. QED
      BY <1>7, <1>8, <2>1, HoldsGrows
  <1>11. Flow({r}, receivers, wire, longer, got, limit)
    BY <1>6, <1>8, <1>9, <1>10 DEF Flow
  <1>12. Payload(longer) = bytes \o msg
    <2>1. Payload(stream \o frags) = Payload(stream) \o Payload(frags)
      BY PayloadAppends, Zenon
    <2>2. Payload(Fragments(msg)) = msg
      BY FragmentsPayload, Zenon
    <2>3. Payload(stream) = bytes
      BY <1>1 DEF Speaks, Utterance
    <2>. QED
      BY <1>3, <1>4, <2>1, <2>2, <2>3, Zenon
  <1>13. ASSUME NEW i \in 1 .. Len(longer), longer[i].data = <<>>
         PROVE  i = Len(longer) /\ msg = <<>>
    <2>1. PICK l \in Nat, m \in Nat : l = Len(stream) /\ m = Len(frags)
      OBVIOUS
    <2>2. /\ Len(longer) = l + m
          /\ \A j \in 1 .. l : longer[j] = stream[j]
          /\ \A j \in 1 .. m : longer[l + j] = frags[j]
      BY <1>4, <2>1
    <2>3. CASE i <= l
      <3>1. i \in 1 .. l /\ longer[i] = stream[i]
        BY <2>2, <2>3
      <3>. QED
        BY <1>1, <1>13, <2>1, <3>1 DEF Speaks, Utterance
    <2>4. CASE i > l
      <3>1. PICK j \in 1 .. m : i = l + j
        <4>1. i - l \in 1 .. m /\ i = l + (i - l)
          BY <2>1, <2>2, <2>4
        <4>. QED
          BY <4>1
      <3>2. frags[j].data = <<>>
        BY <1>13, <2>2, <3>1
      <3>3. msg = <<>> /\ m = 1
        BY <1>3, <2>1, <3>2, EmptyFragment
      <3>. QED
        BY <2>2, <3>1, <3>3
    <2>. QED
      BY <2>1, <2>3, <2>4
  <1>14. Speaks(longer, Utterance(bytes \o msg, msg = <<>>))
    BY <1>12, <1>13 DEF Speaks, Utterance
  <1>. QED
    BY <1>1, <1>5, <1>11, <1>14 DEF Carries

(* ikcp_flush, with some of its output on the wire.                        *)
LEMMA CarriesFlush ==
    ASSUME NEW k, NEW due, NEW probeDue \in BOOLEAN, NEW cuts,
           NEW out \in SUBSET KcpOutput(k, due, probeDue, cuts),
           NEW receivers, NEW wire, NEW words, NEW read,
           Carries({k}, receivers, wire, words, read)
    PROVE  Carries({KcpFlush(k, due)}, receivers, wire \cup out, words, read)
  <1>1. PICK stream \in Seq(Segment), got \in Seq(Segment), limit \in Nat :
          /\ Flow({k}, receivers, wire, stream, got, limit)
          /\ Speaks(stream, words)
          /\ Payload(got) = read
    BY DEF Carries
  <1>2. k \in ControlBlock /\ Sends(k, stream) /\ k.snd_nxt = limit
    BY <1>1 DEF Flow
  <1>3. PICK r : r = KcpFlush(k, due)
    OBVIOUS
  <1>4. r \in ControlBlock /\ Sends(r, stream) /\ r.snd_buf = k.snd_buf \cup Moved(k)
    BY <1>2, <1>3, KcpFlushType, KcpFlushSends
  <1>5. PICK higher \in Nat : higher = r.snd_nxt
    BY <1>4 DEF ControlBlock
  <1>6. limit <= higher /\ higher <= Len(stream) /\ limit <= Len(stream)
        /\ \A i \in 1 .. Len(stream) : stream[i] = stream[i]
    BY <1>1, <1>2, <1>3, <1>5, KcpFlushSends DEF Flow
  <1>7. ASSUME NEW d \in wire
        PROVE  d \in Datagram /\ Agrees(d.push, stream, higher)
    <2>1. d \in Datagram /\ Agrees(d.push, stream, limit)
      BY <1>1 DEF Flow
    <2>2. d.push \in SUBSET Numbered
      BY <2>1 DEF Datagram
    <2>. QED
      BY <1>6, <2>1, <2>2, AgreesGrows
  <1>8. ASSUME NEW d \in out
        PROVE  d \in Datagram /\ Agrees(d.push, stream, higher)
    <2>1. d \in Datagram
      BY <1>2, KcpOutputType
    <2>2. d.push \subseteq k.snd_buf \cup Moved(k)
      BY <1>2, KcpOutputPushes
    <2>3. Agrees(r.snd_buf, stream, higher)
      BY <1>4, <1>5 DEF Sends
    <2>. QED
      BY <1>4, <2>1, <2>2, <2>3 DEF Agrees
  <1>9. ASSUME NEW h \in receivers
        PROVE  h \in ControlBlock /\ Holds(h, got, stream, higher)
    <2>1. h \in ControlBlock /\ Holds(h, got, stream, limit)
      BY <1>1 DEF Flow
    <2>. QED
      BY <1>6, <2>1, HoldsGrows
  <1>10. Flow({r}, receivers, wire \cup out, stream, got, higher)
    BY <1>4, <1>5, <1>6, <1>7, <1>8, <1>9 DEF Flow
  <1>. QED
    BY <1>1, <1>3, <1>10 DEF Carries

(* ikcp_input of a datagram that was under way.                            *)
LEMMA CarriesInput ==
    ASSUME NEW k, NEW d, NEW grow \in BOOLEAN,
           NEW senders, NEW wire, d \in wire, NEW words, NEW read,
           Carries(senders, {k}, wire, words, read)
    PROVE  Carries(senders, {KcpInput(k, d, grow)}, wire, words, read)
  <1>1. PICK stream \in Seq(Segment), got \in Seq(Segment), limit \in Nat :
          /\ Flow(senders, {k}, wire, stream, got, limit)
          /\ Speaks(stream, words)
          /\ Payload(got) = read
    BY DEF Carries
  <1>2. k \in ControlBlock /\ Holds(k, got, stream, limit)
    BY <1>1 DEF Flow
  <1>3. d \in Datagram /\ Agrees(d.push, stream, limit)
    BY <1>1 DEF Flow
  <1>4. PICK r : r = KcpInput(k, d, grow)
    OBVIOUS
  <1>5. r \in ControlBlock /\ Holds(r, got, stream, limit)
    BY <1>2, <1>3, <1>4, KcpInputType, KcpInputHolds
  <1>6. Flow(senders, {r}, wire, stream, got, limit)
    BY <1>1, <1>5 DEF Flow
  <1>. QED
    BY <1>1, <1>4, <1>6 DEF Carries

(* ikcp_recv of the next message.                                          *)
LEMMA CarriesRecv ==
    ASSUME NEW k, k.rcv_queue # <<>>,
           NEW senders, NEW wire, NEW words, NEW read,
           Carries(senders, {k}, wire, words, read)
    PROVE  Carries(senders, {KcpRecv(k)}, wire, words, read \o Payload(FirstMessage(k)))
  <1>1. PICK stream \in Seq(Segment), got \in Seq(Segment), limit \in Nat :
          /\ Flow(senders, {k}, wire, stream, got, limit)
          /\ Speaks(stream, words)
          /\ Payload(got) = read
    BY DEF Carries
  <1>2. k \in ControlBlock /\ Holds(k, got, stream, limit)
    BY <1>1 DEF Flow
  <1>3. PICK first \in Seq(Segment) : first = FirstMessage(k)
    BY <1>2, FirstMessageType
  <1>4. PICK more \in Seq(Segment) : more = got \o first
    <2>1. got \o first \in Seq(Segment)
      OBVIOUS
    <2>. QED
      BY <2>1, Zenon
  <1>5. PICK r : r = KcpRecv(k)
    OBVIOUS
  <1>6. r \in ControlBlock /\ Holds(r, more, stream, limit)
    BY <1>2, <1>3, <1>4, <1>5, KcpRecvType, KcpRecvHolds
  <1>7. Flow(senders, {r}, wire, stream, more, limit)
    BY <1>1, <1>6 DEF Flow
  <1>8. Payload(more) = read \o Payload(first)
    BY <1>1, <1>4, PayloadAppends
  <1>. QED
    BY <1>1, <1>3, <1>5, <1>7, <1>8 DEF Carries

(* One segment carries its data.                                           *)
LEMMA PayloadOfOne ==
    ASSUME NEW one \in Seq(Segment), Len(one) = 1
    PROVE  Payload(one) = one[1].data
  <1>1. PICK l \in Nat : l = Len(one) /\ l = 1
    OBVIOUS
  <1>2. PICK f : /\ f[0] = <<>> /\ Payload(one) = f[l]
                 /\ \A i \in 1 .. l : f[i] = f[i - 1] \o one[i].data
    BY <1>1, PayloadUnfolds
  <1>3. PICK d \in Seq(Data) : d = one[1].data
    <2>1. one[1] \in Segment
      BY <1>1
    <2>. QED
      BY <2>1 DEF Segment
  <1>4. <<>> \o d = d
    BY ConcatEmptySeq
  <1>5. f[1] = f[1 - 1] \o one[1].data /\ 1 - 1 = 0
    <2>1. 1 \in 1 .. l /\ 1 - 1 = 0
      BY <1>1
    <2>. QED
      BY <1>2, <2>1, Zenon
  <1>6. f[1] = <<>> \o d
    BY <1>2, <1>3, <1>5, Zenon
  <1>. QED
    BY <1>1, <1>2, <1>3, <1>4, <1>6, Zenon

(* A message that carries no bytes begins with a segment of none.          *)
LEMMA FirstOfNothing ==
    ASSUME NEW segs \in Seq(Segment), Len(segs) > 0, Payload(segs) = <<>>
    PROVE  segs[1].data = <<>>
  <1>1. PICK one \in Seq(Segment) : one = SubSeq(segs, 1, 1)
    <2>1. SubSeq(segs, 1, 1) \in Seq(Segment)
      OBVIOUS
    <2>. QED
      BY <2>1, Zenon
  <1>2. Len(one) = 1 /\ one[1] = segs[1]
    BY <1>1
  <1>3. PICK begin \in Seq(Data) : begin = Payload(one)
    BY PayloadType
  <1>4. PICK rest \in Seq(Data) : Payload(segs) = begin \o rest
    <2>1. Len(one) <= Len(segs) /\ \A i \in 1 .. Len(one) : one[i] = segs[i]
      BY <1>2
    <2>. QED
      BY <1>3, <2>1, PayloadBegins
  <1>5. begin = <<>>
    BY <1>4
  <1>. QED
    BY <1>2, <1>3, <1>5, PayloadOfOne, Zenon

(* What ikcp_recv finds empty is the close signal, and everything before it*)
(* was read.                                                               *)
LEMMA CarriesEnd ==
    ASSUME NEW k, k.rcv_queue # <<>>, Payload(FirstMessage(k)) = <<>>,
           NEW senders, NEW wire, NEW words, NEW read,
           Carries(senders, {k}, wire, words, read)
    PROVE  words.ends /\ read = words.bytes
  <1>1. PICK stream \in Seq(Segment), got \in Seq(Segment), limit \in Nat :
          /\ Flow(senders, {k}, wire, stream, got, limit)
          /\ Speaks(stream, words)
          /\ Payload(got) = read
    BY DEF Carries
  <1>2. k \in ControlBlock /\ Holds(k, got, stream, limit) /\ limit <= Len(stream)
    BY <1>1 DEF Flow
  <1>3. PICK m \in 1 .. Len(k.rcv_queue) : FirstMessage(k) = SubSeq(k.rcv_queue, 1, m)
    BY <1>2, FirstMessageProperty
  <1>4. k.rcv_queue \in Seq(Segment) /\ Len(k.rcv_queue) \in Nat
    BY <1>2 DEF ControlBlock
  <1>5. k.rcv_queue[1].data = <<>>
    <2>1. PICK first \in Seq(Segment) :
            first = FirstMessage(k) /\ Len(first) > 0 /\ first[1] = k.rcv_queue[1]
      <3>1. PICK first \in Seq(Segment) : first = SubSeq(k.rcv_queue, 1, m)
        <4>1. SubSeq(k.rcv_queue, 1, m) \in Seq(Segment)
          BY <1>4
        <4>. QED
          BY <4>1, Zenon
      <3>2. Len(first) > 0 /\ first[1] = k.rcv_queue[1]
        BY <1>4, <3>1
      <3>. QED
        BY <1>3, <3>1, <3>2, Zenon
    <2>. QED
      BY <2>1, FirstOfNothing
  <1>6. PICK l \in Nat, n \in Nat : l = Len(got) /\ n = Len(stream)
    OBVIOUS
  <1>7. /\ l + Len(k.rcv_queue) <= n /\ Len(k.rcv_queue) >= 1
        /\ \A i \in 1 .. l : got[i] = stream[i]
        /\ k.rcv_queue[1] = stream[l + 1]
    BY <1>2, <1>3, <1>4, <1>6 DEF Holds, ControlBlock
  <1>8. l + 1 \in 1 .. n /\ stream[l + 1].data = <<>>
    BY <1>4, <1>5, <1>6, <1>7
  <1>9. l + 1 = n /\ words.ends
    BY <1>1, <1>6, <1>8 DEF Speaks
  <1>10. PICK last \in Seq(Segment) : last = SubSeq(stream, n, n)
    <2>1. SubSeq(stream, n, n) \in Seq(Segment)
      BY <1>6, <1>9
    <2>. QED
      BY <2>1, Zenon
  <1>11. Len(last) = 1 /\ last[1] = stream[n]
    BY <1>6, <1>9, <1>10
  <1>12. got = SubSeq(stream, 1, l)
    <2>1. PICK s \in Seq(Segment) : s = SubSeq(stream, 1, l)
      <3>1. SubSeq(stream, 1, l) \in Seq(Segment)
        BY <1>6, <1>9
      <3>. QED
        BY <3>1, Zenon
    <2>2. Len(s) = l /\ \A i \in 1 .. l : s[i] = stream[i]
      BY <1>6, <1>9, <2>1
    <2>. QED
      BY <1>6, <1>7, <2>1, <2>2
  <1>13. got \o last = stream
    <2>1. n \in 0 .. Len(stream) /\ l \in 0 .. n
      BY <1>6, <1>9
    <2>2. SubSeq(stream, 1, l) \o SubSeq(stream, l + 1, n) = SubSeq(stream, 1, n)
      BY <2>1, CutInTwo, Zenon
    <2>3. SubSeq(stream, 1, n) = stream
      BY <1>6
    <2>. QED
      BY <1>9, <1>10, <1>12, <2>2, <2>3, Zenon
  <1>14. Payload(stream) = Payload(got) \o Payload(last)
    BY <1>13, PayloadAppends, Zenon
  <1>15. Payload(last) = <<>>
    BY <1>8, <1>9, <1>11, PayloadOfOne, Zenon
  <1>16. PICK b \in Seq(Data) : b = Payload(got)
    BY PayloadType
  <1>17. b \o <<>> = b
    BY ConcatEmptySeq
  <1>18. Payload(stream) = Payload(got)
    BY <1>14, <1>15, <1>16, <1>17, Zenon
  <1>. QED
    BY <1>1, <1>9, <1>18 DEF Speaks
============================================================================
