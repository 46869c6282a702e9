---------------------------- MODULE TunnelProofs ----------------------------
(* Why the two programs together implement the tunnel, while ids are fresh:*)
(* what the PCs and the target say comes out at the other side from the    *)
(* beginning, in order and in one piece, for every number of PCs, windows, *)
(* buffer sizes, message sizes and whatever the path does.                 *)
(*                                                                         *)
(* The inductive invariant, TalkInv, follows the bytes of each session in  *)
(* each direction through everything that holds them: what one side has    *)
(* said is what the other has heard, with what is in its buffers, in its   *)
(* receive queue, on the wire and in the sender's queues behind it.        *)
(*                                                                         *)
(* From it also follows that a close signal comes after all that was said, *)
(* and, with a record of who had each key last, that sessions are one to   *)
(* one while the target closes nothing.  While moreover no PC leaves, ids  *)
(* are fresh by themselves (SteadyInv).                                    *)
EXTENDS OktunProofs

(* A message that is not longer than the peer's queue holds is not refused.*)
LEMMA NotRefused ==
    ASSUME NEW msg \in Seq(Data), NEW n \in Nat \ {0}, Len(msg) <= n,
           n <= Mss * (RcvWnd - 1)
    PROVE  ~ KcpSendRefused(msg)
  <1>1. PICK l \in Nat, r \in Nat : l = Len(msg) /\ r = RcvWnd - 1
    BY KcpAssumption
  <1>2. r # 0
    <2>1. CASE r = 0
      BY <1>1, <2>1, KcpAssumption
    <2>. QED
      BY <2>1
  <1>3. CASE l <= Mss
    BY <1>1, <1>2, <1>3, KcpAssumption DEF KcpSendRefused, FragCount
  <1>4. CASE l > Mss
    <2>1. l <= Mss * r
      BY <1>1, KcpAssumption
    <2>2. PICK q \in Nat : q = (l + Mss - 1) \div Mss
      <3>1. l + Mss - 1 \in Nat
        BY <1>1, KcpAssumption
      <3>2. ASSUME NEW m \in Nat, NEW d \in Nat \ {0} PROVE m \div d \in Nat
        OBVIOUS
      <3>3. (l + Mss - 1) \div Mss \in Nat
        BY <3>1, <3>2, KcpAssumption, Zenon
      <3>. QED
        BY <3>3, Zenon
    <2>3. q * Mss <= l + Mss - 1
      BY <2>2, KcpAssumption
    <2>4. q <= r
      <3>1. SUFFICES ASSUME q >= r + 1 PROVE FALSE
        OBVIOUS
      <3>2. q * Mss >= (r + 1) * Mss
        BY <3>1, KcpAssumption
      <3>3. (r + 1) * Mss = Mss * r + Mss
        BY KcpAssumption
      <3>. QED
        BY <2>1, <2>3, <3>2, <3>3, KcpAssumption
    <2>5. FragCount(msg) = q
      <3>1. FragCount(msg) = IF l <= Mss THEN 1 ELSE (l + Mss - 1) \div Mss
        BY <1>1, Zenon DEF FragCount
      <3>. QED
        BY <1>4, <2>2, <3>1, KcpAssumption
    <2>. QED
      BY <1>1, <2>4, <2>5, KcpAssumption DEF KcpSendRefused
  <1>. QED
    BY <1>1, <1>3, <1>4, KcpAssumption

(* TunnelClient::Write queues all it is given.                             *)
LEMMA CarriesQueued ==
    ASSUME NEW k, NEW msg \in Seq(Data),
           NEW receivers, NEW wire, NEW bytes \in Seq(Data), NEW read,
           Carries({k}, receivers, wire, Utterance(bytes, FALSE), read)
    PROVE  Carries({Queued(k, msg)}, receivers, wire, Utterance(bytes \o msg, FALSE), read)
  <1>1. k \in ControlBlock
    BY DEF Carries, Flow
  <1>2. PICK n \in Nat, l \in Nat : n = PieceCount(msg) /\ l = Len(msg)
    BY ClientAssumption DEF PieceCount
  <1>3. PICK f : SendsPieces(f, k, msg) /\ Queued(k, msg) = f[PieceCount(msg)]
    BY <1>1, QueuedUnfolds
  <1>4. /\ f[0] = k /\ Queued(k, msg) = f[n]
        /\ \A i \in 1 .. n : f[i] =
              KcpSend(f[i - 1], SubSeq(msg, (i - 1) * Chunk + 1, Lesser(i * Chunk, l)))
    BY <1>2, <1>3 DEF SendsPieces
  <1>. DEFINE Sent(i) == SubSeq(msg, 1, Lesser(i * Chunk, l))
              S == {i \in 0 .. n :
                      Carries({f[i]}, receivers, wire, Utterance(bytes \o Sent(i), FALSE), read)}
  <1>5. 0 \in S
    <2>1. Lesser(0 * Chunk, l) = 0
      BY ClientAssumption DEF Lesser
    <2>2. SubSeq(msg, 1, 0) = <<>> /\ bytes \o <<>> = bytes
      OBVIOUS
    <2>3. bytes \o Sent(0) = bytes
      BY <2>1, <2>2, Zenon
    <2>4. Carries({f[0]}, receivers, wire, Utterance(bytes \o Sent(0), FALSE), read)
      BY <1>4, <2>3, Zenon
    <2>5. 0 \in 0 .. n
      BY <1>2
    <2>. QED
      BY <2>4, <2>5, Zenon
  <1>6. ASSUME NEW i \in 1 .. n, i - 1 \in S
        PROVE  i \in S
    <2>1. PICK from \in Nat, to \in Nat :
            from = (i - 1) * Chunk /\ to = i * Chunk /\ to = from + Chunk
      BY ClientAssumption
    <2>2. from < l
      <3>1. l > (n - 1) * Chunk
        <4>1. n = (l + Chunk - 1) \div Chunk
          BY <1>2 DEF PieceCount
        <4>2. n * Chunk <= l + Chunk - 1
          BY <4>1, ClientAssumption
        <4>3. (n - 1) * Chunk = n * Chunk - Chunk
          BY ClientAssumption
        <4>. QED
          BY <4>2, <4>3, ClientAssumption
      <3>2. (i - 1) * Chunk <= (n - 1) * Chunk
        BY ClientAssumption
      <3>. QED
        BY <2>1, <3>1, <3>2, ClientAssumption
    <2>3. PICK upTo \in 0 .. l : upTo = Lesser(to, l) /\ from <= upTo /\ upTo <= from + Chunk
      BY <2>1, <2>2, ClientAssumption DEF Lesser
    <2>4. PICK before \in Seq(Data), piece \in Seq(Data) :
            /\ before = SubSeq(msg, 1, from)
            /\ piece = SubSeq(msg, from + 1, upTo)
      <3>1. SubSeq(msg, 1, from) \in Seq(Data)
        BY <1>2, <2>2
      <3>2. SubSeq(msg, from + 1, upTo) \in Seq(Data)
        BY <1>2, <2>3
      <3>. QED
        BY <3>1, <3>2, Zenon
    <2>5. Sent(i - 1) = before
      <3>1. Lesser(from, l) = from
        BY <2>2 DEF Lesser
      <3>. QED
        BY <2>1, <2>4, <3>1
    <2>6. before \o piece = Sent(i)
      <3>1. from \in 0 .. upTo /\ upTo \in 0 .. Len(msg)
        BY <1>2, <2>3
      <3>2. SubSeq(msg, 1, from) \o SubSeq(msg, from + 1, upTo) = SubSeq(msg, 1, upTo)
        BY <3>1, CutInTwo, Zenon
      <3>. QED
        BY <2>1, <2>3, <2>4, <3>2
    <2>7. f[i] = KcpSend(f[i - 1], piece)
      <3>1. piece = SubSeq(msg, (i - 1) * Chunk + 1, Lesser(i * Chunk, l))
        BY <2>1, <2>3, <2>4, Zenon
      <3>. QED
        BY <1>4, <3>1, Zenon
    <2>8. ~ KcpSendRefused(piece)
      <3>1. Len(piece) <= Chunk
        <4>1. Len(SubSeq(msg, from + 1, upTo)) = upTo - from
          BY <1>2, <2>3
        <4>. QED
          BY <2>3, <2>4, <4>1, ClientAssumption
      <3>. QED
        BY <3>1, NotRefused, ClientAssumption
    <2>9. Carries({f[i - 1]}, receivers, wire, Utterance(bytes \o before, FALSE), read)
      <3>1. Carries({f[i - 1]}, receivers, wire, Utterance(bytes \o Sent(i - 1), FALSE), read)
        BY <1>6
      <3>. QED
        BY <2>5, <3>1, Zenon
    <2>10. Carries({f[i]}, receivers, wire, Utterance((bytes \o before) \o piece, FALSE), read)
      <3>1. Carries({KcpSend(f[i - 1], piece)}, receivers, wire,
                    Utterance((bytes \o before) \o piece, piece = <<>>), read)
        <4>1. PICK sent \in Seq(Data) : sent = bytes \o before
          <5>1. bytes \o before \in Seq(Data)
            OBVIOUS
          <5>. QED
            BY <5>1, Zenon
        <4>. QED
          BY <2>8, <2>9, <4>1, CarriesSend, Zenon
      <3>2. (piece = <<>>) = FALSE
        <4>1. Len(SubSeq(msg, from + 1, upTo)) = upTo - from
          BY <1>2, <2>3
        <4>2. from < upTo
          BY <2>1, <2>2, <2>3, ClientAssumption DEF Lesser
        <4>3. Len(<<>>) = 0 /\ upTo - from # 0
          BY <4>2, EmptySeq
        <4>. QED
          BY <2>4, <4>1, <4>3, Zenon
      <3>. QED
        BY <2>7, <3>1, <3>2, Zenon
    <2>11. (bytes \o before) \o piece = bytes \o Sent(i)
      <3>1. (bytes \o before) \o piece = bytes \o (before \o piece)
        BY ThreeStretches, Zenon
      <3>. QED
        BY <2>6, <3>1, Zenon
    <2>12. Carries({f[i]}, receivers, wire, Utterance(bytes \o Sent(i), FALSE), read)
      BY <2>10, <2>11, Zenon
    <2>13. i \in 0 .. n
      OBVIOUS
    <2>. QED
      BY <2>12, <2>13, Zenon
  <1>7. n \in S
    <2>. HIDE DEF S
    <2>1. \A i \in 1 .. n : i - 1 \in S => i \in S
      BY <1>6
    <2>2. \A i \in 0 .. n : i \in S
      BY <1>5, <2>1, Climb
    <2>. QED
      BY <2>2
  <1>8. Sent(n) = msg
    <2>1. l <= n * Chunk
      <3>1. n = (l + Chunk - 1) \div Chunk
        BY <1>2 DEF PieceCount
      <3>2. l + Chunk - 1 < (n + 1) * Chunk
        BY <3>1, ClientAssumption
      <3>3. (n + 1) * Chunk = n * Chunk + Chunk
        BY ClientAssumption
      <3>. QED
        BY <3>2, <3>3, ClientAssumption
    <2>2. Lesser(n * Chunk, l) = l
      <3>1. PICK to \in Nat : to = n * Chunk
        BY ClientAssumption
      <3>. QED
        BY <2>1, <3>1 DEF Lesser
    <2>3. SubSeq(msg, 1, l) = msg
      BY <1>2
    <2>. QED
      BY <2>2, <2>3, Zenon
  <1>. QED
    BY <1>4, <1>7, <1>8, Zenon

----------------------------------------------------------------------------
(* One direction of one session, in bytes.                                 *)

(* x has said n bytes into it, and its end if it `ends`.  told is the      *)
(* three as the sender's side knows them; said is what every connection of *)
(* that side has said and which of them say no more; heard are the bytes   *)
(* the receiver's side has taken, in its buffers or beyond.  told and heard*)
(* are empty where that side is gone.                                      *)
TalkOf(x, n, ends, read, senders, receivers, wire, told, said, heard) ==
    /\ Carries(senders, receivers, wire, Utterance(Bytes(x, 0, n), ends), read)
    /\ n # 0 => x \in DOMAIN said.counts /\ n <= said.counts[x]
    /\ ends => x \in said.over /\ x \in DOMAIN said.counts /\ n = said.counts[x]
    /\ \A w \in told : w = <<x, n, ends>>
    /\ \A h \in heard : h = read

Talk(x, senders, receivers, wire, told, said, heard) ==
    \E n \in Nat, ends \in BOOLEAN, read \in Seq(Data) :
        TalkOf(x, n, ends, read, senders, receivers, wire, told, said, heard)

(* Nobody has said less than before, nor anything after its end.           *)
Grows(said, later) ==
    /\ \A x \in DOMAIN said.counts :
          /\ x \in DOMAIN later.counts
          /\ \A n \in Nat : n <= said.counts[x] => n <= later.counts[x]
    /\ \A x \in said.over : x \in later.over /\ later.counts[x] = said.counts[x]

(* Parts of it are lost, or its speaker speaks elsewhere.                  *)
Less(fewer, less, lost, still, later, hears, senders, receivers, wire, told, said, heard) ==
    /\ fewer \subseteq senders /\ less \subseteq receivers /\ lost \subseteq wire
    /\ still \subseteq told /\ Grows(said, later) /\ hears \subseteq heard

LEMMA TalkLess ==
    ASSUME NEW x, NEW senders, NEW receivers, NEW wire, NEW told, NEW said, NEW heard,
           Talk(x, senders, receivers, wire, told, said, heard),
           NEW fewer, NEW less, NEW lost, NEW still, NEW later, NEW hears,
           Less(fewer, less, lost, still, later, hears,
                senders, receivers, wire, told, said, heard)
    PROVE  Talk(x, fewer, less, lost, still, later, hears)
  <1>1. PICK n \in Nat, ends \in BOOLEAN, read \in Seq(Data) :
          TalkOf(x, n, ends, read, senders, receivers, wire, told, said, heard)
    BY DEF Talk
  <1>2. Carries(fewer, less, lost, Utterance(Bytes(x, 0, n), ends), read)
    BY <1>1, CarriesLess DEF TalkOf, Less
  <1>3. n # 0 => x \in DOMAIN later.counts /\ n <= later.counts[x]
    BY <1>1 DEF Grows, TalkOf, Less
  <1>4. ends => x \in later.over /\ x \in DOMAIN later.counts /\ n = later.counts[x]
    BY <1>1 DEF Grows, TalkOf, Less
  <1>5. /\ \A w \in still : w = <<x, n, ends>>
        /\ \A h \in hears : h = read
    BY <1>1 DEF TalkOf, Less
  <1>6. TalkOf(x, n, ends, read, fewer, less, lost, still, later, hears)
    BY <1>2, <1>3, <1>4, <1>5, Zenon DEF TalkOf
  <1>. QED
    BY <1>6 DEF Talk

(* No bytes.                                                               *)
LEMMA NoData == <<>> \in Seq(Data)
  OBVIOUS

(* No bytes of anyone, from anywhere.                                      *)
LEMMA NoBytes ==
    ASSUME NEW x, NEW from
    PROVE  Bytes(x, from, 0) = <<>>
  BY DEF Bytes

(* Nothing is said, whoever says it.                                       *)
LEMMA TalkBegun ==
    ASSUME NEW x, NEW senders, NEW receivers,
           Carries(senders, receivers, {}, Utterance(<<>>, FALSE), <<>>),
           NEW told, told \subseteq {<<x, 0, FALSE>>}, NEW said,
           NEW heard, heard \subseteq {<<>>}
    PROVE  Talk(x, senders, receivers, {}, told, said, heard)
  <1>1. PICK none \in Seq(Data) : none = <<>>
    BY NoData, Zenon
  <1>2. PICK n \in Nat, ends \in BOOLEAN : n = 0 /\ ends = FALSE
    OBVIOUS
  <1>3. Carries(senders, receivers, {}, Utterance(Bytes(x, 0, n), ends), none)
    BY <1>1, <1>2, NoBytes, Zenon
  <1>4. ~ (n # 0) /\ ~ ends
    BY <1>2, Zenon
  <1>5. /\ \A w \in told : w = <<x, n, ends>>
        /\ \A h \in heard : h = none
    BY <1>1, <1>2, Zenon
  <1>6. TalkOf(x, n, ends, none, senders, receivers, {}, told, said, heard)
    BY <1>3, <1>4, <1>5, Zenon DEF TalkOf
  <1>. QED
    BY <1>6 DEF Talk

(* It begins.                                                              *)
LEMMA TalkNothing ==
    ASSUME NEW senders, NEW receivers,
           \A k \in senders \cup receivers : \E conv \in Nat : k = KcpCreate(conv),
           NEW x, NEW told \in SUBSET {<<x, 0, FALSE>>}, NEW said,
           NEW heard \in SUBSET {<<>>}
    PROVE  Talk(x, senders, receivers, {}, told, said, heard)
  <1>1. Carries(senders, receivers, {}, Utterance(<<>>, FALSE), <<>>)
    BY CarriesNothing
  <1>. QED
    BY <1>1, TalkBegun

(* A new receiver hears it from the beginning.                             *)
LEMMA TalkToNew ==
    ASSUME NEW x, NEW senders, NEW wire, NEW told, NEW said, NEW heard, NEW conv \in Nat,
           Talk(x, senders, {}, wire, told, said, heard)
    PROVE  Talk(x, senders, {KcpCreate(conv)}, wire, told, said, {<<>>})
  <1>1. PICK n \in Nat, ends \in BOOLEAN, read \in Seq(Data) :
          TalkOf(x, n, ends, read, senders, {}, wire, told, said, heard)
    BY DEF Talk
  <1>2. Carries(senders, {KcpCreate(conv)}, wire, Utterance(Bytes(x, 0, n), ends), <<>>)
    BY <1>1, CarriesToNew DEF TalkOf
  <1>3. PICK none \in Seq(Data) : none = <<>>
    BY NoData, Zenon
  <1>4. TalkOf(x, n, ends, none, senders, {KcpCreate(conv)}, wire, told, said, {<<>>})
    BY <1>1, <1>2, <1>3, Zenon DEF TalkOf
  <1>. QED
    BY <1>4 DEF Talk

(* A new sender begins it again, with a receiver that has nothing.         *)
LEMMA TalkFromNew ==
    ASSUME NEW y, NEW receivers, NEW wire, NEW told, NEW said, NEW heard, NEW conv \in Nat,
           Talk(y, {}, receivers, wire, told, said, heard),
           \A k \in receivers : k.rcv_nxt = 0 /\ k.rcv_buf = {},
           receivers = {} => heard = {}, NEW x, NEW later
    PROVE  Talk(x, {KcpCreate(conv)}, receivers, {}, {<<x, 0, FALSE>>}, later, heard)
  <1>1. PICK n \in Nat, ends \in BOOLEAN, read \in Seq(Data) :
          TalkOf(y, n, ends, read, {}, receivers, wire, told, said, heard)
    BY DEF Talk
  <1>2. /\ Carries({KcpCreate(conv)}, receivers, {}, Utterance(<<>>, FALSE), <<>>)
        /\ receivers # {} => read = <<>>
    BY <1>1, CarriesFromNew DEF TalkOf
  <1>3. heard \subseteq {<<>>}
    BY <1>1, <1>2 DEF TalkOf
  <1>. QED
    BY <1>2, <1>3, TalkBegun

(* Two stretches of what a speaker says are one.                           *)
LEMMA BytesGoOn ==
    ASSUME NEW x, NEW from \in Nat, NEW n \in Nat, NEW m \in Nat
    PROVE  Bytes(x, from, n) \o Bytes(x, from + n, m) = Bytes(x, from, n + m)
  <1>0. PICK T : T = {x} \X Nat
    OBVIOUS
  <1>1. PICK a \in Seq(T), b \in Seq(T), c \in Seq(T) :
          a = Bytes(x, from, n) /\ b = Bytes(x, from + n, m) /\ c = Bytes(x, from, n + m)
    <2>1. ASSUME NEW at \in Nat, NEW upTo \in Nat
          PROVE  Bytes(x, at, upTo) \in Seq(T)
      <3>1. ASSUME NEW i \in 1 .. upTo
            PROVE  <<x, at + i>> \in T
        BY <1>0
      <3>. QED
        BY <3>1 DEF Bytes
    <2>2. from + n \in Nat /\ n + m \in Nat
      OBVIOUS
    <2>3. /\ Bytes(x, from, n) \in Seq(T)
          /\ Bytes(x, from + n, m) \in Seq(T)
          /\ Bytes(x, from, n + m) \in Seq(T)
      BY <2>1, <2>2, Zenon
    <2>. QED
      BY <2>3, Zenon
  <1>2. /\ Len(a) = n /\ \A i \in 1 .. n : a[i] = <<x, from + i>>
        /\ Len(b) = m /\ \A i \in 1 .. m : b[i] = <<x, (from + n) + i>>
        /\ Len(c) = n + m /\ \A i \in 1 .. n + m : c[i] = <<x, from + i>>
    BY <1>1 DEF Bytes
  <1>7. Len(a) = n /\ Len(b) = m
    BY <1>2
  <1>3. PICK d \in Seq(T) : d = a \o b
    <2>1. a \o b \in Seq(T)
      OBVIOUS
    <2>. QED
      BY <2>1, Zenon
  <1>4. /\ Len(d) = n + m
        /\ \A i \in 1 .. n : d[i] = a[i]
        /\ \A i \in 1 .. m : d[n + i] = b[i]
    <2>1. /\ Len(d) = Len(a) + Len(b)
          /\ \A i \in 1 .. Len(a) : d[i] = a[i]
          /\ \A i \in 1 .. Len(b) : d[Len(a) + i] = b[i]
      BY <1>3
    <2>. QED
      BY <1>7, <2>1
  <1>5. ASSUME NEW i \in 1 .. n + m
        PROVE  d[i] = c[i]
    <2>1. CASE i <= n
      <3>1. i \in 1 .. n
        BY <2>1
      <3>. QED
        BY <1>2, <1>4, <3>1, Zenon
    <2>2. CASE i > n
      <3>1. PICK j \in 1 .. m : i = n + j
        <4>1. i - n \in 1 .. m /\ i = n + (i - n)
          BY <2>2
        <4>. QED
          BY <4>1
      <3>2. (from + n) + j = from + i
        BY <3>1
      <3>3. d[i] = b[j] /\ b[j] = <<x, (from + n) + j>> /\ c[i] = <<x, from + i>>
        <4>1. d[n + j] = b[j]
          BY <1>4
        <4>. QED
          BY <1>2, <3>1, <4>1, Zenon
      <3>. QED
        BY <3>2, <3>3, Zenon
    <2>. QED
      BY <2>1, <2>2
  <1>6. d = c
    BY <1>2, <1>4, <1>5
  <1>. QED
    BY <1>1, <1>3, <1>6, Zenon

(* Whom the sender's side knows to speak is who speaks.                    *)
LEMMA TalkTold ==
    ASSUME NEW x, NEW senders, NEW receivers, NEW wire, NEW y, NEW n, NEW ends,
           NEW said, NEW heard,
           Talk(x, senders, receivers, wire, {<<y, n, ends>>}, said, heard)
    PROVE  /\ x = y /\ n \in Nat
           /\ \E read \in Seq(Data) :
                 TalkOf(x, n, ends, read, senders, receivers, wire, {<<y, n, ends>>},
                        said, heard)
  <1>1. PICK m \in Nat, over \in BOOLEAN, read \in Seq(Data) :
          TalkOf(x, m, over, read, senders, receivers, wire, {<<y, n, ends>>}, said, heard)
    BY DEF Talk
  <1>2. <<y, n, ends>> = <<x, m, over>>
    BY <1>1 DEF TalkOf
  <1>3. y = x /\ n = m /\ ends = over
    BY <1>2, Zenon
  <1>. QED
    BY <1>1, <1>3, Zenon

(* What was said so far are bytes.                                         *)
LEMMA TalkBytes ==
    ASSUME NEW x, NEW senders, NEW receivers, NEW wire, NEW y, NEW n, NEW ends,
           NEW said, NEW heard,
           Talk(x, senders, receivers, wire, {<<y, n, ends>>}, said, heard)
    PROVE  Bytes(y, 0, n) \in Seq(Data)
  <1>1. PICK read \in Seq(Data) :
          TalkOf(x, n, ends, read, senders, receivers, wire, {<<y, n, ends>>}, said, heard)
    BY TalkTold, Zenon
  <1>2. x = y
    BY TalkTold
  <1>3. Carries(senders, receivers, wire, Utterance(Bytes(x, 0, n), ends), read)
    BY <1>1 DEF TalkOf
  <1>4. PICK stream \in Seq(Segment) : Speaks(stream, Utterance(Bytes(x, 0, n), ends))
    BY <1>3 DEF Carries
  <1>5. Payload(stream) = Bytes(x, 0, n)
    BY <1>4 DEF Speaks, Utterance
  <1>. QED
    BY <1>2, <1>5, PayloadType, Zenon

(* It has signalled its end only if it has ended.                          *)
LEMMA TalkClosing ==
    ASSUME NEW x, NEW senders, NEW receivers, NEW wire, NEW y, NEW n,
           NEW ends \in BOOLEAN, NEW said, NEW heard,
           Talk(x, senders, receivers, wire, {<<y, n, ends>>}, said, heard)
    PROVE  ends => y \in said.over
  <1>1. x = y
    BY TalkTold
  <1>2. PICK read \in Seq(Data) :
          TalkOf(x, n, ends, read, senders, receivers, wire, {<<y, n, ends>>}, said, heard)
    BY TalkTold
  <1>. QED
    BY <1>1, <1>2, Zenon DEF TalkOf

(* The speaker goes on, or signals that it does not.                       *)
LEMMA TalkSend ==
    ASSUME NEW x, NEW k, NEW receivers, NEW wire, NEW y, NEW n \in Nat, NEW m \in Nat,
           NEW said, NEW heard,
           Talk(x, {k}, receivers, wire, {<<y, n, FALSE>>}, said, heard),
           Bytes(y, n, m) \in Seq(Data),
           NEW later, y \in DOMAIN later.counts, later.counts[y] = n + m,
           m = 0 => y \in later.over
    PROVE  /\ ~ KcpSendRefused(Bytes(y, n, m)) =>
                 Talk(x, {KcpSend(k, Bytes(y, n, m))}, receivers, wire,
                      {<<y, n + m, m = 0>>}, later, heard)
           /\ m # 0 => Talk(x, {Queued(k, Bytes(y, n, m))}, receivers, wire,
                            {<<y, n + m, FALSE>>}, later, heard)
  <1>0. x = y /\ Bytes(y, 0, n) \in Seq(Data)
    BY TalkTold, TalkBytes
  <1>1. PICK read \in Seq(Data) :
          /\ Carries({k}, receivers, wire, Utterance(Bytes(y, 0, n), FALSE), read)
          /\ \A h \in heard : h = read
    <2>1. PICK read \in Seq(Data) :
            TalkOf(x, n, FALSE, read, {k}, receivers, wire, {<<y, n, FALSE>>}, said, heard)
      BY TalkTold
    <2>. QED
      BY <1>0, <2>1 DEF TalkOf
  <1>2. Bytes(y, 0, n) \o Bytes(y, n, m) = Bytes(y, 0, n + m)
    <2>1. 0 \in Nat /\ 0 + n = n
      OBVIOUS
    <2>2. Bytes(y, 0, n) \o Bytes(y, 0 + n, m) = Bytes(y, 0, n + m)
      BY <2>1, BytesGoOn, Zenon
    <2>. QED
      BY <2>1, <2>2, Zenon
  <1>3. n + m \in Nat /\ n + m <= later.counts[y]
    OBVIOUS
  <1>4. ASSUME NEW r, NEW ends \in BOOLEAN, ends => m = 0,
               Carries({r}, receivers, wire, Utterance(Bytes(y, 0, n + m), ends), read)
        PROVE  Talk(x, {r}, receivers, wire, {<<y, n + m, ends>>}, later, heard)
    <2>1. ends => y \in later.over /\ y \in DOMAIN later.counts /\ n + m = later.counts[y]
      BY <1>4, Zenon
    <2>2. TalkOf(y, n + m, ends, read, {r}, receivers, wire, {<<y, n + m, ends>>}, later,
                 heard)
      BY <1>1, <1>3, <1>4, <2>1, Zenon DEF TalkOf
    <2>. QED
      BY <1>0, <1>3, <2>2, Zenon DEF Talk
  <1>5. Bytes(y, n, m) = <<>> <=> m = 0
    <2>1. Len(Bytes(y, n, m)) = m
      BY DEF Bytes
    <2>2. Bytes(y, n, 0) = <<>> /\ Len(<<>>) = 0
      BY NoBytes, EmptySeq
    <2>. QED
      BY <2>1, <2>2, Zenon
  <1>6. ASSUME ~ KcpSendRefused(Bytes(y, n, m))
        PROVE  Talk(x, {KcpSend(k, Bytes(y, n, m))}, receivers, wire,
                    {<<y, n + m, m = 0>>}, later, heard)
    <2>1. Carries({KcpSend(k, Bytes(y, n, m))}, receivers, wire,
                  Utterance(Bytes(y, 0, n) \o Bytes(y, n, m), Bytes(y, n, m) = <<>>), read)
      BY <1>1, <1>6, CarriesSend, Zenon
    <2>2. PICK ends \in BOOLEAN : ends = (m = 0) /\ ends = (Bytes(y, n, m) = <<>>)
      BY <1>5, Zenon
    <2>3. Carries({KcpSend(k, Bytes(y, n, m))}, receivers, wire,
                  Utterance(Bytes(y, 0, n + m), ends), read)
      BY <1>2, <2>1, <2>2, Zenon
    <2>4. ends => m = 0
      BY <2>2, Zenon
    <2>5. Talk(x, {KcpSend(k, Bytes(y, n, m))}, receivers, wire,
               {<<y, n + m, ends>>}, later, heard)
      BY <1>4, <2>3, <2>4, Zenon
    <2>. QED
      BY <2>2, <2>5, Zenon
  <1>7. ASSUME m # 0
        PROVE  Talk(x, {Queued(k, Bytes(y, n, m))}, receivers, wire,
                    {<<y, n + m, FALSE>>}, later, heard)
    <2>1. Carries({Queued(k, Bytes(y, n, m))}, receivers, wire,
                  Utterance(Bytes(y, 0, n) \o Bytes(y, n, m), FALSE), read)
      BY <1>0, <1>1, CarriesQueued, Zenon
    <2>2. Carries({Queued(k, Bytes(y, n, m))}, receivers, wire,
                  Utterance(Bytes(y, 0, n + m), FALSE), read)
      BY <1>2, <2>1, Zenon
    <2>. QED
      BY <1>4, <2>2, Zenon
  <1>. QED
    BY <1>6, <1>7

(* The sender's timer.                                                     *)
LEMMA TalkFlush ==
    ASSUME NEW x, NEW k, NEW due, NEW probeDue \in BOOLEAN, NEW cuts,
           NEW out \in SUBSET KcpOutput(k, due, probeDue, cuts),
           NEW receivers, NEW wire, NEW told, NEW said, NEW heard,
           Talk(x, {k}, receivers, wire, told, said, heard)
    PROVE  Talk(x, {KcpFlush(k, due)}, receivers, wire \cup out, told, said, heard)
  <1>1. PICK n \in Nat, ends \in BOOLEAN, read \in Seq(Data) :
          TalkOf(x, n, ends, read, {k}, receivers, wire, told, said, heard)
    BY DEF Talk
  <1>2. Carries({KcpFlush(k, due)}, receivers, wire \cup out, Utterance(Bytes(x, 0, n), ends),
                read)
    BY <1>1, CarriesFlush DEF TalkOf
  <1>3. TalkOf(x, n, ends, read, {KcpFlush(k, due)}, receivers, wire \cup out, told, said,
               heard)
    BY <1>1, <1>2, Zenon DEF TalkOf
  <1>. QED
    BY <1>3 DEF Talk

(* A datagram arrives at the receiver.                                     *)
LEMMA TalkInput ==
    ASSUME NEW x, NEW k, NEW d, NEW grow \in BOOLEAN,
           NEW senders, NEW wire, d \in wire, NEW told, NEW said, NEW heard,
           Talk(x, senders, {k}, wire, told, said, heard)
    PROVE  Talk(x, senders, {KcpInput(k, d, grow)}, wire, told, said, heard)
  <1>1. PICK n \in Nat, ends \in BOOLEAN, read \in Seq(Data) :
          TalkOf(x, n, ends, read, senders, {k}, wire, told, said, heard)
    BY DEF Talk
  <1>2. Carries(senders, {KcpInput(k, d, grow)}, wire, Utterance(Bytes(x, 0, n), ends), read)
    BY <1>1, CarriesInput DEF TalkOf
  <1>3. TalkOf(x, n, ends, read, senders, {KcpInput(k, d, grow)}, wire, told, said, heard)
    BY <1>1, <1>2, Zenon DEF TalkOf
  <1>. QED
    BY <1>3 DEF Talk

(* The receiver takes a message.                                           *)
LEMMA TalkRecv ==
    ASSUME NEW x, NEW k, k.rcv_queue # <<>>, k \in ControlBlock,
           NEW senders, NEW wire, NEW told, NEW said, NEW heard,
           Talk(x, senders, {k}, wire, told, said, heard)
    PROVE  Talk(x, senders, {KcpRecv(k)}, wire, told, said,
                {h \o Payload(FirstMessage(k)) : h \in heard})
  <1>1. PICK n \in Nat, ends \in BOOLEAN, read \in Seq(Data) :
          TalkOf(x, n, ends, read, senders, {k}, wire, told, said, heard)
    BY DEF Talk
  <1>2. PICK msg \in Seq(Data) : msg = Payload(FirstMessage(k))
    BY FirstMessageType, PayloadType
  <1>3. PICK more \in Seq(Data) : more = read \o msg
    <2>1. read \o msg \in Seq(Data)
      OBVIOUS
    <2>. QED
      BY <2>1, Zenon
  <1>4. Carries(senders, {KcpRecv(k)}, wire, Utterance(Bytes(x, 0, n), ends), more)
    BY <1>1, <1>2, <1>3, CarriesRecv DEF TalkOf
  <1>5. \A h \in {g \o Payload(FirstMessage(k)) : g \in heard} : h = more
    BY <1>1, <1>2, <1>3 DEF TalkOf
  <1>6. TalkOf(x, n, ends, more, senders, {KcpRecv(k)}, wire, told, said,
               {h \o Payload(FirstMessage(k)) : h \in heard})
    BY <1>1, <1>4, <1>5, Zenon DEF TalkOf
  <1>. QED
    BY <1>6 DEF Talk

(* The receiver takes the close signal: its speaker has ended, and all it  *)
(* said was taken before.                                                  *)
LEMMA TalkEnd ==
    ASSUME NEW x, NEW k, k.rcv_queue # <<>>, Payload(FirstMessage(k)) = <<>>,
           NEW senders, NEW wire, NEW told, NEW said, NEW heard,
           Talk(x, senders, {k}, wire, told, said, heard)
    PROVE  /\ x \in said.over /\ x \in DOMAIN said.counts
           /\ \A h \in heard : Len(h) = said.counts[x]
  <1>1. PICK n \in Nat, ends \in BOOLEAN, read \in Seq(Data) :
          TalkOf(x, n, ends, read, senders, {k}, wire, told, said, heard)
    BY DEF Talk
  <1>2. Carries(senders, {k}, wire, Utterance(Bytes(x, 0, n), ends), read)
    BY <1>1 DEF TalkOf
  <1>3. /\ Utterance(Bytes(x, 0, n), ends).ends
        /\ read = Utterance(Bytes(x, 0, n), ends).bytes
    BY <1>2, CarriesEnd, Zenon
  <1>4. ends /\ read = Bytes(x, 0, n)
    BY <1>3 DEF Utterance
  <1>5. Len(Bytes(x, 0, n)) = n
    BY DEF Bytes
  <1>6. x \in said.over /\ x \in DOMAIN said.counts /\ n = said.counts[x]
    BY <1>1, <1>4, Zenon DEF TalkOf
  <1>7. \A h \in heard : h = Bytes(x, 0, n)
    BY <1>1, <1>4, Zenon DEF TalkOf
  <1>. QED
    BY <1>5, <1>6, <1>7, Zenon

(* Calls that concern the other direction.                                 *)
LEMMA TalkSender ==
    ASSUME NEW x, NEW k, NEW r \in ControlBlock, r.snd_nxt = k.snd_nxt,
           r.snd_queue = k.snd_queue, r.snd_buf \subseteq k.snd_buf,
           NEW receivers, NEW wire, NEW told, NEW said, NEW heard,
           Talk(x, {k}, receivers, wire, told, said, heard)
    PROVE  Talk(x, {r}, receivers, wire, told, said, heard)
  <1>1. PICK n \in Nat, ends \in BOOLEAN, read \in Seq(Data) :
          TalkOf(x, n, ends, read, {k}, receivers, wire, told, said, heard)
    BY DEF Talk
  <1>2. Carries({r}, receivers, wire, Utterance(Bytes(x, 0, n), ends), read)
    BY <1>1, CarriesSender DEF TalkOf
  <1>3. TalkOf(x, n, ends, read, {r}, receivers, wire, told, said, heard)
    BY <1>1, <1>2, Zenon DEF TalkOf
  <1>. QED
    BY <1>3 DEF Talk

(* And the other way round.                                                *)
LEMMA TalkReceiver ==
    ASSUME NEW x, NEW k, NEW r \in ControlBlock, SameReceiver(r, k),
           NEW senders, NEW wire, NEW told, NEW said, NEW heard,
           Talk(x, senders, {k}, wire, told, said, heard)
    PROVE  Talk(x, senders, {r}, wire, told, said, heard)
  <1>1. PICK n \in Nat, ends \in BOOLEAN, read \in Seq(Data) :
          TalkOf(x, n, ends, read, senders, {k}, wire, told, said, heard)
    BY DEF Talk
  <1>2. Carries(senders, {r}, wire, Utterance(Bytes(x, 0, n), ends), read)
    BY <1>1, CarriesReceiver DEF TalkOf
  <1>3. TalkOf(x, n, ends, read, senders, {r}, wire, told, said, heard)
    BY <1>1, <1>2, Zenon DEF TalkOf
  <1>. QED
    BY <1>3 DEF Talk

----------------------------------------------------------------------------
(* Both directions of every session.                                       *)

(* The two directions of the session with one key, in a state of both      *)
(* programs and the path.                                                  *)

Kcps(map, key) == {map[i].kcp : i \in DOMAIN map \cap {key}}

Wire(under, key) == {p[2] : p \in {q \in under : Bears(q, key)}}

(* A datagram to a session that is not there is dropped; if there is a     *)
(* session under the key later, it is a new one.                           *)
WireBack(key) == IF key \in DOMAIN sessions THEN Wire(toClient, key) ELSE {}

Told(key) ==
    {<<proxies[i].pc, pcs[proxies[i].pc].said, FALSE>> : i \in DOMAIN sessions \cap {key}}

(* A PC that says no more does not tell the server.                        *)
PcSaid == [counts |-> [c \in Pcs |-> pcs[c].said], over |-> {}]

TargetHeard(key) ==
    {targets[tasks[i].sock].heard \o tasks[i].buf : i \in DOMAIN tasks \cap {key}}

Answered(key) ==
    {<<tasks[i].sock, targets[tasks[i].sock].said, tasks[i].closing>> :
        i \in DOMAIN tasks \cap {key}}

TargetSaid ==
    [counts |-> [k \in DOMAIN targets |-> targets[k].said],
     over   |-> {k \in DOMAIN targets : targets[k].state # "open"}]

PcHeard(key) ==
    {(pcs[proxies[i].pc].heard \o proxies[i].buf) \o sessions[i].buf :
        i \in {j \in DOMAIN sessions \cap {key} : pcs[proxies[j].pc].state = "open"}}

(* x speaks to the target in it, y to the PC.                              *)
Up(key, x) ==
    Talk(x, Kcps(sessions, key), Kcps(tasks, key), Wire(toServer, key),
         Told(key), PcSaid, TargetHeard(key))

Down(key, y) ==
    Talk(y, Kcps(tasks, key), Kcps(sessions, key), WireBack(key),
         Answered(key), TargetSaid, PcHeard(key))

(* Each of the sets above has one member or none.                          *)
LEMMA ClientSide ==
    ASSUME NEW key
    PROVE  /\ key \in DOMAIN sessions =>
                 /\ Kcps(sessions, key) = {sessions[key].kcp}
                 /\ Told(key) = {<<proxies[key].pc, pcs[proxies[key].pc].said, FALSE>>}
                 /\ WireBack(key) = Wire(toClient, key)
                 /\ PcHeard(key) =
                      IF pcs[proxies[key].pc].state = "open"
                      THEN {(pcs[proxies[key].pc].heard \o proxies[key].buf)
                               \o sessions[key].buf}
                      ELSE {}
           /\ key \notin DOMAIN sessions =>
                 /\ Kcps(sessions, key) = {}
                 /\ Told(key) = {} /\ WireBack(key) = {} /\ PcHeard(key) = {}
  BY DEF Kcps, Told, WireBack, PcHeard

(* What the two directions are made of at the server.                      *)
LEMMA ServerSide ==
    ASSUME NEW key
    PROVE  /\ key \in DOMAIN tasks =>
                 /\ Kcps(tasks, key) = {tasks[key].kcp}
                 /\ Answered(key) = {<<tasks[key].sock, targets[tasks[key].sock].said,
                                     tasks[key].closing>>}
                 /\ TargetHeard(key) = {targets[tasks[key].sock].heard \o tasks[key].buf}
           /\ key \notin DOMAIN tasks =>
                 Kcps(tasks, key) = {} /\ Answered(key) = {} /\ TargetHeard(key) = {}
  BY DEF Kcps, Answered, TargetHeard

(* A step only takes parts away from a direction, or its speaker speaks    *)
(* elsewhere.                                                              *)
UpLess(key) ==
    Less(Kcps(sessions', key), Kcps(tasks', key), Wire(toServer', key),
         Told(key)', PcSaid', TargetHeard(key)',
         Kcps(sessions, key), Kcps(tasks, key), Wire(toServer, key),
         Told(key), PcSaid, TargetHeard(key))

DownLess(key) ==
    Less(Kcps(tasks', key), Kcps(sessions', key), WireBack(key)',
         Answered(key)', TargetSaid', PcHeard(key)',
         Kcps(tasks, key), Kcps(sessions, key), WireBack(key),
         Answered(key), TargetSaid, PcHeard(key))

(* Who speaks in a session goes on to do so, through the step.             *)
UpKept(key) == \A x : Up(key, x) => Up(key, x)'
DownKept(key) == \A y : Down(key, y) => Down(key, y)'

Kept(key) == UpKept(key) /\ DownKept(key)

LEMMA UpGoesOn ==
    ASSUME NEW key, UpLess(key)
    PROVE  UpKept(key)
  <1>. SUFFICES ASSUME NEW x, Up(key, x) PROVE Up(key, x)'
    BY DEF UpKept
  <1>1. Talk(x, Kcps(sessions', key), Kcps(tasks', key), Wire(toServer', key),
             Told(key)', PcSaid', TargetHeard(key)')
    BY TalkLess, Zenon DEF Up, UpLess
  <1>. QED
    BY <1>1 DEF Up

LEMMA DownGoesOn ==
    ASSUME NEW key, DownLess(key)
    PROVE  DownKept(key)
  <1>. SUFFICES ASSUME NEW y, Down(key, y) PROVE Down(key, y)'
    BY DEF DownKept
  <1>1. Talk(y, Kcps(tasks', key), Kcps(sessions', key), WireBack(key)',
             Answered(key)', TargetSaid', PcHeard(key)')
    BY TalkLess, Zenon DEF Down, DownLess
  <1>. QED
    BY <1>1 DEF Down

(* The client side changes elsewhere, or this session is only lost to it,  *)
(* or its bytes only move on.                                              *)
LEMMA ClientFrame ==
    ASSUME NEW key,
           UNCHANGED serverVars, toClient' \subseteq toClient,
           Wire(toServer', key) \subseteq Wire(toServer, key),
           Grows(PcSaid, PcSaid'),
           key \in DOMAIN sessions' =>
              /\ key \in DOMAIN sessions
              /\ sessions'[key].kcp = sessions[key].kcp
              /\ proxies'[key].pc = proxies[key].pc
              /\ pcs'[proxies[key].pc].said = pcs[proxies[key].pc].said
              /\ pcs'[proxies[key].pc].state = "open" =>
                    /\ pcs[proxies[key].pc].state = "open"
                    /\ (pcs'[proxies[key].pc].heard \o proxies'[key].buf)
                          \o sessions'[key].buf
                       = (pcs[proxies[key].pc].heard \o proxies[key].buf)
                          \o sessions[key].buf
    PROVE  Kept(key)
  <1>1. /\ Kcps(sessions', key) \subseteq Kcps(sessions, key)
        /\ Told(key)' \subseteq Told(key)
        /\ WireBack(key)' \subseteq WireBack(key)
        /\ PcHeard(key)' \subseteq PcHeard(key)
    <2>1. CASE key \notin DOMAIN sessions'
      BY <2>1 DEF Kcps, Told, WireBack, PcHeard
    <2>2. CASE key \in DOMAIN sessions'
      <3>1. Wire(toClient', key) \subseteq Wire(toClient, key)
        BY DEF Wire
      <3>2. Kcps(sessions', key) \subseteq Kcps(sessions, key)
        BY <2>2 DEF Kcps
      <3>3. Told(key)' \subseteq Told(key)
        BY <2>2 DEF Told
      <3>4. WireBack(key)' \subseteq WireBack(key)
        BY <2>2, <3>1 DEF WireBack
      <3>5. PcHeard(key)' \subseteq PcHeard(key)
        BY <2>2 DEF PcHeard
      <3>. QED
        BY <3>2, <3>3, <3>4, <3>5
    <2>. QED
      BY <2>1, <2>2
  <1>2. /\ Kcps(tasks', key) = Kcps(tasks, key)
        /\ Answered(key)' = Answered(key)
        /\ TargetHeard(key)' = TargetHeard(key)
        /\ TargetSaid' = TargetSaid
    BY DEF serverVars, Kcps, Answered, TargetHeard, TargetSaid
  <1>3. Grows(TargetSaid, TargetSaid')
    BY <1>2 DEF Grows
  <1>4. UpLess(key)
    BY <1>1, <1>2 DEF UpLess, Less
  <1>5. DownLess(key)
    BY <1>1, <1>2, <1>3 DEF DownLess, Less
  <1>. QED
    BY <1>4, <1>5, UpGoesOn, DownGoesOn DEF Kept

(* The server side changes elsewhere, or this task is only lost to it, or  *)
(* its bytes only move on.                                                 *)
LEMMA ServerFrame ==
    ASSUME NEW key,
           UNCHANGED clientVars, toServer' \subseteq toServer,
           Wire(toClient', key) \subseteq Wire(toClient, key),
           Grows(TargetSaid, TargetSaid'),
           key \in DOMAIN tasks' =>
              /\ key \in DOMAIN tasks
              /\ tasks'[key].kcp = tasks[key].kcp
              /\ tasks'[key].sock = tasks[key].sock
              /\ tasks'[key].closing = tasks[key].closing
              /\ targets'[tasks[key].sock].said = targets[tasks[key].sock].said
              /\ targets'[tasks[key].sock].heard \o tasks'[key].buf
                 = targets[tasks[key].sock].heard \o tasks[key].buf
    PROVE  Kept(key)
  <1>1. /\ Kcps(tasks', key) \subseteq Kcps(tasks, key)
        /\ Answered(key)' \subseteq Answered(key)
        /\ TargetHeard(key)' \subseteq TargetHeard(key)
    <2>1. CASE key \notin DOMAIN tasks'
      BY <2>1 DEF Kcps, Answered, TargetHeard
    <2>2. CASE key \in DOMAIN tasks'
      <3>2. Kcps(tasks', key) \subseteq Kcps(tasks, key)
        BY <2>2 DEF Kcps
      <3>3. Answered(key)' \subseteq Answered(key)
        BY <2>2 DEF Answered
      <3>4. TargetHeard(key)' \subseteq TargetHeard(key)
        BY <2>2 DEF TargetHeard
      <3>. QED
        BY <3>2, <3>3, <3>4
    <2>. QED
      BY <2>1, <2>2
  <1>2. /\ Kcps(sessions', key) = Kcps(sessions, key)
        /\ Told(key)' = Told(key)
        /\ PcHeard(key)' = PcHeard(key)
        /\ PcSaid' = PcSaid
    BY DEF clientVars, Kcps, Told, PcHeard, PcSaid
  <1>3. Wire(toServer', key) \subseteq Wire(toServer, key)
    BY DEF Wire
  <1>4. WireBack(key)' \subseteq WireBack(key)
    BY DEF clientVars, WireBack
  <1>5. Grows(PcSaid, PcSaid')
    BY <1>2 DEF Grows
  <1>6. UpLess(key)
    BY <1>1, <1>2, <1>3, <1>5 DEF UpLess, Less
  <1>7. DownLess(key)
    BY <1>1, <1>2, <1>4 DEF DownLess, Less
  <1>. QED
    BY <1>6, <1>7, UpGoesOn, DownGoesOn DEF Kept

(* A PC that is absent has neither said nor heard anything.                *)
AbsentIsSilent ==
    \A c \in Pcs : pcs[c].state = "absent" => pcs[c].said = 0 /\ pcs[c].heard = <<>>

(* A session begins: it is new to the client, or to the server.            *)
UpBegins(key) ==
    /\ key \in DOMAIN sessions' \ DOMAIN sessions
    /\ \E x : x = proxies'[key].pc /\ Up(key, x)'

DownBegins(key) ==
    /\ key \in DOMAIN tasks' \ DOMAIN tasks
    /\ \E y : y = tasks'[key].sock /\ Down(key, y)'

Goes(key) == (UpKept(key) \/ UpBegins(key)) /\ (DownKept(key) \/ DownBegins(key))

(* What a step does to all that is said.                                   *)
TalkGoesOn == AbsentIsSilent' /\ \A key \in Keys : Goes(key)

(* The directions as they are when the session has k in place of its       *)
(* control block and what it sent is under way.                            *)
UpWith(key, x, k, under) ==
    Talk(x, {k}, Kcps(tasks, key), Wire(under, key), Told(key), PcSaid, TargetHeard(key))

DownWith(key, y, k) ==
    Talk(y, Kcps(tasks, key), {k}, WireBack(key), Answered(key), TargetSaid, PcHeard(key))

(* What is said goes on with k.                                            *)
Turns(key, k) ==
    /\ \A x : Up(key, x) => UpWith(key, x, k, toServer')
    /\ \A y : Down(key, y) => DownWith(key, y, k)

(* The session goes.                                                       *)
LEMMA SessionGone ==
    ASSUME NEW key, NEW k, Turns(key, k),
           UNCHANGED serverVars, Grows(PcSaid, PcSaid'), key \notin DOMAIN sessions'
    PROVE  Kept(key)
  <1>1. /\ Kcps(sessions', key) = {} /\ Told(key)' = {}
        /\ WireBack(key)' = {} /\ PcHeard(key)' = {}
    BY DEF Kcps, Told, WireBack, PcHeard
  <1>2. /\ Kcps(tasks', key) = Kcps(tasks, key)
        /\ Answered(key)' = Answered(key)
        /\ TargetHeard(key)' = TargetHeard(key)
        /\ TargetSaid' = TargetSaid
    BY DEF serverVars, Kcps, Answered, TargetHeard, TargetSaid
  <1>3. ASSUME NEW x, Up(key, x)
        PROVE  Up(key, x)'
    <2>1. Less({}, Kcps(tasks, key), Wire(toServer', key), {}, PcSaid', TargetHeard(key),
               {k}, Kcps(tasks, key), Wire(toServer', key), Told(key), PcSaid,
               TargetHeard(key))
      BY DEF Less
    <2>2. UpWith(key, x, k, toServer')
      BY <1>3 DEF Turns
    <2>3. Talk(x, {}, Kcps(tasks, key), Wire(toServer', key), {}, PcSaid', TargetHeard(key))
      BY <2>1, <2>2, TalkLess, Zenon DEF UpWith
    <2>. QED
      BY <1>1, <1>2, <2>3 DEF Up
  <1>4. ASSUME NEW y, Down(key, y)
        PROVE  Down(key, y)'
    <2>1. Grows(TargetSaid, TargetSaid)
      BY DEF Grows
    <2>2. Less(Kcps(tasks, key), {}, {}, Answered(key), TargetSaid, {},
               Kcps(tasks, key), {k}, WireBack(key), Answered(key), TargetSaid,
               PcHeard(key))
      BY <2>1 DEF Less
    <2>3. DownWith(key, y, k)
      BY <1>4 DEF Turns
    <2>4. Talk(y, Kcps(tasks, key), {}, {}, Answered(key), TargetSaid, {})
      BY <2>2, <2>3, TalkLess, Zenon DEF DownWith
    <2>. QED
      BY <1>1, <1>2, <2>4 DEF Down
  <1>. QED
    BY <1>3, <1>4 DEF Kept, UpKept, DownKept

(* And the PC hears more by it.                                            *)
HearsOn(key, k, heard) ==
    /\ \A x : Up(key, x) => UpWith(key, x, k, toServer')
    /\ \A y : Down(key, y) =>
          Talk(y, Kcps(tasks, key), {k}, WireBack(key), Answered(key), TargetSaid, heard)

(* Nothing else of the session changes but its control block, or it        *)
(* hears more.                                                             *)
LEMMA SessionGoesOn ==
    ASSUME NEW key \in DOMAIN sessions, NEW k, NEW heard,
           HearsOn(key, k, heard),
           UNCHANGED <<serverVars, pcs>>, toClient' \subseteq toClient,
           key \in DOMAIN sessions', sessions'[key].kcp = k,
           proxies'[key].pc = proxies[key].pc,
           PcHeard(key)' \subseteq heard
    PROVE  Kept(key)
  <1>1. /\ Kcps(sessions', key) = {k} /\ Told(key)' = Told(key)
        /\ PcSaid' = PcSaid
    <2>1. Kcps(sessions', key) = {k}
      BY DEF Kcps
    <2>2. Told(key)' = Told(key)
      BY DEF Told
    <2>. QED
      BY <2>1, <2>2 DEF PcSaid
  <1>2. /\ Kcps(tasks', key) = Kcps(tasks, key)
        /\ Answered(key)' = Answered(key)
        /\ TargetHeard(key)' = TargetHeard(key)
        /\ TargetSaid' = TargetSaid
    BY DEF serverVars, Kcps, Answered, TargetHeard, TargetSaid
  <1>3. WireBack(key)' \subseteq WireBack(key)
    BY DEF WireBack, Wire
  <1>4. ASSUME NEW x, Up(key, x)
        PROVE  Up(key, x)'
    <2>1. UpWith(key, x, k, toServer')
      BY <1>4 DEF HearsOn
    <2>. QED
      BY <1>1, <1>2, <2>1 DEF Up, UpWith
  <1>5. Grows(TargetSaid, TargetSaid)
    BY DEF Grows
  <1>6. Less(Kcps(tasks, key), {k}, WireBack(key)', Answered(key), TargetSaid, PcHeard(key)',
             Kcps(tasks, key), {k}, WireBack(key), Answered(key), TargetSaid, heard)
    BY <1>3, <1>5 DEF Less
  <1>7. ASSUME NEW y, Down(key, y)
        PROVE  Down(key, y)'
    <2>1. Talk(y, Kcps(tasks, key), {k}, WireBack(key), Answered(key), TargetSaid, heard)
      BY <1>7 DEF HearsOn
    <2>2. Talk(y, Kcps(tasks, key), {k}, WireBack(key)', Answered(key), TargetSaid,
               PcHeard(key)')
      BY <1>6, <2>1, TalkLess, Zenon
    <2>. QED
      BY <1>1, <1>2, <2>2 DEF Down
  <1>. QED
    BY <1>4, <1>7 DEF Kept, UpKept, DownKept

(* TunnelClient::RemoveClient.                                             *)
LEMMA RemoveClientTalk ==
    ASSUME ClientInv, ClientType, AbsentIsSilent,
           NEW key \in DOMAIN proxies, NEW state,
           state \in {"gone", "finished"}, RemoveClient(key, state)
    PROVE  /\ key \notin DOMAIN sessions' /\ AbsentIsSilent' /\ Grows(PcSaid, PcSaid')
           /\ \A i \in DOMAIN sessions' :
                 /\ i # key /\ i \in DOMAIN sessions
                 /\ sessions'[i] = sessions[i] /\ proxies'[i] = proxies[i]
                 /\ pcs'[proxies[i].pc] = pcs[proxies[i].pc]
  <1>1. PICK c \in Pcs : c = proxies[key].pc /\ pcs[c].state # "absent"
    BY DEF ClientInv
  <1>2. /\ \A b \in Pcs \ {c} : pcs'[b] = pcs[b]
        /\ pcs'[c].said = pcs[c].said /\ pcs'[c].heard = pcs[c].heard
        /\ pcs'[c].state # "absent"
    BY <1>1 DEF RemoveClient, ClientType, Pc
  <1>3. AbsentIsSilent'
    BY <1>2 DEF AbsentIsSilent
  <1>4. Grows(PcSaid, PcSaid')
    BY <1>2 DEF Grows, PcSaid
  <1>5. /\ DOMAIN sessions' = DOMAIN sessions \ {key}
        /\ \A i \in DOMAIN sessions' :
              sessions'[i] = sessions[i] /\ proxies'[i] = proxies[i]
    BY DEF RemoveClient, Restrict, ClientInv, MapsAgree
  <1>6. ASSUME NEW i \in DOMAIN sessions'
        PROVE  pcs'[proxies[i].pc] = pcs[proxies[i].pc]
    BY <1>1, <1>2, <1>5 DEF ClientInv, MapsAgree
  <1>. QED
    BY <1>3, <1>4, <1>5, <1>6

(* The client program dies.                                                *)
LEMMA ProgramDiesTalk ==
    ASSUME ClientInv, ClientType, AbsentIsSilent, NEW a, ProgramDies(a)
    PROVE  /\ AbsentIsSilent' /\ Grows(PcSaid, PcSaid')
           /\ \A i \in DOMAIN sessions' :
                 /\ i[1] # a /\ i \in DOMAIN sessions
                 /\ sessions'[i] = sessions[i] /\ proxies'[i] = proxies[i]
                 /\ pcs'[proxies[i].pc] = pcs[proxies[i].pc]
  <1>1. ASSUME NEW c \in Pcs
        PROVE  /\ pcs'[c].said = pcs[c].said /\ pcs'[c].heard = pcs[c].heard
               /\ pcs'[c].state = "absent" => pcs[c].state = "absent"
    BY DEF ProgramDies, ClientType, Pc
  <1>2. AbsentIsSilent'
    BY <1>1 DEF AbsentIsSilent
  <1>3. Grows(PcSaid, PcSaid')
    BY <1>1 DEF Grows, PcSaid
  <1>4. /\ DOMAIN sessions' = {key \in DOMAIN sessions : key[1] # a}
        /\ \A i \in DOMAIN sessions' :
              sessions'[i] = sessions[i] /\ proxies'[i] = proxies[i]
    BY DEF ProgramDies, Without, Restrict, ClientInv, MapsAgree
  <1>5. ASSUME NEW i \in DOMAIN sessions'
        PROVE  pcs'[proxies[i].pc] = pcs[proxies[i].pc]
    <2>1. proxies[i].pc \in Pcs
      BY <1>4 DEF ClientInv, MapsAgree
    <2>2. ASSUME NEW key \in DOMAIN proxies, key[1] = a, proxies[key].pc = proxies[i].pc
          PROVE  FALSE
      BY <1>4, <2>2 DEF ClientInv, MapsAgree
    <2>. QED
      BY <2>1, <2>2 DEF ProgramDies
  <1>. QED
    BY <1>2, <1>3, <1>4, <1>5

----------------------------------------------------------------------------
(* The steps of the client program.                                        *)

(* Stretches of bytes can be grouped in any way.                           *)
Regroup(h, p, first, rest) ==
    (h \o (p \o first)) \o rest = (h \o p) \o (first \o rest)

(* Appending is associative, also for four of them.                        *)
LEMMA FourStretches ==
    ASSUME NEW h \in Seq(Data), NEW p \in Seq(Data), NEW first \in Seq(Data),
           NEW rest \in Seq(Data)
    PROVE  Regroup(h, p, first, rest)
  <1>1. (h \o p) \o first = h \o (p \o first)
    BY ThreeStretches, Zenon
  <1>2. PICK b \in Seq(Data) : b = h \o p
    <2>1. h \o p \in Seq(Data)
      OBVIOUS
    <2>. QED
      BY <2>1, Zenon
  <1>3. (b \o first) \o rest = b \o (first \o rest)
    BY ThreeStretches, Zenon
  <1>. QED
    BY <1>1, <1>2, <1>3, Zenon DEF Regroup

(* Bytes that are pushed out of one buffer into the next stay in order.    *)
InOrder(h, p, s, msg, all) ==
    /\ (h \o (p \o SubSeq(all, 1, Len(msg)))) \o SubSeq(all, Len(msg) + 1, Len(all))
         = ((h \o p) \o s) \o msg
    /\ (h \o p) \o all = ((h \o p) \o s) \o msg

(* What leaves the session's buffer for the proxy's is what came first.    *)
LEMMA PushedOut ==
    ASSUME NEW h \in Seq(Data), NEW p \in Seq(Data), NEW s \in Seq(Data),
           NEW msg \in Seq(Data), NEW all, all = s \o msg
    PROVE  InOrder(h, p, s, msg, all)
  <1>1. all \in Seq(Data) /\ Len(msg) \in 0 .. Len(all) /\ Len(all) \in 0 .. Len(all)
    OBVIOUS
  <1>2. PICK first \in Seq(Data), rest \in Seq(Data) :
          /\ first = SubSeq(all, 1, Len(msg))
          /\ rest = SubSeq(all, Len(msg) + 1, Len(all))
    <2>1. /\ SubSeq(all, 1, Len(msg)) \in Seq(Data)
          /\ SubSeq(all, Len(msg) + 1, Len(all)) \in Seq(Data)
      BY <1>1
    <2>. QED
      BY <2>1, Zenon
  <1>3. first \o rest = all
    <2>1. SubSeq(all, 1, Len(msg)) \o SubSeq(all, Len(msg) + 1, Len(all))
            = SubSeq(all, 1, Len(all))
      BY <1>1, CutInTwo, Zenon
    <2>2. SubSeq(all, 1, Len(all)) = all
      BY <1>1
    <2>. QED
      BY <1>2, <2>1, <2>2, Zenon
  <1>4. (h \o (p \o first)) \o rest = (h \o p) \o (first \o rest)
    <2>1. Regroup(h, p, first, rest)
      BY FourStretches, Zenon
    <2>. QED
      BY <2>1, Zenon DEF Regroup
  <1>5. (h \o p) \o all = ((h \o p) \o s) \o msg
    <2>1. PICK b \in Seq(Data) : b = h \o p
      <3>1. h \o p \in Seq(Data)
        OBVIOUS
      <3>. QED
        BY <3>1, Zenon
    <2>2. (b \o s) \o msg = b \o (s \o msg)
      BY ThreeStretches, ZenonT(60)
    <2>. QED
      BY <2>1, <2>2, Zenon
  <1>. QED
    BY <1>2, <1>3, <1>4, <1>5, Zenon DEF InOrder

(* The session with the key goes on with another control block.            *)
LEMMA ForwardGoesOn ==
    ASSUME ClientType, DOMAIN sessions = DOMAIN proxies, AbsentIsSilent,
           NEW key \in DOMAIN sessions, NEW kcp, NEW buf, NEW heard,
           NEW s \in Session, NEW p \in Proxy, s = sessions[key], p = proxies[key],
           sessions' = [sessions EXCEPT ![key] = [kcp |-> kcp, buf |-> buf]],
           DOMAIN proxies' = DOMAIN proxies,
           \A i \in DOMAIN proxies \ {key} : proxies'[i] = proxies[i],
           proxies'[key].pc = p.pc,
           UNCHANGED <<serverVars, pcs>>, toClient' \subseteq toClient,
           \A i \in Keys \ {key} :
              Wire(toServer', i) \subseteq Wire(toServer, i),
           HearsOn(key, kcp, heard),
           pcs[p.pc].state = "open" =>
              (pcs[p.pc].heard \o proxies'[key].buf) \o buf \in heard
    PROVE  TalkGoesOn
  <1>1. /\ DOMAIN sessions' = DOMAIN sessions
        /\ sessions'[key].kcp = kcp /\ sessions'[key].buf = buf
        /\ \A i \in DOMAIN sessions \ {key} : sessions'[i] = sessions[i]
    OBVIOUS
  <1>2. Kept(key)
    <2>1. PcHeard(key)' \subseteq heard
      <3>1. key \in DOMAIN sessions' /\ pcs' = pcs
        BY <1>1
      <3>2. PcHeard(key)' =
              IF pcs'[proxies'[key].pc].state = "open"
              THEN {(pcs'[proxies'[key].pc].heard \o proxies'[key].buf)
                       \o sessions'[key].buf}
              ELSE {}
        BY <3>1 DEF PcHeard
      <3>. QED
        BY <1>1, <3>1, <3>2
    <2>. QED
      BY <1>1, <2>1, SessionGoesOn
  <1>3. ASSUME NEW i \in Keys, i # key
        PROVE  Kept(i)
    <2>1. Grows(PcSaid, PcSaid')
      BY DEF Grows, PcSaid
    <2>2. i \in DOMAIN sessions' =>
             /\ i \in DOMAIN sessions
             /\ sessions'[i] = sessions[i] /\ proxies'[i] = proxies[i]
      BY <1>1, <1>3
    <2>3. Wire(toServer', i) \subseteq Wire(toServer, i)
      BY <1>3
    <2>. QED
      BY <2>1, <2>2, <2>3, ClientFrame
  <1>4. AbsentIsSilent'
    BY DEF AbsentIsSilent
  <1>. QED
    BY <1>2, <1>3, <1>4 DEF TalkGoesOn, Goes, Kept

(* ForwardData2Client: what ikcp_recv returns is what the PC hears next.   *)
LEMMA ForwardTalk ==
    ASSUME ClientInv, ClientType, AbsentIsSilent,
           NEW key \in DOMAIN sessions, NEW k \in ControlBlock,
           UNCHANGED serverVars, toClient' \subseteq toClient,
           \A i \in Keys \ {key} :
              Wire(toServer', i) \subseteq Wire(toServer, i),
           Turns(key, k), Forward(key, k)
    PROVE  TalkGoesOn
  <1>. DOMAIN sessions = DOMAIN proxies
    BY DEF ClientInv, MapsAgree
  <1>1. PICK s \in Session, p \in Proxy : s = sessions[key] /\ p = proxies[key]
    BY DEF ClientType
  <1>2. /\ s.buf \in Seq(Data) /\ s.kcp \in ControlBlock
        /\ p.buf \in Seq(Data) /\ p.pc \in Pcs
        /\ s = [kcp |-> s.kcp, buf |-> s.buf]
        /\ p = [pc |-> p.pc, buf |-> p.buf]
        /\ pcs[p.pc].heard \in Seq(Data)
    BY DEF Session, Proxy, ClientType, Pc
  <1>3. pcs[p.pc].state = "open" =>
           PcHeard(key) = {(pcs[p.pc].heard \o p.buf) \o s.buf}
    BY <1>1, ClientSide
  <1>4. CASE /\ sessions' = [sessions EXCEPT ![key].kcp = k]
             /\ UNCHANGED <<counter, proxies, pcs>>
    <2>1. sessions' = [sessions EXCEPT ![key] = [s EXCEPT !.kcp = k]]
      BY <1>1, <1>4
    <2>2. sessions' = [sessions EXCEPT ![key] = [kcp |-> k, buf |-> s.buf]]
      BY <2>1, EntryUpdates
    <2>3. pcs[p.pc].state = "open" =>
             (pcs[p.pc].heard \o proxies'[key].buf) \o s.buf \in PcHeard(key)
      BY <1>1, <1>3, <1>4
    <2>4. HearsOn(key, k, PcHeard(key))
      BY DEF Turns, HearsOn, DownWith
    <2>5. /\ UNCHANGED pcs /\ DOMAIN proxies' = DOMAIN proxies
          /\ \A i \in DOMAIN proxies \ {key} : proxies'[i] = proxies[i]
          /\ proxies'[key].pc = p.pc
      BY <1>1, <1>4
    <2>. QED
      BY <1>1, <2>2, <2>3, <2>4, <2>5, ForwardGoesOn
  <1>5. CASE RemoveClient(key, "finished")
    <2>1. /\ key \notin DOMAIN sessions' /\ AbsentIsSilent' /\ Grows(PcSaid, PcSaid')
          /\ \A i \in DOMAIN sessions' :
                /\ i # key /\ i \in DOMAIN sessions
                /\ sessions'[i] = sessions[i] /\ proxies'[i] = proxies[i]
                /\ pcs'[proxies[i].pc] = pcs[proxies[i].pc]
      BY <1>5, RemoveClientTalk
    <2>2. Kept(key)
      BY <2>1, SessionGone
    <2>3. ASSUME NEW i \in Keys, i # key
          PROVE  Kept(i)
      <3>1. Wire(toServer', i) \subseteq Wire(toServer, i)
        BY <2>3
      <3>2. i \in DOMAIN sessions' =>
               /\ i \in DOMAIN sessions
               /\ sessions'[i] = sessions[i] /\ proxies'[i] = proxies[i]
               /\ pcs'[proxies[i].pc] = pcs[proxies[i].pc]
        BY <2>1
      <3>. QED
        BY <2>1, <3>1, <3>2, ClientFrame
    <2>. QED
      BY <2>1, <2>2, <2>3 DEF TalkGoesOn, Goes, Kept
  <1>6. PICK msg, all : msg = Payload(FirstMessage(k)) /\ all = s.buf \o msg
    OBVIOUS
  <1>7. PICK heard : heard = {h \o msg : h \in PcHeard(key)}
    OBVIOUS
  <1>8. ASSUME KcpReceivable(k, ClientBuf - Len(s.buf))
        PROVE  /\ msg \in Seq(Data)
               /\ HearsOn(key, KcpRecv(k), heard)
               /\ pcs[p.pc].state = "open" =>
                     ((pcs[p.pc].heard \o p.buf) \o s.buf) \o msg \in heard
    <2>1. k.rcv_queue # <<>>
      BY <1>8 DEF KcpReceivable, KcpReadable
    <2>2. /\ KcpRecv(k) \in ControlBlock /\ SameSender(KcpRecv(k), k)
          /\ FirstMessage(k) \in Seq(Segment)
      BY <2>1, KcpRecvType, FirstMessageType
    <2>3. msg \in Seq(Data)
      BY <1>6, <2>2, PayloadType
    <2>4. ASSUME NEW x, Up(key, x)
          PROVE  UpWith(key, x, KcpRecv(k), toServer')
      <3>1. UpWith(key, x, k, toServer')
        BY <2>4 DEF Turns
      <3>. QED
        BY <2>2, <3>1, TalkSender DEF UpWith, SameSender
    <2>5. ASSUME NEW y, Down(key, y)
          PROVE  Talk(y, Kcps(tasks, key), {KcpRecv(k)}, WireBack(key), Answered(key),
                      TargetSaid, heard)
      <3>1. DownWith(key, y, k)
        BY <2>5 DEF Turns
      <3>2. Talk(y, Kcps(tasks, key), {KcpRecv(k)}, WireBack(key), Answered(key),
                 TargetSaid, {h \o Payload(FirstMessage(k)) : h \in PcHeard(key)})
        BY <2>1, <3>1, TalkRecv DEF DownWith
      <3>. QED
        BY <1>6, <1>7, <3>2, Zenon
    <2>6. pcs[p.pc].state = "open" =>
             ((pcs[p.pc].heard \o p.buf) \o s.buf) \o msg \in heard
      BY <1>3, <1>7
    <2>. QED
      BY <2>3, <2>4, <2>5, <2>6, Zenon DEF HearsOn
  <1>9. CASE /\ KcpReceivable(k, ClientBuf - Len(s.buf))
             /\ sessions' = [sessions EXCEPT
                   ![key] = [kcp |-> KcpRecv(k), buf |-> SubSeq(all, Len(msg) + 1, Len(all))]]
             /\ proxies' = [proxies EXCEPT ![key].buf = @ \o SubSeq(all, 1, Len(msg))]
             /\ UNCHANGED <<counter, pcs>>
    <2>1. PICK rest : rest = SubSeq(all, Len(msg) + 1, Len(all))
      OBVIOUS
    <2>2. PICK buf : buf = p.buf \o SubSeq(all, 1, Len(msg))
      OBVIOUS
    <2>3. proxies' = [proxies EXCEPT ![key] = [pc |-> p.pc, buf |-> buf]]
      <3>1. proxies' = [proxies EXCEPT ![key] = [p EXCEPT !.buf = buf]]
        BY <1>1, <1>9, <2>2
      <3>. QED
        BY <3>1, EntryUpdates
    <2>4. /\ UNCHANGED pcs /\ DOMAIN proxies' = DOMAIN proxies
          /\ \A i \in DOMAIN proxies \ {key} : proxies'[i] = proxies[i]
          /\ proxies'[key].pc = p.pc /\ proxies'[key].buf = buf
      <3>1. /\ DOMAIN proxies' = DOMAIN proxies
            /\ \A i \in DOMAIN proxies \ {key} : proxies'[i] = proxies[i]
            /\ proxies'[key] = [pc |-> p.pc, buf |-> buf]
        BY <2>3
      <3>2. proxies'[key].pc = p.pc /\ proxies'[key].buf = buf
        BY <3>1
      <3>. QED
        BY <1>9, <3>1, <3>2
    <2>5. pcs[p.pc].state = "open" =>
             (pcs[p.pc].heard \o proxies'[key].buf) \o rest \in heard
      <3>1. (pcs[p.pc].heard \o buf) \o rest
              = ((pcs[p.pc].heard \o p.buf) \o s.buf) \o msg
        <4>1. PICK h \in Seq(Data), b \in Seq(Data), c \in Seq(Data), m \in Seq(Data) :
                h = pcs[p.pc].heard /\ b = p.buf /\ c = s.buf /\ m = msg
          BY <1>2, <1>8, <1>9
        <4>2. all = c \o m
          BY <1>6, <4>1, Zenon
        <4>3. InOrder(h, b, c, m, all)
          BY <4>2, PushedOut, Zenon
        <4>. QED
          BY <2>1, <2>2, <4>1, <4>3, Zenon DEF InOrder
      <3>. QED
        BY <1>8, <1>9, <2>4, <3>1, Zenon
    <2>6. sessions' = [sessions EXCEPT ![key] = [kcp |-> KcpRecv(k), buf |-> rest]]
      BY <1>9, <2>1, Zenon
    <2>7. HearsOn(key, KcpRecv(k), heard)
      BY <1>8, <1>9
    <2>. QED
      BY <1>1, <2>4, <2>5, <2>6, <2>7, ForwardGoesOn
  <1>10. CASE /\ KcpReceivable(k, ClientBuf - Len(s.buf))
              /\ sessions' = [sessions EXCEPT ![key] = [kcp |-> KcpRecv(k), buf |-> all]]
              /\ UNCHANGED <<counter, proxies, pcs>>
    <2>1. /\ UNCHANGED pcs /\ DOMAIN proxies' = DOMAIN proxies
          /\ \A i \in DOMAIN proxies \ {key} : proxies'[i] = proxies[i]
          /\ proxies'[key].pc = p.pc /\ proxies'[key].buf = p.buf
      BY <1>1, <1>10
    <2>2. pcs[p.pc].state = "open" =>
             (pcs[p.pc].heard \o proxies'[key].buf) \o all \in heard
      <3>1. (pcs[p.pc].heard \o p.buf) \o all
              = ((pcs[p.pc].heard \o p.buf) \o s.buf) \o msg
        <4>1. PICK h \in Seq(Data), b \in Seq(Data), c \in Seq(Data), m \in Seq(Data) :
                h = pcs[p.pc].heard /\ b = p.buf /\ c = s.buf /\ m = msg
          BY <1>2, <1>8, <1>10
        <4>2. all = c \o m
          BY <1>6, <4>1, Zenon
        <4>3. InOrder(h, b, c, m, all)
          BY <4>2, PushedOut, Zenon
        <4>. QED
          BY <4>1, <4>3, Zenon DEF InOrder
      <3>. QED
        BY <1>8, <1>10, <2>1, <3>1, Zenon
    <2>3. HearsOn(key, KcpRecv(k), heard)
      BY <1>8, <1>10
    <2>. QED
      BY <1>1, <1>10, <2>1, <2>2, <2>3, ForwardGoesOn
  <1>. QED
    BY <1>1, <1>4, <1>5, <1>6, <1>9, <1>10, Zenon DEF Forward

(* What a session there is says goes on with its control block.            *)
LEMMA SessionThere ==
    ASSUME NEW key \in DOMAIN sessions
    PROVE  /\ \A x : Up(key, x) => UpWith(key, x, sessions[key].kcp, toServer)
           /\ \A y : Down(key, y) => DownWith(key, y, sessions[key].kcp)
  BY ClientSide DEF Up, Down, UpWith, DownWith

(* All that is new on the wire of a session is output of its flush.        *)
SentBy(k, due, key, wire, after) ==
    \E probeDue \in BOOLEAN : \E cuts, out :
        /\ out \subseteq KcpOutput(k, due, probeDue, cuts)
        /\ Wire(after, key) \subseteq Wire(wire, key) \cup out

(* What a program sends for the session with one key bears that key.       *)
LEMMA EmitsWire ==
    ASSUME NEW key \in Keys, NEW k \in ControlBlock, k.conv = key[2],
           NEW due, NEW wire, NEW after, Emits(key[1], k, due, wire, after)
    PROVE  /\ SentBy(k, due, key, wire, after)
           /\ \A i \in Keys \ {key} : Wire(after, i) \subseteq Wire(wire, i)
  <1>1. PICK probeDue \in BOOLEAN :
          \E cuts : \E kept \in SUBSET ({key[1]} \X KcpOutput(k, due, probeDue, cuts)) :
              after = wire \cup kept
    BY ProbeTimerType, Zenon DEF Emits
  <1>2. PICK cuts :
          \E kept \in SUBSET ({key[1]} \X KcpOutput(k, due, probeDue, cuts)) :
              after = wire \cup kept
    BY <1>1
  <1>3. PICK kept \in SUBSET ({key[1]} \X KcpOutput(k, due, probeDue, cuts)) :
              after = wire \cup kept
    BY <1>2
  <1>4. PICK out : out = {p[2] : p \in kept}
    OBVIOUS
  <1>5. out \subseteq KcpOutput(k, due, probeDue, cuts)
    BY <1>4
  <1>6. Wire(after, key) \subseteq Wire(wire, key) \cup out
    BY <1>3, <1>4 DEF Wire
  <1>7. ASSUME NEW i \in Keys, i # key
        PROVE  Wire(after, i) \subseteq Wire(wire, i)
    <2>1. ASSUME NEW p \in kept
          PROVE  ~ Bears(p, i)
      <3>1. p[1] = key[1] /\ p[2] \in KcpOutput(k, due, probeDue, cuts)
        OBVIOUS
      <3>2. p[2].conv = key[2]
        BY <3>1, OutputConv
      <3>3. <<key[1], key[2]>> = key
        BY DEF Keys
      <3>. QED
        BY <1>7, <3>1, <3>2, <3>3 DEF Bears
    <2>. QED
      BY <1>3, <2>1 DEF Wire
  <1>8. SentBy(k, due, key, wire, after)
    BY <1>5, <1>6 DEF SentBy
  <1>. QED
    BY <1>7, <1>8

(* A round of UpdateCB after its ikcp_update, or ReadCB after its          *)
(* ikcp_input.                                                             *)
LEMMA ClientUpdateTalk ==
    ASSUME ClientInv, ClientType, AbsentIsSilent,
           NEW key \in DOMAIN sessions, NEW k \in ControlBlock,
           UNCHANGED serverVars, toClient' \subseteq toClient,
           \A i \in Keys \ {key} :
              Wire(toServer', i) \subseteq Wire(toServer, i),
           Turns(key, k),
           Forward(key, k) \/ ProgramDies(key[1])
    PROVE  TalkGoesOn
  <1>1. CASE Forward(key, k)
    BY <1>1, ForwardTalk
  <1>2. CASE ProgramDies(key[1])
    <2>1. /\ AbsentIsSilent' /\ Grows(PcSaid, PcSaid')
          /\ \A i \in DOMAIN sessions' :
                /\ i[1] # key[1] /\ i \in DOMAIN sessions
                /\ sessions'[i] = sessions[i] /\ proxies'[i] = proxies[i]
                /\ pcs'[proxies[i].pc] = pcs[proxies[i].pc]
      BY <1>2, ProgramDiesTalk
    <2>2. key \notin DOMAIN sessions'
      BY <2>1
    <2>3. Kept(key)
      BY <2>1, <2>2, SessionGone
    <2>4. ASSUME NEW i \in Keys, i # key
          PROVE  Kept(i)
      <3>1. Wire(toServer', i) \subseteq Wire(toServer, i)
        BY <2>4
      <3>2. i \in DOMAIN sessions' =>
               /\ i \in DOMAIN sessions
               /\ sessions'[i] = sessions[i] /\ proxies'[i] = proxies[i]
               /\ pcs'[proxies[i].pc] = pcs[proxies[i].pc]
        BY <2>1
      <3>. QED
        BY <2>1, <3>1, <3>2, ClientFrame
    <2>. QED
      BY <2>1, <2>3, <2>4 DEF TalkGoesOn, Goes, Kept
  <1>. QED
    BY <1>1, <1>2

(* A callback of the client's timer or UDP socket that finds a session has *)
(* the control block k in its place, which has received nothing unless a   *)
(* datagram came, and forwards what it can.                                *)
ClientRound(key, k) ==
    /\ key \in DOMAIN sessions /\ k \in ControlBlock /\ Turns(key, k)
    /\ toClient' \subseteq toClient
    /\ \A i \in Keys \ {key} : Wire(toServer', i) \subseteq Wire(toServer, i)
    /\ SameReceiver(k, sessions[key].kcp) \/ \E p \in toClient : Bears(p, key)
    /\ \/ Forward(key, k)
       \/ /\ KcpReceivable(k, ClientBuf - Len(sessions[key].buf))
          /\ Payload(FirstMessage(k)) = <<>>
          /\ ProgramDies(key[1])

(* The client's timer.                                                     *)
LEMMA ClientTickRound ==
    ASSUME ClientType, NEW key \in DOMAIN sessions, ClientTick(key)
    PROVE  \E k : ClientRound(key, k)
  <1>1. PICK k \in ControlBlock : k = sessions[key].kcp /\ k.conv = key[2]
    BY DEF ClientType, Session
  <1>2. key \in Keys
    BY DEF ClientType
  <1>3. /\ \A x : Up(key, x) => UpWith(key, x, k, toServer)
        /\ \A y : Down(key, y) => DownWith(key, y, k)
    BY <1>1, SessionThere
  <1>4. CASE ClientUpdate(key, FALSE, {}) /\ UNCHANGED net
    <2>1. \/ Forward(key, k)
          \/ /\ KcpReceivable(k, ClientBuf - Len(sessions[key].buf))
             /\ Payload(FirstMessage(k)) = <<>>
             /\ ProgramDies(key[1])
      BY <1>1, <1>4, Zenon DEF ClientUpdate
    <2>2. Turns(key, k)
      BY <1>3, <1>4 DEF net, Turns
    <2>3. /\ toClient' \subseteq toClient
          /\ \A i \in Keys \ {key} : Wire(toServer', i) \subseteq Wire(toServer, i)
      BY <1>4 DEF net
    <2>4. SameReceiver(k, sessions[key].kcp)
      BY <1>1 DEF SameReceiver
    <2>. QED
      BY <2>1, <2>2, <2>3, <2>4, Zenon DEF ClientRound
  <1>5. ASSUME NEW due, ClientUpdate(key, TRUE, due),
               Emits(key[1], k, due, toServer, toServer'), UNCHANGED toClient
        PROVE  \E r : ClientRound(key, r)
    <2>1. PICK r \in ControlBlock : r = KcpFlush(k, due) /\ SameReceiver(r, k)
      BY KcpFlushType
    <2>2. \/ Forward(key, r)
          \/ /\ KcpReceivable(r, ClientBuf - Len(sessions[key].buf))
             /\ Payload(FirstMessage(r)) = <<>>
             /\ ProgramDies(key[1])
      BY <1>1, <1>5, <2>1, Zenon DEF ClientUpdate
    <2>3. PICK probeDue \in BOOLEAN : \E cuts, out :
            /\ out \subseteq KcpOutput(k, due, probeDue, cuts)
            /\ Wire(toServer', key) \subseteq Wire(toServer, key) \cup out
      <3>1. SentBy(k, due, key, toServer, toServer')
        BY <1>1, <1>2, <1>5, EmitsWire
      <3>. QED
        BY <3>1 DEF SentBy
    <2>4. PICK cuts, out :
            /\ out \subseteq KcpOutput(k, due, probeDue, cuts)
            /\ Wire(toServer', key) \subseteq Wire(toServer, key) \cup out
      BY <2>3
    <2>5. ASSUME NEW x, Up(key, x)
          PROVE  UpWith(key, x, r, toServer')
      <3>1. UpWith(key, x, k, toServer)
        BY <1>3, <2>5
      <3>2. Talk(x, {KcpFlush(k, due)}, Kcps(tasks, key), Wire(toServer, key) \cup out,
                 Told(key), PcSaid, TargetHeard(key))
        BY <2>4, <3>1, TalkFlush DEF UpWith
      <3>3. Grows(PcSaid, PcSaid)
        BY DEF Grows
      <3>4. Less({r}, Kcps(tasks, key), Wire(toServer', key),
                 Told(key), PcSaid, TargetHeard(key),
                 {r}, Kcps(tasks, key), Wire(toServer, key) \cup out,
                 Told(key), PcSaid, TargetHeard(key))
        BY <2>4, <3>3 DEF Less
      <3>. QED
        BY <2>1, <3>2, <3>4, TalkLess, Zenon DEF UpWith
    <2>6. ASSUME NEW y, Down(key, y)
          PROVE  DownWith(key, y, r)
      <3>1. DownWith(key, y, k)
        BY <1>3, <2>6
      <3>. QED
        BY <2>1, <3>1, TalkReceiver DEF DownWith
    <2>7. /\ toClient' \subseteq toClient
          /\ \A i \in Keys \ {key} : Wire(toServer', i) \subseteq Wire(toServer, i)
      BY <1>1, <1>2, <1>5, EmitsWire
    <2>8. Turns(key, r)
      BY <2>5, <2>6 DEF Turns
    <2>. QED
      BY <1>1, <2>1, <2>2, <2>7, <2>8, Zenon DEF ClientRound
  <1>. QED
    BY <1>1, <1>4, <1>5 DEF ClientTick

(* Arrival at the client.                                                  *)
Dropped == UNCHANGED <<clientVars, toServer>> /\ toClient' \subseteq toClient

LEMMA ClientHearsRound ==
    ASSUME ClientType, NetType, NEW p \in toClient,
           NEW grow \in BOOLEAN, NEW dup, ClientHears(p[1], p[2], grow, dup)
    PROVE  Dropped \/ \E key, k : ClientRound(key, k)
  <1>1. PICK a \in Clients, d \in Datagram : p = <<a, d>>
    BY DEF NetType
  <1>2. p[1] = a /\ p[2] = d
    BY <1>1
  <1>3. /\ ClientInput(a, d, grow)
        /\ toServer' = toServer /\ toClient' \subseteq toClient
    BY <1>2 DEF ClientHears
  <1>4. \A i \in Keys : Wire(toServer', i) \subseteq Wire(toServer, i)
    BY <1>3
  <1>5. PICK key : key = <<a, d.conv>>
    OBVIOUS
  <1>6. CASE key \in DOMAIN sessions /\ Forward(key, KcpInput(sessions[key].kcp, d, grow))
    <2>1. PICK k \in ControlBlock : k = sessions[key].kcp
      BY <1>6 DEF ClientType, Session
    <2>2. key \in Keys
      BY <1>6 DEF ClientType
    <2>3. PICK r \in ControlBlock :
            /\ r = KcpInput(k, d, grow) /\ r.snd_nxt = k.snd_nxt
            /\ r.snd_queue = k.snd_queue /\ r.snd_buf \subseteq k.snd_buf
      BY KcpInputType
    <2>4. ASSUME NEW x, Up(key, x)
          PROVE  UpWith(key, x, r, toServer')
      <3>1. UpWith(key, x, k, toServer)
        BY <1>6, <2>1, <2>4, SessionThere
      <3>. QED
        BY <1>3, <2>3, <3>1, TalkSender DEF UpWith
    <2>5. d \in WireBack(key) /\ Bears(p, key)
      <3>1. Bears(p, key)
        BY <1>2, <1>5 DEF Bears
      <3>. QED
        BY <1>2, <1>6, <3>1 DEF WireBack, Wire
    <2>6. ASSUME NEW y, Down(key, y)
          PROVE  DownWith(key, y, r)
      <3>1. DownWith(key, y, k)
        BY <1>6, <2>1, <2>6, SessionThere
      <3>. QED
        BY <2>3, <2>5, <3>1, TalkInput DEF DownWith
    <2>7. Turns(key, r)
      BY <2>4, <2>6 DEF Turns
    <2>8. Forward(key, r)
      BY <1>6, <2>1, <2>3
    <2>9. ClientRound(key, r)
      BY <1>3, <1>4, <1>6, <2>3, <2>5, <2>7, <2>8, Zenon DEF ClientRound
    <2>. QED
      BY <2>9
  <1>7. CASE UNCHANGED clientVars
    BY <1>3, <1>7 DEF Dropped
  <1>. QED
    BY <1>3, <1>5, <1>6, <1>7 DEF ClientInput

(* The step of a client's timer or UDP socket.                             *)
ClientSideSteps ==
    \/ \E key \in DOMAIN sessions : ClientTick(key)
    \/ \E p \in toClient, grow \in BOOLEAN, dup \in BOOLEAN :
          ClientHears(p[1], p[2], grow, dup)

LEMMA ClientSideRounds ==
    ASSUME ClientType, NetType, ClientSideSteps
    PROVE  Dropped \/ \E key, k : ClientRound(key, k)
  BY ClientTickRound, ClientHearsRound DEF ClientSideSteps

(* What is said goes on in either case.                                    *)
LEMMA ClientSideTalk ==
    ASSUME ClientInv, ClientType, NetType, AbsentIsSilent, ClientSideSteps,
           UNCHANGED serverVars
    PROVE  TalkGoesOn
  <1>1. ASSUME NEW key, NEW k, ClientRound(key, k)
        PROVE  TalkGoesOn
    BY <1>1, ClientUpdateTalk DEF ClientRound
  <1>2. CASE Dropped
    <2>1. ASSUME NEW i \in Keys
          PROVE  Kept(i)
      <3>1. /\ Grows(PcSaid, PcSaid')
            /\ sessions' = sessions /\ proxies' = proxies /\ pcs' = pcs
            /\ toServer' = toServer /\ toClient' \subseteq toClient
        BY <1>2 DEF Dropped, clientVars, Grows, PcSaid
      <3>. QED
        BY <3>1, ClientFrame
    <2>2. AbsentIsSilent'
      BY <1>2 DEF Dropped, clientVars, AbsentIsSilent
    <2>. QED
      BY <2>1, <2>2 DEF TalkGoesOn, Goes, Kept
  <1>. QED
    BY <1>1, <1>2, ClientSideRounds

(* ikcp_send, and TunnelClient::Write with it, touch the send side only.   *)
LEMMA KcpSendReceiver ==
    ASSUME NEW k \in ControlBlock, NEW msg
    PROVE  SameReceiver(KcpSend(k, msg), k)
  BY DEF KcpSend, SameReceiver, ControlBlock

(* Cutting bytes into messages and queueing them leaves the receive side.  *)
LEMMA QueuedReceiver ==
    ASSUME NEW k \in ControlBlock, NEW bytes \in Seq(Data)
    PROVE  Queued(k, bytes) \in ControlBlock /\ SameReceiver(Queued(k, bytes), k)
  <1>1. PICK n \in Nat : n = PieceCount(bytes)
    BY ClientAssumption DEF PieceCount
  <1>2. PICK f : SendsPieces(f, k, bytes) /\ Queued(k, bytes) = f[PieceCount(bytes)]
    BY QueuedUnfolds
  <1>6. /\ f \in [0 .. n -> ControlBlock]
        /\ \A i \in 1 .. n : \E msg : f[i] = KcpSend(f[i - 1], msg)
    BY <1>1, <1>2 DEF SendsPieces
  <1>. DEFINE S == {i \in 0 .. n : SameReceiver(f[i], k)}
  <1>3. 0 \in S
    BY <1>2 DEF SendsPieces, SameReceiver
  <1>4. ASSUME NEW i \in 1 .. n, i - 1 \in S
        PROVE  i \in S
    <2>1. PICK msg : f[i] = KcpSend(f[i - 1], msg)
      BY <1>6
    <2>2. f[i - 1] \in ControlBlock
      <3>1. i - 1 \in 0 .. n
        OBVIOUS
      <3>. QED
        BY <1>6, <3>1
    <2>3. SameReceiver(f[i], f[i - 1])
      BY <2>1, <2>2, KcpSendReceiver
    <2>. QED
      BY <1>4, <2>3 DEF SameReceiver
  <1>5. n \in S
    <2>. HIDE DEF S
    <2>1. \A i \in 1 .. n : i - 1 \in S => i \in S
      BY <1>4
    <2>2. \A i \in 0 .. n : i \in S
      BY <1>3, <2>1, Climb
    <2>. QED
      BY <2>2
  <1>. QED
    BY <1>1, <1>2, <1>5, QueuedType

(* A callback of the client program that adds no session.                  *)
LEMMA ClientMoves ==
    ASSUME UNCHANGED <<serverVars, net>>, AbsentIsSilent',
           Grows(PcSaid, PcSaid'), NEW K \in SUBSET Keys,
           \A i \in K : i \in DOMAIN sessions' =>
              /\ i \in DOMAIN sessions
              /\ sessions'[i].kcp = sessions[i].kcp
              /\ proxies'[i].pc = proxies[i].pc
              /\ pcs'[proxies[i].pc].said = pcs[proxies[i].pc].said
              /\ pcs'[proxies[i].pc].state = "open" =>
                    /\ pcs[proxies[i].pc].state = "open"
                    /\ (pcs'[proxies[i].pc].heard \o proxies'[i].buf)
                          \o sessions'[i].buf
                       = (pcs[proxies[i].pc].heard \o proxies[i].buf)
                          \o sessions[i].buf,
           \A i \in Keys \ K : Goes(i)
    PROVE  TalkGoesOn
  <1>1. ASSUME NEW i \in K
        PROVE  Kept(i)
    <2>1. toClient' \subseteq toClient /\ Wire(toServer', i) \subseteq Wire(toServer, i)
      BY DEF net
    <2>. QED
      BY <2>1, ClientFrame
  <1>. QED
    BY <1>1 DEF TalkGoesOn, Goes, Kept

(* A PC connects: a new session carries nothing yet.                       *)
LEMMA AcceptTalk ==
    ASSUME ClientInv, ClientType, AbsentIsSilent, NEW a \in Clients, NEW c \in Pcs,
           Accept(a, c), UNCHANGED <<serverVars, net>>, FreshIds
    PROVE  TalkGoesOn
  <1>1. PICK key \in Keys : key = Candidate(a, TriesUsed(a))
    BY CandidateType DEF ClientType
  <1>2. /\ pcs[c].state = "absent" /\ pcs[c].said = 0 /\ pcs[c].heard = <<>>
        /\ pcs[c] \in Pc
    BY DEF Accept, AbsentIsSilent, ClientType
  <1>3. /\ \A b \in Pcs \ {c} : pcs'[b] = pcs[b]
        /\ pcs'[c].said = 0 /\ pcs'[c].heard = <<>> /\ pcs'[c].state # "absent"
    <2>1. PICK state \in {"dropped", "open"} : pcs' = [pcs EXCEPT ![c].state = state]
      BY DEF Accept
    <2>. QED
      BY <1>2, <2>1 DEF ClientType, Pc
  <1>4. AbsentIsSilent'
    BY <1>3 DEF AbsentIsSilent
  <1>5. Grows(PcSaid, PcSaid')
    BY <1>2, <1>3 DEF Grows, PcSaid
  <1>6. PICK session, proxy :
          /\ session = [kcp |-> KcpCreate(key[2]), buf |-> <<>>]
          /\ proxy = [pc |-> c, buf |-> <<>>]
    OBVIOUS
  <1>7. /\ sessions' = Emplace(sessions, key, session)
        /\ proxies' = Emplace(proxies, key, proxy)
    BY <1>1, <1>6, Zenon DEF Accept
  <1>8. /\ DOMAIN sessions' = DOMAIN sessions \cup {key}
        /\ DOMAIN sessions = DOMAIN proxies
        /\ \A i \in DOMAIN sessions : sessions'[i] = sessions[i] /\ proxies'[i] = proxies[i]
        /\ key \notin DOMAIN sessions => sessions'[key] = session /\ proxies'[key] = proxy
    BY <1>7 DEF Emplace, ClientInv, MapsAgree
  <1>9. \A i \in DOMAIN sessions : proxies[i].pc \in Pcs \ {c}
    BY <1>2, <1>8 DEF ClientInv
  <1>10. \A i \in DOMAIN sessions : pcs'[proxies[i].pc] = pcs[proxies[i].pc]
    BY <1>3, <1>9
  <1>11. CASE key \in DOMAIN sessions
    <2>1. \A i \in Keys : i \in DOMAIN sessions' =>
             /\ i \in DOMAIN sessions
             /\ sessions'[i] = sessions[i] /\ proxies'[i] = proxies[i]
             /\ pcs'[proxies[i].pc] = pcs[proxies[i].pc]
      BY <1>8, <1>10, <1>11
    <2>. QED
      BY <1>4, <1>5, <2>1, ClientMoves
  <1>12. CASE key \notin DOMAIN sessions
    <2>1. /\ key \notin DOMAIN tasks'
          /\ \A p \in toServer' \cup toClient' : ~ Bears(p, key)
      BY <1>8, <1>12 DEF FreshIds, serverVars, net
    <2>2. /\ Kcps(tasks', key) = {} /\ Answered(key)' = {} /\ TargetHeard(key)' = {}
          /\ Wire(toServer', key) = {} /\ Wire(toClient', key) = {}
      BY <2>1 DEF Kcps, Answered, TargetHeard, Wire
    <2>3. WireBack(key)' = {}
      BY <2>2 DEF WireBack
    <2>4. /\ Kcps(sessions', key) = {KcpCreate(key[2])}
          /\ Told(key)' = {<<c, 0, FALSE>>}
      <3>1. /\ DOMAIN sessions' \cap {key} = {key}
            /\ sessions'[key].kcp = KcpCreate(key[2])
            /\ proxies'[key].pc = c /\ pcs'[c].said = 0
        BY <1>3, <1>6, <1>8, <1>12
      <3>2. Told(key)' = {<<c, 0, FALSE>>}
        <4>1. <<proxies'[key].pc, pcs'[proxies'[key].pc].said, FALSE>> = <<c, 0, FALSE>>
          BY <3>1, Zenon
        <4>. QED
          BY <3>1, <4>1 DEF Told
      <3>. QED
        BY <3>1, <3>2 DEF Kcps
    <2>5. PcHeard(key)' \subseteq {<<>>}
      <3>1. (<<>> \o <<>>) \o <<>> = <<>>
        OBVIOUS
      <3>2. PcHeard(key)' \subseteq
               {(pcs'[c].heard \o proxies'[key].buf) \o sessions'[key].buf}
        <4>1. key \in DOMAIN sessions' /\ proxies'[key].pc = c
          BY <1>6, <1>8, <1>12
        <4>. QED
          BY <4>1 DEF PcHeard
      <3>3. pcs'[c].heard = <<>> /\ proxies'[key].buf = <<>> /\ sessions'[key].buf = <<>>
        BY <1>3, <1>6, <1>8, <1>12
      <3>. QED
        BY <3>1, <3>2, <3>3, Zenon
    <2>6. key[2] \in Nat
      BY ClientAssumption DEF Keys
    <2>7. UpBegins(key)
      <3>1. Talk(c, {KcpCreate(key[2])}, {}, {}, {<<c, 0, FALSE>>}, PcSaid', {})
        BY <2>6, TalkNothing
      <3>2. Up(key, c)'
        BY <2>2, <2>4, <3>1 DEF Up
      <3>3. proxies'[key].pc = c /\ key \in DOMAIN sessions' \ DOMAIN sessions
        BY <1>6, <1>8, <1>12
      <3>. QED
        BY <3>2, <3>3 DEF UpBegins
    <2>8. DownKept(key)
      <3>1. ASSUME NEW y
            PROVE  Down(key, y)'
        <4>1. Talk(y, {}, {KcpCreate(key[2])}, {}, {}, TargetSaid', PcHeard(key)')
          BY <2>5, <2>6, TalkNothing
        <4>. QED
          BY <2>2, <2>3, <2>4, <4>1 DEF Down
      <3>. QED
        BY <3>1 DEF DownKept
    <2>9. \A i \in Keys \ {key} : i \in DOMAIN sessions' =>
             /\ i \in DOMAIN sessions
             /\ sessions'[i] = sessions[i] /\ proxies'[i] = proxies[i]
             /\ pcs'[proxies[i].pc] = pcs[proxies[i].pc]
      BY <1>8, <1>10
    <2>. QED
      BY <1>4, <1>5, <2>7, <2>8, <2>9, ClientMoves DEF Goes
  <1>. QED
    BY <1>11, <1>12

(* A PC leaves: what it would have heard does not matter any more.         *)
LEMMA PcLeavesTalk ==
    ASSUME ClientInv, ClientType, AbsentIsSilent, NEW c \in Pcs, PcLeaves(c),
           UNCHANGED <<serverVars, net>>
    PROVE  TalkGoesOn
  <1>1. /\ sessions' = sessions /\ proxies' = proxies
        /\ \A b \in Pcs \ {c} : pcs'[b] = pcs[b]
        /\ pcs'[c].said = pcs[c].said /\ pcs'[c].state = "gone"
    BY DEF PcLeaves, ClientType, Pc
  <1>2. AbsentIsSilent' /\ Grows(PcSaid, PcSaid')
    <2>1. AbsentIsSilent'
      BY <1>1 DEF AbsentIsSilent
    <2>. QED
      BY <1>1, <2>1 DEF Grows, PcSaid
  <1>3. ASSUME NEW i \in Keys, i \in DOMAIN sessions
        PROVE  /\ pcs'[proxies[i].pc].said = pcs[proxies[i].pc].said
               /\ pcs'[proxies[i].pc].state = "open" =>
                     pcs'[proxies[i].pc] = pcs[proxies[i].pc]
    <2>1. proxies[i].pc \in Pcs
      BY <1>3 DEF ClientInv, MapsAgree
    <2>. QED
      BY <1>1, <2>1
  <1>. QED
    BY <1>1, <1>2, <1>3, ClientMoves

(* ClientReadCB.                                                           *)
LEMMA ClientReadTalk ==
    ASSUME ClientInv, ClientType, AbsentIsSilent, NEW key \in DOMAIN proxies,
           NEW n \in 1 .. MaxSaid - pcs[proxies[key].pc].said, ClientRead(key, n),
           UNCHANGED <<serverVars, net>>
    PROVE  TalkGoesOn
  <1>. DOMAIN sessions = DOMAIN proxies
    BY DEF ClientInv, MapsAgree
  <1>1. PICK s \in Session, p \in Proxy : s = sessions[key] /\ p = proxies[key]
    BY DEF ClientType
  <1>2. PICK c \in Pcs : c = p.pc
    BY DEF Proxy
  <1>3. PICK said \in Nat : said = pcs[c].said
    BY DEF ClientType, Pc
  <1>4. MaxSaid \in Nat /\ {c} \X (1 .. MaxSaid) \subseteq Data
    BY OktunAssumption
  <1>5. n \in Nat /\ said + n <= MaxSaid
    BY <1>1, <1>2, <1>3, <1>4
  <1>6. Bytes(c, 0, said) \in Seq(Data) /\ Bytes(c, said, n) \in Seq(Data)
    <2>1. 0 \in Nat /\ 0 + said <= MaxSaid
      BY <1>4, <1>5
    <2>. QED
      BY <1>4, <1>5, <2>1, BytesType
  <1>7. s.kcp \in ControlBlock /\ s.buf \in Seq(Data)
    BY DEF Session
  <1>8. PICK kcp \in ControlBlock :
          kcp = Queued(s.kcp, Bytes(c, said, n)) /\ SameReceiver(kcp, s.kcp)
    BY <1>6, <1>7, QueuedReceiver
  <1>9. sessions' = [sessions EXCEPT ![key] = [kcp |-> kcp, buf |-> s.buf]]
    <2>1. sessions' = [sessions EXCEPT ![key] = [s EXCEPT !.kcp = kcp]]
      BY <1>1, <1>2, <1>3, <1>8 DEF ClientRead
    <2>. QED
      BY <2>1, EntryUpdates
  <1>10. /\ DOMAIN sessions' = DOMAIN sessions
         /\ sessions'[key].kcp = kcp /\ sessions'[key].buf = s.buf
         /\ \A i \in DOMAIN sessions \ {key} : sessions'[i] = sessions[i]
    BY <1>9
  <1>11. /\ proxies' = proxies
         /\ \A b \in Pcs \ {c} : pcs'[b] = pcs[b]
         /\ pcs'[c].said = said + n /\ pcs'[c].heard = pcs[c].heard
         /\ pcs'[c].state = pcs[c].state /\ pcs[c].state = "open"
    BY <1>1, <1>2, <1>3 DEF ClientRead, ClientType, Pc
  <1>12. AbsentIsSilent'
    BY <1>11 DEF AbsentIsSilent
  <1>13. Grows(PcSaid, PcSaid')
    BY <1>3, <1>5, <1>11 DEF Grows, PcSaid
  <1>14. key \in Keys
    BY DEF ClientType
  <1>15. /\ \A x : Up(key, x) => UpWith(key, x, s.kcp, toServer)
         /\ \A y : Down(key, y) => DownWith(key, y, s.kcp)
    BY <1>1, SessionThere
  <1>16. /\ Kcps(sessions', key) = {kcp} /\ Told(key)' = {<<c, said + n, FALSE>>}
         /\ PcHeard(key)' = PcHeard(key)
         /\ Wire(toServer', key) = Wire(toServer, key) /\ WireBack(key)' = WireBack(key)
    <2>1. Kcps(sessions', key) = {kcp}
      BY <1>10 DEF Kcps
    <2>2. Told(key)' = {<<c, said + n, FALSE>>}
      BY <1>1, <1>2, <1>10, <1>11 DEF Told
    <2>3. PcHeard(key)' = PcHeard(key)
      BY <1>1, <1>2, <1>10, <1>11 DEF PcHeard
    <2>. QED
      BY <1>10, <2>1, <2>2, <2>3 DEF net, Wire, WireBack
  <1>17. /\ Kcps(tasks', key) = Kcps(tasks, key)
         /\ Answered(key)' = Answered(key)
         /\ TargetHeard(key)' = TargetHeard(key)
         /\ TargetSaid' = TargetSaid
    BY DEF serverVars, Kcps, Answered, TargetHeard, TargetSaid
  <1>18. ASSUME NEW x, Up(key, x)
         PROVE  Up(key, x)'
    <2>1. Talk(x, {s.kcp}, Kcps(tasks, key), Wire(toServer, key), {<<c, said, FALSE>>},
               PcSaid, TargetHeard(key))
      BY <1>1, <1>2, <1>3, <1>15, <1>18, ClientSide DEF UpWith
    <2>2. c \in DOMAIN PcSaid'.counts /\ PcSaid'.counts[c] = said + n
      BY <1>11 DEF PcSaid
    <2>3. Talk(x, {Queued(s.kcp, Bytes(c, said, n))}, Kcps(tasks, key),
               Wire(toServer, key), {<<c, said + n, FALSE>>}, PcSaid', TargetHeard(key))
      <3>1. n \in Nat /\ n # 0
        BY <1>5
      <3>. QED
        BY <1>6, <2>1, <2>2, <3>1, TalkSend
    <2>. QED
      BY <1>8, <1>16, <1>17, <2>3 DEF Up
  <1>19. ASSUME NEW y, Down(key, y)
         PROVE  Down(key, y)'
    <2>1. DownWith(key, y, s.kcp)
      BY <1>15, <1>19
    <2>2. Talk(y, Kcps(tasks, key), {kcp}, WireBack(key), Answered(key), TargetSaid,
               PcHeard(key))
      BY <1>8, <2>1, TalkReceiver DEF DownWith
    <2>. QED
      BY <1>16, <1>17, <2>2 DEF Down
  <1>20. ASSUME NEW i \in Keys \ {key}, i \in DOMAIN sessions'
         PROVE  /\ i \in DOMAIN sessions
                /\ sessions'[i] = sessions[i] /\ proxies'[i] = proxies[i]
                /\ pcs'[proxies[i].pc] = pcs[proxies[i].pc]
    <2>1. proxies[i].pc \in Pcs \ {c}
      BY <1>1, <1>2, <1>10, <1>20 DEF ClientInv, MapsAgree
    <2>. QED
      BY <1>10, <1>11, <1>20, <2>1
  <1>. QED
    BY <1>12, <1>13, <1>18, <1>19, <1>20, ClientMoves DEF Goes, UpKept, DownKept

(* ClientWriteCB: bytes move from the proxy's buffer to the PC.            *)
LEMMA ClientWriteTalk ==
    ASSUME ClientInv, ClientType, AbsentIsSilent, NEW key \in DOMAIN proxies,
           NEW n, ClientWrite(key, n), UNCHANGED <<serverVars, net>>
    PROVE  TalkGoesOn
  <1>. DOMAIN sessions = DOMAIN proxies
    BY DEF ClientInv, MapsAgree
  <1>1. PICK s \in Session, p \in Proxy : s = sessions[key] /\ p = proxies[key]
    BY DEF ClientType
  <1>2. PICK c \in Pcs : c = p.pc
    BY DEF Proxy
  <1>3. PICK h \in Seq(Data), b \in Seq(Data) : h = pcs[c].heard /\ b = p.buf
    BY DEF ClientType, Pc, Proxy
  <1>4. n \in 1 .. Len(b)
    BY <1>1, <1>3 DEF ClientWrite
  <1>5. PICK first \in Seq(Data), rest \in Seq(Data) :
          first = SubSeq(b, 1, n) /\ rest = SubSeq(b, n + 1, Len(b))
    <2>1. SubSeq(b, 1, n) \in Seq(Data) /\ SubSeq(b, n + 1, Len(b)) \in Seq(Data)
      BY <1>4
    <2>. QED
      BY <2>1, Zenon
  <1>6. (h \o first) \o rest = h \o b
    <2>1. first \o rest = b
      <3>1. n \in 0 .. Len(b) /\ Len(b) \in 0 .. Len(b)
        BY <1>4
      <3>2. SubSeq(b, 1, n) \o SubSeq(b, n + 1, Len(b)) = SubSeq(b, 1, Len(b))
        BY <3>1, CutInTwo, Zenon
      <3>3. SubSeq(b, 1, Len(b)) = b
        OBVIOUS
      <3>. QED
        BY <1>5, <3>2, <3>3, Zenon
    <2>2. (h \o first) \o rest = h \o (first \o rest)
      BY ThreeStretches, Zenon
    <2>. QED
      BY <2>1, <2>2, Zenon
  <1>7. /\ sessions' = sessions /\ DOMAIN proxies' = DOMAIN proxies
        /\ \A i \in DOMAIN proxies \ {key} : proxies'[i] = proxies[i]
        /\ proxies'[key].pc = c /\ proxies'[key].buf = rest
    <2>1. proxies' = [proxies EXCEPT ![key] = [p EXCEPT !.buf = rest]]
      BY <1>1, <1>3, <1>5 DEF ClientWrite
    <2>2. proxies' = [proxies EXCEPT ![key] = [pc |-> p.pc, buf |-> rest]]
      BY <2>1, EntryUpdates
    <2>3. proxies'[key] = [pc |-> p.pc, buf |-> rest]
      BY <2>2
    <2>4. proxies'[key].pc = c /\ proxies'[key].buf = rest
      BY <1>2, <2>3
    <2>. QED
      BY <2>2, <2>4 DEF ClientWrite
  <1>8. /\ \A e \in Pcs \ {c} : pcs'[e] = pcs[e]
        /\ pcs'[c].said = pcs[c].said /\ pcs'[c].heard = h \o first
        /\ pcs'[c].state = pcs[c].state /\ pcs[c].state = "open"
    <2>1. pcs' = [pcs EXCEPT ![c] = [pcs[c] EXCEPT !.heard = h \o first]]
      BY <1>1, <1>2, <1>3, <1>5 DEF ClientWrite
    <2>2. pcs[c].state = "open"
      BY <1>1, <1>2 DEF ClientWrite
    <2>. QED
      BY <2>1, <2>2 DEF ClientType, Pc
  <1>9. AbsentIsSilent'
    BY <1>8 DEF AbsentIsSilent
  <1>10. Grows(PcSaid, PcSaid')
    BY <1>8 DEF Grows, PcSaid
  <1>11. (pcs'[c].heard \o proxies'[key].buf) \o sessions'[key].buf
            = (pcs[c].heard \o proxies[key].buf) \o sessions[key].buf
    BY <1>1, <1>3, <1>6, <1>7, <1>8, Zenon
  <1>12. ASSUME NEW i \in Keys, i \in DOMAIN sessions'
         PROVE  /\ i \in DOMAIN sessions
                /\ sessions'[i].kcp = sessions[i].kcp
                /\ proxies'[i].pc = proxies[i].pc
                /\ pcs'[proxies[i].pc].said = pcs[proxies[i].pc].said
                /\ pcs'[proxies[i].pc].state = "open" =>
                      /\ pcs[proxies[i].pc].state = "open"
                      /\ (pcs'[proxies[i].pc].heard \o proxies'[i].buf)
                            \o sessions'[i].buf
                         = (pcs[proxies[i].pc].heard \o proxies[i].buf)
                            \o sessions[i].buf
    <2>1. CASE i = key
      BY <1>1, <1>2, <1>7, <1>8, <1>11, <2>1
    <2>2. CASE i # key
      <3>1. proxies[i].pc \in Pcs \ {c}
        BY <1>1, <1>2, <1>7, <1>12, <2>2 DEF ClientInv, MapsAgree
      <3>. QED
        BY <1>7, <1>8, <1>12, <2>2, <3>1
    <2>. QED
      BY <2>1, <2>2
  <1>. QED
    BY <1>9, <1>10, <1>12, ClientMoves

(* A callback after which some sessions are gone and the others as before. *)
LEMMA ClientGoes ==
    ASSUME UNCHANGED <<serverVars, net>>, AbsentIsSilent',
           Grows(PcSaid, PcSaid'),
           \A i \in DOMAIN sessions' :
              /\ i \in DOMAIN sessions
              /\ sessions'[i] = sessions[i] /\ proxies'[i] = proxies[i]
              /\ pcs'[proxies[i].pc] = pcs[proxies[i].pc]
    PROVE  TalkGoesOn
  BY ClientMoves

(* The PCs, the target and the sockets to them: the steps of the PCs.      *)
LEMMA PcStepsTalk ==
    ASSUME ClientInv, ClientType, AbsentIsSilent, PcSteps, UNCHANGED <<serverVars, net>>,
           FreshIds
    PROVE  TalkGoesOn
  <1>1. ASSUME NEW a \in Clients, NEW c \in Pcs, Accept(a, c)
        PROVE  TalkGoesOn
    BY <1>1, AcceptTalk
  <1>2. ASSUME NEW c \in Leavers, PcLeaves(c)
        PROVE  TalkGoesOn
    BY <1>2, PcLeavesTalk, OktunAssumption
  <1>3. ASSUME NEW key \in DOMAIN proxies,
               NEW n \in 1 .. MaxSaid - pcs[proxies[key].pc].said, ClientRead(key, n)
        PROVE  TalkGoesOn
    BY <1>3, ClientReadTalk
  <1>4. ASSUME NEW key \in DOMAIN proxies, NEW n, ClientWrite(key, n)
        PROVE  TalkGoesOn
    BY <1>4, ClientWriteTalk
  <1>5. ASSUME NEW key \in DOMAIN proxies, ClientEof(key)
        PROVE  TalkGoesOn
    <2>1. RemoveClient(key, "gone")
      BY <1>5 DEF ClientEof
    <2>. QED
      BY <2>1, RemoveClientTalk, ClientGoes
  <1>6. ASSUME NEW key \in DOMAIN proxies, ProgramDies(key[1])
        PROVE  TalkGoesOn
    BY <1>6, ProgramDiesTalk, ClientGoes
  <1>7. ASSUME NEW key \in DOMAIN proxies, pcs[proxies[key].pc].state = "gone",
               proxies' = [proxies EXCEPT ![key].buf = <<>>],
               UNCHANGED <<counter, sessions, pcs>>
        PROVE  TalkGoesOn
    <2>1. PICK p \in Proxy : p = proxies[key]
      BY DEF ClientType
    <2>2. /\ DOMAIN proxies' = DOMAIN proxies
          /\ \A i \in DOMAIN proxies \ {key} : proxies'[i] = proxies[i]
          /\ proxies'[key].pc = proxies[key].pc
      <3>1. proxies' = [proxies EXCEPT ![key] = [p EXCEPT !.buf = <<>>]]
        BY <1>7, <2>1
      <3>2. proxies' = [proxies EXCEPT ![key] = [pc |-> p.pc, buf |-> <<>>]]
        BY <3>1, EntryUpdates
      <3>3. proxies'[key] = [pc |-> p.pc, buf |-> <<>>]
        BY <3>2
      <3>4. proxies'[key].pc = p.pc
        BY <3>3
      <3>. QED
        BY <2>1, <3>2, <3>4
    <2>3. AbsentIsSilent' /\ Grows(PcSaid, PcSaid')
      BY <1>7 DEF AbsentIsSilent, Grows, PcSaid
    <2>4. ASSUME NEW i \in Keys, i \in DOMAIN sessions'
          PROVE  /\ i \in DOMAIN sessions
                 /\ sessions'[i] = sessions[i] /\ proxies'[i].pc = proxies[i].pc
                 /\ pcs'[proxies[i].pc] = pcs[proxies[i].pc]
                 /\ pcs'[proxies[i].pc].state = "open" => proxies'[i] = proxies[i]
      BY <1>7, <2>2, <2>4 DEF ClientInv, MapsAgree
    <2>. QED
      BY <2>3, <2>4, ClientMoves
  <1>. QED
    BY <1>1, <1>2, <1>3, <1>4, <1>5, <1>6, <1>7 DEF PcSteps, ClientWriteFails

----------------------------------------------------------------------------
(* The steps of the server program.                                        *)

(* The directions as they are when the task has k in place of its control  *)
(* block.                                                                  *)
UpTo(key, x, k) ==
    Talk(x, Kcps(sessions, key), {k}, Wire(toServer, key), Told(key), PcSaid,
         TargetHeard(key))

DownFrom(key, y, k) ==
    Talk(y, {k}, Kcps(sessions, key), WireBack(key), Answered(key), TargetSaid,
         PcHeard(key))

(* What a task there is hears and says goes on with its control block.     *)
LEMMA TaskThere ==
    ASSUME NEW key \in DOMAIN tasks
    PROVE  /\ \A x : Up(key, x) => UpTo(key, x, tasks[key].kcp)
           /\ \A y : Down(key, y) => DownFrom(key, y, tasks[key].kcp)
  BY ServerSide DEF Up, Down, UpTo, DownFrom

(* A task with this control block is what the session now talks to.        *)
LEMMA TaskGoesOn ==
    ASSUME NEW key, NEW k, UNCHANGED clientVars, toServer' \subseteq toServer,
           key \in DOMAIN tasks', tasks'[key].kcp = k,
           NEW heard, TargetHeard(key)' \subseteq heard, NEW x,
           Talk(x, Kcps(sessions, key), {k}, Wire(toServer, key), Told(key), PcSaid, heard)
    PROVE  Up(key, x)'
  <1>1. Kcps(tasks', key) = {k}
    BY DEF Kcps
  <1>2. /\ Kcps(sessions', key) = Kcps(sessions, key)
        /\ Told(key)' = Told(key) /\ PcSaid' = PcSaid
    BY DEF clientVars, Kcps, Told, PcSaid
  <1>3. Wire(toServer', key) \subseteq Wire(toServer, key)
    BY DEF Wire
  <1>4. Grows(PcSaid, PcSaid)
    BY DEF Grows
  <1>5. Less(Kcps(sessions, key), {k}, Wire(toServer', key), Told(key), PcSaid,
             TargetHeard(key)',
             Kcps(sessions, key), {k}, Wire(toServer, key), Told(key), PcSaid, heard)
    BY <1>3, <1>4 DEF Less
  <1>6. Talk(x, Kcps(sessions, key), {k}, Wire(toServer', key), Told(key), PcSaid,
             TargetHeard(key)')
    BY <1>5, TalkLess, Zenon
  <1>. QED
    BY <1>1, <1>2, <1>6 DEF Up

(* And what it now hears of.                                               *)
LEMMA TaskSaysOn ==
    ASSUME NEW key, NEW k, UNCHANGED clientVars,
           key \in DOMAIN tasks', tasks'[key].kcp = k,
           NEW under, WireBack(key)' \subseteq under,
           NEW answered, Answered(key)' \subseteq answered, NEW y,
           Talk(y, {k}, Kcps(sessions, key), under, answered, TargetSaid', PcHeard(key))
    PROVE  Down(key, y)'
  <1>1. Kcps(tasks', key) = {k}
    BY DEF Kcps
  <1>2. Kcps(sessions', key) = Kcps(sessions, key) /\ PcHeard(key)' = PcHeard(key)
    BY DEF clientVars, Kcps, PcHeard
  <1>3. Grows(TargetSaid', TargetSaid')
    BY DEF Grows
  <1>4. Less({k}, Kcps(sessions, key), WireBack(key)', Answered(key)', TargetSaid',
             PcHeard(key),
             {k}, Kcps(sessions, key), under, answered, TargetSaid', PcHeard(key))
    BY <1>3 DEF Less
  <1>5. Talk(y, {k}, Kcps(sessions, key), WireBack(key)', Answered(key)', TargetSaid',
             PcHeard(key))
    BY <1>4, TalkLess, Zenon
  <1>. QED
    BY <1>1, <1>2, <1>5 DEF Down

(* A callback of the server program, or a step of the target.              *)
LEMMA ServerMoves ==
    ASSUME AbsentIsSilent, UNCHANGED clientVars, toServer' \subseteq toServer,
           Grows(TargetSaid, TargetSaid'), NEW K \in SUBSET Keys,
           \A i \in K :
              /\ Wire(toClient', i) \subseteq Wire(toClient, i)
              /\ i \in DOMAIN tasks' =>
                    /\ i \in DOMAIN tasks
                    /\ tasks'[i].kcp = tasks[i].kcp
                    /\ tasks'[i].sock = tasks[i].sock
                    /\ tasks'[i].closing = tasks[i].closing
                    /\ targets'[tasks[i].sock].said = targets[tasks[i].sock].said
                    /\ targets'[tasks[i].sock].heard \o tasks'[i].buf
                       = targets[tasks[i].sock].heard \o tasks[i].buf,
           \A i \in Keys \ K : Goes(i)
    PROVE  TalkGoesOn
  <1>1. AbsentIsSilent'
    BY DEF AbsentIsSilent, clientVars
  <1>2. ASSUME NEW i \in K
        PROVE  Kept(i)
    BY ServerFrame
  <1>. QED
    BY <1>1, <1>2 DEF TalkGoesOn, Goes, Kept

(* It is about one task and its connection.                                *)
LEMMA OneTask ==
    ASSUME ServerInv, AbsentIsSilent, NEW key \in DOMAIN tasks,
           UNCHANGED clientVars, toServer' \subseteq toServer,
           Grows(TargetSaid, TargetSaid'),
           \A i \in DOMAIN tasks' \ {key} : i \in DOMAIN tasks /\ tasks'[i] = tasks[i],
           \A k \in DOMAIN targets \ {tasks[key].sock} : targets'[k] = targets[k],
           \A i \in Keys \ {key} : Wire(toClient', i) \subseteq Wire(toClient, i),
           Goes(key)
    PROVE  TalkGoesOn
  <1>1. ASSUME NEW i \in Keys \ {key}, i \in DOMAIN tasks'
        PROVE  /\ i \in DOMAIN tasks /\ tasks'[i] = tasks[i]
               /\ targets'[tasks[i].sock] = targets[tasks[i].sock]
    <2>1. i \in DOMAIN tasks /\ tasks'[i] = tasks[i]
      BY <1>1
    <2>2. tasks[i].sock \in DOMAIN targets \ {tasks[key].sock}
      BY <2>1 DEF ServerInv, TargetsHeld
    <2>. QED
      BY <2>1, <2>2
  <1>2. \A i \in Keys \ {key} :
           /\ Wire(toClient', i) \subseteq Wire(toClient, i)
           /\ i \in DOMAIN tasks' =>
                 /\ i \in DOMAIN tasks
                 /\ tasks'[i].kcp = tasks[i].kcp
                 /\ tasks'[i].sock = tasks[i].sock
                 /\ tasks'[i].closing = tasks[i].closing
                 /\ targets'[tasks[i].sock].said = targets[tasks[i].sock].said
                 /\ targets'[tasks[i].sock].heard \o tasks'[i].buf
                    = targets[tasks[i].sock].heard \o tasks[i].buf
    BY <1>1
  <1>3. \A i \in Keys \ (Keys \ {key}) : Goes(i)
    OBVIOUS
  <1>. QED
    BY <1>2, <1>3, ServerMoves

(* The server's timer.                                                     *)
LEMMA ServerTickTalk ==
    ASSUME ServerInv, ServerType, AbsentIsSilent, NEW key \in DOMAIN tasks,
           ServerTick(key), UNCHANGED clientVars
    PROVE  TalkGoesOn
  <1>1. PICK t \in Task : t = tasks[key] /\ t.kcp.conv = key[2]
    BY DEF ServerType
  <1>2. PICK k \in ControlBlock : k = t.kcp /\ k.conv = key[2]
    BY <1>1 DEF Task
  <1>3. key \in Keys
    BY DEF ServerType
  <1>4. /\ \A x : Up(key, x) => UpTo(key, x, k)
        /\ \A y : Down(key, y) => DownFrom(key, y, k)
    BY <1>1, <1>2, TaskThere
  <1>5. PICK due : /\ ServerUpdate(key, due)
                   /\ Emits(key[1], k, due, toClient, toClient')
                   /\ toServer' = toServer
    BY <1>1, <1>2 DEF ServerTick
  <1>6. PICK r \in ControlBlock : r = KcpFlush(k, due) /\ SameReceiver(r, k)
    BY KcpFlushType
  <1>7. tasks' = [tasks EXCEPT ![key] = [t EXCEPT !.kcp = r]] /\ targets' = targets
    BY <1>1, <1>2, <1>5, <1>6 DEF ServerUpdate
  <1>8. [t EXCEPT !.kcp = r] =
           [kcp |-> r, sock |-> t.sock, closing |-> t.closing, buf |-> t.buf]
    BY TaskUpdates
  <1>9. /\ DOMAIN tasks' = DOMAIN tasks
        /\ tasks'[key].kcp = r /\ tasks'[key].sock = t.sock /\ tasks'[key].buf = t.buf
        /\ tasks'[key].closing = t.closing
        /\ \A i \in DOMAIN tasks \ {key} : tasks'[i] = tasks[i]
    BY <1>7, <1>8
  <1>10. /\ Answered(key)' = Answered(key)
         /\ TargetHeard(key)' \subseteq TargetHeard(key)
         /\ TargetSaid' = TargetSaid
    <2>1. Answered(key)' = Answered(key)
      BY <1>1, <1>7, <1>9 DEF Answered
    <2>2. TargetHeard(key)' \subseteq TargetHeard(key)
      <3>1. targets'[tasks'[key].sock].heard \o tasks'[key].buf
              = targets[tasks[key].sock].heard \o tasks[key].buf
        BY <1>1, <1>7, <1>9, Zenon
      <3>. QED
        BY <1>9, <3>1 DEF TargetHeard
    <2>. QED
      BY <1>7, <2>1, <2>2 DEF TargetSaid
  <1>11. /\ SentBy(k, due, key, toClient, toClient')
         /\ \A i \in Keys \ {key} : Wire(toClient', i) \subseteq Wire(toClient, i)
    BY <1>2, <1>3, <1>5, EmitsWire
  <1>12. PICK probeDue \in BOOLEAN : \E cuts, out :
            /\ out \subseteq KcpOutput(k, due, probeDue, cuts)
            /\ Wire(toClient', key) \subseteq Wire(toClient, key) \cup out
    BY <1>11 DEF SentBy
  <1>13. PICK cuts, out :
            /\ out \subseteq KcpOutput(k, due, probeDue, cuts)
            /\ Wire(toClient', key) \subseteq Wire(toClient, key) \cup out
    BY <1>12
  <1>14. WireBack(key)' \subseteq WireBack(key) \cup out
    BY <1>13 DEF WireBack, clientVars
  <1>15. ASSUME NEW y, Down(key, y)
         PROVE  Down(key, y)'
    <2>1. DownFrom(key, y, k)
      BY <1>4, <1>15
    <2>2. Talk(y, {r}, Kcps(sessions, key), WireBack(key) \cup out, Answered(key),
               TargetSaid, PcHeard(key))
      BY <1>6, <1>13, <2>1, TalkFlush DEF DownFrom
    <2>. QED
      BY <1>9, <1>10, <1>14, <2>2, TaskSaysOn
  <1>16. ASSUME NEW x, Up(key, x)
         PROVE  Up(key, x)'
    <2>1. UpTo(key, x, k)
      BY <1>4, <1>16
    <2>2. Talk(x, Kcps(sessions, key), {r}, Wire(toServer, key), Told(key), PcSaid,
               TargetHeard(key))
      BY <1>6, <2>1, TalkReceiver DEF UpTo
    <2>. QED
      BY <1>5, <1>9, <1>10, <2>2, TaskGoesOn
  <1>17. Goes(key)
    BY <1>15, <1>16 DEF Goes, UpKept, DownKept
  <1>18. Grows(TargetSaid, TargetSaid')
    BY <1>10 DEF Grows
  <1>. QED
    BY <1>5, <1>7, <1>9, <1>11, <1>17, <1>18, OneTask

(* The talk with a task whose connection has heard h.                      *)
Tells(x, senders, wire, told, said, h, t) ==
    Talk(x, senders, {t.kcp}, wire, told, said, {h \o t.buf})

(* Write2Task: what ikcp_recv returns is what the target hears next.       *)
LEMMA Write2TaskTalk ==
    ASSUME NEW t \in Task, NEW d \in Datagram, NEW grow \in BOOLEAN, NEW w \in Task,
           w = Write2Task(t, d, grow),
           NEW who, NEW senders, NEW wire, d \in wire, NEW told, NEW said, NEW h \in Seq(Data),
           Tells(who, senders, wire, told, said, h, t)
    PROVE  /\ w.sock = t.sock /\ w.closing = t.closing
           /\ Tells(who, senders, wire, told, said, h, w)
  <1>1. t.kcp \in ControlBlock /\ t.buf \in Seq(Data)
    BY DEF Task
  <1>2. PICK k \in ControlBlock : k = KcpInput(t.kcp, d, grow)
    BY <1>1, KcpInputType
  <1>3. Talk(who, senders, {k}, wire, told, said, {h \o t.buf})
    BY <1>2, TalkInput DEF Tells
  <1>4. CASE KcpReceivable(k, TaskBuf - Len(t.buf))
    <2>1. k.rcv_queue # <<>>
      BY <1>4 DEF KcpReceivable, KcpReadable
    <2>2. PICK r \in ControlBlock : r = KcpRecv(k)
      BY <2>1, KcpRecvType
    <2>3. PICK msg \in Seq(Data) : msg = Payload(FirstMessage(k))
      BY <2>1, FirstMessageType, PayloadType
    <2>4. PICK buf \in Seq(Data) : buf = t.buf \o msg
      <3>1. t.buf \o msg \in Seq(Data)
        BY <1>1
      <3>. QED
        BY <3>1, Zenon
    <2>5. w = [kcp |-> r, sock |-> t.sock, closing |-> t.closing, buf |-> buf]
      <3>1. w = [t EXCEPT !.kcp = r, !.buf = buf]
        BY <1>2, <1>4, <2>2, <2>3, <2>4 DEF Write2Task
      <3>. QED
        BY <3>1, TaskUpdates
    <2>6. w.kcp = r /\ w.sock = t.sock /\ w.closing = t.closing /\ w.buf = buf
      BY <2>5
    <2>7. PICK all : all = {x \o msg : x \in {h \o t.buf}}
      OBVIOUS
    <2>8. Talk(who, senders, {r}, wire, told, said, all)
      <3>1. Talk(who, senders, {KcpRecv(k)}, wire, told, said,
                 {x \o Payload(FirstMessage(k)) : x \in {h \o t.buf}})
        BY <1>3, <2>1, TalkRecv
      <3>. QED
        BY <2>2, <2>3, <2>7, <3>1, Zenon
    <2>9. (h \o t.buf) \o msg = h \o buf
      BY <1>1, <2>4, ThreeStretches, Zenon
    <2>10. PICK one \in SUBSET all : one = {h \o buf}
      BY <2>7, <2>9, Zenon
    <2>11. Grows(said, said)
      BY DEF Grows
    <2>12. Talk(who, senders, {r}, wire, told, said, one)
      <3>1. Less(senders, {r}, wire, told, said, one, senders, {r}, wire, told, said, all)
        BY <2>10, <2>11 DEF Less
      <3>. QED
        BY <2>8, <3>1, TalkLess, Zenon
    <2>13. Talk(who, senders, {w.kcp}, wire, told, said, {h \o w.buf})
      BY <2>6, <2>10, <2>12, Zenon
    <2>. QED
      BY <2>6, <2>13 DEF Tells
  <1>5. CASE ~ KcpReceivable(k, TaskBuf - Len(t.buf))
    <2>1. w = [kcp |-> k, sock |-> t.sock, closing |-> t.closing, buf |-> t.buf]
      <3>1. w = [t EXCEPT !.kcp = k]
        BY <1>2, <1>5 DEF Write2Task
      <3>. QED
        BY <3>1, TaskUpdates
    <2>2. w.kcp = k /\ w.sock = t.sock /\ w.closing = t.closing /\ w.buf = t.buf
      BY <2>1
    <2>3. Talk(who, senders, {w.kcp}, wire, told, said, {h \o w.buf})
      BY <1>3, <2>2, Zenon
    <2>. QED
      BY <2>2, <2>3 DEF Tells
  <1>. QED
    BY <1>4, <1>5

(* Nothing else of the task is touched.                                    *)
LEMMA Write2TaskKeeps ==
    ASSUME NEW t \in Task, NEW d, NEW grow, NEW w, w = Write2Task(t, d, grow)
    PROVE  w.sock = t.sock /\ w.closing = t.closing
  <1>1. PICK k : k = KcpInput(t.kcp, d, grow)
    OBVIOUS
  <1>2. CASE KcpReceivable(k, TaskBuf - Len(t.buf))
    <2>1. PICK r, buf : r = KcpRecv(k) /\ buf = t.buf \o Payload(FirstMessage(k))
      OBVIOUS
    <2>2. w = [t EXCEPT !.kcp = r, !.buf = buf]
      BY <1>1, <1>2, <2>1 DEF Write2Task
    <2>3. w = [kcp |-> r, sock |-> t.sock, closing |-> t.closing, buf |-> buf]
      BY <2>2, TaskUpdates
    <2>. QED
      BY <2>3
  <1>3. CASE ~ KcpReceivable(k, TaskBuf - Len(t.buf))
    <2>1. w = [t EXCEPT !.kcp = k]
      BY <1>1, <1>3 DEF Write2Task
    <2>2. w = [kcp |-> k, sock |-> t.sock, closing |-> t.closing, buf |-> t.buf]
      BY <2>1, TaskUpdates
    <2>. QED
      BY <2>2
  <1>. QED
    BY <1>2, <1>3

(* What it does to the control block does not concern what was sent.       *)
LEMMA Write2TaskSends ==
    ASSUME NEW t \in Task, NEW d \in Datagram, NEW grow \in BOOLEAN, NEW w \in Task,
           w = Write2Task(t, d, grow),
           NEW who, NEW receivers, NEW wire, NEW told, NEW said, NEW heard,
           Talk(who, {t.kcp}, receivers, wire, told, said, heard)
    PROVE  Talk(who, {w.kcp}, receivers, wire, told, said, heard)
  <1>1. t.kcp \in ControlBlock /\ t.buf \in Seq(Data)
    BY DEF Task
  <1>2. PICK k \in ControlBlock :
          /\ k = KcpInput(t.kcp, d, grow) /\ k.snd_nxt = t.kcp.snd_nxt
          /\ k.snd_queue = t.kcp.snd_queue /\ k.snd_buf \subseteq t.kcp.snd_buf
    BY <1>1, KcpInputType
  <1>3. Talk(who, {k}, receivers, wire, told, said, heard)
    BY <1>2, TalkSender
  <1>4. CASE KcpReceivable(k, TaskBuf - Len(t.buf))
    <2>1. k.rcv_queue # <<>>
      BY <1>4 DEF KcpReceivable, KcpReadable
    <2>2. PICK r \in ControlBlock : r = KcpRecv(k) /\ SameSender(r, k)
      BY <2>1, KcpRecvType
    <2>3. PICK buf : buf = t.buf \o Payload(FirstMessage(k))
      OBVIOUS
    <2>4. w = [t EXCEPT !.kcp = r, !.buf = buf]
      BY <1>2, <1>4, <2>2, <2>3 DEF Write2Task
    <2>5. w = [kcp |-> r, sock |-> t.sock, closing |-> t.closing, buf |-> buf]
      BY <2>4, TaskUpdates
    <2>. QED
      BY <1>3, <2>2, <2>5, TalkSender DEF SameSender
  <1>5. CASE ~ KcpReceivable(k, TaskBuf - Len(t.buf))
    <2>1. w = [t EXCEPT !.kcp = k]
      BY <1>2, <1>5 DEF Write2Task
    <2>2. w = [kcp |-> k, sock |-> t.sock, closing |-> t.closing, buf |-> t.buf]
      BY <2>1, TaskUpdates
    <2>. QED
      BY <1>3, <2>2
  <1>. QED
    BY <1>4, <1>5

(* A datagram for a task.                                                  *)
LEMMA TaskHearsTalk ==
    ASSUME ServerInv, ServerType, AbsentIsSilent, NEW a \in Clients, NEW d \in Datagram,
           NEW grow \in BOOLEAN, <<a, d>> \in toServer, TaskKey(a, d) \in DOMAIN tasks,
           ServerInput(a, d, grow), toServer' \subseteq toServer,
           UNCHANGED <<clientVars, toClient>>
    PROVE  TalkGoesOn
  <1>1. PICK key \in DOMAIN tasks : key = <<a, d.conv>> /\ key = TaskKey(a, d)
    BY DEF TaskKey
  <1>2. PICK t \in Task : t = tasks[key]
    BY DEF ServerType
  <1>3. key \in Keys
    BY DEF ServerType
  <1>4. /\ \A x : Up(key, x) => UpTo(key, x, t.kcp)
        /\ \A y : Down(key, y) => DownFrom(key, y, t.kcp)
    BY <1>2, TaskThere
  <1>5. PICK h \in Seq(Data) : h = targets[t.sock].heard
    <2>1. targets[t.sock] \in Target
      BY <1>2 DEF ServerInv, ServerType
    <2>. QED
      BY <2>1 DEF Target
  <1>6. TargetHeard(key) = {h \o t.buf}
    BY <1>2, <1>5, ServerSide, Zenon
  <1>7. d \in Wire(toServer, key)
    <2>1. Bears(<<a, d>>, key)
      BY <1>1 DEF Bears
    <2>. QED
      BY <2>1 DEF Wire
  <1>8. PICK w \in Task : w = Write2Task(t, d, grow)
    BY Write2TaskType
  <1>9. /\ DOMAIN tasks' = DOMAIN tasks
        /\ tasks'[key] = w
        /\ \A i \in DOMAIN tasks \ {key} : tasks'[i] = tasks[i]
        /\ targets' = targets
    BY <1>1, <1>2, <1>8 DEF ServerInput, TaskOf
  <1>0. w.sock = t.sock /\ w.closing = t.closing
    BY <1>8, Write2TaskKeeps
  <1>10. /\ Answered(key)' = Answered(key)
         /\ TargetHeard(key)' \subseteq {h \o w.buf}
         /\ WireBack(key)' = WireBack(key)
         /\ TargetSaid' = TargetSaid
    <2>1. Answered(key)' = Answered(key)
      BY <1>0, <1>2, <1>8, <1>9 DEF Answered
    <2>2. TargetHeard(key)' \subseteq {h \o w.buf}
      <3>1. targets'[tasks'[key].sock].heard \o tasks'[key].buf = h \o w.buf
        BY <1>0, <1>5, <1>9, Zenon
      <3>. QED
        BY <3>1 DEF TargetHeard
    <2>3. WireBack(key)' = WireBack(key)
      BY DEF WireBack, clientVars
    <2>. QED
      BY <1>9, <2>1, <2>2, <2>3 DEF TargetSaid
  <1>11. Goes(key)
    <2>1. ASSUME NEW x, Up(key, x)
          PROVE  Up(key, x)'
      <3>1. Tells(x, Kcps(sessions, key), Wire(toServer, key), Told(key), PcSaid, h, t)
        BY <1>4, <1>6, <2>1, Zenon DEF UpTo, Tells
      <3>2. Tells(x, Kcps(sessions, key), Wire(toServer, key), Told(key), PcSaid, h, w)
        BY <1>7, <1>8, <3>1, Write2TaskTalk, Zenon
      <3>3. Talk(x, Kcps(sessions, key), {w.kcp}, Wire(toServer, key), Told(key), PcSaid,
                 {h \o w.buf})
        BY <3>2 DEF Tells
      <3>. QED
        BY <1>9, <1>10, <3>3, TaskGoesOn
    <2>2. ASSUME NEW y, Down(key, y)
          PROVE  Down(key, y)'
      <3>1. Talk(y, {t.kcp}, Kcps(sessions, key), WireBack(key), Answered(key), TargetSaid,
                 PcHeard(key))
        BY <1>4, <2>2 DEF DownFrom
      <3>2. Talk(y, {w.kcp}, Kcps(sessions, key), WireBack(key), Answered(key), TargetSaid,
                 PcHeard(key))
        BY <1>8, <3>1, Write2TaskSends
      <3>. QED
        BY <1>9, <1>10, <3>2, TaskSaysOn
    <2>. QED
      BY <2>1, <2>2 DEF Goes, UpKept, DownKept
  <1>12. Grows(TargetSaid, TargetSaid')
    BY <1>10 DEF Grows
  <1>13. \A i \in Keys \ {key} : Wire(toClient', i) \subseteq Wire(toClient, i)
    OBVIOUS
  <1>. QED
    BY <1>9, <1>11, <1>12, <1>13, OneTask

(* A datagram for which a task is made: it hears the session from the      *)
(* beginning, and the session hears it from the beginning.                 *)
LEMMA NewTaskTalk ==
    ASSUME ServerInv, ServerType, AbsentIsSilent, NEW a \in Clients, NEW d \in Datagram,
           d.conv \in 1 .. IdMod - 1, NEW grow \in BOOLEAN,
           <<a, d>> \in toServer, TaskKey(a, d) \notin DOMAIN tasks,
           ServerInput(a, d, grow), toServer' \subseteq toServer,
           UNCHANGED <<clientVars, toClient>>, FreshIds
    PROVE  TalkGoesOn
  <1>1. PICK key \in Keys : key = <<a, d.conv>> /\ key = TaskKey(a, d) /\ key[2] = d.conv
    <2>1. <<a, d.conv>> \in Keys /\ <<a, d.conv>>[2] = d.conv
      BY DEF Keys
    <2>. QED
      BY <2>1 DEF TaskKey
  <1>2. PICK n \in Nat : n = Len(targets) /\ DOMAIN targets = 1 .. n
    BY DEF ServerType
  <1>3. key[2] \in Nat /\ key \notin DOMAIN tasks
    BY <1>1 DEF Datagram
  <1>4. PICK k \in ControlBlock : k = KcpCreate(key[2])
    BY <1>3, KcpCreateType
  <1>5. PICK none \in Seq(Data) : none = <<>>
    BY NoData, Zenon
  <1>6. PICK t \in Task : /\ t = TaskOf(key) /\ t.kcp = k /\ t.sock = n + 1 /\ t.buf = none
                        /\ t.closing = FALSE
    <2>1. PICK sock \in Nat : sock = n + 1
      OBVIOUS
    <2>2. PICK t : t = [kcp |-> k, sock |-> sock, closing |-> FALSE, buf |-> none]
      OBVIOUS
    <2>3. t = TaskOf(key)
      BY <1>2, <1>3, <1>4, <1>5, <2>1, <2>2 DEF TaskOf
    <2>4. t \in Task /\ t.kcp = k /\ t.sock = sock /\ t.buf = none /\ t.closing = FALSE
      BY <2>2 DEF Task
    <2>. QED
      BY <2>1, <2>3, <2>4
  <1>7. d \in Wire(toServer, key)
    <2>1. Bears(<<a, d>>, key)
      BY <1>1 DEF Bears
    <2>. QED
      BY <2>1 DEF Wire
  <1>8. PICK w \in Task : /\ w = Write2Task(t, d, grow) /\ w.sock = n + 1
                         /\ w.closing = FALSE
    <2>1. PICK w \in Task : w = Write2Task(t, d, grow)
      BY Write2TaskType
    <2>2. w.sock = t.sock /\ w.closing = t.closing
      BY <2>1, Write2TaskKeeps
    <2>. QED
      BY <1>6, <2>1, <2>2
  <1>9. /\ Kcps(tasks, key) = {} /\ Answered(key) = {} /\ TargetHeard(key) = {}
    BY <1>3, ServerSide
  <1>10. ASSUME NEW x, Up(key, x)
         PROVE  Talk(x, Kcps(sessions, key), {w.kcp}, Wire(toServer, key), Told(key),
                     PcSaid, {none \o w.buf})
    <2>1. Talk(x, Kcps(sessions, key), {}, Wire(toServer, key), Told(key), PcSaid, {})
      BY <1>9, <1>10, Zenon DEF Up
    <2>2. Talk(x, Kcps(sessions, key), {KcpCreate(key[2])}, Wire(toServer, key), Told(key),
               PcSaid, {<<>>})
      BY <1>3, <2>1, TalkToNew
    <2>3. none \o t.buf = <<>>
      <3>1. <<>> \o <<>> = <<>>
        OBVIOUS
      <3>. QED
        BY <1>5, <1>6, <3>1, Zenon
    <2>4. Tells(x, Kcps(sessions, key), Wire(toServer, key), Told(key), PcSaid, none, t)
      BY <1>4, <1>6, <2>2, <2>3, Zenon DEF Tells
    <2>5. Tells(x, Kcps(sessions, key), Wire(toServer, key), Told(key), PcSaid, none, w)
      BY <1>7, <1>8, <2>4, Write2TaskTalk, Zenon
    <2>. QED
      BY <2>5 DEF Tells
  <1>12. /\ DOMAIN tasks' = DOMAIN tasks \cup {key}
         /\ tasks'[key] = w
         /\ \A i \in DOMAIN tasks : tasks'[i] = tasks[i]
    BY <1>1, <1>3, <1>6, <1>8 DEF ServerInput
  <1>13. /\ DOMAIN targets' = 1 .. n + 1
         /\ \A i \in 1 .. n : targets'[i] = targets[i]
         /\ targets'[n + 1] = Connected
    <2>1. targets' = Append(targets, Connected)
      BY <1>1, <1>3 DEF ServerInput
    <2>2. targets \in Seq(Target)
      BY DEF ServerType
    <2>3. Connected \in Target
      BY DEF Connected, Target
    <2>. QED
      BY <1>2, <2>1, <2>2, <2>3
  <1>14. targets'[n + 1].said = 0 /\ targets'[n + 1].heard = none
    BY <1>5, <1>13 DEF Connected
  <1>15. Grows(TargetSaid, TargetSaid')
    BY <1>2, <1>13 DEF Grows, TargetSaid
  <1>16. WireBack(key)' = {}
    <2>1. key \in DOMAIN sessions => \A p \in toClient : ~ Bears(p, key)
      BY <1>3, <1>12 DEF FreshIds
    <2>2. key \in DOMAIN sessions => Wire(toClient', key) = {}
      BY <2>1 DEF Wire
    <2>. QED
      BY <2>2 DEF WireBack, clientVars
  <1>17. Answered(key)' = {<<n + 1, 0, FALSE>>}
    BY <1>8, <1>12, <1>14 DEF Answered
  <1>18. TargetHeard(key)' \subseteq {none \o w.buf}
    <2>1. targets'[tasks'[key].sock].heard \o tasks'[key].buf = none \o w.buf
      BY <1>8, <1>12, <1>14, Zenon
    <2>. QED
      BY <2>1 DEF TargetHeard
  <1>19. ASSUME NEW y, Down(key, y)
         PROVE  Talk(n + 1, {w.kcp}, Kcps(sessions, key), {}, {<<n + 1, 0, FALSE>>},
                     TargetSaid', PcHeard(key))
    <2>1. Talk(y, {}, Kcps(sessions, key), WireBack(key), {}, TargetSaid, PcHeard(key))
      BY <1>9, <1>19, Zenon DEF Down
    <2>2. \A r \in Kcps(sessions, key) : r.rcv_nxt = 0 /\ r.rcv_buf = {}
      BY <1>3, <1>12 DEF Kcps, FreshIds
    <2>3. Kcps(sessions, key) = {} => PcHeard(key) = {}
      BY ClientSide
    <2>4. Talk(n + 1, {KcpCreate(key[2])}, Kcps(sessions, key), {}, {<<n + 1, 0, FALSE>>},
               TargetSaid', PcHeard(key))
      BY <1>3, <2>1, <2>2, <2>3, TalkFromNew
    <2>5. Talk(n + 1, {t.kcp}, Kcps(sessions, key), {}, {<<n + 1, 0, FALSE>>}, TargetSaid',
               PcHeard(key))
      BY <1>4, <1>6, <2>4, Zenon
    <2>. QED
      BY <1>8, <2>5, Write2TaskSends
  <1>20. Goes(key)
    <2>1. key \in DOMAIN tasks' /\ tasks'[key].kcp = w.kcp /\ tasks'[key].sock = n + 1
      BY <1>8, <1>12
    <2>2. UpKept(key)
      BY <1>10, <1>18, <2>1, TaskGoesOn DEF UpKept
    <2>3. CASE \E y : Down(key, y)
      <3>1. Down(key, n + 1)'
        BY <1>16, <1>17, <1>19, <2>1, <2>3, TaskSaysOn
      <3>2. DownBegins(key)
        BY <1>3, <2>1, <3>1 DEF DownBegins
      <3>. QED
        BY <2>2, <3>2 DEF Goes
    <2>4. CASE ~ \E y : Down(key, y)
      BY <2>2, <2>4 DEF Goes, DownKept
    <2>. QED
      BY <2>3, <2>4
  <1>21. ASSUME NEW i \in Keys \ {key}, i \in DOMAIN tasks'
         PROVE  /\ i \in DOMAIN tasks /\ tasks'[i] = tasks[i]
                /\ targets'[tasks[i].sock] = targets[tasks[i].sock]
    <2>1. i \in DOMAIN tasks /\ tasks'[i] = tasks[i]
      BY <1>12, <1>21
    <2>2. tasks[i].sock \in 1 .. n
      BY <1>2, <2>1 DEF ServerInv
    <2>. QED
      BY <1>13, <2>1, <2>2
  <1>22. \A i \in Keys \ {key} :
           /\ Wire(toClient', i) \subseteq Wire(toClient, i)
           /\ i \in DOMAIN tasks' =>
                 /\ i \in DOMAIN tasks
                 /\ tasks'[i].kcp = tasks[i].kcp
                 /\ tasks'[i].sock = tasks[i].sock
                 /\ tasks'[i].closing = tasks[i].closing
                 /\ targets'[tasks[i].sock].said = targets[tasks[i].sock].said
                 /\ targets'[tasks[i].sock].heard \o tasks'[i].buf
                    = targets[tasks[i].sock].heard \o tasks[i].buf
    BY <1>21
  <1>23. \A i \in Keys \ (Keys \ {key}) : Goes(i)
    BY <1>20
  <1>. QED
    BY <1>15, <1>22, <1>23, ServerMoves

(* Arrival at the server.                                                  *)
LEMMA ServerHearsTalk ==
    ASSUME ServerInv, ServerType, NetType, AbsentIsSilent, NEW p \in toServer,
           NEW grow \in BOOLEAN, NEW dup, ServerHears(p[1], p[2], grow, dup),
           UNCHANGED clientVars, FreshIds
    PROVE  TalkGoesOn
  <1>1. PICK a \in Clients, d \in Datagram : p = <<a, d>> /\ d.conv \in 1 .. IdMod - 1
    BY DEF NetType
  <1>2. p[1] = a /\ p[2] = d
    BY <1>1
  <1>3. /\ toServer' \subseteq toServer /\ toClient' = toClient
        /\ ServerInput(a, d, grow) \/ UNCHANGED serverVars
    BY <1>2 DEF ServerHears
  <1>4. CASE ServerInput(a, d, grow)
    BY <1>1, <1>3, <1>4, TaskHearsTalk, NewTaskTalk
  <1>5. CASE UNCHANGED serverVars
    <2>1. /\ Grows(TargetSaid, TargetSaid')
          /\ tasks' = tasks /\ targets' = targets
      BY <1>5 DEF serverVars, Grows, TargetSaid
    <2>. QED
      BY <1>3, <2>1, ServerMoves
  <1>. QED
    BY <1>3, <1>4, <1>5

(* A task with this control block in place of its own, and n more bytes    *)
(* said by its connection; no bytes are the close signal.                  *)
TaskQueues(key, t, k, said, n, r) ==
    /\ t = tasks[key] /\ k = t.sock /\ said = targets[k].said
    /\ DOMAIN tasks' = DOMAIN tasks
    /\ \A i \in DOMAIN tasks \ {key} : tasks'[i] = tasks[i]
    /\ tasks'[key].kcp = r /\ tasks'[key].sock = k /\ tasks'[key].buf = t.buf
    /\ tasks'[key].closing = IF n = 0 THEN TRUE ELSE t.closing
    /\ DOMAIN targets' = DOMAIN targets
    /\ \A j \in DOMAIN targets \ {k} : targets'[j] = targets[j]
    /\ targets'[k].said = said + n /\ targets'[k].heard = targets[k].heard
    /\ targets'[k].state = targets[k].state

(* What a task queues is the next of what its connection said.             *)
LEMMA TaskQueuesTalk ==
    ASSUME ServerInv, ServerType, AbsentIsSilent, NEW key \in DOMAIN tasks,
           NEW t \in Task, NEW k \in DOMAIN targets, NEW said \in Nat, NEW n \in Nat,
           Bytes(k, said, n) \in Seq(Data), ~ KcpSendRefused(Bytes(k, said, n)),
           n = 0 => ~ t.closing, n # 0 <=> targets[k].state = "open",
           NEW r \in ControlBlock, r = KcpSend(t.kcp, Bytes(k, said, n)),
           UNCHANGED <<clientVars, net>>, TaskQueues(key, t, k, said, n, r)
    PROVE  TalkGoesOn
  <1>. USE DEF TaskQueues
  <1>1. /\ \A x : Up(key, x) => UpTo(key, x, t.kcp)
        /\ \A y : Down(key, y) => DownFrom(key, y, t.kcp)
    BY TaskThere
  <1>2. toServer' \subseteq toServer /\ toClient' \subseteq toClient
    BY DEF net
  <1>3. SameReceiver(r, t.kcp)
    <2>1. t.kcp \in ControlBlock
      BY DEF Task
    <2>. QED
      BY <2>1, KcpSendReceiver
  <1>4. /\ Answered(key)' = {<<k, said + n, tasks'[key].closing>>}
        /\ TargetHeard(key)' \subseteq TargetHeard(key)
        /\ WireBack(key)' = WireBack(key)
    <2>1. Answered(key)' = {<<k, said + n, tasks'[key].closing>>}
      <3>1. DOMAIN tasks' \cap {key} = {key}
        OBVIOUS
      <3>2. <<tasks'[key].sock, targets'[tasks'[key].sock].said, tasks'[key].closing>>
              = <<k, said + n, tasks'[key].closing>>
        BY Zenon
      <3>. QED
        BY <3>1, <3>2 DEF Answered
    <2>2. TargetHeard(key)' \subseteq TargetHeard(key)
      <3>1. targets'[tasks'[key].sock].heard \o tasks'[key].buf
              = targets[tasks[key].sock].heard \o tasks[key].buf
        BY Zenon
      <3>. QED
        BY <3>1 DEF TargetHeard
    <2>3. WireBack(key)' = WireBack(key)
      BY DEF WireBack, clientVars, net
    <2>. QED
      BY <2>1, <2>2, <2>3
  <1>5. ASSUME NEW x, Up(key, x)
        PROVE  Up(key, x)'
    <2>1. UpTo(key, x, t.kcp)
      BY <1>1, <1>5
    <2>2. Talk(x, Kcps(sessions, key), {r}, Wire(toServer, key), Told(key), PcSaid,
               TargetHeard(key))
      BY <1>3, <2>1, TalkReceiver DEF UpTo
    <2>. QED
      BY <1>2, <1>4, <2>2, TaskGoesOn
  <1>6. /\ k \in DOMAIN TargetSaid'.counts /\ TargetSaid'.counts[k] = said + n
        /\ n = 0 => k \in TargetSaid'.over
        /\ Grows(TargetSaid, TargetSaid')
    <2>1. k \in DOMAIN TargetSaid'.counts /\ TargetSaid'.counts[k] = said + n
      BY DEF TargetSaid
    <2>2. n = 0 => k \in TargetSaid'.over
      BY DEF TargetSaid
    <2>3. Grows(TargetSaid, TargetSaid')
      BY DEF TargetSaid, Grows
    <2>. QED
      BY <2>1, <2>2, <2>3
  <1>7. ASSUME NEW y, Down(key, y)
        PROVE  Down(key, y)'
    <2>1. Talk(y, {t.kcp}, Kcps(sessions, key), WireBack(key), {<<k, said, t.closing>>},
               TargetSaid, PcHeard(key))
      BY <1>1, <1>7, ServerSide DEF DownFrom
    <2>2. t.closing = FALSE
      <3>1. PICK ends \in BOOLEAN : ends = t.closing
        BY DEF Task
      <3>2. Talk(y, {t.kcp}, Kcps(sessions, key), WireBack(key), {<<k, said, ends>>},
                 TargetSaid, PcHeard(key))
        BY <2>1, <3>1, Zenon
      <3>3. ends => k \in TargetSaid.over
        BY <3>2, TalkClosing
      <3>5. n # 0 => k \notin TargetSaid.over
        BY DEF TargetSaid
      <3>6. n = 0 => ~ ends
        BY <3>1, Zenon
      <3>. QED
        BY <3>1, <3>3, <3>5, <3>6, Zenon
    <2>3. Talk(y, {t.kcp}, Kcps(sessions, key), WireBack(key), {<<k, said, FALSE>>},
               TargetSaid, PcHeard(key))
      BY <2>1, <2>2, Zenon
    <2>4. Talk(y, {KcpSend(t.kcp, Bytes(k, said, n))}, Kcps(sessions, key), WireBack(key),
               {<<k, said + n, n = 0>>}, TargetSaid', PcHeard(key))
      BY <1>6, <2>3, TalkSend, ZenonT(60)
    <2>5. tasks'[key].closing = (n = 0)
      BY <2>2, Zenon
    <2>6. Answered(key)' = {<<k, said + n, n = 0>>}
      BY <1>4, <2>5, Zenon
    <2>7. Talk(y, {r}, Kcps(sessions, key), WireBack(key), Answered(key)',
               TargetSaid', PcHeard(key))
      BY <2>4, <2>6, Zenon
    <2>. QED
      BY <1>4, <2>7, TaskSaysOn
  <1>8. Goes(key)
    BY <1>5, <1>7 DEF Goes, UpKept, DownKept
  <1>9. \A i \in Keys \ {key} : Wire(toClient', i) \subseteq Wire(toClient, i)
    BY <1>2 DEF Wire
  <1>10. \A i \in DOMAIN tasks' \ {key} : i \in DOMAIN tasks /\ tasks'[i] = tasks[i]
    OBVIOUS
  <1>. QED
    BY <1>2, <1>6, <1>8, <1>9, <1>10, OneTask

(* TaskReadCB.                                                             *)
LEMMA TaskReadTalk ==
    ASSUME ServerInv, ServerType, AbsentIsSilent, NEW key \in DOMAIN tasks,
           NEW n \in 1 .. MaxReply - targets[tasks[key].sock].said, TaskRead(key, n),
           UNCHANGED <<clientVars, net>>
    PROVE  TalkGoesOn
  <1>1. PICK t \in Task : t = tasks[key]
    BY DEF ServerType
  <1>2. targets \in Seq(Target) /\ Len(targets) <= MaxTargets /\ MaxTargets \in Nat
    BY OktunAssumption DEF ServerType
  <1>3. PICK k \in DOMAIN targets : k = t.sock /\ k \in 1 .. MaxTargets
    BY <1>1, <1>2 DEF ServerInv
  <1>4. PICK r \in Target : r = targets[k]
    BY <1>2, <1>3
  <1>5. PICK said \in Nat : said = r.said
    BY DEF Target
  <1>6. MaxReply \in Nat /\ {k} \X (1 .. MaxReply) \subseteq Data
    BY <1>3, OktunAssumption
  <1>7. n \in Nat \ {0} /\ said + n \in Nat /\ said + n <= MaxReply
    BY <1>1, <1>3, <1>4, <1>5, <1>6
  <1>8. r.state = "open"
    BY <1>1, <1>3, <1>4 DEF TaskRead
  <1>9. PICK bytes \in Seq(Data) : bytes = Bytes(k, said, n) /\ Len(bytes) = n
    BY <1>6, <1>7, BytesType
  <1>10. ~ KcpSendRefused(bytes)
    <2>1. n \in 1 .. TaskBuf
      BY DEF TaskRead
    <2>2. TaskBuf \in Nat \ {0} /\ TaskBuf <= Mss * (RcvWnd - 1) /\ Len(bytes) <= TaskBuf
      BY <1>9, <2>1, ServerAssumption
    <2>. QED
      BY <2>2, NotRefused
  <1>11. PICK kcp \in ControlBlock : kcp = KcpSend(t.kcp, bytes)
    <2>1. t.kcp \in ControlBlock
      BY DEF Task
    <2>. QED
      BY <2>1, KcpSendType
  <1>12. bytes = [i \in 1 .. n |-> <<k, said + i>>]
    BY <1>9 DEF Bytes
  <1>13. tasks' = [tasks EXCEPT ![key] = [t EXCEPT !.kcp = kcp]]
    BY <1>1, <1>3, <1>4, <1>5, <1>11, <1>12 DEF TaskRead
  <1>14. [t EXCEPT !.kcp = kcp] =
            [kcp |-> kcp, sock |-> t.sock, closing |-> t.closing, buf |-> t.buf]
    BY TaskUpdates
  <1>15. /\ DOMAIN tasks' = DOMAIN tasks
         /\ \A i \in DOMAIN tasks \ {key} : tasks'[i] = tasks[i]
         /\ tasks'[key].kcp = kcp /\ tasks'[key].sock = k /\ tasks'[key].buf = t.buf
         /\ tasks'[key].closing = t.closing
    BY <1>3, <1>13, <1>14
  <1>16. targets' = [targets EXCEPT ![k] = [r EXCEPT !.said = said + n]]
    BY <1>1, <1>3, <1>4, <1>5 DEF TaskRead
  <1>17. /\ DOMAIN targets' = DOMAIN targets
         /\ \A j \in DOMAIN targets \ {k} : targets'[j] = targets[j]
         /\ targets'[k] = [r EXCEPT !.said = said + n]
    BY <1>16, TargetChanges
  <1>18. /\ targets'[k].said = said + n /\ targets'[k].heard = targets[k].heard
         /\ targets'[k].state = targets[k].state
    BY <1>4, <1>17 DEF Target
  <1>19. /\ n \in Nat /\ said = targets[k].said /\ Bytes(k, said, n) \in Seq(Data)
         /\ ~ KcpSendRefused(Bytes(k, said, n)) /\ kcp = KcpSend(t.kcp, Bytes(k, said, n))
    BY <1>4, <1>5, <1>7, <1>9, <1>10, <1>11
  <1>20. tasks'[key].closing = IF n = 0 THEN TRUE ELSE t.closing
    BY <1>7, <1>15, Zenon
  <1>21. TaskQueues(key, t, k, said, n, kcp)
    BY <1>1, <1>3, <1>15, <1>17, <1>18, <1>19, <1>20, Zenon DEF TaskQueues
  <1>22. (n = 0 => ~ t.closing) /\ (n # 0 <=> targets[k].state = "open")
    BY <1>4, <1>7, <1>8
  <1>. QED
    BY <1>19, <1>21, <1>22, TaskQueuesTalk

(* TaskWriteCB: bytes move from the task's buffer to the target.           *)
LEMMA TaskWriteTalk ==
    ASSUME ServerInv, ServerType, AbsentIsSilent, NEW key \in DOMAIN tasks,
           NEW n, TaskWrite(key, n), UNCHANGED <<clientVars, net>>
    PROVE  TalkGoesOn
  <1>1. PICK t \in Task : t = tasks[key]
    BY DEF ServerType
  <1>2. PICK k \in DOMAIN targets : k = t.sock
    BY <1>1 DEF ServerInv
  <1>3. PICK r \in Target : r = targets[k]
    BY DEF ServerType
  <1>4. PICK h \in Seq(Data), b \in Seq(Data) : h = r.heard /\ b = t.buf
    BY DEF Target, Task
  <1>5. n \in 1 .. Len(b)
    BY <1>1, <1>4 DEF TaskWrite
  <1>6. PICK first \in Seq(Data), rest \in Seq(Data) :
          first = SubSeq(b, 1, n) /\ rest = SubSeq(b, n + 1, Len(b))
    <2>1. SubSeq(b, 1, n) \in Seq(Data) /\ SubSeq(b, n + 1, Len(b)) \in Seq(Data)
      BY <1>5
    <2>. QED
      BY <2>1, Zenon
  <1>7. (h \o first) \o rest = h \o b
    <2>1. first \o rest = b
      <3>1. n \in 0 .. Len(b) /\ Len(b) \in 0 .. Len(b)
        BY <1>5
      <3>2. SubSeq(b, 1, n) \o SubSeq(b, n + 1, Len(b)) = SubSeq(b, 1, Len(b))
        BY <3>1, CutInTwo, Zenon
      <3>3. SubSeq(b, 1, Len(b)) = b
        OBVIOUS
      <3>. QED
        BY <1>6, <3>2, <3>3, Zenon
    <2>2. (h \o first) \o rest = h \o (first \o rest)
      BY ThreeStretches, Zenon
    <2>. QED
      BY <2>1, <2>2, Zenon
  <1>8. /\ DOMAIN tasks' = DOMAIN tasks
        /\ \A i \in DOMAIN tasks \ {key} : tasks'[i] = tasks[i]
        /\ tasks'[key].kcp = t.kcp /\ tasks'[key].sock = k /\ tasks'[key].buf = rest
        /\ tasks'[key].closing = t.closing
    <2>1. tasks' = [tasks EXCEPT ![key] = [t EXCEPT !.buf = rest]]
      BY <1>1, <1>4, <1>6 DEF TaskWrite
    <2>2. [t EXCEPT !.buf = rest] =
             [kcp |-> t.kcp, sock |-> t.sock, closing |-> t.closing, buf |-> rest]
      BY TaskUpdates
    <2>. QED
      BY <1>2, <2>1, <2>2
  <1>9. PICK longer : longer = h \o first
    OBVIOUS
  <1>10. /\ DOMAIN targets' = DOMAIN targets
         /\ \A j \in DOMAIN targets \ {k} : targets'[j] = targets[j]
         /\ targets'[k].said = r.said /\ targets'[k].heard = longer
         /\ targets'[k].state = r.state
    <2>1. targets' = [targets EXCEPT ![k] = [r EXCEPT !.heard = longer]]
      BY <1>1, <1>2, <1>3, <1>4, <1>6, <1>9 DEF TaskWrite
    <2>2. /\ DOMAIN targets' = DOMAIN targets
          /\ \A j \in DOMAIN targets \ {k} : targets'[j] = targets[j]
          /\ targets'[k] = [r EXCEPT !.heard = longer]
      BY <2>1, TargetChanges
    <2>. QED
      BY <2>2 DEF Target
  <1>11. Grows(TargetSaid, TargetSaid')
    BY <1>3, <1>10 DEF Grows, TargetSaid
  <1>12. targets'[k].heard \o tasks'[key].buf = targets[k].heard \o tasks[key].buf
    BY <1>1, <1>3, <1>4, <1>7, <1>8, <1>9, <1>10, Zenon
  <1>13. ASSUME NEW i \in Keys, i \in DOMAIN tasks'
         PROVE  /\ i \in DOMAIN tasks
                /\ tasks'[i].kcp = tasks[i].kcp
                /\ tasks'[i].sock = tasks[i].sock
                /\ tasks'[i].closing = tasks[i].closing
                /\ targets'[tasks[i].sock].said = targets[tasks[i].sock].said
                /\ targets'[tasks[i].sock].heard \o tasks'[i].buf
                   = targets[tasks[i].sock].heard \o tasks[i].buf
    <2>1. CASE i = key
      BY <1>1, <1>2, <1>3, <1>8, <1>10, <1>12, <2>1
    <2>2. CASE i # key
      <3>1. tasks[i].sock \in DOMAIN targets \ {k}
        BY <1>1, <1>2, <1>8, <1>13, <2>2 DEF ServerInv, TargetsHeld
      <3>. QED
        BY <1>8, <1>10, <1>13, <2>2, <3>1
    <2>. QED
      BY <2>1, <2>2
  <1>14. toServer' \subseteq toServer /\ toClient' = toClient
    BY DEF net
  <1>. QED
    BY <1>11, <1>13, <1>14, ServerMoves

(* A callback after which some tasks are gone and the others as before,    *)
(* and the connections have heard and said what they had.                  *)
LEMMA ServerGoes ==
    ASSUME ServerInv, AbsentIsSilent, UNCHANGED <<clientVars, net>>,
           \A i \in DOMAIN tasks' : i \in DOMAIN tasks /\ tasks'[i] = tasks[i],
           DOMAIN targets' = DOMAIN targets,
           \A k \in DOMAIN targets :
              /\ targets'[k].said = targets[k].said /\ targets'[k].heard = targets[k].heard
              /\ targets'[k].state = "open" => targets[k].state = "open"
    PROVE  TalkGoesOn
  <1>1. Grows(TargetSaid, TargetSaid')
    BY DEF Grows, TargetSaid
  <1>2. toServer' \subseteq toServer /\ toClient' = toClient
    BY DEF net
  <1>3. ASSUME NEW i \in Keys, i \in DOMAIN tasks'
        PROVE  /\ i \in DOMAIN tasks
               /\ tasks'[i] = tasks[i]
               /\ targets'[tasks[i].sock].said = targets[tasks[i].sock].said
               /\ targets'[tasks[i].sock].heard = targets[tasks[i].sock].heard
    BY <1>3 DEF ServerInv
  <1>. QED
    BY <1>1, <1>2, <1>3, ServerMoves

(* TaskReadCB at the end of the target's stream: the close signal is a     *)
(* message of no bytes.                                                    *)
LEMMA TaskEofTalk ==
    ASSUME ServerInv, ServerType, AbsentIsSilent, NEW key \in DOMAIN tasks,
           TaskEof(key), UNCHANGED <<clientVars, net>>
    PROVE  TalkGoesOn
  <1>1. PICK t \in Task : t = tasks[key]
    BY DEF ServerType
  <1>2. PICK k \in DOMAIN targets : k = t.sock
    BY <1>1 DEF ServerInv
  <1>3. PICK r \in Target : r = targets[k]
    BY DEF ServerType
  <1>4. CASE /\ ~ t.closing
             /\ tasks' = [tasks EXCEPT ![key].closing = TRUE,
                                       ![key].kcp = KcpSend(@, <<>>)]
             /\ UNCHANGED targets
    <2>1. PICK said \in Nat : said = r.said
      BY DEF Target
    <2>2. PICK none \in Seq(Data) : none = <<>> /\ Len(none) = 0
      BY NoData
    <2>3. Bytes(k, said, 0) = none
      BY <2>2, NoBytes, Zenon
    <2>5. ~ KcpSendRefused(none)
      <3>1. TaskBuf \in Nat \ {0} /\ TaskBuf <= Mss * (RcvWnd - 1) /\ Len(none) <= TaskBuf
        BY <2>2, ServerAssumption
      <3>. QED
        BY <3>1, NotRefused
    <2>6. PICK kcp \in ControlBlock : kcp = KcpSend(t.kcp, none)
      <3>1. t.kcp \in ControlBlock
        BY DEF Task
      <3>. QED
        BY <3>1, KcpSendType
    <2>7. KcpSend(t.kcp, <<>>) = kcp
      BY <2>2, <2>6, Zenon
    <2>8. /\ DOMAIN tasks' = DOMAIN tasks
          /\ tasks'[key] = [t EXCEPT !.closing = TRUE, !.kcp = kcp]
          /\ \A i \in DOMAIN tasks \ {key} : tasks'[i] = tasks[i]
      BY <1>1, <1>4, <2>7
    <2>9. tasks'[key] = [kcp |-> kcp, sock |-> t.sock, closing |-> TRUE, buf |-> t.buf]
      BY <2>8, TaskUpdates, Zenon
    <2>10. /\ tasks'[key].kcp = kcp /\ tasks'[key].sock = k /\ tasks'[key].buf = t.buf
           /\ tasks'[key].closing = TRUE
      BY <1>2, <2>9
    <2>11. TaskQueues(key, t, k, said, 0, kcp)
      <3>1. tasks'[key].closing = IF 0 = 0 THEN TRUE ELSE t.closing
        BY <2>10, Zenon
      <3>2. /\ targets'[k].said = said + 0 /\ targets'[k].heard = targets[k].heard
            /\ targets'[k].state = targets[k].state /\ DOMAIN targets' = DOMAIN targets
            /\ \A j \in DOMAIN targets \ {k} : targets'[j] = targets[j]
        BY <1>3, <1>4, <2>1
      <3>. QED
        BY <1>1, <1>2, <1>3, <2>1, <2>8, <2>10, <3>1, <3>2, Zenon DEF TaskQueues
    <2>12. /\ Bytes(k, said, 0) \in Seq(Data) /\ ~ KcpSendRefused(Bytes(k, said, 0))
           /\ kcp = KcpSend(t.kcp, Bytes(k, said, 0))
      BY <2>3, <2>5, <2>6, Zenon
    <2>13. 0 \in Nat
      OBVIOUS
    <2>. QED
      BY <1>1, <1>2, <1>3, <1>4, <2>11, <2>12, <2>13, TaskQueuesTalk DEF TaskEof
  <1>5. CASE /\ tasks' = Restrict(tasks, DOMAIN tasks \ {key})
             /\ targets' = [targets EXCEPT ![t.sock].state = "closed"]
    <2>1. targets' = [targets EXCEPT ![k] = [r EXCEPT !.state = "closed"]]
      BY <1>2, <1>3, <1>5
    <2>2. /\ DOMAIN targets' = DOMAIN targets
          /\ \A j \in DOMAIN targets \ {k} : targets'[j] = targets[j]
          /\ targets'[k] = [r EXCEPT !.state = "closed"]
      BY <2>1, TargetChanges
    <2>3. /\ targets'[k].said = targets[k].said /\ targets'[k].heard = targets[k].heard
          /\ targets'[k].state # "open"
      BY <1>3, <2>2 DEF Target
    <2>4. \A i \in DOMAIN tasks' : i \in DOMAIN tasks /\ tasks'[i] = tasks[i]
      BY <1>5 DEF Restrict
    <2>. QED
      BY <2>2, <2>3, <2>4, ServerGoes
  <1>. QED
    BY <1>1, <1>4, <1>5 DEF TaskEof

(* The steps of the target.                                                *)
LEMMA TargetStepsTalk ==
    ASSUME ServerInv, ServerType, AbsentIsSilent, TargetSteps, UNCHANGED <<clientVars, net>>
    PROVE  TalkGoesOn
  <1>1. ASSUME NEW k \in DOMAIN targets, TargetEnds(k)
        PROVE  TalkGoesOn
    <2>1. PICK r \in Target : r = targets[k]
      BY DEF ServerType
    <2>2. targets' = [targets EXCEPT ![k] = [r EXCEPT !.state = "ended"]]
      BY <1>1, <2>1 DEF TargetEnds
    <2>3. /\ DOMAIN targets' = DOMAIN targets
          /\ \A j \in DOMAIN targets \ {k} : targets'[j] = targets[j]
          /\ targets'[k] = [r EXCEPT !.state = "ended"]
      BY <2>2, TargetChanges
    <2>4. /\ targets'[k].said = targets[k].said /\ targets'[k].heard = targets[k].heard
          /\ targets'[k].state # "open"
      BY <2>1, <2>3 DEF Target
    <2>5. tasks' = tasks
      BY <1>1 DEF TargetEnds
    <2>. QED
      BY <2>3, <2>4, <2>5, ServerGoes
  <1>2. ASSUME NEW key \in DOMAIN tasks,
               NEW n \in 1 .. MaxReply - targets[tasks[key].sock].said, TaskRead(key, n)
        PROVE  TalkGoesOn
    BY <1>2, TaskReadTalk
  <1>3. ASSUME NEW key \in DOMAIN tasks, NEW n, TaskWrite(key, n)
        PROVE  TalkGoesOn
    BY <1>3, TaskWriteTalk
  <1>4. ASSUME NEW key \in DOMAIN tasks, TaskEof(key)
        PROVE  TalkGoesOn
    BY <1>4, TaskEofTalk
  <1>5. ASSUME NEW key \in DOMAIN tasks, TaskWriteKills(key)
        PROVE  TalkGoesOn
    <2>1. /\ DOMAIN tasks' = {} /\ DOMAIN targets' = DOMAIN targets
          /\ \A k \in DOMAIN targets : targets'[k] = [targets[k] EXCEPT !.state = "closed"]
      BY <1>5 DEF TaskWriteKills
    <2>2. ASSUME NEW k \in DOMAIN targets
          PROVE  /\ targets'[k].said = targets[k].said /\ targets'[k].heard = targets[k].heard
                 /\ targets'[k].state # "open"
      <3>1. PICK r \in Target : r = targets[k]
        BY DEF ServerType
      <3>2. targets'[k] = [r EXCEPT !.state = "closed"]
        BY <2>1, <3>1
      <3>. QED
        BY <3>1, <3>2 DEF Target
    <2>. QED
      BY <2>1, <2>2, ServerGoes
  <1>. QED
    BY <1>1, <1>2, <1>3, <1>4, <1>5, Zenon DEF TargetSteps

----------------------------------------------------------------------------
(* TalkInv is inductive, and what it says of the next bytes that are heard.*)

(* Each direction of each session has its speaker.                         *)
TalkInv ==
    /\ AbsentIsSilent
    /\ \A key \in Keys : (\E x : Up(key, x)) /\ (\E y : Down(key, y))

(* No datagram is under way at the start, and no session.                  *)
NothingYet ==
    /\ DOMAIN sessions = {} /\ DOMAIN tasks = {} /\ targets = <<>>
    /\ toServer = {} /\ toClient = {}
    /\ \A c \in Pcs : pcs[c].state = "absent" /\ pcs[c].said = 0 /\ pcs[c].heard = <<>>

LEMMA InitNothing ==
    ASSUME Init
    PROVE  NothingYet
  BY DEF Init, ClientInit, ServerInit, NothingYet

(* So anyone may be its speaker.                                           *)
LEMMA NothingSaid ==
    ASSUME NothingYet, NEW key, NEW x
    PROVE  Up(key, x) /\ Down(key, x)
  <1>1. /\ DOMAIN sessions = {} /\ DOMAIN tasks = {} /\ toServer = {}
    BY DEF NothingYet
  <1>2. /\ Kcps(sessions, key) = {} /\ Told(key) = {} /\ WireBack(key) = {}
        /\ PcHeard(key) = {} /\ Kcps(tasks, key) = {} /\ Answered(key) = {}
        /\ TargetHeard(key) = {}
    BY <1>1, ClientSide, ServerSide
  <1>3. Wire(toServer, key) = {}
    BY <1>1 DEF Wire
  <1>4. ASSUME NEW said
        PROVE  Talk(x, {}, {}, {}, {}, said, {})
    BY TalkNothing
  <1>. QED
    BY <1>2, <1>3, <1>4, Zenon DEF Up, Down

(* At the start nothing has been said.                                     *)
LEMMA TalkInvInit ==
    ASSUME Init
    PROVE  TalkInv
  <1>1. NothingYet
    BY InitNothing
  <1>2. AbsentIsSilent
    BY <1>1 DEF AbsentIsSilent, NothingYet
  <1>. QED
    BY <1>1, <1>2, NothingSaid DEF TalkInv

(* In every step with fresh ids the speakers go on, or a session begins.   *)
LEMMA TalkStep ==
    ASSUME OktunInv, AbsentIsSilent, [Next /\ FreshIds]_vars
    PROVE  TalkGoesOn
  <1>1. ClientType /\ ServerType /\ NetType /\ ClientInv /\ ServerInv
    BY TypeParts DEF OktunInv
  <1>2. CASE PcSteps /\ UNCHANGED <<serverVars, net>> /\ FreshIds
    BY <1>1, <1>2, PcStepsTalk
  <1>3. CASE TargetSteps /\ UNCHANGED <<clientVars, net>>
    BY <1>1, <1>3, TargetStepsTalk
  <1>4. CASE ClientSideSteps /\ UNCHANGED serverVars
    BY <1>1, <1>4, ClientSideTalk
  <1>5. CASE /\ \/ \E key \in DOMAIN tasks : ServerTick(key)
                \/ \E p \in toServer, grow \in BOOLEAN, dup \in BOOLEAN :
                      ServerHears(p[1], p[2], grow, dup)
             /\ UNCHANGED clientVars /\ FreshIds
    <2>1. ASSUME NEW key \in DOMAIN tasks, ServerTick(key)
          PROVE  TalkGoesOn
      BY <1>1, <1>5, <2>1, ServerTickTalk
    <2>2. ASSUME NEW p \in toServer, NEW grow \in BOOLEAN, NEW dup \in BOOLEAN,
                 ServerHears(p[1], p[2], grow, dup)
          PROVE  TalkGoesOn
      BY <1>1, <1>5, <2>2, ServerHearsTalk
    <2>. QED
      BY <1>5, <2>1, <2>2, Zenon
  <1>6. CASE UNCHANGED vars
    <2>1. UNCHANGED <<serverVars, net>> /\ UNCHANGED <<sessions, proxies, pcs>>
      BY <1>6 DEF vars, clientVars
    <2>2. AbsentIsSilent' /\ Grows(PcSaid, PcSaid')
      BY <2>1 DEF AbsentIsSilent, Grows, PcSaid
    <2>. QED
      BY <2>1, <2>2, ClientGoes
  <1>. QED
    BY <1>2, <1>3, <1>4, <1>5, <1>6, Zenon DEF Next, ClientSideSteps

(* So every direction has its speaker after it.                            *)
LEMMA TalkInvStep ==
    ASSUME TalkInv, TalkGoesOn
    PROVE  TalkInv'
  <1>1. ASSUME NEW key \in Keys
        PROVE  (\E x : Up(key, x)') /\ (\E y : Down(key, y)')
    <2>1. PICK x, y : Up(key, x) /\ Down(key, y)
      BY DEF TalkInv
    <2>2. Goes(key)
      BY DEF TalkGoesOn
    <2>3. \E z : Up(key, z)'
      BY <2>1, <2>2, Zenon DEF Goes, UpKept, UpBegins
    <2>4. \E z : Down(key, z)'
      BY <2>1, <2>2, Zenon DEF Goes, DownKept, DownBegins
    <2>. QED
      BY <2>3, <2>4
  <1>. QED
    BY <1>1 DEF TalkInv, TalkGoesOn

(* What a connection that has heard h hears with `longer`: the next bytes  *)
(* of one speaker, of whom all it heard before is.                         *)
NextOf(h, longer, y, said) ==
    /\ \A i \in DOMAIN h : h[i][1] = y
    /\ \E upTo \in Len(h) + 1 .. said[y] :
          longer = h \o [i \in 1 .. upTo - Len(h) |-> <<y, Len(h) + i>>]

(* The first n bytes of y, or fewer, in two stretches.                     *)
FirstOf(y, n, h, first) ==
    /\ Len(h) + Len(first) <= n
    /\ \A i \in DOMAIN h : h[i][1] = y
    /\ first = [i \in 1 .. Len(first) |-> <<y, Len(h) + i>>]

(* The bytes of a speaker, cut in two.                                     *)
LEMMA BytesCut ==
    ASSUME NEW y, NEW n \in Nat, NEW h \in Seq(Data), NEW first \in Seq(Data),
           NEW rest \in Seq(Data), Bytes(y, 0, n) = (h \o first) \o rest
    PROVE  FirstOf(y, n, h, first)
  <1>1. PICK a \in Nat, b \in Nat, c \in Nat :
          a = Len(h) /\ b = Len(first) /\ c = Len(rest)
    OBVIOUS
  <1>2. PICK begin \in Seq(Data) : begin = h \o first
    <2>1. h \o first \in Seq(Data)
      OBVIOUS
    <2>. QED
      BY <2>1, Zenon
  <1>3. /\ Len(begin) = a + b
        /\ \A i \in 1 .. a : begin[i] = h[i]
        /\ \A i \in 1 .. b : begin[a + i] = first[i]
    BY <1>1, <1>2
  <1>4. PICK all \in Seq(Data) : all = begin \o rest
    <2>1. begin \o rest \in Seq(Data)
      OBVIOUS
    <2>. QED
      BY <2>1, Zenon
  <1>5. Len(all) = (a + b) + c /\ \A i \in 1 .. a + b : all[i] = begin[i]
    <2>1. Len(all) = Len(begin) + Len(rest) /\ \A i \in 1 .. Len(begin) : all[i] = begin[i]
      BY <1>4
    <2>. QED
      BY <1>1, <1>3, <2>1
  <1>6. all = [i \in 1 .. n |-> <<y, 0 + i>>]
    BY <1>2, <1>4, Zenon DEF Bytes
  <1>7. Len(all) = n /\ \A i \in 1 .. n : all[i] = <<y, i>>
    BY <1>6
  <1>8. a + b <= n
    BY <1>5, <1>7
  <1>9. ASSUME NEW i \in 1 .. a
        PROVE  h[i][1] = y
    <2>1. i \in 1 .. n /\ i \in 1 .. a + b
      BY <1>8
    <2>2. h[i] = <<y, i>>
      BY <1>3, <1>5, <1>7, <2>1
    <2>. QED
      BY <2>2
  <1>10. ASSUME NEW i \in 1 .. b
         PROVE  first[i] = <<y, a + i>>
    <2>1. a + i \in 1 .. n /\ a + i \in 1 .. a + b
      BY <1>8
    <2>. QED
      BY <1>3, <1>5, <1>7, <2>1
  <1>11. first = [i \in 1 .. b |-> <<y, a + i>>]
    <2>1. first = [i \in 1 .. b |-> first[i]]
      BY <1>1
    <2>2. [i \in 1 .. b |-> first[i]] = [i \in 1 .. b |-> <<y, a + i>>]
      BY <1>10, Zenon
    <2>. QED
      BY <2>1, <2>2, Zenon
  <1>. QED
    BY <1>1, <1>8, <1>9, <1>11 DEF FirstOf

(* A direction carries bytes of its speaker, as many as it said or fewer.  *)
Spoken(y, n, whole, said) ==
    /\ n # 0 => y \in DOMAIN said.counts /\ n <= said.counts[y]
    /\ \E more \in Seq(Data) : Bytes(y, 0, n) = whole \o more

(* What is heard out of a direction begins what its speaker said.          *)
LEMMA TalkBegins ==
    ASSUME NEW y, NEW senders, NEW receivers, receivers # {}, NEW wire, NEW told, NEW said,
           NEW whole, Talk(y, senders, receivers, wire, told, said, {whole})
    PROVE  \E n \in Nat : Spoken(y, n, whole, said)
  <1>1. PICK n \in Nat, ends \in BOOLEAN, read \in Seq(Data) :
          TalkOf(y, n, ends, read, senders, receivers, wire, told, said, {whole})
    BY DEF Talk
  <1>2. /\ Carries(senders, receivers, wire, Utterance(Bytes(y, 0, n), ends), whole)
        /\ n # 0 => y \in DOMAIN said.counts /\ n <= said.counts[y]
    BY <1>1, Zenon DEF TalkOf
  <1>3. \E more \in Seq(Data) : Utterance(Bytes(y, 0, n), ends).bytes = whole \o more
    BY <1>2, CarriesBegins
  <1>4. Utterance(Bytes(y, 0, n), ends).bytes = Bytes(y, 0, n)
    BY DEF Utterance
  <1>. QED
    BY <1>2, <1>3, <1>4, Zenon DEF Spoken

(* What is heard out of a direction are the next bytes of its speaker.     *)
LEMMA HearsNext ==
    ASSUME NEW y, NEW senders, NEW receivers, receivers # {}, NEW wire, NEW told, NEW said,
           \A z \in DOMAIN said.counts : said.counts[z] \in Nat,
           NEW h \in Seq(Data), NEW first \in Seq(Data), NEW rest \in Seq(Data),
           first # <<>>,
           Talk(y, senders, receivers, wire, told, said, {(h \o first) \o rest})
    PROVE  y \in DOMAIN said.counts /\ NextOf(h, h \o first, y, said.counts)
  <1>2. PICK n \in Nat : Spoken(y, n, (h \o first) \o rest, said)
    BY TalkBegins
  <1>3. n # 0 => y \in DOMAIN said.counts /\ n <= said.counts[y]
    BY <1>2 DEF Spoken
  <1>4. PICK more \in Seq(Data) : Bytes(y, 0, n) = ((h \o first) \o rest) \o more
    BY <1>2, Zenon DEF Spoken
  <1>5. PICK begin \in Seq(Data) : begin = h \o first
    <2>1. h \o first \in Seq(Data)
      OBVIOUS
    <2>. QED
      BY <2>1, Zenon
  <1>6. PICK after \in Seq(Data) : after = rest \o more
    <2>1. rest \o more \in Seq(Data)
      OBVIOUS
    <2>. QED
      BY <2>1, Zenon
  <1>7. Bytes(y, 0, n) = (h \o first) \o after
    <2>1. (begin \o rest) \o more = begin \o (rest \o more)
      BY ThreeStretches, Zenon
    <2>. QED
      BY <1>4, <1>5, <1>6, <2>1, Zenon
  <1>8. PICK a \in Nat, b \in Nat : a = Len(h) /\ b = Len(first) /\ b # 0
    OBVIOUS
  <1>9. /\ a + b <= n
        /\ \A i \in DOMAIN h : h[i][1] = y
        /\ first = [i \in 1 .. b |-> <<y, a + i>>]
    <2>1. FirstOf(y, n, h, first)
      BY <1>7, BytesCut
    <2>. QED
      BY <1>8, <2>1, Zenon DEF FirstOf
  <1>10. /\ y \in DOMAIN said.counts /\ a + b \in a + 1 .. said.counts[y]
         /\ (a + b) - a = b
    BY <1>3, <1>8, <1>9
  <1>11. h \o first = h \o [i \in 1 .. (a + b) - a |-> <<y, a + i>>]
    BY <1>9, <1>10, Zenon
  <1>. QED
    BY <1>8, <1>9, <1>10, <1>11, Zenon DEF NextOf

----------------------------------------------------------------------------
(* The steps as the PCs and the target see them.                           *)

(* What is seen of a PC, and of a connection to the target.                *)
SeenAs ==
    /\ \A c \in Pcs : /\ SeenPhase[c] = PcPhase(c)
                      /\ SeenSaid[c] = pcs[c].said
                      /\ SeenHeard[c] = pcs[c].heard
    /\ \A k \in 1 .. MaxTargets :
          /\ SeenPhase[k] = TargetPhase(k)
          /\ SeenSaid[k] = IF k \in DOMAIN targets THEN targets[k].said ELSE 0
          /\ SeenHeard[k] = IF k \in DOMAIN targets THEN targets[k].heard ELSE <<>>

(* The functions that are seen say that of every connection: the names of  *)
(* PCs and of target connections differ.                                   *)
LEMMA SeenWell ==
    SeenAs /\ SeenAs'
  <1>1. \A k \in 1 .. MaxTargets : k \notin Pcs
    BY OktunAssumption
  <1>2. SeenAs
    <2>1. ASSUME NEW c \in Pcs
          PROVE  /\ SeenPhase[c] = PcPhase(c)
                 /\ SeenSaid[c] = pcs[c].said
                 /\ SeenHeard[c] = pcs[c].heard
      BY DEF SeenPhase, SeenSaid, SeenHeard, Connections
    <2>2. ASSUME NEW k \in 1 .. MaxTargets
          PROVE  /\ SeenPhase[k] = TargetPhase(k)
                 /\ SeenSaid[k] = IF k \in DOMAIN targets THEN targets[k].said ELSE 0
                 /\ SeenHeard[k] = IF k \in DOMAIN targets THEN targets[k].heard ELSE <<>>
      BY <1>1 DEF SeenPhase, SeenSaid, SeenHeard, Connections
    <2>. QED
      BY <2>1, <2>2, Zenon DEF SeenAs
  <1>3. SeenAs'
    <2>1. ASSUME NEW c \in Pcs
          PROVE  (/\ SeenPhase[c] = PcPhase(c)
                  /\ SeenSaid[c] = pcs[c].said
                  /\ SeenHeard[c] = pcs[c].heard)'
      BY DEF SeenPhase, SeenSaid, SeenHeard, Connections
    <2>2. ASSUME NEW k \in 1 .. MaxTargets
          PROVE  (/\ SeenPhase[k] = TargetPhase(k)
                  /\ SeenSaid[k] = IF k \in DOMAIN targets THEN targets[k].said ELSE 0
                  /\ SeenHeard[k] = IF k \in DOMAIN targets THEN targets[k].heard
                                    ELSE <<>>)'
      BY <1>1 DEF SeenPhase, SeenSaid, SeenHeard, Connections
    <2>. QED
      BY <2>1, <2>2, Zenon DEF SeenAs
  <1>. QED
    BY <1>2, <1>3

(* A function that changes at x only.                                      *)
Maps(S, f) == f = [y \in S |-> f[y]]

ChangedAt(f, g, x) == g = [f EXCEPT ![x] = g[x]]

(* Of two functions that differ at x only, one is the other changed at x.  *)
LEMMA ChangesAt ==
    ASSUME NEW S, NEW x \in S, NEW f, NEW g, Maps(S, f), Maps(S, g),
           \A y \in S \ {x} : g[y] = f[y]
    PROVE  ChangedAt(f, g, x)
  BY DEF Maps, ChangedAt

(* The same everywhere.                                                    *)
LEMMA ChangesNowhere ==
    ASSUME NEW S, NEW f, NEW g, Maps(S, f), Maps(S, g), \A y \in S : g[y] = f[y]
    PROVE  g = f
  BY DEF Maps

(* What is seen are functions of the connections.                         *)
LEMMA SeenMaps ==
    /\ Maps(Connections, SeenPhase) /\ Maps(Connections, SeenPhase')
    /\ Maps(Connections, SeenSaid) /\ Maps(Connections, SeenSaid')
    /\ Maps(Connections, SeenHeard) /\ Maps(Connections, SeenHeard')
  BY DEF Maps, SeenPhase, SeenSaid, SeenHeard, Connections

(* Connections that are as they were, and fall silent or are over.         *)
PcsStop ==
    \A c \in Pcs : /\ pcs'[c].said = pcs[c].said /\ pcs'[c].heard = pcs[c].heard
                   /\ PcPhase(c)' \in {PcPhase(c), "over"}

TargetsStop ==
    /\ DOMAIN targets' = DOMAIN targets
    /\ \A k \in DOMAIN targets :
          /\ targets'[k].said = targets[k].said /\ targets'[k].heard = targets[k].heard
          /\ \/ TargetPhase(k)' \in {TargetPhase(k), "over"}
             \/ TargetPhase(k) = "open" /\ TargetPhase(k)' = "silent"

(* Nothing more than that is a step of the tunnel that is promised.        *)
LEMMA SeenStops ==
    ASSUME OktunInv', OktunInv, PcsStop, TargetsStop
    PROVE  Seen!Stop
  <1>1. SeenAs /\ SeenAs'
    BY SeenWell
  <1>2. ASSUME NEW k \in 1 .. MaxTargets
        PROVE  /\ \/ SeenPhase'[k] \in {SeenPhase[k], "over"}
                  \/ SeenPhase[k] = "open" /\ SeenPhase'[k] = "silent"
               /\ SeenSaid'[k] = SeenSaid[k] /\ SeenHeard'[k] = SeenHeard[k]
               /\ {SeenPhase[k], SeenPhase'[k]} \subseteq {"absent", "open", "silent", "over"}
    <2>1. {TargetPhase(k), TargetPhase(k)'} \subseteq {"absent", "open", "silent", "over"}
      BY DEF TargetPhase
    <2>2. CASE k \in DOMAIN targets
      BY <1>1, <2>1, <2>2 DEF SeenAs, TargetsStop
    <2>3. CASE k \notin DOMAIN targets
      <3>1. TargetPhase(k)' = TargetPhase(k)
        BY <2>3 DEF TargetPhase, TargetsStop
      <3>2. k \notin DOMAIN targets'
        BY <2>3 DEF TargetsStop
      <3>3. SeenPhase[k] = TargetPhase(k) /\ SeenPhase'[k] = TargetPhase(k)'
        BY <1>1 DEF SeenAs
      <3>4. SeenSaid[k] = 0 /\ SeenSaid'[k] = 0
        BY <1>1, <2>3, <3>2 DEF SeenAs
      <3>5. SeenHeard[k] = <<>> /\ SeenHeard'[k] = <<>>
        BY <1>1, <2>3, <3>2 DEF SeenAs
      <3>. QED
        BY <2>1, <3>1, <3>3, <3>4, <3>5, Zenon
    <2>. QED
      BY <2>2, <2>3
  <1>3. ASSUME NEW c \in Pcs
        PROVE  /\ SeenPhase'[c] \in {SeenPhase[c], "over"}
               /\ SeenSaid'[c] = SeenSaid[c] /\ SeenHeard'[c] = SeenHeard[c]
               /\ {SeenPhase[c], SeenPhase'[c]} \subseteq {"absent", "open", "silent", "over"}
    <2>1. pcs[c] \in Pc /\ pcs'[c] \in Pc
      BY DEF OktunInv, TypeOK
    <2>2. {PcPhase(c), PcPhase(c)'} \subseteq {"absent", "open", "silent", "over"}
      BY <2>1 DEF Pc, PcPhase
    <2>. QED
      BY <1>1, <2>2 DEF SeenAs, PcsStop
  <1>4. ASSUME NEW x \in Connections
        PROVE  /\ \/ SeenPhase'[x] = SeenPhase[x]
                  \/ SeenPhase[x] = "absent" /\ SeenPhase'[x] = "over"
                  \/ SeenPhase[x] = "open" /\ SeenPhase'[x] \in {"silent", "over"}
                  \/ SeenPhase[x] = "silent" /\ SeenPhase'[x] = "over"
               /\ SeenSaid'[x] = SeenSaid[x] /\ SeenHeard'[x] = SeenHeard[x]
               /\ SeenPhase'[x] \in {"absent", "open", "silent", "over"}
    BY <1>2, <1>3 DEF Connections
  <1>5. SeenSaid' = SeenSaid /\ SeenHeard' = SeenHeard
    BY <1>4, SeenMaps, ChangesNowhere
  <1>6. SeenPhase' \in [Connections -> {"absent", "open", "silent", "over"}]
    <2>1. SeenPhase' = [x \in Connections |-> SeenPhase'[x]]
      BY SeenMaps DEF Maps
    <2>. QED
      BY <1>4, <2>1, Zenon
  <1>. QED
    BY <1>4, <1>5, <1>6, Zenon DEF Seen!Stop, Seen!Ends, Seen!Phases, Connections

(* All but x are as they were.                                             *)
SeenOthers(x) ==
    \A y \in Connections \ {x} :
        /\ SeenPhase'[y] = SeenPhase[y]
        /\ SeenSaid'[y] = SeenSaid[y]
        /\ SeenHeard'[y] = SeenHeard[y]

(* A step that changes one PC is seen at that PC only.                     *)
LEMMA OnlyPcChanges ==
    ASSUME NEW c \in Pcs, \A b \in Pcs \ {c} : pcs'[b] = pcs[b], targets' = targets
    PROVE  SeenOthers(c)
  <1>1. SeenAs /\ SeenAs'
    BY SeenWell
  <1>2. ASSUME NEW b \in Pcs \ {c}
        PROVE  /\ SeenPhase'[b] = SeenPhase[b]
               /\ SeenSaid'[b] = SeenSaid[b]
               /\ SeenHeard'[b] = SeenHeard[b]
    <2>1. PcPhase(b)' = PcPhase(b) /\ pcs'[b] = pcs[b]
      BY DEF PcPhase
    <2>2. /\ SeenPhase[b] = PcPhase(b) /\ SeenPhase'[b] = PcPhase(b)'
          /\ SeenSaid[b] = pcs[b].said /\ SeenSaid'[b] = pcs'[b].said
          /\ SeenHeard[b] = pcs[b].heard /\ SeenHeard'[b] = pcs'[b].heard
      BY <1>1 DEF SeenAs
    <2>. QED
      BY <2>1, <2>2, Zenon
  <1>3. ASSUME NEW k \in 1 .. MaxTargets
        PROVE  /\ SeenPhase'[k] = SeenPhase[k]
               /\ SeenSaid'[k] = SeenSaid[k]
               /\ SeenHeard'[k] = SeenHeard[k]
    <2>1. TargetPhase(k)' = TargetPhase(k)
      BY DEF TargetPhase
    <2>. QED
      BY <1>1, <2>1, Zenon DEF SeenAs
  <1>. QED
    BY <1>2, <1>3 DEF SeenOthers, Connections

(* A step that changes or makes one connection to the target is seen there *)
(* only.                                                                   *)
LEMMA OnlyTargetChanges ==
    ASSUME NEW k \in 1 .. MaxTargets, pcs' = pcs,
           \A j \in (1 .. MaxTargets) \ {k} :
              /\ j \in DOMAIN targets' <=> j \in DOMAIN targets
              /\ j \in DOMAIN targets => targets'[j] = targets[j]
    PROVE  SeenOthers(k)
  <1>1. SeenAs /\ SeenAs'
    BY SeenWell
  <1>2. ASSUME NEW b \in Pcs
        PROVE  /\ SeenPhase'[b] = SeenPhase[b]
               /\ SeenSaid'[b] = SeenSaid[b]
               /\ SeenHeard'[b] = SeenHeard[b]
    <2>1. PcPhase(b)' = PcPhase(b) /\ pcs'[b] = pcs[b]
      BY DEF PcPhase
    <2>2. /\ SeenPhase[b] = PcPhase(b) /\ SeenPhase'[b] = PcPhase(b)'
          /\ SeenSaid[b] = pcs[b].said /\ SeenSaid'[b] = pcs'[b].said
          /\ SeenHeard[b] = pcs[b].heard /\ SeenHeard'[b] = pcs'[b].heard
      BY <1>1 DEF SeenAs
    <2>. QED
      BY <2>1, <2>2, Zenon
  <1>3. ASSUME NEW j \in (1 .. MaxTargets) \ {k}
        PROVE  /\ SeenPhase'[j] = SeenPhase[j]
               /\ SeenSaid'[j] = SeenSaid[j]
               /\ SeenHeard'[j] = SeenHeard[j]
    <2>1. TargetPhase(j)' = TargetPhase(j)
      BY DEF TargetPhase
    <2>2. SeenPhase[j] = TargetPhase(j) /\ SeenPhase'[j] = TargetPhase(j)'
      BY <1>1 DEF SeenAs
    <2>3. SeenSaid'[j] = SeenSaid[j] /\ SeenHeard'[j] = SeenHeard[j]
      <3>1. CASE j \in DOMAIN targets
        <4>1. j \in DOMAIN targets' /\ targets'[j] = targets[j]
          BY <3>1
        <4>2. SeenSaid[j] = targets[j].said /\ SeenSaid'[j] = targets'[j].said
          BY <1>1, <3>1, <4>1 DEF SeenAs
        <4>3. SeenHeard[j] = targets[j].heard /\ SeenHeard'[j] = targets'[j].heard
          BY <1>1, <3>1, <4>1 DEF SeenAs
        <4>. QED
          BY <4>1, <4>2, <4>3, Zenon
      <3>2. CASE j \notin DOMAIN targets
        <4>1. j \notin DOMAIN targets'
          BY <3>2
        <4>2. SeenSaid[j] = 0 /\ SeenSaid'[j] = 0
          BY <1>1, <3>2, <4>1 DEF SeenAs
        <4>3. SeenHeard[j] = <<>> /\ SeenHeard'[j] = <<>>
          BY <1>1, <3>2, <4>1 DEF SeenAs
        <4>. QED
          BY <4>2, <4>3, Zenon
      <3>. QED
        BY <3>1, <3>2
    <2>. QED
      BY <2>1, <2>2, <2>3
  <1>. QED
    BY <1>2, <1>3 DEF SeenOthers, Connections

(* One connection opens, says or hears something: a step of the tunnel     *)
(* that is promised.                                                       *)
LEMMA SeenOpens ==
    ASSUME NEW x \in Connections, SeenOthers(x),
           SeenPhase[x] = "absent", SeenPhase'[x] = "open",
           SeenSaid'[x] = SeenSaid[x], SeenHeard'[x] = SeenHeard[x]
    PROVE  Seen!Next
  <1>2. /\ \A y \in Connections \ {x} : SeenPhase'[y] = SeenPhase[y]
        /\ \A y \in Connections : SeenSaid'[y] = SeenSaid[y]
        /\ \A y \in Connections : SeenHeard'[y] = SeenHeard[y]
    BY DEF SeenOthers
  <1>3. SeenPhase' = [SeenPhase EXCEPT ![x] = SeenPhase'[x]]
    BY <1>2, SeenMaps, ChangesAt DEF ChangedAt
  <1>4. SeenSaid' = SeenSaid /\ SeenHeard' = SeenHeard
    BY <1>2, SeenMaps, ChangesNowhere
  <1>5. Seen!Opens(x)
    BY <1>3, <1>4 DEF Seen!Opens
  <1>. QED
    BY <1>5 DEF Seen!Next, Seen!Ends, Connections

(* A connection that says more, and does nothing else.                     *)
LEMMA SeenSays ==
    ASSUME NEW x \in Connections, SeenOthers(x),
           SeenPhase[x] = "open", SeenPhase'[x] = "open",
           SeenSaid'[x] \in Nat, SeenSaid'[x] > SeenSaid[x],
           SeenHeard'[x] = SeenHeard[x]
    PROVE  Seen!Next
  <1>2. /\ \A y \in Connections : SeenPhase'[y] = SeenPhase[y]
        /\ \A y \in Connections \ {x} : SeenSaid'[y] = SeenSaid[y]
        /\ \A y \in Connections : SeenHeard'[y] = SeenHeard[y]
    BY DEF SeenOthers
  <1>3. SeenSaid' = [SeenSaid EXCEPT ![x] = SeenSaid'[x]]
    BY <1>2, SeenMaps, ChangesAt DEF ChangedAt
  <1>4. SeenPhase' = SeenPhase /\ SeenHeard' = SeenHeard
    BY <1>2, SeenMaps, ChangesNowhere
  <1>5. Seen!Says(x)
    BY <1>3, <1>4 DEF Seen!Says
  <1>. QED
    BY <1>5 DEF Seen!Next, Seen!Ends, Connections

(* A connection that hears the next bytes of one other, and nothing else.  *)
LEMMA SeenHears ==
    ASSUME NEW x \in Connections, NEW y \in Connections, SeenOthers(x),
           <<x, y>> \in (Pcs \X (1 .. MaxTargets)) \cup ((1 .. MaxTargets) \X Pcs),
           SeenPhase[x] \in {"open", "silent"}, SeenPhase'[x] = SeenPhase[x],
           SeenSaid'[x] = SeenSaid[x],
           NextOf(SeenHeard[x], SeenHeard'[x], y, SeenSaid)
    PROVE  Seen!Next
  <1>2. /\ \A e \in Connections : SeenPhase'[e] = SeenPhase[e]
        /\ \A e \in Connections : SeenSaid'[e] = SeenSaid[e]
        /\ \A e \in Connections \ {x} : SeenHeard'[e] = SeenHeard[e]
    BY DEF SeenOthers
  <1>3. SeenHeard' = [SeenHeard EXCEPT ![x] = SeenHeard'[x]]
    BY <1>2, SeenMaps, ChangesAt DEF ChangedAt
  <1>4. SeenPhase' = SeenPhase /\ SeenSaid' = SeenSaid
    BY <1>2, SeenMaps, ChangesNowhere
  <1>5. Seen!Across(x, y)
    BY DEF Seen!Across
  <1>6. PICK upTo \in Len(SeenHeard[x]) + 1 .. SeenSaid[y] :
          SeenHeard'[x] = SeenHeard[x] \o
             [i \in 1 .. upTo - Len(SeenHeard[x]) |-> <<y, Len(SeenHeard[x]) + i>>]
    BY Zenon DEF NextOf
  <1>7. SeenHeard' = [SeenHeard EXCEPT ![x] =
          @ \o [i \in 1 .. upTo - Len(@) |-> <<y, Len(@) + i>>]]
    BY <1>3, <1>6, Zenon
  <1>8. \A i \in DOMAIN SeenHeard[x] : SeenHeard[x][i][1] = y
    BY Zenon DEF NextOf
  <1>9. Seen!Hears(x, y)
    BY <1>4, <1>5, <1>7, <1>8, Zenon DEF Seen!Hears
  <1>. QED
    BY <1>9 DEF Seen!Next, Seen!Ends, Connections

(* Connections to the target that are as they were.                        *)
LEMMA SameTargetsStop ==
    ASSUME targets' = targets
    PROVE  TargetsStop
  BY DEF TargetsStop, TargetPhase

(* The same for the PCs.                                                   *)
LEMMA SamePcsStop ==
    ASSUME pcs' = pcs
    PROVE  PcsStop
  BY DEF PcsStop, PcPhase

(* A PC whose proxy client is removed is over.                             *)
LEMMA RemoveClientStops ==
    ASSUME ClientInv, ClientType, NEW key \in DOMAIN proxies, NEW state,
           state \in {"gone", "finished"}, RemoveClient(key, state)
    PROVE  PcsStop
  <1>1. PICK c \in Pcs : c = proxies[key].pc
    BY DEF ClientInv
  <1>2. /\ \A b \in Pcs \ {c} : pcs'[b] = pcs[b]
        /\ pcs'[c].said = pcs[c].said /\ pcs'[c].heard = pcs[c].heard
        /\ pcs'[c].state \in {"gone", "finished"}
    BY <1>1 DEF RemoveClient, ClientType, Pc
  <1>. QED
    BY <1>2 DEF PcsStop, PcPhase

(* So are those of a program that dies.                                    *)
LEMMA ProgramDiesStops ==
    ASSUME ClientType, NEW a, ProgramDies(a)
    PROVE  PcsStop
  <1>1. ASSUME NEW c \in Pcs
        PROVE  /\ pcs'[c].said = pcs[c].said /\ pcs'[c].heard = pcs[c].heard
               /\ pcs'[c] = pcs[c] \/ pcs'[c].state = "dropped"
    BY DEF ProgramDies, ClientType, Pc
  <1>. QED
    BY <1>1 DEF PcsStop, PcPhase

(* Nothing is said or heard by a callback of the client's UDP socket or    *)
(* timer.                                                                  *)
LEMMA ForwardStops ==
    ASSUME ClientInv, ClientType, NEW key \in DOMAIN sessions, NEW k,
           Forward(key, k) \/ ProgramDies(key[1])
    PROVE  PcsStop
  <1>1. key \in DOMAIN proxies
    BY DEF ClientInv, MapsAgree
  <1>2. CASE ProgramDies(key[1])
    BY <1>2, ProgramDiesStops
  <1>3. CASE RemoveClient(key, "finished")
    BY <1>1, <1>3, RemoveClientStops
  <1>4. CASE pcs' = pcs
    BY <1>4, SamePcsStop
  <1>. QED
    BY <1>2, <1>3, <1>4 DEF Forward

(* A PC connects.                                                          *)
LEMMA AcceptSeen ==
    ASSUME OktunInv, OktunInv', ClientType, TalkInv, NEW a, NEW c \in Pcs, Accept(a, c),
           UNCHANGED serverVars
    PROVE  Seen!Next
  <1>1. PICK state \in {"dropped", "open"} : pcs' = [pcs EXCEPT ![c].state = state]
    BY DEF Accept
  <1>2. /\ \A b \in Pcs \ {c} : pcs'[b] = pcs[b]
        /\ pcs'[c].said = pcs[c].said /\ pcs'[c].heard = pcs[c].heard
        /\ pcs'[c].state = state /\ pcs[c].state = "absent"
    BY <1>1 DEF Accept, ClientType, Pc
  <1>3. targets' = targets
    BY DEF serverVars
  <1>4. CASE state = "open"
    <2>1. SeenOthers(c)
      BY <1>2, <1>3, OnlyPcChanges
    <2>2. PcPhase(c) = "absent" /\ PcPhase(c)' = "open"
      BY <1>2, <1>4 DEF PcPhase
    <2>3. /\ SeenPhase[c] = "absent" /\ SeenPhase'[c] = "open"
          /\ SeenSaid[c] = pcs[c].said /\ SeenSaid'[c] = pcs'[c].said
          /\ SeenHeard[c] = pcs[c].heard /\ SeenHeard'[c] = pcs'[c].heard
      BY <2>2, SeenWell DEF SeenAs
    <2>4. c \in Connections
      BY DEF Connections
    <2>5. SeenSaid'[c] = SeenSaid[c] /\ SeenHeard'[c] = SeenHeard[c]
      BY <1>2, <2>3, Zenon
    <2>. QED
      BY <2>1, <2>3, <2>4, <2>5, SeenOpens
  <1>5. CASE state = "dropped"
    <2>1. PcsStop
      BY <1>2, <1>5 DEF PcsStop, PcPhase
    <2>2. Seen!Stop
      BY <1>3, <2>1, SameTargetsStop, SeenStops
    <2>. QED
      BY <2>2 DEF Seen!Next
  <1>. QED
    BY <1>4, <1>5

(* ClientReadCB.                                                           *)
LEMMA ClientReadSeen ==
    ASSUME OktunInv, ClientType, NEW key \in DOMAIN proxies,
           NEW n \in 1 .. MaxSaid - pcs[proxies[key].pc].said, ClientRead(key, n),
           UNCHANGED serverVars
    PROVE  Seen!Next
  <1>1. PICK c \in Pcs : c = proxies[key].pc
    BY DEF ClientType, Proxy
  <1>2. PICK said \in Nat : said = pcs[c].said
    BY DEF ClientType, Pc
  <1>3. n \in Nat /\ n > 0
    BY <1>1, <1>2, OktunAssumption
  <1>4. /\ \A b \in Pcs \ {c} : pcs'[b] = pcs[b]
        /\ pcs'[c].said = said + n /\ pcs'[c].heard = pcs[c].heard
        /\ pcs'[c].state = pcs[c].state /\ pcs[c].state = "open"
    BY <1>1, <1>2 DEF ClientRead, ClientType, Pc
  <1>5. SeenOthers(c)
    BY <1>4, OnlyPcChanges DEF serverVars
  <1>6. PcPhase(c) = "open" /\ PcPhase(c)' = "open"
    BY <1>4 DEF PcPhase
  <1>7. /\ SeenPhase[c] = "open" /\ SeenPhase'[c] = "open"
        /\ SeenSaid[c] = pcs[c].said /\ SeenSaid'[c] = pcs'[c].said
        /\ SeenHeard[c] = pcs[c].heard /\ SeenHeard'[c] = pcs'[c].heard
    BY <1>6, SeenWell DEF SeenAs
  <1>8. SeenSaid'[c] \in Nat /\ SeenSaid'[c] > SeenSaid[c]
    BY <1>2, <1>3, <1>4, <1>7
  <1>9. SeenHeard'[c] = SeenHeard[c]
    BY <1>4, <1>7, Zenon
  <1>10. c \in Connections
    BY DEF Connections
  <1>. QED
    BY <1>5, <1>7, <1>8, <1>9, <1>10, SeenSays

(* ClientWriteCB: what the PC hears is next of what one connection said.   *)
LEMMA ClientWriteSeen ==
    ASSUME OktunInv, ClientInv, ClientType, ServerType, TalkInv,
           NEW key \in DOMAIN proxies, NEW n, ClientWrite(key, n), UNCHANGED serverVars
    PROVE  Seen!Next
  <1>. key \in DOMAIN sessions
    BY DEF ClientInv, MapsAgree
  <1>1. PICK s \in Session, p \in Proxy : s = sessions[key] /\ p = proxies[key]
    BY DEF ClientType
  <1>2. PICK c \in Pcs : c = p.pc
    BY DEF Proxy
  <1>3. PICK h \in Seq(Data), b \in Seq(Data), sb \in Seq(Data) :
          h = pcs[c].heard /\ b = p.buf /\ sb = s.buf
    BY DEF ClientType, Pc, Proxy, Session
  <1>4. n \in 1 .. Len(b)
    BY <1>1, <1>3 DEF ClientWrite
  <1>5. PICK first \in Seq(Data), rest \in Seq(Data) :
          first = SubSeq(b, 1, n) /\ rest = SubSeq(b, n + 1, Len(b))
    <2>1. SubSeq(b, 1, n) \in Seq(Data) /\ SubSeq(b, n + 1, Len(b)) \in Seq(Data)
      BY <1>4
    <2>. QED
      BY <2>1, Zenon
  <1>6. first # <<>>
    BY <1>4, <1>5
  <1>7. /\ \A e \in Pcs \ {c} : pcs'[e] = pcs[e]
        /\ pcs'[c].said = pcs[c].said /\ pcs'[c].heard = h \o first
        /\ pcs'[c].state = pcs[c].state /\ pcs[c].state = "open"
    <2>1. pcs' = [pcs EXCEPT ![c] = [pcs[c] EXCEPT !.heard = h \o first]]
      BY <1>1, <1>2, <1>3, <1>5 DEF ClientWrite
    <2>2. pcs[c].state = "open"
      BY <1>1, <1>2 DEF ClientWrite
    <2>. QED
      BY <2>1, <2>2 DEF ClientType, Pc
  <1>8. PICK after \in Seq(Data) : after = rest \o sb
    <2>1. rest \o sb \in Seq(Data)
      OBVIOUS
    <2>. QED
      BY <2>1, Zenon
  <1>9. (h \o b) \o sb = (h \o first) \o after
    <2>1. first \o rest = b
      <3>1. n \in 0 .. Len(b) /\ Len(b) \in 0 .. Len(b)
        BY <1>4
      <3>2. SubSeq(b, 1, n) \o SubSeq(b, n + 1, Len(b)) = SubSeq(b, 1, Len(b))
        BY <3>1, CutInTwo, Zenon
      <3>3. SubSeq(b, 1, Len(b)) = b
        OBVIOUS
      <3>. QED
        BY <1>5, <3>2, <3>3, Zenon
    <2>2. Regroup(h, first, rest, sb)
      BY FourStretches
    <2>. QED
      BY <1>8, <2>1, <2>2, Zenon DEF Regroup
  <1>10. PcHeard(key) = {(h \o first) \o after}
    <2>1. PcHeard(key) = {(pcs[c].heard \o proxies[key].buf) \o sessions[key].buf}
      BY <1>1, <1>2, <1>7, ClientSide
    <2>. QED
      BY <1>1, <1>3, <1>9, <2>1, Zenon
  <1>11. /\ DOMAIN TargetSaid.counts = DOMAIN targets
         /\ \A y \in DOMAIN targets :
               TargetSaid.counts[y] = targets[y].said /\ targets[y].said \in Nat
    <2>1. \A y \in DOMAIN targets : targets[y] \in Target
      BY DEF ServerType
    <2>. QED
      BY <2>1 DEF TargetSaid, Target
  <1>12. PICK k \in DOMAIN targets : NextOf(h, h \o first, k, TargetSaid.counts)
    <2>1. key \in Keys /\ Kcps(sessions, key) # {}
      BY ClientSide DEF ClientType
    <2>2. PICK y : Down(key, y)
      BY <2>1 DEF TalkInv
    <2>3. Talk(y, Kcps(tasks, key), Kcps(sessions, key), WireBack(key), Answered(key),
               TargetSaid, {(h \o first) \o after})
      BY <1>10, <2>2 DEF Down
    <2>4. \A z \in DOMAIN TargetSaid.counts : TargetSaid.counts[z] \in Nat
      BY <1>11, Zenon
    <2>5. y \in DOMAIN TargetSaid.counts /\ NextOf(h, h \o first, y, TargetSaid.counts)
      BY <1>6, <2>1, <2>3, <2>4, HearsNext
    <2>. QED
      BY <1>11, <2>5
  <1>13. k \in 1 .. MaxTargets
    BY OktunAssumption DEF ServerType
  <1>14. PcPhase(c) = "open" /\ PcPhase(c)' = "open"
    BY <1>7 DEF PcPhase
  <1>15. /\ SeenPhase[c] = "open" /\ SeenPhase'[c] = "open"
         /\ SeenSaid[c] = pcs[c].said /\ SeenSaid'[c] = pcs'[c].said
         /\ SeenHeard[c] = pcs[c].heard /\ SeenHeard'[c] = pcs'[c].heard
         /\ SeenSaid[k] = TargetSaid.counts[k]
    BY <1>11, <1>13, <1>14, SeenWell DEF SeenAs
  <1>16. NextOf(SeenHeard[c], SeenHeard'[c], k, SeenSaid)
    <2>1. NextOf(h, h \o first, k, SeenSaid)
      BY <1>12, <1>15, Zenon DEF NextOf
    <2>. QED
      BY <1>3, <1>7, <1>15, <2>1, Zenon
  <1>17. SeenOthers(c)
    BY <1>7, OnlyPcChanges DEF serverVars
  <1>18. c \in Connections /\ k \in Connections
    BY <1>13 DEF Connections
  <1>19. SeenSaid'[c] = SeenSaid[c] /\ SeenPhase'[c] = SeenPhase[c]
    BY <1>7, <1>15, Zenon
  <1>. QED
    BY <1>13, <1>15, <1>16, <1>17, <1>18, <1>19, SeenHears

(* TaskReadCB.                                                             *)
LEMMA TaskReadSeen ==
    ASSUME ServerInv, ServerType, NEW key \in DOMAIN tasks,
           NEW n \in 1 .. MaxReply - targets[tasks[key].sock].said, TaskRead(key, n),
           UNCHANGED clientVars
    PROVE  Seen!Next
  <1>1. PICK k \in DOMAIN targets : k = tasks[key].sock
    BY DEF ServerInv
  <1>2. k \in 1 .. MaxTargets
    BY OktunAssumption DEF ServerType
  <1>3. PICK r \in Target : r = targets[k]
    BY DEF ServerType
  <1>4. PICK said \in Nat : said = r.said
    BY DEF Target
  <1>5. n \in Nat /\ n > 0
    BY <1>1, <1>3, <1>4, OktunAssumption
  <1>6. /\ DOMAIN targets' = DOMAIN targets
        /\ \A j \in DOMAIN targets \ {k} : targets'[j] = targets[j]
        /\ targets'[k] = [r EXCEPT !.said = said + n]
    <2>1. targets' = [targets EXCEPT ![k] = [r EXCEPT !.said = said + n]]
      BY <1>1, <1>3, <1>4 DEF TaskRead
    <2>. QED
      BY <2>1, TargetChanges
  <1>7. /\ targets'[k].said = said + n /\ targets'[k].heard = targets[k].heard
        /\ targets'[k].state = "open" /\ targets[k].state = "open"
    BY <1>1, <1>3, <1>6 DEF TaskRead, Target
  <1>8. SeenOthers(k)
    BY <1>2, <1>6, OnlyTargetChanges DEF clientVars
  <1>9. TargetPhase(k) = "open" /\ TargetPhase(k)' = "open"
    BY <1>6, <1>7 DEF TargetPhase
  <1>10. /\ SeenPhase[k] = "open" /\ SeenPhase'[k] = "open"
         /\ SeenSaid[k] = targets[k].said /\ SeenSaid'[k] = targets'[k].said
         /\ SeenHeard[k] = targets[k].heard /\ SeenHeard'[k] = targets'[k].heard
    BY <1>2, <1>6, <1>9, SeenWell DEF SeenAs
  <1>11. SeenSaid'[k] \in Nat /\ SeenSaid'[k] > SeenSaid[k]
    BY <1>3, <1>4, <1>5, <1>7, <1>10
  <1>12. SeenHeard'[k] = SeenHeard[k]
    BY <1>7, <1>10, Zenon
  <1>13. k \in Connections
    BY <1>2 DEF Connections
  <1>. QED
    BY <1>8, <1>10, <1>11, <1>12, <1>13, SeenSays

(* TaskWriteCB: what the target hears is next of what one PC said.  The    *)
(* connection of a task is not closed.                                     *)
LEMMA TaskWriteSeen ==
    ASSUME ServerInv, ServerType, ClientType, TalkInv, NEW key \in DOMAIN tasks,
           NEW n, TaskWrite(key, n), UNCHANGED clientVars
    PROVE  Seen!Next
  <1>1. PICK t \in Task : t = tasks[key]
    BY DEF ServerType
  <1>2. PICK k \in DOMAIN targets : k = t.sock /\ targets[k].state # "closed"
    BY <1>1 DEF ServerInv, TargetsHeld
  <1>3. PICK r \in Target : r = targets[k]
    BY DEF ServerType
  <1>4. PICK h \in Seq(Data), b \in Seq(Data) : h = r.heard /\ b = t.buf
    BY DEF Target, Task
  <1>5. n \in 1 .. Len(b)
    BY <1>1, <1>4 DEF TaskWrite
  <1>6. PICK first \in Seq(Data), rest \in Seq(Data) :
          first = SubSeq(b, 1, n) /\ rest = SubSeq(b, n + 1, Len(b))
    <2>1. SubSeq(b, 1, n) \in Seq(Data) /\ SubSeq(b, n + 1, Len(b)) \in Seq(Data)
      BY <1>5
    <2>. QED
      BY <2>1, Zenon
  <1>7. first # <<>>
    BY <1>5, <1>6
  <1>8. PICK longer : longer = h \o first
    OBVIOUS
  <1>9. /\ DOMAIN targets' = DOMAIN targets
        /\ \A j \in DOMAIN targets \ {k} : targets'[j] = targets[j]
        /\ targets'[k].said = r.said /\ targets'[k].heard = longer
        /\ targets'[k].state = r.state
    <2>1. targets' = [targets EXCEPT ![k] = [r EXCEPT !.heard = longer]]
      BY <1>1, <1>2, <1>3, <1>4, <1>6, <1>8 DEF TaskWrite
    <2>2. /\ DOMAIN targets' = DOMAIN targets
          /\ \A j \in DOMAIN targets \ {k} : targets'[j] = targets[j]
          /\ targets'[k] = [r EXCEPT !.heard = longer]
      BY <2>1, TargetChanges
    <2>. QED
      BY <2>2 DEF Target
  <1>10. TargetHeard(key) = {(h \o first) \o rest}
    <2>1. TargetHeard(key) = {targets[tasks[key].sock].heard \o tasks[key].buf}
      BY ServerSide
    <2>2. first \o rest = b
      <3>1. n \in 0 .. Len(b) /\ Len(b) \in 0 .. Len(b)
        BY <1>5
      <3>2. SubSeq(b, 1, n) \o SubSeq(b, n + 1, Len(b)) = SubSeq(b, 1, Len(b))
        BY <3>1, CutInTwo, Zenon
      <3>3. SubSeq(b, 1, Len(b)) = b
        OBVIOUS
      <3>. QED
        BY <1>6, <3>2, <3>3, Zenon
    <2>3. (h \o first) \o rest = h \o (first \o rest)
      BY ThreeStretches, Zenon
    <2>. QED
      BY <1>1, <1>2, <1>3, <1>4, <2>1, <2>2, <2>3, Zenon
  <1>11. /\ DOMAIN PcSaid.counts = Pcs
         /\ \A e \in Pcs : PcSaid.counts[e] = pcs[e].said /\ pcs[e].said \in Nat
    BY DEF PcSaid, ClientType, Pc
  <1>12. PICK c \in Pcs : NextOf(h, h \o first, c, PcSaid.counts)
    <2>1. key \in Keys /\ Kcps(tasks, key) # {}
      BY ServerSide DEF ServerType
    <2>2. PICK x : Up(key, x)
      BY <2>1 DEF TalkInv
    <2>3. Talk(x, Kcps(sessions, key), Kcps(tasks, key), Wire(toServer, key), Told(key),
               PcSaid, {(h \o first) \o rest})
      BY <1>10, <2>2 DEF Up
    <2>4. \A z \in DOMAIN PcSaid.counts : PcSaid.counts[z] \in Nat
      BY <1>11, Zenon
    <2>5. x \in DOMAIN PcSaid.counts /\ NextOf(h, h \o first, x, PcSaid.counts)
      BY <1>7, <2>1, <2>3, <2>4, HearsNext
    <2>. QED
      BY <1>11, <2>5
  <1>13. k \in 1 .. MaxTargets
    BY OktunAssumption DEF ServerType
  <1>14. TargetPhase(k) \in {"open", "silent"} /\ TargetPhase(k)' = TargetPhase(k)
    BY <1>2, <1>3, <1>9 DEF TargetPhase, Target
  <1>15. /\ SeenPhase[k] = TargetPhase(k) /\ SeenPhase'[k] = TargetPhase(k)'
         /\ SeenSaid[k] = targets[k].said /\ SeenSaid'[k] = targets'[k].said
         /\ SeenHeard[k] = targets[k].heard /\ SeenHeard'[k] = targets'[k].heard
         /\ SeenSaid[c] = PcSaid.counts[c]
    BY <1>9, <1>11, <1>13, SeenWell DEF SeenAs
  <1>16. NextOf(SeenHeard[k], SeenHeard'[k], c, SeenSaid)
    <2>1. NextOf(h, h \o first, c, SeenSaid)
      BY <1>12, <1>15, Zenon DEF NextOf
    <2>. QED
      BY <1>3, <1>4, <1>8, <1>9, <1>15, <2>1, Zenon
  <1>17. SeenOthers(k)
    BY <1>9, <1>13, OnlyTargetChanges DEF clientVars
  <1>18. c \in Connections /\ k \in Connections
    BY <1>13 DEF Connections
  <1>19. SeenSaid'[k] = SeenSaid[k] /\ SeenPhase'[k] = SeenPhase[k]
    BY <1>3, <1>9, <1>14, <1>15, Zenon
  <1>20. SeenPhase[k] \in {"open", "silent"}
    BY <1>14, <1>15
  <1>. QED
    BY <1>13, <1>16, <1>17, <1>18, <1>19, <1>20, SeenHears

(* A connection that the target has closed, and then the server.           *)
LEMMA TaskEofStops ==
    ASSUME ServerInv, ServerType, NEW key \in DOMAIN tasks, TaskEof(key)
    PROVE  TargetsStop
  <1>1. PICK k \in DOMAIN targets : k = tasks[key].sock
    BY DEF ServerInv
  <1>2. PICK r \in Target : r = targets[k]
    BY DEF ServerType
  <1>3. CASE targets' = targets
    BY <1>3, SameTargetsStop
  <1>4. CASE targets' = [targets EXCEPT ![tasks[key].sock].state = "closed"]
    <2>1. targets' = [targets EXCEPT ![k] = [r EXCEPT !.state = "closed"]]
      BY <1>1, <1>2, <1>4
    <2>2. /\ DOMAIN targets' = DOMAIN targets
          /\ \A j \in DOMAIN targets \ {k} : targets'[j] = targets[j]
          /\ targets'[k] = [r EXCEPT !.state = "closed"]
      BY <2>1, TargetChanges
    <2>3. /\ targets'[k].said = targets[k].said /\ targets'[k].heard = targets[k].heard
          /\ targets'[k].state = "closed"
      BY <1>2, <2>2 DEF Target
    <2>. QED
      BY <2>2, <2>3 DEF TargetsStop, TargetPhase
  <1>. QED
    BY <1>3, <1>4 DEF TaskEof

(* A connection that the target closes.                                    *)
LEMMA TargetEndsStops ==
    ASSUME ServerInv, ServerType, NEW k \in DOMAIN targets, TargetEnds(k)
    PROVE  TargetsStop
  <1>1. PICK r \in Target : r = targets[k]
    BY DEF ServerType
  <1>2. targets' = [targets EXCEPT ![k] = [r EXCEPT !.state = "ended"]]
    BY <1>1 DEF TargetEnds
  <1>3. /\ DOMAIN targets' = DOMAIN targets
        /\ \A j \in DOMAIN targets \ {k} : targets'[j] = targets[j]
        /\ targets'[k] = [r EXCEPT !.state = "ended"]
    BY <1>2, TargetChanges
  <1>4. /\ targets'[k].said = targets[k].said /\ targets'[k].heard = targets[k].heard
        /\ targets'[k].state = "ended" /\ targets[k].state = "open"
    BY <1>1, <1>3 DEF Target, TargetEnds
  <1>. QED
    BY <1>3, <1>4 DEF TargetsStop, TargetPhase

(* The connections of a server that dies.                                  *)
LEMMA TaskWriteKillsStops ==
    ASSUME ServerType, NEW key, TaskWriteKills(key)
    PROVE  TargetsStop
  <1>1. /\ DOMAIN targets' = DOMAIN targets
        /\ \A k \in DOMAIN targets : targets'[k] = [targets[k] EXCEPT !.state = "closed"]
    BY DEF TaskWriteKills
  <1>2. ASSUME NEW k \in DOMAIN targets
        PROVE  /\ targets'[k].said = targets[k].said /\ targets'[k].heard = targets[k].heard
               /\ targets'[k].state = "closed"
    <2>1. PICK r \in Target : r = targets[k]
      BY DEF ServerType
    <2>2. targets'[k] = [r EXCEPT !.state = "closed"]
      BY <1>1, <2>1
    <2>. QED
      BY <2>1, <2>2 DEF Target
  <1>. QED
    BY <1>1, <1>2 DEF TargetsStop, TargetPhase

(* A datagram makes a connection, or nothing is seen of it.                *)
LEMMA ServerHearsSeen ==
    ASSUME OktunInv, OktunInv', ServerType, ServerType', NEW a, NEW d, NEW grow, NEW dup,
           ServerHears(a, d, grow, dup), UNCHANGED clientVars
    PROVE  Seen!Next
  <1>1. PICK n \in Nat : n = Len(targets) /\ DOMAIN targets = 1 .. n
    BY DEF ServerType
  <1>2. CASE targets' = targets
    <2>1. PcsStop /\ TargetsStop
      BY <1>2, SamePcsStop, SameTargetsStop DEF clientVars
    <2>2. Seen!Stop
      BY <2>1, SeenStops
    <2>. QED
      BY <2>2 DEF Seen!Next
  <1>3. CASE targets' = Append(targets, Connected)
    <2>1. /\ DOMAIN targets' = 1 .. n + 1
          /\ \A i \in 1 .. n : targets'[i] = targets[i]
          /\ targets'[n + 1] = Connected
      <3>1. targets \in Seq(Target)
        BY DEF ServerType
      <3>2. Connected \in Target
        BY DEF Connected, Target
      <3>. QED
        BY <1>1, <1>3, <3>1, <3>2
    <2>2. PICK k \in 1 .. MaxTargets : k = n + 1
      <3>1. n + 1 \in DOMAIN targets'
        BY <2>1
      <3>2. targets' \in Seq(Target) /\ Len(targets') <= MaxTargets /\ MaxTargets \in Nat
        BY OktunAssumption DEF ServerType
      <3>. QED
        BY <3>1, <3>2
    <2>3. k \notin DOMAIN targets /\ k \in DOMAIN targets' /\ targets'[k] = Connected
      BY <1>1, <2>1, <2>2
    <2>4. SeenOthers(k)
      <3>1. \A j \in (1 .. MaxTargets) \ {k} :
               /\ j \in DOMAIN targets' <=> j \in DOMAIN targets
               /\ j \in DOMAIN targets => targets'[j] = targets[j]
        BY <1>1, <2>1, <2>2
      <3>. QED
        BY <3>1, OnlyTargetChanges DEF clientVars
    <2>5. TargetPhase(k) = "absent" /\ TargetPhase(k)' = "open"
      BY <2>3 DEF TargetPhase, Connected
    <2>6. SeenPhase[k] = "absent" /\ SeenPhase'[k] = "open"
      BY <2>5, SeenWell DEF SeenAs
    <2>7. SeenSaid[k] = 0 /\ SeenSaid'[k] = 0
      BY <2>3, SeenWell DEF SeenAs, Connected
    <2>8. SeenHeard[k] = <<>> /\ SeenHeard'[k] = <<>>
      BY <2>3, SeenWell DEF SeenAs, Connected
    <2>9. k \in Connections
      BY DEF Connections
    <2>10. SeenSaid'[k] = SeenSaid[k] /\ SeenHeard'[k] = SeenHeard[k]
      BY <2>7, <2>8, Zenon
    <2>. QED
      BY <2>4, <2>6, <2>9, <2>10, SeenOpens
  <1>. QED
    BY <1>2, <1>3 DEF ServerHears, ServerInput, serverVars

(* The steps of the PCs, as they are seen.                                 *)
LEMMA PcStepsSeen ==
    ASSUME OktunInv, OktunInv', ClientInv, ClientType, ServerType, TalkInv,
           PcSteps, UNCHANGED serverVars
    PROVE  Seen!Next
  <1>1. ASSUME NEW a \in Clients, NEW c \in Pcs, Accept(a, c)
        PROVE  Seen!Next
    BY <1>1, AcceptSeen
  <1>2. ASSUME PcsStop
        PROVE  Seen!Next
    <2>1. TargetsStop
      BY SameTargetsStop DEF serverVars
    <2>2. Seen!Stop
      BY <1>2, <2>1, SeenStops
    <2>. QED
      BY <2>2 DEF Seen!Next
  <1>3. ASSUME NEW c \in Pcs, PcLeaves(c)
        PROVE  PcsStop
    <2>1. /\ \A b \in Pcs \ {c} : pcs'[b] = pcs[b]
          /\ pcs'[c].said = pcs[c].said /\ pcs'[c].heard = pcs[c].heard
          /\ pcs'[c].state = "gone"
      BY <1>3 DEF PcLeaves, ClientType, Pc
    <2>. QED
      BY <2>1 DEF PcsStop, PcPhase
  <1>4. ASSUME NEW key \in DOMAIN proxies,
               NEW n \in 1 .. MaxSaid - pcs[proxies[key].pc].said, ClientRead(key, n)
        PROVE  Seen!Next
    BY <1>4, ClientReadSeen
  <1>5. ASSUME NEW key \in DOMAIN proxies, NEW n, ClientWrite(key, n)
        PROVE  Seen!Next
    BY <1>5, ClientWriteSeen
  <1>6. ASSUME NEW key \in DOMAIN proxies, ClientEof(key)
        PROVE  PcsStop
    BY <1>6, RemoveClientStops DEF ClientEof
  <1>7. ASSUME NEW key \in DOMAIN proxies, ClientWriteFails(key)
        PROVE  PcsStop
    BY <1>7, ProgramDiesStops, SamePcsStop DEF ClientWriteFails
  <1>8. Leavers \subseteq Pcs
    BY OktunAssumption
  <1>. QED
    BY <1>1, <1>2, <1>3, <1>4, <1>5, <1>6, <1>7, <1>8 DEF PcSteps

(* Those of the target.                                                    *)
LEMMA TargetStepsSeen ==
    ASSUME OktunInv, OktunInv', ClientType, ServerInv, ServerType, TalkInv,
           TargetSteps, UNCHANGED clientVars
    PROVE  Seen!Next
  <1>1. ASSUME TargetsStop
        PROVE  Seen!Next
    <2>1. PcsStop
      BY SamePcsStop DEF clientVars
    <2>2. Seen!Stop
      BY <1>1, <2>1, SeenStops
    <2>. QED
      BY <2>2 DEF Seen!Next
  <1>2. ASSUME NEW k \in DOMAIN targets, TargetEnds(k)
        PROVE  TargetsStop
    BY <1>2, TargetEndsStops
  <1>3. ASSUME NEW key \in DOMAIN tasks,
               NEW n \in 1 .. MaxReply - targets[tasks[key].sock].said, TaskRead(key, n)
        PROVE  Seen!Next
    BY <1>3, TaskReadSeen
  <1>4. ASSUME NEW key \in DOMAIN tasks, NEW n, TaskWrite(key, n)
        PROVE  Seen!Next
    BY <1>4, TaskWriteSeen
  <1>5. ASSUME NEW key \in DOMAIN tasks, TaskEof(key)
        PROVE  TargetsStop
    BY <1>5, TaskEofStops
  <1>6. ASSUME NEW key \in DOMAIN tasks, TaskWriteKills(key)
        PROVE  TargetsStop
    BY <1>6, TaskWriteKillsStops
  <1>. QED
    BY <1>1, <1>2, <1>3, <1>4, <1>5, <1>6, Zenon DEF TargetSteps

(* Nobody has connected at the start.                                      *)
LEMMA SeenInit ==
    ASSUME Init
    PROVE  Seen!Init
  <1>1. targets = <<>> /\ DOMAIN targets = {}
    BY DEF Init, ServerInit
  <1>2. pcs = [c \in Pcs |-> [state |-> "absent", said |-> 0, heard |-> <<>>]]
    BY DEF Init, ClientInit
  <1>3. ASSUME NEW x \in Connections
        PROVE  SeenPhase[x] = "absent" /\ SeenSaid[x] = 0 /\ SeenHeard[x] = <<>>
    <2>1. CASE x \in Pcs
      BY <1>2, <2>1 DEF SeenPhase, SeenSaid, SeenHeard, PcPhase
    <2>2. CASE x \notin Pcs
      BY <1>1, <2>2 DEF SeenPhase, SeenSaid, SeenHeard, TargetPhase
    <2>. QED
      BY <2>1, <2>2
  <1>4. SeenPhase = [x \in Connections |-> "absent"]
    BY <1>3, SeenMaps DEF Maps
  <1>5. SeenSaid = [x \in Connections |-> 0]
    BY <1>3, SeenMaps DEF Maps
  <1>6. SeenHeard = [x \in Connections |-> <<>>]
    BY <1>3, SeenMaps DEF Maps
  <1>. QED
    BY <1>4, <1>5, <1>6, Zenon DEF Seen!Init, Seen!Ends, Connections

(* Nothing is said or heard, and no connection made, by a step of either   *)
(* program but those of its sockets to the PCs and to the target, and the  *)
(* making of a task.                                                       *)
LEMMA ClientSideStops ==
    ASSUME ClientInv, ClientType, NetType, ClientSideSteps
    PROVE  PcsStop
  <1>1. ASSUME NEW key, NEW k, ClientRound(key, k)
        PROVE  PcsStop
    BY <1>1, ForwardStops DEF ClientRound
  <1>2. CASE Dropped
    BY <1>2, SamePcsStop DEF Dropped, clientVars
  <1>. QED
    BY <1>1, <1>2, ClientSideRounds

(* Every step is seen as one of the promised tunnel, or not at all.        *)
LEMMA SeenStep ==
    ASSUME OktunInv, OktunInv', TalkInv, [Next]_vars
    PROVE  Seen!Next
  <1>1. ClientType /\ ServerType /\ NetType /\ ClientInv /\ ServerInv
    BY TypeParts DEF OktunInv
  <1>2. ServerType'
    <2>1. (TypeOK /\ ConvInv /\ Len(targets) <= MaxTargets)'
              <=> ClientType' /\ ServerType' /\ NetType'
      BY TypeParts, PTL
    <2>. QED
      BY <2>1 DEF OktunInv
  <1>3. ASSUME PcsStop, TargetsStop
        PROVE  Seen!Next
    <2>1. Seen!Stop
      BY <1>3, SeenStops
    <2>. QED
      BY <2>1 DEF Seen!Next
  <1>4. CASE PcSteps /\ UNCHANGED <<serverVars, net>>
    BY <1>1, <1>4, PcStepsSeen
  <1>5. CASE TargetSteps /\ UNCHANGED <<clientVars, net>>
    BY <1>1, <1>5, TargetStepsSeen
  <1>6. CASE ClientSideSteps /\ UNCHANGED serverVars
    <2>1. PcsStop
      BY <1>1, <1>6, ClientSideStops
    <2>2. TargetsStop
      BY <1>6, SameTargetsStop DEF serverVars
    <2>. QED
      BY <1>3, <2>1, <2>2
  <1>7. CASE UNCHANGED clientVars /\ \E key \in DOMAIN tasks : ServerTick(key)
    <2>1. PcsStop
      BY <1>7, SamePcsStop DEF clientVars
    <2>2. TargetsStop
      BY <1>7, SameTargetsStop DEF ServerTick, ServerUpdate
    <2>. QED
      BY <1>3, <2>1, <2>2
  <1>8. CASE /\ \E p \in toServer, grow \in BOOLEAN, dup \in BOOLEAN :
                   ServerHears(p[1], p[2], grow, dup)
             /\ UNCHANGED clientVars
    BY <1>1, <1>2, <1>8, ServerHearsSeen
  <1>9. CASE UNCHANGED vars
    <2>1. PcsStop
      BY <1>9, SamePcsStop DEF vars, clientVars
    <2>2. TargetsStop
      BY <1>9, SameTargetsStop DEF vars, serverVars
    <2>. QED
      BY <1>3, <2>1, <2>2
  <1>. QED
    BY <1>4, <1>5, <1>6, <1>7, <1>8, <1>9 DEF Next, ClientSideSteps

(* What a PC says is what one connection of the target hears, from the     *)
(* beginning and in order, and the reverse, for any number of PCs, any     *)
(* windows and buffers, and whatever the path loses, delays, repeats and   *)
(* reorders: through both programs, as long as an id is not used again     *)
(* before all that belongs to its last use is gone, and a task that is     *)
(* made for a session under way has said nothing to it before.             *)
THEOREM ImplementsTunnelCorrect == FreshSpec => ImplementsTunnel
  <1>1. Init => OktunInv /\ TalkInv /\ Seen!Init
    BY OktunInvInit, TalkInvInit, SeenInit
  <1>2. [Next /\ FreshIds]_vars => [Next]_vars
    OBVIOUS
  <1>3. OktunInv /\ [Next /\ FreshIds]_vars => OktunInv'
    BY <1>2, OktunInvStep
  <1>4. OktunInv /\ TalkInv /\ [Next /\ FreshIds]_vars => TalkInv'
    BY TalkStep, TalkInvStep DEF TalkInv
  <1>5. OktunInv /\ OktunInv' /\ TalkInv /\ [Next /\ FreshIds]_vars
            => [Seen!Next]_(Seen!vars)
    BY <1>2, SeenStep
  <1>. QED
    BY <1>1, <1>3, <1>4, <1>5, PTL DEF FreshSpec, ImplementsTunnel, Seen!Spec
----------------------------------------------------------------------------
(* What has come through a session when the proxy closes its connection.   *)

(* The end of one connection of the target, and all it said before.        *)
Complete(key, c) ==
    \E k \in DOMAIN targets :
        /\ targets[k].state # "open"
        /\ Len(pcs[c].heard \o proxies[key].buf \o sessions[key].buf) = targets[k].said

(* What SignalComesLast says of one PC.                                    *)
Finishes(c) ==
    pcs[c].state = "open" /\ pcs'[c].state = "finished" =>
        \E key \in DOMAIN proxies : proxies[key].pc = c /\ Complete(key, c)

(* A message of no bytes comes after all that was said to the PC.          *)
LEMMA EmptyMessageIsLast ==
    ASSUME ClientType, TalkInv, NEW key, NEW k, ClientRound(key, k),
           KcpReceivable(k, ClientBuf - Len(sessions[key].buf)),
           Payload(FirstMessage(k)) = <<>>
    PROVE  \E y \in DOMAIN targets :
              /\ targets[y].state # "open"
              /\ \A h \in PcHeard(key) : Len(h) = targets[y].said
  <1>1. key \in Keys
    BY DEF ClientRound, ClientType
  <1>2. PICK y : Down(key, y)
    BY <1>1 DEF TalkInv
  <1>3. DownWith(key, y, k)
    BY <1>2 DEF ClientRound, Turns
  <1>4. k.rcv_queue # <<>>
    BY DEF KcpReceivable, KcpReadable
  <1>5. /\ y \in TargetSaid.over /\ y \in DOMAIN TargetSaid.counts
        /\ \A h \in PcHeard(key) : Len(h) = TargetSaid.counts[y]
    <2>1. Talk(y, Kcps(tasks, key), {k}, WireBack(key), Answered(key), TargetSaid,
               PcHeard(key))
      BY <1>3 DEF DownWith
    <2>2. PICK senders, wire, told, said, heard :
            /\ senders = Kcps(tasks, key) /\ wire = WireBack(key)
            /\ told = Answered(key) /\ said = TargetSaid /\ heard = PcHeard(key)
      OBVIOUS
    <2>3. Talk(y, senders, {k}, wire, told, said, heard)
      BY <2>1, <2>2, Zenon
    <2>4. Payload(FirstMessage(k)) = <<>>
      OBVIOUS
    <2>5. y \in said.over
      BY <1>4, <2>3, <2>4, TalkEnd
    <2>6. y \in DOMAIN said.counts
      BY <1>4, <2>3, <2>4, TalkEnd
    <2>7. \A h \in heard : Len(h) = said.counts[y]
      BY <1>4, <2>3, <2>4, TalkEnd
    <2>. QED
      BY <2>2, <2>5, <2>6, <2>7, Zenon
  <1>6. /\ TargetSaid.over = {t \in DOMAIN targets : targets[t].state # "open"}
        /\ TargetSaid.counts = [t \in DOMAIN targets |-> targets[t].said]
    BY DEF TargetSaid
  <1>7. y \in DOMAIN targets /\ targets[y].state # "open"
    BY <1>5, <1>6, Zenon
  <1>8. TargetSaid.counts[y] = targets[y].said
    BY <1>6, <1>7
  <1>. QED
    BY <1>5, <1>7, <1>8, Zenon

(* Only a callback of the client that got one finishes a PC.               *)
LEMMA RoundFinishes ==
    ASSUME ClientInv, ClientType, TalkInv, NEW key, NEW k, ClientRound(key, k),
           NEW c \in Pcs
    PROVE  Finishes(c)
  <1>. SUFFICES ASSUME pcs[c].state = "open", pcs'[c].state = "finished"
                PROVE  \E i \in DOMAIN proxies : proxies[i].pc = c /\ Complete(i, c)
    BY DEF Finishes
  <1>1. key \in DOMAIN sessions /\ key \in DOMAIN proxies
    BY DEF ClientRound, ClientInv, MapsAgree
  <1>2. CASE ProgramDies(key[1])
    BY <1>2 DEF ProgramDies, ClientType, Pc
  <1>3. CASE pcs' = pcs
    BY <1>3
  <1>4. CASE /\ KcpReceivable(k, ClientBuf - Len(sessions[key].buf))
             /\ Payload(FirstMessage(k)) = <<>>
             /\ RemoveClient(key, "finished")
    <2>1. PICK e \in Pcs : e = proxies[key].pc
      BY <1>1 DEF ClientInv
    <2>2. e = c
      BY <1>4, <2>1 DEF RemoveClient, ClientType, Pc
    <2>3. PcHeard(key) = {(pcs[c].heard \o proxies[key].buf) \o sessions[key].buf}
      BY <1>1, <2>1, <2>2, ClientSide
    <2>4. PICK y \in DOMAIN targets :
             /\ targets[y].state # "open"
             /\ \A h \in PcHeard(key) : Len(h) = targets[y].said
      BY <1>4, EmptyMessageIsLast
    <2>5. Complete(key, c)
      BY <2>3, <2>4 DEF Complete
    <2>. QED
      BY <1>1, <2>1, <2>2, <2>5
  <1>. QED
    BY <1>2, <1>3, <1>4, Zenon DEF ClientRound, Forward

(* The PCs and the sockets to them finish no PC.                           *)
LEMMA PcStepsFinishNone ==
    ASSUME ClientInv, ClientType, PcSteps, NEW c \in Pcs
    PROVE  Finishes(c)
  <1>. SUFFICES ASSUME pcs[c].state = "open"
                PROVE  pcs'[c].state # "finished"
    BY DEF Finishes
  <1>1. ASSUME NEW a \in Clients, NEW e \in Pcs, Accept(a, e)
        PROVE  pcs'[c].state # "finished"
    <2>1. PICK state \in {"dropped", "open"} : pcs' = [pcs EXCEPT ![e].state = state]
      BY <1>1 DEF Accept
    <2>. QED
      BY <2>1 DEF ClientType, Pc
  <1>2. ASSUME NEW e \in Pcs, PcLeaves(e)
        PROVE  pcs'[c].state # "finished"
    BY <1>2 DEF PcLeaves, ClientType, Pc
  <1>3. ASSUME NEW key \in DOMAIN proxies, NEW n, ClientRead(key, n)
        PROVE  pcs'[c].state # "finished"
    <2>1. PICK e \in Pcs : e = proxies[key].pc
      BY DEF ClientInv
    <2>2. PICK said : pcs' = [pcs EXCEPT ![e].said = said]
      BY <1>3, <2>1 DEF ClientRead
    <2>. QED
      BY <2>2 DEF ClientType, Pc
  <1>4. ASSUME NEW key \in DOMAIN proxies, NEW n, ClientWrite(key, n)
        PROVE  pcs'[c].state # "finished"
    <2>1. PICK e \in Pcs : e = proxies[key].pc
      BY DEF ClientInv
    <2>2. PICK heard : pcs' = [pcs EXCEPT ![e].heard = heard]
      BY <1>4, <2>1 DEF ClientWrite
    <2>. QED
      BY <2>2 DEF ClientType, Pc
  <1>5. ASSUME NEW key \in DOMAIN proxies, ClientEof(key)
        PROVE  pcs'[c].state # "finished"
    <2>1. PICK e \in Pcs : e = proxies[key].pc
      BY DEF ClientInv
    <2>2. pcs' = [pcs EXCEPT ![e].state = "gone"]
      BY <1>5, <2>1 DEF ClientEof, RemoveClient
    <2>. QED
      BY <2>2 DEF ClientType, Pc
  <1>6. ASSUME NEW key \in DOMAIN proxies, ClientWriteFails(key)
        PROVE  pcs'[c].state # "finished"
    <2>1. CASE pcs' = pcs
      BY <2>1
    <2>2. CASE ProgramDies(key[1])
      BY <2>2 DEF ProgramDies, ClientType, Pc
    <2>. QED
      BY <1>6, <2>1, <2>2, Zenon DEF ClientWriteFails
  <1>7. Leavers \subseteq Pcs
    BY OktunAssumption
  <1>. QED
    BY <1>1, <1>2, <1>3, <1>4, <1>5, <1>6, <1>7 DEF PcSteps

(* So it is in every step.                                                 *)
LEMMA FinishesStep ==
    ASSUME OktunInv, TalkInv, [Next]_vars
    PROVE  \A c \in Pcs : Finishes(c)
  <1>1. ClientType /\ NetType /\ ClientInv
    BY TypeParts DEF OktunInv
  <1>2. CASE PcSteps
    BY <1>1, <1>2, PcStepsFinishNone
  <1>3. CASE UNCHANGED clientVars
    BY <1>3 DEF clientVars, Finishes
  <1>4. CASE ClientSideSteps
    <2>1. CASE Dropped
      BY <2>1 DEF Dropped, clientVars, Finishes
    <2>2. ASSUME NEW key, NEW k, ClientRound(key, k)
          PROVE  \A c \in Pcs : Finishes(c)
      BY <1>1, <2>2, RoundFinishes
    <2>. QED
      BY <1>1, <1>4, <2>1, <2>2, ClientSideRounds
  <1>. QED
    BY <1>2, <1>3, <1>4, Zenon DEF Next, ClientSideSteps, vars, clientVars

(* The proxy closes a PC's connection only when one connection of the      *)
(* target has ended, and all that was said there is what the PC has heard  *)
(* with what the close destroys in the two buffers: the signal overtakes   *)
(* no byte, for any number of PCs, windows and buffers and whatever the    *)
(* path does, while ids are fresh.                                         *)
THEOREM SignalComesLastCorrect == FreshSpec => SignalComesLast
  <1>1. Init => OktunInv /\ TalkInv
    BY OktunInvInit, TalkInvInit
  <1>2. [Next /\ FreshIds]_vars => [Next]_vars
    OBVIOUS
  <1>3. OktunInv /\ [Next /\ FreshIds]_vars => OktunInv'
    BY <1>2, OktunInvStep
  <1>4. OktunInv /\ TalkInv /\ [Next /\ FreshIds]_vars => TalkInv'
    BY TalkStep, TalkInvStep DEF TalkInv
  <1>5. OktunInv /\ TalkInv /\ [Next /\ FreshIds]_vars
            => [\A c \in Pcs :
                   pcs[c].state = "open" /\ pcs'[c].state = "finished" =>
                       \E key \in DOMAIN proxies, k \in DOMAIN targets :
                           /\ proxies[key].pc = c
                           /\ targets[k].state # "open"
                           /\ Len(pcs[c].heard \o proxies[key].buf \o sessions[key].buf)
                                = targets[k].said]_vars
    BY <1>2, FinishesStep, Zenon DEF Finishes, Complete
  <1>. QED
    BY <1>1, <1>3, <1>4, <1>5, PTL DEF FreshSpec, SignalComesLast

----------------------------------------------------------------------------
(* Who talks with whom, while the target keeps its connections open.       *)

AllOpen == \A k \in DOMAIN targets : targets[k].state = "open"

(* Then the server keeps its tasks, and each its connection.               *)
TasksStay ==
    \A key \in DOMAIN tasks :
        key \in DOMAIN tasks' /\ tasks'[key].sock = tasks[key].sock

(* The datagrams and the target's bytes change neither.                    *)
LEMMA ServerStays ==
    ASSUME ServerInv, ServerType, TargetStays, AllOpen, [Next]_vars
    PROVE  AllOpen' /\ TasksStay
  <1>1. CASE UNCHANGED serverVars
    BY <1>1 DEF serverVars, AllOpen, TasksStay
  <1>2. ASSUME NEW key \in DOMAIN tasks,
               NEW n \in 1 .. MaxReply - targets[tasks[key].sock].said, TaskRead(key, n)
        PROVE  AllOpen' /\ TasksStay
    <2>1. PICK t \in Task : t = tasks[key]
      BY DEF ServerType
    <2>2. PICK k \in DOMAIN targets : k = tasks[key].sock
      BY DEF ServerInv
    <2>3. PICK r \in Target : r = targets[k]
      BY DEF ServerType
    <2>4. PICK said : targets' = [targets EXCEPT ![k] = [r EXCEPT !.said = said]]
      BY <1>2, <2>2, <2>3 DEF TaskRead
    <2>5. AllOpen'
      <3>1. /\ DOMAIN targets' = DOMAIN targets
            /\ \A j \in DOMAIN targets \ {k} : targets'[j] = targets[j]
            /\ targets'[k] = [r EXCEPT !.said = said]
        BY <2>4, TargetChanges
      <3>2. targets'[k].state = targets[k].state
        BY <2>3, <3>1 DEF Target
      <3>. QED
        BY <3>1, <3>2 DEF AllOpen
    <2>6. PICK kcp : tasks' = [tasks EXCEPT ![key] = [t EXCEPT !.kcp = kcp]]
      BY <1>2, <2>1 DEF TaskRead
    <2>7. TasksStay
      BY <2>1, <2>6 DEF TasksStay, Task
    <2>. QED
      BY <2>5, <2>7
  <1>3. ASSUME NEW key \in DOMAIN tasks, NEW n, TaskWrite(key, n)
        PROVE  AllOpen' /\ TasksStay
    <2>1. PICK t \in Task : t = tasks[key]
      BY DEF ServerType
    <2>2. PICK k \in DOMAIN targets : k = t.sock
      BY <2>1 DEF ServerInv
    <2>3. PICK r \in Target : r = targets[k]
      BY DEF ServerType
    <2>4. PICK heard : targets' = [targets EXCEPT ![k] = [r EXCEPT !.heard = heard]]
      BY <1>3, <2>1, <2>2, <2>3 DEF TaskWrite
    <2>5. AllOpen'
      <3>1. /\ DOMAIN targets' = DOMAIN targets
            /\ \A j \in DOMAIN targets \ {k} : targets'[j] = targets[j]
            /\ targets'[k] = [r EXCEPT !.heard = heard]
        BY <2>4, TargetChanges
      <3>2. targets'[k].state = targets[k].state
        BY <2>3, <3>1 DEF Target
      <3>. QED
        BY <3>1, <3>2 DEF AllOpen
    <2>6. PICK buf : tasks' = [tasks EXCEPT ![key] = [t EXCEPT !.buf = buf]]
      BY <1>3, <2>1 DEF TaskWrite
    <2>7. TasksStay
      BY <2>1, <2>6 DEF TasksStay, Task
    <2>. QED
      BY <2>5, <2>7
  <1>4. ASSUME NEW key \in DOMAIN tasks, TaskEof(key) \/ TaskWriteKills(key)
        PROVE  FALSE
    <2>1. tasks[key].sock \in DOMAIN targets
      BY DEF ServerInv
    <2>2. targets[tasks[key].sock].state = "open"
      BY <2>1 DEF AllOpen
    <2>. QED
      BY <1>4, <2>2 DEF TaskEof, TaskWriteKills
  <1>5. CASE TargetSteps
    BY <1>2, <1>3, <1>4, <1>5, Zenon DEF TargetSteps
  <1>6. ASSUME NEW key \in DOMAIN tasks, ServerTick(key)
        PROVE  AllOpen' /\ TasksStay
    <2>1. PICK t \in Task : t = tasks[key]
      BY DEF ServerType
    <2>2. PICK due : ServerUpdate(key, due)
      BY <1>6 DEF ServerTick
    <2>3. PICK kcp : tasks' = [tasks EXCEPT ![key] = [t EXCEPT !.kcp = kcp]]
      BY <2>1, <2>2 DEF ServerUpdate
    <2>4. TasksStay
      BY <2>1, <2>3 DEF TasksStay, Task
    <2>5. AllOpen'
      BY <2>2 DEF ServerUpdate, AllOpen
    <2>. QED
      BY <2>4, <2>5
  <1>7. ASSUME NEW a, NEW d, NEW grow, ServerInput(a, d, grow)
        PROVE  AllOpen' /\ TasksStay
    <2>1. AllOpen'
      <3>1. CASE targets' = targets
        BY <3>1 DEF AllOpen
      <3>2. CASE targets' = Append(targets, Connected)
        <4>1. targets \in Seq(Target)
          BY DEF ServerType
        <4>2. Connected.state = "open"
          BY DEF Connected
        <4>. QED
          BY <3>2, <4>1, <4>2 DEF AllOpen
      <3>. QED
        BY <1>7, <3>1, <3>2 DEF ServerInput
    <2>2. PICK new : new = TaskKey(a, d)
      OBVIOUS
    <2>3. /\ DOMAIN tasks' = DOMAIN tasks \cup {new}
          /\ \A key \in DOMAIN tasks \ {new} : tasks'[key] = tasks[key]
          /\ tasks'[new] = Write2Task(TaskOf(new), d, grow)
      BY <1>7, <2>2, Zenon DEF ServerInput
    <2>4. new \in DOMAIN tasks => tasks'[new].sock = tasks[new].sock
      <3>1. new \in DOMAIN tasks => TaskOf(new) = tasks[new] /\ tasks[new] \in Task
        BY DEF TaskOf, ServerType
      <3>2. ASSUME NEW t \in Task
            PROVE  Write2Task(t, d, grow).sock = t.sock
        BY Write2TaskKeepsSock DEF Task
      <3>. QED
        BY <2>3, <3>1, <3>2
    <2>5. TasksStay
      BY <2>3, <2>4 DEF TasksStay
    <2>. QED
      BY <2>1, <2>5
  <1>8. CASE \E p \in toServer, grow \in BOOLEAN, dup \in BOOLEAN :
                ServerHears(p[1], p[2], grow, dup)
    BY <1>1, <1>7, <1>8, Zenon DEF ServerHears
  <1>. QED
    BY <1>1, <1>5, <1>6, <1>8, Zenon DEF Next, vars, serverVars

(* A session is new only with a PC that was absent.                        *)
NewOnes ==
    \A key \in DOMAIN sessions' \ DOMAIN sessions :
        pcs[proxies'[key].pc].state = "absent"

LEMMA NewSessions ==
    ASSUME ClientInv, ClientType, NetType, [Next]_vars
    PROVE  NewOnes
  <1>1. CASE DOMAIN sessions' \subseteq DOMAIN sessions
    BY <1>1 DEF NewOnes
  <1>2. ASSUME NEW a \in Clients, NEW c \in Pcs, Accept(a, c)
        PROVE  NewOnes
    <2>1. PICK new : new = Candidate(a, TriesUsed(a))
      OBVIOUS
    <2>2. /\ pcs[c].state = "absent"
          /\ \E value : sessions' = Emplace(sessions, new, value)
          /\ \E buf : proxies' = Emplace(proxies, new, [pc |-> c, buf |-> buf])
      BY <1>2, <2>1, Zenon DEF Accept
    <2>3. PICK value, buf : /\ sessions' = Emplace(sessions, new, value)
                            /\ proxies' = Emplace(proxies, new, [pc |-> c, buf |-> buf])
      BY <2>2
    <2>4. ASSUME NEW key \in DOMAIN sessions' \ DOMAIN sessions
          PROVE  proxies'[key].pc = c
      <3>1. key = new /\ key \notin DOMAIN proxies
        BY <2>3 DEF Emplace, ClientInv, MapsAgree
      <3>2. proxies'[key] = [pc |-> c, buf |-> buf]
        BY <2>3, <3>1 DEF Emplace
      <3>. QED
        BY <3>2
    <2>. QED
      BY <2>2, <2>4 DEF NewOnes
  <1>3. ASSUME NEW key, NEW state, RemoveClient(key, state)
        PROVE  DOMAIN sessions' \subseteq DOMAIN sessions
    BY <1>3 DEF RemoveClient, Restrict
  <1>4. ASSUME NEW a, ProgramDies(a)
        PROVE  DOMAIN sessions' \subseteq DOMAIN sessions
    BY <1>4 DEF ProgramDies, Without, Restrict
  <1>5. CASE PcSteps
    <2>1. ASSUME NEW c, PcLeaves(c)
          PROVE  NewOnes
      BY <1>1, <2>1 DEF PcLeaves
    <2>2. ASSUME NEW key, NEW n, ClientRead(key, n)
          PROVE  NewOnes
      BY <1>1, <2>2 DEF ClientRead
    <2>3. ASSUME NEW key, NEW n, ClientWrite(key, n)
          PROVE  NewOnes
      BY <1>1, <2>3 DEF ClientWrite
    <2>4. ASSUME NEW key, ClientEof(key)
          PROVE  NewOnes
      BY <1>1, <1>3, <2>4 DEF ClientEof
    <2>5. ASSUME NEW key, ClientWriteFails(key)
          PROVE  NewOnes
      BY <1>1, <1>4, <2>5 DEF ClientWriteFails
    <2>. QED
      BY <1>2, <1>5, <2>1, <2>2, <2>3, <2>4, <2>5 DEF PcSteps
  <1>6. ASSUME NEW key, NEW k, Forward(key, k)
        PROVE  DOMAIN sessions' \subseteq DOMAIN sessions
    BY <1>3, <1>6 DEF Forward
  <1>7. CASE ClientSideSteps
    BY <1>1, <1>4, <1>6, <1>7, ClientSideRounds DEF Dropped, clientVars, ClientRound
  <1>8. CASE UNCHANGED clientVars
    BY <1>1, <1>8 DEF clientVars
  <1>. QED
    BY <1>5, <1>7, <1>8, Zenon DEF Next, ClientSideSteps, vars, clientVars

(* A PC whose connection is not open hears nothing, and an absent one has  *)
(* always been.                                                            *)
LEMMA OverHearsNothing ==
    ASSUME OktunInv, OktunInv', [Seen!Next]_(Seen!vars), NEW c \in Pcs
    PROVE  /\ pcs'[c].state # "open" => pcs'[c].heard = pcs[c].heard
           /\ pcs'[c].state = "absent" => pcs[c].state = "absent"
  <1>1. /\ pcs[c] \in Pc /\ pcs'[c] \in Pc /\ c \in Connections
    BY DEF OktunInv, TypeOK, Connections
  <1>2. /\ SeenPhase[c] = PcPhase(c) /\ SeenPhase'[c] = PcPhase(c)'
        /\ SeenHeard[c] = pcs[c].heard /\ SeenHeard'[c] = pcs'[c].heard
    BY SeenWell DEF SeenAs
  <1>3. /\ SeenPhase[c] = "absent" <=> pcs[c].state = "absent"
        /\ SeenPhase'[c] = "absent" <=> pcs'[c].state = "absent"
        /\ pcs'[c].state # "open" => SeenPhase'[c] \notin {"open", "silent"}
    BY <1>1, <1>2 DEF PcPhase, Pc
  <1>4. SeenPhase = [x \in Connections |-> SeenPhase[x]]
    BY SeenMaps DEF Maps
  <1>5. SeenHeard = [x \in Connections |-> SeenHeard[x]]
    BY SeenMaps DEF Maps
  <1>6. /\ SeenPhase'[c] \notin {"open", "silent"} => SeenHeard'[c] = SeenHeard[c]
        /\ SeenPhase'[c] = "absent" => SeenPhase[c] = "absent"
    <2>1. ASSUME NEW x \in Connections, Seen!Opens(x)
          PROVE  /\ SeenHeard' = SeenHeard
                 /\ SeenPhase'[c] = "absent" => SeenPhase[c] = "absent"
      BY <1>1, <1>4, <2>1 DEF Seen!Opens
    <2>2. ASSUME NEW x \in Connections, Seen!Says(x)
          PROVE  SeenHeard' = SeenHeard /\ SeenPhase' = SeenPhase
      BY <2>2 DEF Seen!Says
    <2>3. ASSUME NEW x \in Connections, NEW y \in Connections, Seen!Hears(x, y)
          PROVE  /\ SeenPhase' = SeenPhase
                 /\ SeenPhase[c] \notin {"open", "silent"} => SeenHeard'[c] = SeenHeard[c]
      <3>1. SeenPhase[x] \in {"open", "silent"} /\ SeenPhase' = SeenPhase
        BY <2>3 DEF Seen!Hears
      <3>2. PICK longer : SeenHeard' = [SeenHeard EXCEPT ![x] = longer]
        BY <2>3, Zenon DEF Seen!Hears
      <3>3. c # x => SeenHeard'[c] = SeenHeard[c]
        BY <1>1, <1>5, <3>2
      <3>. QED
        BY <3>1, <3>3
    <2>4. CASE Seen!Stop
      BY <1>1, <2>4 DEF Seen!Stop, Seen!Ends, Connections
    <2>5. CASE UNCHANGED Seen!vars
      BY <2>5 DEF Seen!vars
    <2>. QED
      BY <1>1, <2>1, <2>2, <2>3, <2>4, <2>5 DEF Seen!Next, Seen!Ends, Connections
  <1>. QED
    BY <1>2, <1>3, <1>6

(* What a direction has brought out is of its speaker.                     *)
AllOf(h, y) == \A i \in DOMAIN h : h[i][1] = y

LEMMA HeardOf ==
    ASSUME NEW y, NEW senders, NEW receivers, receivers # {}, NEW wire, NEW told, NEW said,
           NEW h \in Seq(Data), NEW rest \in Seq(Data),
           Talk(y, senders, receivers, wire, told, said, {h \o rest})
    PROVE  AllOf(h, y)
  <1>1. PICK n \in Nat : Spoken(y, n, h \o rest, said)
    BY TalkBegins
  <1>2. PICK more \in Seq(Data) : Bytes(y, 0, n) = (h \o rest) \o more
    BY <1>1, Zenon DEF Spoken
  <1>3. FirstOf(y, n, h, rest)
    BY <1>2, BytesCut
  <1>. QED
    BY <1>3 DEF FirstOf, AllOf

(* So is what the connection of a task has heard.                          *)
LEMMA TaskHeardOf ==
    ASSUME ServerInv, ServerType, NEW key \in DOMAIN tasks, NEW x, Up(key, x)
    PROVE  AllOf(targets[tasks[key].sock].heard, x)
  <1>1. PICK t \in Task : t = tasks[key]
    BY DEF ServerType
  <1>2. PICK k \in DOMAIN targets : k = t.sock
    BY <1>1 DEF ServerInv
  <1>3. PICK h \in Seq(Data), b \in Seq(Data) : h = targets[k].heard /\ b = t.buf
    <2>1. targets[k] \in Target
      BY DEF ServerType
    <2>. QED
      BY <2>1 DEF Target, Task
  <1>4. TargetHeard(key) = {h \o b} /\ Kcps(tasks, key) # {}
    BY <1>1, <1>2, <1>3, ServerSide
  <1>5. Talk(x, Kcps(sessions, key), Kcps(tasks, key), Wire(toServer, key), Told(key),
             PcSaid, {h \o b})
    BY <1>4 DEF Up
  <1>6. AllOf(h, x)
    BY <1>4, <1>5, HeardOf
  <1>. QED
    BY <1>1, <1>2, <1>3, <1>6

(* And what the PC of a session has.                                       *)
LEMMA PcHeardOf ==
    ASSUME ClientInv, ClientType, NEW key \in DOMAIN sessions,
           pcs[proxies[key].pc].state = "open", NEW y, Down(key, y)
    PROVE  AllOf(pcs[proxies[key].pc].heard, y)
  <1>. key \in DOMAIN proxies
    BY DEF ClientInv, MapsAgree
  <1>1. PICK s \in Session, p \in Proxy : s = sessions[key] /\ p = proxies[key]
    BY DEF ClientType
  <1>2. PICK c \in Pcs : c = p.pc
    BY DEF Proxy
  <1>3. PICK h \in Seq(Data), b \in Seq(Data), sb \in Seq(Data) :
          h = pcs[c].heard /\ b = p.buf /\ sb = s.buf
    BY DEF ClientType, Pc, Proxy, Session
  <1>4. PICK rest \in Seq(Data) : rest = b \o sb
    <2>1. b \o sb \in Seq(Data)
      OBVIOUS
    <2>. QED
      BY <2>1, Zenon
  <1>5. PcHeard(key) = {h \o rest} /\ Kcps(sessions, key) # {}
    <2>1. PcHeard(key) = {(h \o b) \o sb} /\ Kcps(sessions, key) # {}
      BY <1>1, <1>2, <1>3, ClientSide
    <2>2. (h \o b) \o sb = h \o (b \o sb)
      BY ThreeStretches, Zenon
    <2>. QED
      BY <1>4, <2>1, <2>2, Zenon
  <1>6. Talk(y, Kcps(tasks, key), Kcps(sessions, key), WireBack(key), Answered(key),
             TargetSaid, {h \o rest})
    BY <1>5 DEF Down
  <1>7. AllOf(h, y)
    BY <1>5, <1>6, HeardOf
  <1>. QED
    BY <1>1, <1>2, <1>3, <1>7

(* The speaker in a session is its PC, the one back is the connection of   *)
(* its task.                                                               *)
SpeakersKnown ==
    \A key :
        /\ \A x : key \in DOMAIN sessions /\ Up(key, x) => x = proxies[key].pc
        /\ \A y : key \in DOMAIN tasks /\ Down(key, y) => y = tasks[key].sock

LEMMA SpeakersTold == SpeakersKnown
  <1>1. ASSUME NEW key, NEW x, key \in DOMAIN sessions, Up(key, x)
        PROVE  x = proxies[key].pc
    <2>1. Told(key) = {<<proxies[key].pc, pcs[proxies[key].pc].said, FALSE>>}
      BY <1>1, ClientSide
    <2>2. Talk(x, Kcps(sessions, key), Kcps(tasks, key), Wire(toServer, key),
               {<<proxies[key].pc, pcs[proxies[key].pc].said, FALSE>>}, PcSaid,
               TargetHeard(key))
      BY <1>1, <2>1, Zenon DEF Up
    <2>3. PICK c, n, ends : c = proxies[key].pc /\ n = pcs[c].said /\ ends = FALSE
      OBVIOUS
    <2>4. Talk(x, Kcps(sessions, key), Kcps(tasks, key), Wire(toServer, key),
               {<<c, n, ends>>}, PcSaid, TargetHeard(key))
      BY <2>2, <2>3, Zenon
    <2>5. x = c
      BY <2>4, TalkTold
    <2>. QED
      BY <2>3, <2>5
  <1>2. ASSUME NEW key, NEW y, key \in DOMAIN tasks, Down(key, y)
        PROVE  y = tasks[key].sock
    <2>1. Answered(key) = {<<tasks[key].sock, targets[tasks[key].sock].said,
                             tasks[key].closing>>}
      BY <1>2, ServerSide
    <2>2. Talk(y, Kcps(tasks, key), Kcps(sessions, key), WireBack(key),
               {<<tasks[key].sock, targets[tasks[key].sock].said, tasks[key].closing>>},
               TargetSaid, PcHeard(key))
      BY <1>2, <2>1, Zenon DEF Down
    <2>3. PICK k, n, ends : /\ k = tasks[key].sock /\ n = targets[k].said
                            /\ ends = tasks[key].closing
      OBVIOUS
    <2>4. Talk(y, Kcps(tasks, key), Kcps(sessions, key), WireBack(key),
               {<<k, n, ends>>}, TargetSaid, PcHeard(key))
      BY <2>2, <2>3, Zenon
    <2>5. y = k
      BY <2>4, TalkTold
    <2>. QED
      BY <2>3, <2>5
  <1>. QED
    BY <1>1, <1>2 DEF SpeakersKnown

(* own says whose the last session with a key was.                         *)
Owned(own) ==
    /\ DOMAIN own \subseteq Keys
    /\ \A key \in DOMAIN sessions : key \in DOMAIN own /\ own[key] = proxies[key].pc
    /\ \A key \in DOMAIN own : own[key] \in Pcs /\ pcs[own[key]].state # "absent"
    /\ \A i, j \in DOMAIN own : own[i] = own[j] => i = j

(* Who speaks; where there is nobody yet, anyone may.                      *)
Speaking(own) ==
    \A key \in Keys :
        /\ IF key \in DOMAIN own THEN Up(key, own[key]) ELSE \A x : Up(key, x)
        /\ key \in DOMAIN tasks \/ \A y : Down(key, y)

(* A PC that has heard something heard it from the task of its key.        *)
TalkedBy(own, c) ==
    \A i \in DOMAIN pcs[c].heard :
        \E key \in DOMAIN own \cap DOMAIN tasks :
            own[key] = c /\ pcs[c].heard[i][1] = tasks[key].sock

Talked(own) == \A c \in Pcs : TalkedBy(own, c)

Owns(own) == Owned(own) /\ Speaking(own) /\ Talked(own)

(* The inductive invariant of OneToOne, with OktunInv and TalkInv.         *)
OwnInv == AllOpen /\ \E own : Owns(own)

(* At the start there are no sessions.                                     *)
LEMMA OwnInvInit ==
    ASSUME Init
    PROVE  OwnInv
  <1>1. NothingYet
    BY InitNothing
  <1>2. PICK own : own = [key \in {} |-> 0]
    OBVIOUS
  <1>3. DOMAIN own = {}
    BY <1>2
  <1>4. Owned(own)
    BY <1>1, <1>3 DEF Owned, NothingYet
  <1>5. Speaking(own)
    BY <1>1, <1>3, NothingSaid DEF Speaking
  <1>6. Talked(own)
    BY <1>1 DEF Talked, TalkedBy, NothingYet
  <1>7. AllOpen
    BY <1>1 DEF AllOpen, NothingYet
  <1>. QED
    BY <1>4, <1>5, <1>6, <1>7 DEF OwnInv, Owns

(* A session that goes on keeps its PC.                                    *)
LEMMA OwnersStay ==
    ASSUME ClientType, TalkGoesOn, NEW own, Owned(own), Speaking(own),
           NEW key \in DOMAIN sessions, key \in DOMAIN sessions'
    PROVE  proxies'[key].pc = own[key]
  <1>1. key \in Keys /\ key \in DOMAIN own
    BY DEF ClientType, Owned
  <1>2. UpKept(key)
    BY <1>1 DEF TalkGoesOn, Goes, UpBegins
  <1>3. Up(key, own[key])
    BY <1>1 DEF Speaking
  <1>4. Up(key, own[key])'
    BY <1>2, <1>3 DEF UpKept
  <1>5. SpeakersKnown'
    BY SpeakersTold, PTL
  <1>. QED
    BY <1>4, <1>5 DEF SpeakersKnown

(* Who owns the keys after a step.                                         *)
IsAfter(own, after) ==
    /\ DOMAIN after = DOMAIN own \cup DOMAIN sessions'
    /\ \A key \in DOMAIN sessions' : after[key] = proxies'[key].pc
    /\ \A key \in DOMAIN own :
          key \in DOMAIN sessions \/ key \notin DOMAIN sessions' => after[key] = own[key]

LEMMA OwnersAfter ==
    ASSUME ClientType, TalkGoesOn, NEW own, Owned(own), Speaking(own)
    PROVE  \E after : IsAfter(own, after)
  <1>1. PICK after :
          after = [key \in DOMAIN own \cup DOMAIN sessions' |->
                      IF key \in DOMAIN sessions' THEN proxies'[key].pc ELSE own[key]]
    OBVIOUS
  <1>2. /\ DOMAIN after = DOMAIN own \cup DOMAIN sessions'
        /\ \A key \in DOMAIN sessions' : after[key] = proxies'[key].pc
        /\ \A key \in DOMAIN own : key \notin DOMAIN sessions' => after[key] = own[key]
    BY <1>1
  <1>3. ASSUME NEW key \in DOMAIN sessions, key \in DOMAIN sessions'
        PROVE  after[key] = own[key]
    BY <1>2, <1>3, OwnersStay
  <1>. QED
    BY <1>2, <1>3 DEF IsAfter

(* A new session's PC was absent, so it owned none.                        *)
LEMMA OwnedStep ==
    ASSUME ClientInv', ClientType', NewOnes, NEW own, Owned(own),
           \A c \in Pcs : pcs'[c].state = "absent" => pcs[c].state = "absent",
           NEW after, IsAfter(own, after)
    PROVE  Owned(after)'
  <1>1. DOMAIN after \subseteq Keys
    BY DEF IsAfter, ClientType, Owned
  <1>2. \A key \in DOMAIN sessions' : key \in DOMAIN after /\ after[key] = proxies'[key].pc
    BY DEF IsAfter
  <1>3. \A key \in DOMAIN sessions' :
           proxies'[key].pc \in Pcs /\ pcs'[proxies'[key].pc].state # "absent"
    BY DEF ClientInv, MapsAgree
  <1>4. \A key \in DOMAIN after \ DOMAIN sessions' :
           key \in DOMAIN own /\ after[key] = own[key]
    BY DEF IsAfter
  <1>5. ASSUME NEW key \in DOMAIN after
        PROVE  after[key] \in Pcs /\ pcs'[after[key]].state # "absent"
    BY <1>2, <1>3, <1>4 DEF Owned
  <1>6. ASSUME NEW i \in DOMAIN after, NEW j \in DOMAIN after, after[i] = after[j]
        PROVE  i = j
    <2>1. CASE i \in DOMAIN sessions' /\ j \in DOMAIN sessions'
      BY <1>2, <1>6, <2>1 DEF ClientInv, MapsAgree
    <2>2. ASSUME NEW key \in DOMAIN after
          PROVE  \/ key \in DOMAIN own /\ after[key] = own[key]
                 \/ key \in DOMAIN sessions' /\ pcs[after[key]].state = "absent"
      BY <1>2, <1>4 DEF IsAfter, Owned, NewOnes
    <2>3. CASE i \notin DOMAIN sessions' \/ j \notin DOMAIN sessions'
      <3>1. \A key \in DOMAIN own : pcs[own[key]].state # "absent"
        BY DEF Owned
      <3>2. i \in DOMAIN own /\ after[i] = own[i] /\ j \in DOMAIN own /\ after[j] = own[j]
        BY <1>4, <1>6, <2>2, <2>3, <3>1
      <3>. QED
        BY <1>6, <3>2 DEF Owned
    <2>. QED
      BY <2>1, <2>3
  <1>. QED
    BY <1>1, <1>2, <1>5, <1>6 DEF Owned

(* Each goes on to speak, or is the PC of the session that begins.         *)
LEMMA SpeakingStep ==
    ASSUME TalkInv', TalkGoesOn, TasksStay, NEW own, Speaking(own),
           NEW after, IsAfter(own, after)
    PROVE  Speaking(after)'
  <1>1. ASSUME NEW key \in Keys
        PROVE  IF key \in DOMAIN after THEN Up(key, after[key])' ELSE \A x : Up(key, x)'
    <2>1. CASE key \in DOMAIN sessions'
      <3>1. PICK x : Up(key, x)'
        BY DEF TalkInv
      <3>2. SpeakersKnown'
        BY SpeakersTold, PTL
      <3>3. x = proxies'[key].pc
        BY <2>1, <3>1, <3>2 DEF SpeakersKnown
      <3>4. key \in DOMAIN after /\ after[key] = x
        BY <2>1, <3>3 DEF IsAfter
      <3>. QED
        BY <3>1, <3>4
    <2>2. CASE key \notin DOMAIN sessions'
      <3>1. UpKept(key)
        BY <2>2 DEF TalkGoesOn, Goes, UpBegins
      <3>2. /\ key \in DOMAIN after <=> key \in DOMAIN own
            /\ key \in DOMAIN own => after[key] = own[key]
        BY <2>2 DEF IsAfter
      <3>3. IF key \in DOMAIN own THEN Up(key, own[key]) ELSE \A x : Up(key, x)
        BY DEF Speaking
      <3>. QED
        BY <3>1, <3>2, <3>3 DEF UpKept
    <2>. QED
      BY <2>1, <2>2
  <1>2. ASSUME NEW key \in Keys, key \notin DOMAIN tasks'
        PROVE  \A y : Down(key, y)'
    <2>1. key \notin DOMAIN tasks
      BY <1>2 DEF TasksStay
    <2>2. DownKept(key)
      BY <1>2 DEF TalkGoesOn, Goes, DownBegins
    <2>. QED
      BY <2>1, <2>2 DEF Speaking, DownKept
  <1>. QED
    BY <1>1, <1>2 DEF Speaking

(* A PC that is open talks with the task of its session.                   *)
LEMMA OpenTalked ==
    ASSUME ClientInv, ClientType, TalkInv, NEW own, Owned(own), Speaking(own),
           NEW c \in Pcs, pcs[c].state = "open"
    PROVE  TalkedBy(own, c)
  <1>. SUFFICES ASSUME NEW i \in DOMAIN pcs[c].heard
                PROVE  \E key \in DOMAIN own \cap DOMAIN tasks :
                          own[key] = c /\ pcs[c].heard[i][1] = tasks[key].sock
    BY DEF TalkedBy
  <1>1. PICK key \in DOMAIN sessions : proxies[key].pc = c
    BY DEF ClientInv, MapsAgree
  <1>2. key \in Keys /\ key \in DOMAIN own /\ own[key] = c
    BY <1>1 DEF ClientType, Owned
  <1>3. ASSUME NEW y, Down(key, y)
        PROVE  pcs[c].heard[i][1] = y
    <2>1. AllOf(pcs[c].heard, y)
      BY <1>1, <1>3, PcHeardOf
    <2>. QED
      BY <2>1 DEF AllOf
  <1>4. key \in DOMAIN tasks
    <2>1. SUFFICES ASSUME key \notin DOMAIN tasks PROVE FALSE
      OBVIOUS
    <2>2. \A y : Down(key, y)
      BY <1>2, <2>1 DEF Speaking
    <2>3. pcs[c].heard[i][1] = 0 /\ pcs[c].heard[i][1] = 1
      BY <1>3, <2>2
    <2>. QED
      BY <2>3
  <1>5. PICK y : Down(key, y)
    BY <1>2 DEF TalkInv
  <1>6. y = tasks[key].sock
    BY <1>4, <1>5, SpeakersTold DEF SpeakersKnown
  <1>. QED
    BY <1>2, <1>3, <1>4, <1>5, <1>6

OpenOnesTalked ==
    ClientInv /\ ClientType /\ TalkInv =>
        \A own : Owned(own) /\ Speaking(own) =>
            \A c \in Pcs : pcs[c].state = "open" => TalkedBy(own, c)

LEMMA OpenOnes == OpenOnesTalked
  BY OpenTalked DEF OpenOnesTalked

(* One that is over hears nothing more, and no new session takes its key.  *)
LEMMA TalkedStep ==
    ASSUME ClientInv', ClientType', TalkInv', FreshIds, TasksStay,
           NEW own, Talked(own), NEW after, IsAfter(own, after),
           Owned(after)', Speaking(after)',
           \A c \in Pcs : pcs'[c].state # "open" => pcs'[c].heard = pcs[c].heard
    PROVE  Talked(after)'
  <1>1. ASSUME NEW c \in Pcs, NEW i \in DOMAIN pcs'[c].heard, pcs'[c].state = "open"
        PROVE  \E key \in DOMAIN after \cap DOMAIN tasks' :
                  after[key] = c /\ pcs'[c].heard[i][1] = tasks'[key].sock
    <2>1. OpenOnesTalked'
      BY OpenOnes, PTL
    <2>2. TalkedBy(after, c)'
      BY <1>1, <2>1 DEF OpenOnesTalked
    <2>. QED
      BY <2>2 DEF TalkedBy
  <1>2. ASSUME NEW c \in Pcs, NEW i \in DOMAIN pcs'[c].heard, pcs'[c].state # "open"
        PROVE  \E key \in DOMAIN after \cap DOMAIN tasks' :
                  after[key] = c /\ pcs'[c].heard[i][1] = tasks'[key].sock
    <2>1. pcs'[c].heard = pcs[c].heard
      BY <1>2
    <2>2. PICK key \in DOMAIN own \cap DOMAIN tasks :
            own[key] = c /\ pcs[c].heard[i][1] = tasks[key].sock
      BY <2>1 DEF Talked, TalkedBy
    <2>3. key \in DOMAIN sessions \/ key \notin DOMAIN sessions'
      BY <2>2 DEF FreshIds
    <2>4. key \in DOMAIN after /\ after[key] = c
      BY <2>2, <2>3 DEF IsAfter
    <2>5. key \in DOMAIN tasks' /\ tasks'[key].sock = tasks[key].sock
      BY <2>2 DEF TasksStay
    <2>. QED
      BY <2>1, <2>2, <2>4, <2>5
  <1>. QED
    BY <1>1, <1>2 DEF Talked, TalkedBy

(* Every step with fresh ids keeps it.                                     *)
LEMMA OwnInvStep ==
    ASSUME TargetStays, OktunInv, OktunInv', TalkInv, OwnInv, [Next /\ FreshIds]_vars
    PROVE  OwnInv'
  <1>1. /\ ClientType /\ ServerType /\ NetType /\ ClientInv /\ ServerInv
        /\ ClientInv'
    BY TypeParts DEF OktunInv
  <1>2. ClientType'
    <2>1. (TypeOK /\ ConvInv /\ Len(targets) <= MaxTargets)'
              <=> ClientType' /\ ServerType' /\ NetType'
      BY TypeParts, PTL
    <2>. QED
      BY <2>1 DEF OktunInv
  <1>3. TalkGoesOn
    BY TalkStep DEF TalkInv
  <1>4. TalkInv'
    BY <1>3, TalkInvStep
  <1>5. PICK own : Owned(own) /\ Speaking(own) /\ Talked(own)
    BY DEF OwnInv, Owns
  <1>6. AllOpen' /\ TasksStay /\ NewOnes
    BY <1>1, ServerStays, NewSessions DEF OwnInv
  <1>7. \A c \in Pcs :
           /\ pcs'[c].state # "open" => pcs'[c].heard = pcs[c].heard
           /\ pcs'[c].state = "absent" => pcs[c].state = "absent"
    <2>1. [Seen!Next]_(Seen!vars)
      BY SeenStep
    <2>. QED
      BY <2>1, OverHearsNothing
  <1>8. PICK after : IsAfter(own, after)
    BY <1>1, <1>3, <1>5, OwnersAfter
  <1>9. Owned(after)'
    BY <1>1, <1>2, <1>5, <1>6, <1>7, <1>8, OwnedStep
  <1>10. Speaking(after)'
    BY <1>3, <1>4, <1>5, <1>6, <1>8, SpeakingStep
  <1>11. Talked(after)'
    <2>1. CASE FreshIds
      BY <1>1, <1>2, <1>4, <1>5, <1>6, <1>7, <1>8, <1>9, <1>10, <2>1, TalkedStep
    <2>2. CASE UNCHANGED vars
      <3>1. sessions' = sessions /\ tasks' = tasks /\ pcs' = pcs
        BY <2>2 DEF vars, clientVars, serverVars
      <3>2. \A key \in DOMAIN own : key \in DOMAIN after /\ after[key] = own[key]
        BY <1>8, <3>1 DEF IsAfter
      <3>. QED
        BY <1>5, <3>1, <3>2 DEF Talked, TalkedBy
    <2>. QED
      BY <2>1, <2>2
  <1>. QED
    BY <1>6, <1>9, <1>10, <1>11 DEF OwnInv, Owns

(* Who talks with whom is told by a key.                                   *)
LEMMA JoinedByKey ==
    ASSUME ServerInv, ServerType, AllOpen, NEW own, Owns(own),
           NEW c \in Pcs, NEW k \in DOMAIN targets, Joined(c, k)
    PROVE  \E key \in DOMAIN own \cap DOMAIN tasks : own[key] = c /\ tasks[key].sock = k
  <1>1. ASSUME NEW n \in DOMAIN pcs[c].heard, pcs[c].heard[n][1] = k
        PROVE  \E key \in DOMAIN own \cap DOMAIN tasks :
                  own[key] = c /\ tasks[key].sock = k
    BY <1>1 DEF Owns, Talked, TalkedBy
  <1>2. ASSUME NEW n \in DOMAIN targets[k].heard, targets[k].heard[n][1] = c
        PROVE  \E key \in DOMAIN own \cap DOMAIN tasks :
                  own[key] = c /\ tasks[key].sock = k
    <2>1. PICK key \in DOMAIN tasks : tasks[key].sock = k
      BY DEF AllOpen, ServerInv, TargetsHeld
    <2>2. key \in Keys
      BY DEF ServerType
    <2>3. ASSUME NEW x, Up(key, x)
          PROVE  x = c
      <3>1. AllOf(targets[k].heard, x)
        BY <2>1, <2>3, TaskHeardOf
      <3>. QED
        BY <1>2, <3>1 DEF AllOf
    <2>4. IF key \in DOMAIN own THEN Up(key, own[key]) ELSE \A x : Up(key, x)
      BY <2>2 DEF Owns, Speaking
    <2>5. key \in DOMAIN own
      <3>1. SUFFICES ASSUME key \notin DOMAIN own PROVE FALSE
        OBVIOUS
      <3>2. 0 = c /\ 1 = c
        BY <2>3, <2>4, <3>1
      <3>. QED
        BY <3>2
    <2>. QED
      BY <2>1, <2>3, <2>4, <2>5
  <1>. QED
    BY <1>1, <1>2 DEF Joined

(* A key has one owner and one task, and neither has another key.          *)
LEMMA OwnInvOneToOne ==
    ASSUME OktunInv, OwnInv
    PROVE  OneToOne
  <1>1. ServerType /\ ServerInv
    BY TypeParts DEF OktunInv
  <1>2. PICK own : Owns(own)
    BY DEF OwnInv
  <1>3. \A i, j \in DOMAIN own : own[i] = own[j] => i = j
    BY <1>2 DEF Owns, Owned
  <1>4. \A i, j \in DOMAIN tasks : tasks[i].sock = tasks[j].sock => i = j
    BY <1>1 DEF ServerInv, TargetsHeld
  <1>5. ASSUME NEW c \in Pcs, NEW e \in Pcs, NEW k \in DOMAIN targets,
               NEW m \in DOMAIN targets, Joined(c, k), Joined(e, m)
        PROVE  c = e <=> k = m
    <2>1. PICK i \in DOMAIN own \cap DOMAIN tasks : own[i] = c /\ tasks[i].sock = k
      BY <1>1, <1>2, <1>5, JoinedByKey DEF OwnInv
    <2>2. PICK j \in DOMAIN own \cap DOMAIN tasks : own[j] = e /\ tasks[j].sock = m
      BY <1>1, <1>2, <1>5, JoinedByKey DEF OwnInv
    <2>. QED
      BY <1>3, <1>4, <2>1, <2>2
  <1>. QED
    BY <1>5 DEF OneToOne

(* A PC talks with one connection of the target and is the only one to     *)
(* talk with it, for any number of PCs and of client programs, also after  *)
(* PCs leave and programs are started again: as long as ids are fresh and  *)
(* the target closes no connection.                                        *)
THEOREM OneToOneWhileFresh ==
    ASSUME TargetStays
    PROVE  FreshSpec => []OneToOne
  <1>1. Init => OktunInv /\ TalkInv /\ OwnInv
    BY OktunInvInit, TalkInvInit, OwnInvInit
  <1>2. OktunInv /\ [Next /\ FreshIds]_vars => OktunInv'
    <2>1. [Next /\ FreshIds]_vars => [Next]_vars
      OBVIOUS
    <2>. QED
      BY <2>1, OktunInvStep
  <1>3. OktunInv /\ TalkInv /\ [Next /\ FreshIds]_vars => TalkInv'
    BY TalkStep, TalkInvStep DEF TalkInv
  <1>4. OktunInv /\ OktunInv' /\ TalkInv /\ OwnInv /\ [Next /\ FreshIds]_vars => OwnInv'
    BY OwnInvStep
  <1>5. OktunInv /\ OwnInv => OneToOne
    BY OwnInvOneToOne
  <1>. QED
    BY <1>1, <1>2, <1>3, <1>4, <1>5, PTL DEF FreshSpec

----------------------------------------------------------------------------
(* While no PC leaves and the target keeps its connections, the code sees  *)
(* to it that ids are fresh.                                               *)

NoneGone == \A c \in Pcs : pcs[c].state # "gone"

KeyOf(p) == <<p[1], p[2].conv>>

Unheard(k) == k.rcv_nxt = 0 /\ k.rcv_buf = {} /\ k.rcv_queue = <<>>

(* Every session is there from its first datagram on, and has heard        *)
(* nothing while it has no task.                                           *)
SteadyInv ==
    /\ AllOpen
    /\ NoneGone
    /\ DOMAIN tasks \subseteq DOMAIN sessions
    /\ \A p \in toServer : KeyOf(p) \in DOMAIN sessions
    /\ \A p \in toClient : KeyOf(p) \in DOMAIN tasks
    /\ \A key \in DOMAIN sessions \ DOMAIN tasks : Unheard(sessions[key].kcp)

LEMMA SteadyInit ==
    ASSUME Init
    PROVE  SteadyInv
  <1>1. toServer = {} /\ toClient = {} /\ NothingYet
    BY InitNothing DEF Init
  <1>2. \A c \in Pcs : pcs[c].state = "absent"
    BY DEF Init, ClientInit
  <1>. QED
    BY <1>1, <1>2 DEF SteadyInv, AllOpen, NoneGone, NothingYet

(* Then an id that is new is in no task and no datagram, and a task that   *)
(* is new meets a session that has heard nothing.                          *)
LEMMA SteadyFresh ==
    ASSUME SteadyInv
    PROVE  FreshIds
  <1>1. ASSUME NEW p, NEW key, Bears(p, key)
        PROVE  KeyOf(p) = key
    BY <1>1 DEF Bears, KeyOf
  <1>2. ASSUME NEW key, key \notin DOMAIN sessions
        PROVE  key \notin DOMAIN tasks /\ \A p \in toServer \cup toClient : ~ Bears(p, key)
    BY <1>1, <1>2 DEF SteadyInv
  <1>3. ASSUME NEW key \in DOMAIN sessions, key \notin DOMAIN tasks
        PROVE  /\ sessions[key].kcp.rcv_nxt = 0 /\ sessions[key].kcp.rcv_buf = {}
               /\ \A p \in toClient : ~ Bears(p, key)
    BY <1>1, <1>3 DEF SteadyInv, Unheard
  <1>. QED
    BY <1>2, <1>3 DEF FreshIds

(* What a callback of the client that finds a session leaves in its place. *)
LEMMA RoundStays ==
    ASSUME ClientInv, ClientType, TalkInv, AllOpen, NEW key, NEW k, ClientRound(key, k)
    PROVE  /\ pcs' = pcs /\ DOMAIN sessions' = DOMAIN sessions
           /\ \A i \in DOMAIN sessions \ {key} : sessions'[i] = sessions[i]
           /\ k.rcv_queue = <<>> => sessions'[key].kcp = k
  <1>1. /\ key \in DOMAIN sessions
        /\ ~ (/\ KcpReceivable(k, ClientBuf - Len(sessions[key].buf))
              /\ Payload(FirstMessage(k)) = <<>>)
    BY EmptyMessageIsLast DEF ClientRound, AllOpen
  <1>2. PICK s \in Session : s = sessions[key]
    BY <1>1 DEF ClientType
  <1>3. CASE /\ ~ KcpReceivable(k, ClientBuf - Len(sessions[key].buf))
             /\ sessions' = [sessions EXCEPT ![key].kcp = k] /\ UNCHANGED pcs
    <2>1. sessions' = [sessions EXCEPT ![key] = [s EXCEPT !.kcp = k]]
      BY <1>2, <1>3
    <2>2. [s EXCEPT !.kcp = k].kcp = k
      BY DEF Session
    <2>. QED
      BY <1>1, <1>3, <2>1, <2>2
  <1>4. ASSUME NEW r, KcpReceivable(k, ClientBuf - Len(sessions[key].buf)),
               sessions' = [sessions EXCEPT ![key] = r], UNCHANGED pcs
        PROVE  /\ pcs' = pcs /\ DOMAIN sessions' = DOMAIN sessions
               /\ \A i \in DOMAIN sessions \ {key} : sessions'[i] = sessions[i]
               /\ k.rcv_queue # <<>>
    BY <1>4 DEF KcpReceivable, KcpReadable
  <1>5. \/ /\ ~ KcpReceivable(k, ClientBuf - Len(sessions[key].buf))
           /\ sessions' = [sessions EXCEPT ![key].kcp = k] /\ UNCHANGED pcs
        \/ \E r : /\ KcpReceivable(k, ClientBuf - Len(sessions[key].buf))
                  /\ sessions' = [sessions EXCEPT ![key] = r] /\ UNCHANGED pcs
    BY <1>1, Zenon DEF ClientRound, Forward
  <1>. QED
    BY <1>3, <1>4, <1>5

(* The sessions stay, and what has no task goes on hearing nothing.        *)
SessionsStay ==
    /\ DOMAIN sessions \subseteq DOMAIN sessions'
    /\ \A key \in DOMAIN sessions' \ DOMAIN tasks : Unheard(sessions'[key].kcp)

LEMMA PcStepsStay ==
    ASSUME ClientInv, ClientType, SteadyInv, Leavers = {}, PcSteps
    PROVE  NoneGone' /\ SessionsStay
  <1>1. ASSUME NEW a \in Clients, NEW e \in Pcs, Accept(a, e)
        PROVE  NoneGone' /\ SessionsStay
    <2>1. PICK state \in {"dropped", "open"} : pcs' = [pcs EXCEPT ![e].state = state]
      BY <1>1 DEF Accept
    <2>2. NoneGone'
      BY <2>1 DEF NoneGone, SteadyInv, ClientType, Pc
    <2>3. PICK new : new = Candidate(a, TriesUsed(a))
      OBVIOUS
    <2>4. PICK id, buf : sessions' = Emplace(sessions, new, [kcp |-> KcpCreate(id), buf |-> buf])
      BY <1>1, <2>3, Zenon DEF Accept
    <2>5. Unheard(KcpCreate(id))
      BY DEF Unheard, KcpCreate
    <2>6. /\ DOMAIN sessions' = DOMAIN sessions \cup {new}
          /\ \A key \in DOMAIN sessions : sessions'[key] = sessions[key]
          /\ new \notin DOMAIN sessions => sessions'[new].kcp = KcpCreate(id)
      BY <2>4 DEF Emplace
    <2>7. SessionsStay
      BY <2>5, <2>6 DEF SessionsStay, SteadyInv
    <2>. QED
      BY <2>2, <2>7
  <1>2. ASSUME NEW key \in DOMAIN proxies, NEW n \in 1 .. MaxSaid - pcs[proxies[key].pc].said,
               ClientRead(key, n)
        PROVE  NoneGone' /\ SessionsStay
    <2>1. PICK e \in Pcs : e = proxies[key].pc
      BY DEF ClientInv
    <2>2. PICK said : pcs' = [pcs EXCEPT ![e].said = said]
      BY <1>2, <2>1 DEF ClientRead
    <2>3. NoneGone'
      BY <2>2 DEF NoneGone, SteadyInv, ClientType, Pc
    <2>4. key \in DOMAIN sessions
      BY DEF ClientInv, MapsAgree
    <2>5. PICK s \in Session : s = sessions[key]
      BY <2>4 DEF ClientType
    <2>6. PICK bytes \in Seq(Data) : bytes = Bytes(e, pcs[e].said, n)
      <3>1. PICK from \in Nat : from = pcs[e].said
        BY DEF ClientType, Pc
      <3>2. n \in Nat /\ from + n <= MaxSaid /\ MaxSaid \in Nat
        BY <1>2, <2>1, <3>1, OktunAssumption
      <3>3. {e} \X (1 .. MaxSaid) \subseteq Data
        BY OktunAssumption
      <3>4. Bytes(e, from, n) \in Seq(Data)
        BY <3>2, <3>3, BytesType
      <3>. QED
        BY <3>1, <3>4
    <2>7. PICK k : k = Queued(s.kcp, bytes) /\ SameReceiver(k, s.kcp)
      BY <2>5, QueuedReceiver DEF Session
    <2>8. sessions' = [sessions EXCEPT ![key] = [s EXCEPT !.kcp = k]]
      BY <1>2, <2>1, <2>5, <2>6, <2>7 DEF ClientRead
    <2>9. /\ DOMAIN sessions' = DOMAIN sessions
          /\ \A i \in DOMAIN sessions \ {key} : sessions'[i] = sessions[i]
          /\ sessions'[key].kcp = k
      BY <2>4, <2>8 DEF Session
    <2>10. Unheard(s.kcp) => Unheard(k)
      BY <2>7 DEF Unheard, SameReceiver
    <2>11. SessionsStay
      BY <2>4, <2>5, <2>9, <2>10 DEF SessionsStay, SteadyInv
    <2>. QED
      BY <2>3, <2>11
  <1>3. ASSUME NEW key \in DOMAIN proxies, NEW n, ClientWrite(key, n)
        PROVE  NoneGone' /\ SessionsStay
    <2>1. PICK e \in Pcs : e = proxies[key].pc
      BY DEF ClientInv
    <2>2. PICK heard : pcs' = [pcs EXCEPT ![e].heard = heard]
      BY <1>3, <2>1 DEF ClientWrite
    <2>3. NoneGone'
      BY <2>2 DEF NoneGone, SteadyInv, ClientType, Pc
    <2>. QED
      BY <1>3, <2>3 DEF ClientWrite, SessionsStay, SteadyInv
  <1>4. ASSUME NEW key \in DOMAIN proxies, ClientEof(key) \/ ClientWriteFails(key)
        PROVE  FALSE
    BY <1>4 DEF ClientEof, ClientWriteFails, ClientInv, SteadyInv, NoneGone
  <1>. QED
    BY <1>1, <1>2, <1>3, <1>4 DEF PcSteps

LEMMA ClientSideStays ==
    ASSUME ClientInv, ClientType, NetType, TalkInv, SteadyInv, ClientSideSteps
    PROVE  NoneGone' /\ SessionsStay
  <1>1. ASSUME NEW key, NEW k, ClientRound(key, k)
        PROVE  NoneGone' /\ SessionsStay
    <2>1. /\ pcs' = pcs /\ DOMAIN sessions' = DOMAIN sessions
          /\ \A i \in DOMAIN sessions \ {key} : sessions'[i] = sessions[i]
          /\ k.rcv_queue = <<>> => sessions'[key].kcp = k
      BY <1>1, RoundStays DEF SteadyInv
    <2>2. ASSUME key \notin DOMAIN tasks
          PROVE  Unheard(sessions'[key].kcp)
      <3>1. \A p \in toClient : ~ Bears(p, key)
        BY <2>2 DEF SteadyInv, Bears, KeyOf
      <3>2. SameReceiver(k, sessions[key].kcp) /\ key \in DOMAIN sessions
        BY <1>1, <3>1 DEF ClientRound
      <3>3. Unheard(sessions[key].kcp)
        BY <2>2, <3>2 DEF SteadyInv
      <3>4. Unheard(k)
        BY <3>2, <3>3 DEF Unheard, SameReceiver
      <3>. QED
        BY <2>1, <3>4 DEF Unheard
    <2>3. NoneGone'
      BY <2>1 DEF SteadyInv, NoneGone
    <2>4. SessionsStay
      BY <2>1, <2>2 DEF SessionsStay, SteadyInv
    <2>. QED
      BY <2>3, <2>4
  <1>2. CASE Dropped
    BY <1>2 DEF Dropped, clientVars, SteadyInv, NoneGone, SessionsStay
  <1>. QED
    BY <1>1, <1>2, ClientSideRounds

(* A datagram under way after a step bears the key of one before, or that  *)
(* of the session that the step sends for.                                 *)
Under(wire, after, keys) ==
    \A p \in after : KeyOf(p) \in keys \/ \E q \in wire : KeyOf(q) = KeyOf(p)

LEMMA EmitsUnder ==
    ASSUME NEW key \in Keys, NEW k \in ControlBlock, k.conv = key[2],
           NEW due, NEW wire, NEW after, Emits(key[1], k, due, wire, after)
    PROVE  Under(wire, after, {key})
  <1>1. ASSUME NEW p \in after, KeyOf(p) # key
        PROVE  p \in wire
    <2>1. PICK probeDue, cuts : \E kept \in SUBSET ({key[1]} \X KcpOutput(k, due, probeDue, cuts)) :
              after = wire \cup kept
      BY DEF Emits
    <2>2. PICK out : out = KcpOutput(k, due, probeDue, cuts)
      OBVIOUS
    <2>3. SUFFICES ASSUME p \notin wire PROVE FALSE
      OBVIOUS
    <2>4. p \in {key[1]} \X out
      BY <2>1, <2>2, <2>3, <1>1
    <2>5. p[1] = key[1] /\ p[2] \in out
      BY <2>4
    <2>6. p[2].conv = key[2]
      BY <2>2, <2>5, OutputConv
    <2>7. key = <<key[1], key[2]>>
      BY DEF Keys
    <2>. QED
      BY <1>1, <2>5, <2>6, <2>7 DEF KeyOf
  <1>. QED
    BY <1>1 DEF Under

(* On the way to the server it is the key of a session.                    *)
LEMMA ToServerUnder ==
    ASSUME ClientType, [Next]_vars
    PROVE  Under(toServer, toServer', DOMAIN sessions)
  <1>1. CASE toServer' \subseteq toServer
    BY <1>1 DEF Under
  <1>2. ASSUME NEW key \in DOMAIN sessions, ClientTick(key)
        PROVE  Under(toServer, toServer', DOMAIN sessions)
    <2>1. CASE UNCHANGED net
      BY <1>1, <2>1 DEF net
    <2>2. ASSUME NEW due, Emits(key[1], sessions[key].kcp, due, toServer, toServer')
          PROVE  Under(toServer, toServer', DOMAIN sessions)
      <3>1. PICK k \in ControlBlock : k = sessions[key].kcp /\ k.conv = key[2] /\ key \in Keys
        BY DEF ClientType, Session
      <3>2. Under(toServer, toServer', {key})
        BY <2>2, <3>1, EmitsUnder
      <3>. QED
        BY <3>2 DEF Under
    <2>. QED
      BY <1>2, <2>1, <2>2 DEF ClientTick
  <1>3. ASSUME NEW a, NEW d, NEW grow, NEW dup, ServerHears(a, d, grow, dup)
        PROVE  toServer' \subseteq toServer
    BY <1>3 DEF ServerHears
  <1>4. ASSUME NEW a, NEW d, NEW grow, NEW dup, ClientHears(a, d, grow, dup)
        PROVE  toServer' \subseteq toServer
    BY <1>4 DEF ClientHears
  <1>5. ASSUME NEW key, ServerTick(key)
        PROVE  toServer' \subseteq toServer
    BY <1>5 DEF ServerTick
  <1>. QED
    BY <1>1, <1>2, <1>3, <1>4, <1>5 DEF Next, vars, net

(* And on the way to a client that of a task.                              *)
LEMMA ToClientUnder ==
    ASSUME ServerType, [Next]_vars
    PROVE  Under(toClient, toClient', DOMAIN tasks)
  <1>1. CASE toClient' \subseteq toClient
    BY <1>1 DEF Under
  <1>2. ASSUME NEW key \in DOMAIN tasks, ServerTick(key)
        PROVE  Under(toClient, toClient', DOMAIN tasks)
    <2>1. PICK due : Emits(key[1], tasks[key].kcp, due, toClient, toClient')
      BY <1>2 DEF ServerTick
    <2>2. PICK k \in ControlBlock : k = tasks[key].kcp /\ k.conv = key[2] /\ key \in Keys
      BY DEF ServerType, Task
    <2>3. Under(toClient, toClient', {key})
      BY <2>1, <2>2, EmitsUnder
    <2>. QED
      BY <2>3 DEF Under
  <1>3. ASSUME NEW a, NEW d, NEW grow, NEW dup, ServerHears(a, d, grow, dup)
        PROVE  toClient' \subseteq toClient
    BY <1>3 DEF ServerHears
  <1>4. ASSUME NEW a, NEW d, NEW grow, NEW dup, ClientHears(a, d, grow, dup)
        PROVE  toClient' \subseteq toClient
    BY <1>4 DEF ClientHears
  <1>5. ASSUME NEW key, ClientTick(key)
        PROVE  toClient' \subseteq toClient
    BY <1>5 DEF ClientTick, net
  <1>. QED
    BY <1>1, <1>2, <1>3, <1>4, <1>5 DEF Next, vars, net

(* A new task is one for a datagram.                                       *)
LEMMA NewTasks ==
    ASSUME ServerType, [Next]_vars, NEW key \in DOMAIN tasks' \ DOMAIN tasks
    PROVE  \E p \in toServer : KeyOf(p) = key
  <1>1. ASSUME DOMAIN tasks' \subseteq DOMAIN tasks
        PROVE  FALSE
    BY <1>1
  <1>2. ~ UNCHANGED serverVars
    BY <1>1 DEF serverVars
  <1>3. ASSUME NEW i, NEW n, TaskRead(i, n) \/ TaskWrite(i, n)
        PROVE  DOMAIN tasks' \subseteq DOMAIN tasks
    BY <1>3 DEF TaskRead, TaskWrite
  <1>4. ASSUME NEW i, TaskEof(i) \/ TaskWriteKills(i) \/ TargetEnds(i) \/ ServerTick(i)
        PROVE  DOMAIN tasks' \subseteq DOMAIN tasks
    BY <1>4 DEF TaskEof, TaskWriteKills, TargetEnds, ServerTick, ServerUpdate, Restrict
  <1>5. ~ TargetSteps
    BY <1>1, <1>3, <1>4, Zenon DEF TargetSteps
  <1>6. PICK p \in toServer, grow \in BOOLEAN, dup \in BOOLEAN :
          ServerHears(p[1], p[2], grow, dup)
    BY <1>1, <1>2, <1>4, <1>5, Zenon DEF Next, vars, serverVars
  <1>7. ServerInput(p[1], p[2], grow)
    BY <1>2, <1>6 DEF ServerHears
  <1>8. DOMAIN tasks' = DOMAIN tasks \cup {KeyOf(p)}
    BY <1>7, Zenon DEF ServerInput, TaskKey, KeyOf
  <1>. QED
    BY <1>8

(* Every step keeps it.                                                    *)
LEMMA SteadyStep ==
    ASSUME TargetStays, Leavers = {}, OktunInv, TalkInv, SteadyInv, [Next]_vars
    PROVE  SteadyInv'
  <1>1. /\ ClientType /\ ServerType /\ NetType /\ ClientInv /\ ServerInv
    BY TypeParts DEF OktunInv
  <1>2. AllOpen' /\ TasksStay
    BY <1>1, ServerStays DEF SteadyInv
  <1>3. NoneGone' /\ SessionsStay
    <2>1. CASE UNCHANGED clientVars
      BY <2>1 DEF clientVars, SteadyInv, NoneGone, SessionsStay
    <2>2. CASE PcSteps
      BY <1>1, <2>2, PcStepsStay
    <2>3. CASE ClientSideSteps
      BY <1>1, <2>3, ClientSideStays
    <2>. QED
      BY <2>1, <2>2, <2>3, Zenon DEF Next, ClientSideSteps, vars, clientVars
  <1>4. ASSUME NEW p \in toServer'
        PROVE  KeyOf(p) \in DOMAIN sessions'
    <2>1. KeyOf(p) \in DOMAIN sessions
      BY <1>1, ToServerUnder DEF Under, SteadyInv
    <2>. QED
      BY <1>3, <2>1 DEF SessionsStay
  <1>5. ASSUME NEW p \in toClient'
        PROVE  KeyOf(p) \in DOMAIN tasks'
    <2>1. KeyOf(p) \in DOMAIN tasks
      BY <1>1, ToClientUnder DEF Under, SteadyInv
    <2>. QED
      BY <1>2, <2>1 DEF TasksStay
  <1>6. ASSUME NEW key \in DOMAIN tasks'
        PROVE  key \in DOMAIN sessions'
    <2>1. key \in DOMAIN sessions
      <3>1. CASE key \in DOMAIN tasks
        BY <3>1 DEF SteadyInv
      <3>2. CASE key \notin DOMAIN tasks
        BY <1>1, <3>2, NewTasks DEF SteadyInv
      <3>. QED
        BY <3>1, <3>2
    <2>. QED
      BY <1>3, <2>1 DEF SessionsStay
  <1>7. ASSUME NEW key \in DOMAIN sessions' \ DOMAIN tasks'
        PROVE  Unheard(sessions'[key].kcp)
    BY <1>2, <1>3 DEF TasksStay, SessionsStay
  <1>. QED
    BY <1>2, <1>3, <1>4, <1>5, <1>6, <1>7 DEF SteadyInv

(* No PC leaves and no connection of the target is closed: ids are fresh.  *)
LEMMA SteadyIsFresh ==
    ASSUME TargetStays, Leavers = {}
    PROVE  Spec => FreshSpec
  <1>1. Init => OktunInv /\ TalkInv /\ SteadyInv
    BY OktunInvInit, TalkInvInit, SteadyInit
  <1>2. OktunInv /\ [Next]_vars => OktunInv'
    BY OktunInvStep
  <1>3. SteadyInv /\ [Next]_vars => [Next /\ FreshIds]_vars
    BY SteadyFresh
  <1>4. OktunInv /\ TalkInv /\ [Next /\ FreshIds]_vars => TalkInv'
    BY TalkStep, TalkInvStep DEF TalkInv
  <1>5. OktunInv /\ TalkInv /\ SteadyInv /\ [Next]_vars => SteadyInv'
    BY SteadyStep
  <1>. QED
    BY <1>1, <1>2, <1>3, <1>4, <1>5, PTL DEF Spec, FreshSpec

(* A PC talks with one connection of the target and is the only one to     *)
(* talk with it, for any number of PCs and of client programs, whatever    *)
(* the path does: as long as no PC leaves and the target closes no         *)
(* connection.  That ids are fresh then need not be assumed.               *)
THEOREM OneToOneCorrect ==
    ASSUME TargetStays, Leavers = {}
    PROVE  Spec => []OneToOne
  BY SteadyIsFresh, OneToOneWhileFresh, PTL

(* And what is said comes out at the other end, as the tunnel promises.    *)
THEOREM ImplementsTunnelSteady ==
    ASSUME TargetStays, Leavers = {}
    PROVE  Spec => ImplementsTunnel
  BY SteadyIsFresh, ImplementsTunnelCorrect, PTL
============================================================================
