---------------------------- MODULE BufferProofs ----------------------------
(* Buffer implements a bounded queue of bytes, for every size and every    *)
(* sequence of calls.                                                      *)
EXTENDS Buffer, SequenceTheorems, TLAPS

(* Overwriting changes neither the size of the memory nor any byte outside.*)
LEMMA OverwrittenBytes ==
    ASSUME NEW mem \in Seq(Byte), NEW from \in 0 .. Len(mem), NEW bytes \in Seq(Byte),
           from + Len(bytes) <= Len(mem)
    PROVE  /\ Overwritten(mem, from, bytes) \in Seq(Byte)
           /\ Len(Overwritten(mem, from, bytes)) = Len(mem)
           /\ \A i \in 1 .. from : Overwritten(mem, from, bytes)[i] = mem[i]
           /\ \A i \in from + 1 .. from + Len(bytes) :
                 Overwritten(mem, from, bytes)[i] = bytes[i - from]
  <1>. DEFINE n == Len(mem)
              after == Overwritten(mem, from, bytes)
  <1>1. n \in Nat /\ DOMAIN mem = 1 .. n /\ Len(bytes) \in Nat
    OBVIOUS
  <1>2. after = [i \in 1 .. n |->
                   IF i - from \in 1 .. Len(bytes) THEN bytes[i - from] ELSE mem[i]]
    BY <1>1 DEF Overwritten
  <1>3. after \in [1 .. n -> Byte]
    BY <1>1, <1>2
  <1>4. after \in Seq(Byte) /\ Len(after) = n
    BY <1>1, <1>3
  <1>5. \A i \in 1 .. from : after[i] = mem[i]
    BY <1>1, <1>2
  <1>6. \A i \in from + 1 .. from + Len(bytes) : after[i] = bytes[i - from]
    BY <1>1, <1>2
  <1>. QED
    BY <1>4, <1>5, <1>6

(* A prefix of the memory, element by element.                             *)
LEMMA PrefixOf ==
    ASSUME NEW s \in Seq(Byte), NEW n \in 0 .. Len(s)
    PROVE  /\ SubSeq(s, 1, n) \in Seq(Byte)
           /\ Len(SubSeq(s, 1, n)) = n
           /\ \A i \in 1 .. n : SubSeq(s, 1, n)[i] = s[i]
  OBVIOUS

(* Two sequences with the same elements are the same.                      *)
LEMMA SameSeq ==
    ASSUME NEW s \in Seq(Byte), NEW t \in Seq(Byte), Len(s) = Len(t),
           \A i \in 1 .. Len(s) : s[i] = t[i]
    PROVE  s = t
  OBVIOUS

(* recv or memcpy at Tail(), and Commit.                                   *)
LEMMA FillPuts ==
    ASSUME TypeOK, NEW bytes \in Seq(Byte), Fill(bytes)
    PROVE  TypeOK' /\ Queue!Put(bytes)
  <1>1. /\ Len(data) \in Nat /\ Len(bytes) \in Nat
        /\ written \in 0 .. Len(data)
        /\ written + Len(bytes) <= Len(data)
    BY DEF TypeOK, Fill, Unused
  <1>2. written' = written + Len(bytes)
    BY <1>1 DEF Fill, Commit, Unused, Lesser
  <1>3. /\ data' \in Seq(Byte)
        /\ Len(data') = Len(data)
        /\ \A i \in 1 .. written : data'[i] = data[i]
        /\ \A i \in written + 1 .. written + Len(bytes) :
              data'[i] = bytes[i - written]
    BY <1>1, OverwrittenBytes DEF TypeOK, Fill
  <1>4. TypeOK'
    BY <1>1, <1>2, <1>3 DEF TypeOK
  <1>5. /\ Contents \in Seq(Byte) /\ Len(Contents) = written
        /\ \A i \in 1 .. written : Contents[i] = data[i]
    BY <1>1, PrefixOf DEF TypeOK, Contents
  <1>6. /\ Contents' \in Seq(Byte) /\ Len(Contents') = written + Len(bytes)
        /\ \A i \in 1 .. written + Len(bytes) : Contents'[i] = data'[i]
    BY <1>1, <1>2, <1>3, PrefixOf DEF Contents
  <1>7. /\ Contents \o bytes \in Seq(Byte)
        /\ Len(Contents \o bytes) = written + Len(bytes)
        /\ \A i \in 1 .. written + Len(bytes) :
              (Contents \o bytes)[i] = IF i <= written THEN Contents[i]
                                       ELSE bytes[i - written]
    <2>. HIDE DEF Contents
    <2>. QED
      BY <1>1, <1>5, ConcatProperties
  <1>8. \A i \in 1 .. written + Len(bytes) : Contents'[i] = (Contents \o bytes)[i]
    <2>1. \A i \in 1 .. written : Contents'[i] = (Contents \o bytes)[i]
      BY <1>1, <1>3, <1>5, <1>6, <1>7
    <2>2. ASSUME NEW i \in written + 1 .. written + Len(bytes)
          PROVE  Contents'[i] = (Contents \o bytes)[i]
      <3>1. i \in 1 .. written + Len(bytes) /\ ~ (i <= written)
        BY <1>1
      <3>2. data'[i] = bytes[i - written]
        BY <1>3
      <3>3. Contents'[i] = data'[i]
        BY <1>6, <3>1
      <3>. HIDE DEF Contents
      <3>4. (Contents \o bytes)[i] = bytes[i - written]
        BY <1>7, <3>1
      <3>. QED
        BY <3>2, <3>3, <3>4
    <2>3. \A i \in 1 .. written + Len(bytes) :
             i \in 1 .. written \/ i \in written + 1 .. written + Len(bytes)
      BY <1>1
    <2>. QED
      BY <2>1, <2>2, <2>3, Zenon
  <1>9. Contents' = Contents \o bytes
    BY <1>6, <1>7, <1>8, SameSeq
  <1>. QED
    BY <1>1, <1>3, <1>4, <1>5, <1>9 DEF Queue!Put

(* memmove of what remains to the front.                                   *)
LEMMA RemoveTakes ==
    ASSUME TypeOK, NEW n \in Nat, Remove(n)
    PROVE  TypeOK' /\ Queue!Take(n)
  <1>. DEFINE gone == Lesser(written, n)
              rest == SubSeq(data, gone + 1, written)
  <1>1. /\ Len(data) \in Nat
        /\ written \in 0 .. Len(data)
        /\ gone \in 0 .. written
    BY DEF TypeOK, Lesser
  <1>2. written' = written - gone /\ data' = Overwritten(data, 0, rest)
    BY <1>1 DEF Remove
  <1>. HIDE DEF gone
  <1>3. /\ rest \in Seq(Byte) /\ Len(rest) = written - gone
        /\ \A i \in 1 .. written - gone : rest[i] = data[gone + i]
    BY <1>1 DEF TypeOK
  <1>4. /\ data' \in Seq(Byte)
        /\ Len(data') = Len(data)
        /\ \A i \in 1 .. Len(rest) : data'[i] = rest[i]
    <2>. HIDE DEF rest
    <2>1. 0 \in 0 .. Len(data) /\ 0 + Len(rest) <= Len(data) /\ Len(rest) \in Nat
      BY <1>1, <1>3
    <2>2. \A i \in 1 .. Len(rest) : i \in 0 + 1 .. 0 + Len(rest) /\ i - 0 = i
      BY <2>1
    <2>. QED
      BY <1>2, <1>3, <2>1, <2>2, OverwrittenBytes DEF TypeOK
  <1>5. TypeOK'
    BY <1>1, <1>2, <1>4 DEF TypeOK
  <1>6. /\ Contents \in Seq(Byte) /\ Len(Contents) = written
        /\ \A i \in 1 .. written : Contents[i] = data[i]
    BY <1>1, PrefixOf DEF TypeOK, Contents
  <1>7. /\ Contents' \in Seq(Byte) /\ Len(Contents') = written - gone
        /\ \A i \in 1 .. written - gone : Contents'[i] = data'[i]
    BY <1>1, <1>2, <1>4, PrefixOf DEF Contents
  <1>. DEFINE taken == SubSeq(Contents, gone + 1, written)
  <1>8. /\ taken \in Seq(Byte) /\ Len(taken) = written - gone
        /\ \A i \in 1 .. written - gone : taken[i] = Contents[gone + i]
    BY <1>1, <1>6
  <1>9. \A i \in 1 .. written - gone : Contents'[i] = taken[i]
    <2>. HIDE DEF rest, taken
    <2>1. \A i \in 1 .. written - gone : gone + i \in 1 .. written
      BY <1>1
    <2>2. \A i \in 1 .. written - gone : data'[i] = rest[i]
      BY <1>1, <1>3, <1>4
    <2>. QED
      BY <1>3, <1>6, <1>7, <1>8, <2>1, <2>2
  <1>10. Contents' = taken
    BY <1>7, <1>8, <1>9, SameSeq
  <1>11. gone = Queue!Lesser(n, Len(Contents))
    BY <1>1, <1>6 DEF gone, Lesser, Queue!Lesser
  <1>. QED
    BY <1>4, <1>5, <1>6, <1>10, <1>11 DEF Queue!Take

(* Clear, the vector's resize, and Commit.                                 *)
LEMMA ResizeSetsLimit ==
    ASSUME TypeOK, NEW n \in Nat, Resize(n)
    PROVE  TypeOK' /\ Queue!SetLimit(n)
  <1>. DEFINE kept == Lesser(n, written)
  <1>1. /\ Len(data) \in Nat /\ DOMAIN data = 1 .. Len(data)
        /\ written \in 0 .. Len(data)
        /\ kept \in 0 .. written /\ kept <= n
    BY DEF TypeOK, Lesser
  <1>2. written' = kept
    BY <1>1 DEF Resize, Lesser
  <1>. HIDE DEF kept
  <1>3. data' = [i \in 1 .. n |-> IF i <= Len(data) THEN data[i] ELSE 0]
    BY DEF Resize
  <1>4. data' \in [1 .. n -> Byte]
    <2>1. \A i \in 1 .. n : i <= Len(data) => data[i] \in Byte
      BY <1>1 DEF TypeOK
    <2>. QED
      BY <1>3, <2>1 DEF Byte
  <1>5. data' \in Seq(Byte) /\ Len(data') = n
    BY <1>4
  <1>6. TypeOK'
    BY <1>1, <1>2, <1>5 DEF TypeOK
  <1>7. /\ Contents \in Seq(Byte) /\ Len(Contents) = written
        /\ \A i \in 1 .. written : Contents[i] = data[i]
    BY <1>1, PrefixOf DEF TypeOK, Contents
  <1>8. /\ Contents' \in Seq(Byte) /\ Len(Contents') = kept
        /\ \A i \in 1 .. kept : Contents'[i] = data'[i]
    BY <1>1, <1>2, <1>5, PrefixOf DEF Contents
  <1>9. /\ SubSeq(Contents, 1, kept) \in Seq(Byte)
        /\ Len(SubSeq(Contents, 1, kept)) = kept
        /\ \A i \in 1 .. kept : SubSeq(Contents, 1, kept)[i] = Contents[i]
    BY <1>1, <1>7, PrefixOf
  <1>10. \A i \in 1 .. kept : data'[i] = data[i]
    BY <1>1, <1>3
  <1>11. \A i \in 1 .. kept : Contents'[i] = SubSeq(Contents, 1, kept)[i]
    BY <1>1, <1>7, <1>8, <1>9, <1>10
  <1>12. Contents' = SubSeq(Contents, 1, kept)
    BY <1>8, <1>9, <1>11, SameSeq
  <1>13. kept = Queue!Lesser(n, Len(Contents))
    BY <1>1, <1>7 DEF kept, Lesser, Queue!Lesser
  <1>. QED
    BY <1>5, <1>6, <1>12, <1>13 DEF Queue!SetLimit

(* Clear takes all there is.                                               *)
LEMMA ClearTakes ==
    ASSUME TypeOK, Clear
    PROVE  TypeOK' /\ Queue!Take(Len(Contents))
  <1>1. written' = 0 /\ data' = data /\ data \in Seq(Byte)
    BY DEF Clear, TypeOK
  <1>2. TypeOK'
    BY <1>1 DEF TypeOK
  <1>3. Contents \in Seq(Byte) /\ Len(Contents) \in Nat
    BY PrefixOf DEF TypeOK, Contents
  <1>4. Contents' = <<>>
    BY <1>1 DEF Contents
  <1>5. SubSeq(Contents, Len(Contents) + 1, Len(Contents)) = <<>>
    BY <1>3
  <1>6. Queue!Lesser(Len(Contents), Len(Contents)) = Len(Contents)
    BY DEF Queue!Lesser
  <1>. QED
    BY <1>1, <1>2, <1>4, <1>5, <1>6 DEF Queue!Take

(* A new buffer is empty.                                                  *)
LEMMA BufferInit ==
    ASSUME Init
    PROVE  TypeOK /\ Queue!Init
  <1>1. PICK size \in Nat : data = [i \in 1 .. size |-> 0]
    BY DEF Init
  <1>2. data \in [1 .. size -> Byte]
    BY <1>1 DEF Byte
  <1>3. data \in Seq(Byte) /\ Len(data) = size
    BY <1>2
  <1>4. written = 0
    BY DEF Init
  <1>5. Contents = <<>>
    BY <1>3, <1>4 DEF Contents
  <1>. QED
    BY <1>3, <1>4, <1>5 DEF TypeOK, Queue!Init

(* Every call is one on the queue.                                         *)
LEMMA BufferStep ==
    ASSUME TypeOK, [Next]_vars
    PROVE  TypeOK' /\ [Queue!Next]_(Queue!vars)
  <1>1. Contents \in Seq(Byte) /\ Len(Contents) \in Nat /\ Len(data) \in Nat
    BY PrefixOf DEF TypeOK, Contents
  <1>2. CASE UNCHANGED vars
    BY <1>2 DEF vars, TypeOK, Contents, Queue!vars
  <1>3. ASSUME NEW bytes \in Seq(Byte), Fill(bytes)
        PROVE  TypeOK' /\ Queue!Next
    BY <1>3, FillPuts DEF Queue!Next
  <1>4. ASSUME NEW n \in Nat, Remove(n)
        PROVE  TypeOK' /\ Queue!Next
    BY <1>4, RemoveTakes DEF Queue!Next
  <1>5. ASSUME NEW n \in Nat, Resize(n)
        PROVE  TypeOK' /\ Queue!Next
    BY <1>5, ResizeSetsLimit DEF Queue!Next
  <1>6. ASSUME NEW n \in Nat, Grow(n)
        PROVE  TypeOK' /\ Queue!Next
    BY <1>1, <1>5, <1>6 DEF Grow
  <1>7. CASE Clear
    BY <1>1, <1>7, ClearTakes DEF Queue!Next
  <1>. QED
    BY <1>2, <1>3, <1>4, <1>5, <1>6, <1>7 DEF Next

(* Whatever sequence of writes, sends, resizes and clears, a Buffer is a   *)
(* queue of bytes with a limit: what is read at Head() is what was written *)
(* at Tail(), first in first out, and stale bytes never come back.  So the *)
(* modules of the tunnel may have a sequence in its place.                 *)
THEOREM BufferIsQueue == Spec => ImplementsQueue
  <1>1. Init => TypeOK /\ Queue!Init
    BY BufferInit
  <1>2. TypeOK /\ [Next]_vars => TypeOK' /\ [Queue!Next]_(Queue!vars)
    BY BufferStep
  <1>. QED
    BY <1>1, <1>2, PTL DEF Spec, ImplementsQueue, Queue!Spec
=============================================================================
