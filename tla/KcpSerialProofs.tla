--------------------------- MODULE KcpSerialProofs ---------------------------
(***************************************************************************)
(* That numbers which wrap and lists in the order of their signed          *)
(* differences decide as true numbers and sets do.  A control block of     *)
(* KcpSerial "shows" one of Kcp when every number of it is the wrapped one *)
(* and every list enumerates the set; each entry point of the library      *)
(* turns a pair of which one shows the other into such a pair, as long as  *)
(* all numbers that are compared are less than half of Mod apart.  That    *)
(* they are follows from the windows, from what the session's invariants   *)
(* say of a datagram under way, and from the age of the path.              *)
(***************************************************************************)
EXTENDS KcpSerial, KcpDeliveryProofs, FiniteSetTheorems

----------------------------------------------------------------------------
(* Numbers that wrap.                                                      *)

(* What the assumptions say of the constants, for the provers.             *)
LEMMA SerialConstants ==
    /\ Mod \in Nat \ {0} /\ Mod \div 2 \in Nat /\ Mod = 2 * (Mod \div 2)
    /\ Life \in Nat /\ SndWnd \in Nat \ {0} /\ RcvWnd \in Nat \ {0}
    /\ Life + SndWnd <= Mod \div 2 /\ Life + RcvWnd <= Mod \div 2
    /\ SndWnd < Mod \div 2
    /\ RcvWnd + RcvWnd <= Mod \div 2 + 1
  BY WrapAssumption, SerialAssumption, KcpAssumption

(* A number and its remainder.                                             *)
LEMMA WrappedRange ==
    ASSUME NEW x \in Int
    PROVE  /\ Wrapped(x) \in 0 .. Mod - 1
           /\ x \div Mod \in Int
           /\ x = Mod * (x \div Mod) + Wrapped(x)
  <1>. Mod \in Nat \ {0}
    BY WrapAssumption
  <1>. QED
    BY DEF Wrapped

(* Only 0 is a multiple of Mod and less than Mod.                          *)
LEMMA SmallMultiple ==
    ASSUME NEW m \in Int, -Mod < Mod * m, Mod * m < Mod
    PROVE  m = 0
  <1>1. Mod \in Nat \ {0}
    BY WrapAssumption
  <1>2. m < 1
    <2>. SUFFICES ASSUME m >= 1 PROVE FALSE
      OBVIOUS
    <2>1. Mod * m >= Mod * 1
      BY <1>1
    <2>. QED
      BY <1>1, <2>1
  <1>3. m > -1
    <2>. SUFFICES ASSUME m <= -1 PROVE FALSE
      OBVIOUS
    <2>1. Mod * m <= Mod * (-1)
      BY <1>1
    <2>. QED
      BY <1>1, <2>1
  <1>. QED
    BY <1>2, <1>3

(* Numbers a multiple of Mod apart wrap to the same, ...                   *)
LEMMA SameRemainder ==
    ASSUME NEW y \in Int, NEW m \in Int
    PROVE  Wrapped(y + Mod * m) = Wrapped(y)
  <1>1. Mod \in Nat \ {0}
    BY WrapAssumption
  <1>2. Mod * m \in Int
    BY <1>1
  <1>3. PICK c \in Int : c = Mod * m
    BY <1>2
  <1>4. PICK x \in Int : x = y + c
    BY <1>3
  <1>5. PICK p \in Int : x = Mod * p + Wrapped(x)
    BY WrappedRange
  <1>6. PICK q \in Int : y = Mod * q + Wrapped(y)
    BY WrappedRange
  <1>7. Wrapped(x) \in 0 .. Mod - 1 /\ Wrapped(y) \in 0 .. Mod - 1
    BY WrappedRange
  <1>8. Mod * (q + m - p) = Mod * q + Mod * m - Mod * p
    BY <1>1
  <1>9. Mod * (q + m - p) = Wrapped(x) - Wrapped(y)
    <2>1. PICK a \in Int : a = Mod * p
      BY <1>1
    <2>2. PICK b \in Int : b = Mod * q
      BY <1>1
    <2>3. x = a + Wrapped(x) /\ y = b + Wrapped(y) /\ x = y + c
      BY <1>4, <1>5, <1>6, <2>1, <2>2
    <2>4. Mod * (q + m - p) = b + c - a
      BY <1>3, <1>8, <2>1, <2>2
    <2>5. b + c - a = Wrapped(x) - Wrapped(y)
      BY <1>7, <2>3
    <2>. QED
      BY <2>4, <2>5
  <1>10. q + m - p = 0
    <2>1. q + m - p \in Int
      OBVIOUS
    <2>2. -Mod < Wrapped(x) - Wrapped(y) /\ Wrapped(x) - Wrapped(y) < Mod
      BY <1>1, <1>7
    <2>. QED
      BY <1>9, <2>1, <2>2, SmallMultiple
  <1>11. Wrapped(x) - Wrapped(y) = 0
    BY <1>1, <1>9, <1>10
  <1>12. Wrapped(x) = Wrapped(y)
    BY <1>7, <1>11
  <1>. QED
    BY <1>3, <1>4, <1>12

(* ... and no others do that are less than Mod apart.                      *)
LEMMA WrappedApart ==
    ASSUME NEW x \in Int, NEW y \in Int, -Mod < x - y, x - y < Mod,
           Wrapped(x) = Wrapped(y)
    PROVE  x = y
  <1>1. Mod \in Nat \ {0}
    BY WrapAssumption
  <1>2. PICK p \in Int : x = Mod * p + Wrapped(x)
    BY WrappedRange
  <1>3. PICK q \in Int : y = Mod * q + Wrapped(y)
    BY WrappedRange
  <1>4. Wrapped(x) \in 0 .. Mod - 1
    BY WrappedRange
  <1>5. Mod * (p - q) = Mod * p - Mod * q
    BY <1>1
  <1>6. Mod * (p - q) = x - y
    <2>. DEFINE a == Mod * p
                b == Mod * q
                e == Mod * (p - q)
    <2>1. a \in Int /\ b \in Int /\ e \in Int
      BY <1>1
    <2>2. x = a + Wrapped(x) /\ y = b + Wrapped(x) /\ e = a - b
      BY <1>2, <1>3, <1>5
    <2>. HIDE DEF a, b, e
    <2>3. e = x - y
      BY <1>4, <2>1, <2>2
    <2>. QED
      BY <2>3 DEF e
  <1>7. p - q = 0
    BY <1>6, SmallMultiple
  <1>8. Mod * (p - q) = 0
    BY <1>1, <1>7
  <1>. QED
    BY <1>6, <1>8

(* The remainder of a sum does not depend on when it is taken.             *)
LEMMA WrappedSum ==
    ASSUME NEW x \in Int, NEW c \in Int
    PROVE  Wrapped(Wrapped(x) + c) = Wrapped(x + c)
  <1>1. PICK p \in Int : x = Mod * p + Wrapped(x)
    BY WrappedRange
  <1>2. Wrapped(x) \in Int /\ Mod \in Int
    BY WrappedRange, WrapAssumption
  <1>3. PICK a \in Int : a = Mod * p
    BY <1>2
  <1>4. x + c = (Wrapped(x) + c) + a
    BY <1>1, <1>2, <1>3
  <1>5. PICK w \in Int : w = Wrapped(x) + c
    BY <1>2
  <1>6. Wrapped(w + a) = Wrapped(w)
    BY <1>3, SameRemainder
  <1>. QED
    BY <1>4, <1>5, <1>6

(* Of two numbers that are less than half of Mod apart, the signed         *)
(* difference of the remainders is the true difference.                    *)
LEMMA TrueDifference ==
    ASSUME NEW x \in Int, NEW y \in Int, NEW c \in Int, NEW e \in Int,
           -(Mod \div 2) <= (x + c) - (y + e), (x + c) - (y + e) < Mod \div 2
    PROVE  ITimeDiff(Wrapped(x) + c, Wrapped(y) + e) = (x + c) - (y + e)
  <1>1. Mod \in Nat \ {0} /\ Mod \div 2 \in Nat /\ Mod = 2 * (Mod \div 2)
    BY WrapAssumption
  <1>2. PICK p \in Int : x = Mod * p + Wrapped(x)
    BY WrappedRange
  <1>3. PICK q \in Int : y = Mod * q + Wrapped(y)
    BY WrappedRange
  <1>4. Wrapped(x) \in Int /\ Wrapped(y) \in Int
    BY WrappedRange
  <1>. DEFINE held == (Wrapped(x) + c) - (Wrapped(y) + e)
              apart == (x + c) - (y + e)
  <1>5. apart = held + Mod * (p - q)
    <2>. DEFINE a == Mod * p
                b == Mod * q
                f == Mod * (p - q)
    <2>1. Mod * (p - q) = Mod * p - Mod * q
      BY <1>1
    <2>2. /\ a \in Int /\ b \in Int /\ f = a - b
          /\ x = a + Wrapped(x) /\ y = b + Wrapped(y)
      BY <1>1, <1>2, <1>3, <2>1
    <2>. HIDE DEF a, b, f
    <2>3. apart = held + f
      BY <1>4, <2>2
    <2>. QED
      BY <2>3 DEF f
  <1>6. held \in Int /\ apart \in Int /\ p - q \in Int
    BY <1>4
  <1>7. Wrapped(held) = Wrapped(apart)
    <2>. HIDE DEF held, apart
    <2>1. Wrapped(held + Mod * (p - q)) = Wrapped(held)
      BY <1>6, SameRemainder
    <2>. QED
      BY <1>5, <2>1
  <1>8. Wrapped(apart) = IF apart >= 0 THEN apart ELSE apart + Mod
    <2>1. -(Mod \div 2) <= apart /\ apart < Mod \div 2
      OBVIOUS
    <2>. HIDE DEF held, apart
    <2>2. Wrapped(apart) \in 0 .. Mod - 1
      BY <1>6, WrappedRange
    <2>3. apart >= 0 => Wrapped(apart) = apart
      BY <1>1, <1>6, <2>1 DEF Wrapped
    <2>4. apart < 0 => Wrapped(apart) = apart + Mod
      BY <1>1, <1>6, <2>1 DEF Wrapped
    <2>. QED
      BY <1>6, <2>3, <2>4
  <1>9. Signed(held) = apart
    <2>1. -(Mod \div 2) <= apart /\ apart < Mod \div 2
      OBVIOUS
    <2>. HIDE DEF held, apart
    <2>2. CASE apart >= 0
      BY <1>1, <1>6, <1>7, <1>8, <2>1, <2>2 DEF Signed
    <2>3. CASE apart < 0
      <3>1. Wrapped(held) = apart + Mod
        BY <1>6, <1>7, <1>8, <2>3
      <3>2. ~ (apart + Mod < Mod \div 2)
        BY <1>1, <1>6, <2>1
      <3>3. Signed(held) = (apart + Mod) - Mod
        BY <3>1, <3>2 DEF Signed
      <3>. QED
        BY <1>1, <1>6, <3>3
    <2>. QED
      BY <1>6, <2>2, <2>3
  <1>. QED
    BY <1>9 DEF ITimeDiff

(* The same without offsets.                                               *)
LEMMA PlainDifference ==
    ASSUME NEW x \in Int, NEW y \in Int,
           -(Mod \div 2) <= x - y, x - y < Mod \div 2
    PROVE  ITimeDiff(Wrapped(x), Wrapped(y)) = x - y
  <1>1. Wrapped(x) \in Int /\ Wrapped(y) \in Int
    BY WrappedRange
  <1>2. Wrapped(x) + 0 = Wrapped(x) /\ Wrapped(y) + 0 = Wrapped(y)
    BY <1>1
  <1>3. ITimeDiff(Wrapped(x) + 0, Wrapped(y) + 0) = (x + 0) - (y + 0)
    BY TrueDifference
  <1>. QED
    BY <1>2, <1>3

----------------------------------------------------------------------------
(* Lists in the order of their sequence numbers.                           *)

(* s counts the n segments of S upwards.                                   *)
Counts(s, n, S) ==
    /\ n \in Nat /\ s \in [1 .. n -> S]
    /\ \A x \in S : \E i \in 1 .. n : s[i] = x
    /\ \A i, j \in 1 .. n : i < j => s[i].sn < s[j].sn

(* What memory holds of a segment.                                         *)
Held(t) == [sn |-> Wrapped(t.sn), seg |-> t.seg]

(* The list l holds the segments S.                                        *)
IsList(l, S) == \E n, s : Counts(s, n, S) /\ l = InMemory(s)

(* A segment in memory.                                                    *)
LEMMA HeldType ==
    ASSUME NEW t \in Numbered
    PROVE  /\ Held(t) \in Numbered
           /\ Held(t) = [t EXCEPT !.sn = Wrapped(@)]
           /\ Held(t).sn = Wrapped(t.sn)
           /\ Held(t).seg = t.seg
  <1>1. t.sn \in Nat /\ t.seg \in Segment /\ t = [sn |-> t.sn, seg |-> t.seg]
    BY DEF Numbered
  <1>2. Wrapped(t.sn) \in Nat
    BY <1>1, WrappedRange, WrapAssumption
  <1>3. PICK n, g, w : n = t.sn /\ g = t.seg /\ w = Wrapped(t.sn) /\ w \in Nat
    BY <1>2
  <1>4. [t EXCEPT !.sn = w] = [sn |-> w, seg |-> g]
    <2>1. t = [sn |-> n, seg |-> g]
      BY <1>1, <1>3
    <2>. QED
      BY <2>1
  <1>5. Held(t) = [sn |-> w, seg |-> g]
    BY <1>3 DEF Held
  <1>6. [t EXCEPT !.sn = Wrapped(@)] = [t EXCEPT !.sn = w]
    BY <1>3
  <1>7. [sn |-> w, seg |-> g] \in Numbered
    BY <1>1, <1>3 DEF Numbered
  <1>8. Held(t).sn = w /\ Held(t).seg = g
    BY <1>5
  <1>. QED
    BY <1>3, <1>4, <1>5, <1>6, <1>7, <1>8

(* A list in memory, place by place.                                       *)
LEMMA InMemoryAt ==
    ASSUME NEW n \in Nat, NEW s \in [1 .. n -> Numbered]
    PROVE  /\ InMemory(s) \in Seq(Numbered)
           /\ Len(InMemory(s)) = n
           /\ \A i \in 1 .. n : /\ InMemory(s)[i] = Held(s[i])
                                /\ InMemory(s)[i].sn = Wrapped(s[i].sn)
                                /\ InMemory(s)[i].seg = s[i].seg
  <1>1. DOMAIN s = 1 .. n
    OBVIOUS
  <1>2. InMemory(s) = [i \in 1 .. n |-> Held(s[i])]
    <2>1. \A i \in 1 .. n : [s[i] EXCEPT !.sn = Wrapped(@)] = Held(s[i])
      BY HeldType
    <2>. QED
      BY <1>1, <2>1, Zenon DEF InMemory
  <1>3. \A i \in 1 .. n : /\ Held(s[i]) \in Numbered
                          /\ Held(s[i]).sn = Wrapped(s[i].sn)
                          /\ Held(s[i]).seg = s[i].seg
    BY HeldType
  <1>4. PICK l : l = [i \in 1 .. n |-> Held(s[i])]
    OBVIOUS
  <1>5. l \in [1 .. n -> Numbered]
    BY <1>3, <1>4, Zenon
  <1>6. l \in Seq(Numbered) /\ Len(l) = n
    BY <1>5
  <1>7. \A i \in 1 .. n : l[i] = Held(s[i])
    BY <1>4, Zenon
  <1>. QED
    BY <1>2, <1>3, <1>4, <1>6, <1>7, Zenon

(* A sequence with the same places is that list.                           *)
LEMMA InMemoryIs ==
    ASSUME NEW n \in Nat, NEW s \in [1 .. n -> Numbered],
           NEW l \in Seq(Numbered), Len(l) = n,
           \A i \in 1 .. n : l[i] = Held(s[i])
    PROVE  l = InMemory(s)
  <1>1. PICK m : m = InMemory(s)
    OBVIOUS
  <1>2. /\ m \in Seq(Numbered) /\ Len(m) = n
        /\ \A i \in 1 .. n : m[i] = Held(s[i])
    BY <1>1, InMemoryAt, Zenon
  <1>3. \A i \in 1 .. n : l[i] = m[i]
    BY <1>2, Zenon
  <1>4. l = m
    BY <1>2, <1>3
  <1>. QED
    BY <1>1, <1>4

(* What an enumeration of a set of segments says.                          *)
LEMMA CountsType ==
    ASSUME NEW S \in SUBSET Numbered, NEW n, NEW s, Counts(s, n, S)
    PROVE  /\ n \in Nat /\ s \in [1 .. n -> Numbered]
           /\ \A i \in 1 .. n : s[i] \in S
           /\ \A i \in 1 .. n : s[i].sn \in Nat
           /\ \A x \in S : \E i \in 1 .. n : s[i] = x
           /\ \A i, j \in 1 .. n : i < j => s[i].sn < s[j].sn
  <1>1. n \in Nat /\ s \in [1 .. n -> S]
    BY DEF Counts
  <1>2. s \in [1 .. n -> Numbered]
    BY <1>1
  <1>3. \A i \in 1 .. n : s[i] \in S /\ s[i].sn \in Nat
    BY <1>1 DEF Numbered
  <1>. QED
    BY <1>1, <1>2, <1>3 DEF Counts

(* Places with different numbers differ, and a number tells the place.     *)
LEMMA CountsApart ==
    ASSUME NEW S \in SUBSET Numbered, NEW n, NEW s, Counts(s, n, S),
           NEW i \in 1 .. n, NEW j \in 1 .. n, s[i].sn = s[j].sn
    PROVE  i = j
  <1>1. /\ n \in Nat
        /\ \A x \in 1 .. n : s[x].sn \in Nat
        /\ \A x, y \in 1 .. n : x < y => s[x].sn < s[y].sn
    BY CountsType, Zenon
  <1>2. s[i].sn \in Nat
    BY <1>1
  <1>3. ~ (i < j) /\ ~ (j < i)
    BY <1>1, <1>2
  <1>. QED
    BY <1>1, <1>3

(* The model's lists are these.                                            *)
LEMMA ListsAre ==
    ASSUME NEW S \in SUBSET Numbered, IsFiniteSet(S), NEW l
    PROVE  l \in Lists(S) <=> IsList(l, S)
  <1>1. ASSUME NEW s, NEW n, Counts(s, n, S) PROVE s \in Ascending(S)
    <2>1. /\ n \in Nat /\ s \in [1 .. n -> S]
          /\ \A x \in S : \E i \in 1 .. n : s[i] = x
          /\ \A i, j \in 1 .. n : i < j => s[i].sn < s[j].sn
      BY <1>1, CountsType DEF Counts
    <2>2. \A i, j \in 1 .. n : i # j => s[i] # s[j]
      <3>. SUFFICES ASSUME NEW i \in 1 .. n, NEW j \in 1 .. n, s[i] = s[j]
                    PROVE  i = j
        OBVIOUS
      <3>. QED
        BY <1>1, CountsApart
    <2>3. s \in Bijection(1 .. n, S)
      BY <2>1, <2>2 DEF Bijection, Injection, Surjection, IsInjective
    <2>4. Cardinality(S) = n
      BY <2>1, <2>3, FS_CountingElements DEF ExistsBijection
    <2>5. s \in SetToSeqs(S)
      BY <2>1, <2>2, <2>4 DEF SetToSeqs
    <2>. QED
      BY <2>1, <2>5 DEF Ascending
  <1>2. ASSUME NEW s \in Ascending(S) PROVE \E n : Counts(s, n, S)
    <2>1. Cardinality(S) \in Nat
      BY FS_CardinalityType
    <2>2. PICK n \in Nat : n = Cardinality(S)
      BY <2>1
    <2>3. /\ s \in [1 .. n -> S]
          /\ \A i, j \in 1 .. n : i # j => s[i] # s[j]
          /\ \A i, j \in 1 .. n : i < j => s[i].sn < s[j].sn
      BY <2>2 DEF Ascending, SetToSeqs
    <2>4. s \in Injection(1 .. n, S)
      BY <2>3 DEF Injection, IsInjective
    <2>5. IsFiniteSet(1 .. n) /\ Cardinality(1 .. n) = n
      BY FS_Interval
    <2>6. s \in Surjection(1 .. n, S)
      BY <2>2, <2>4, <2>5, FS_Injection
    <2>7. \A x \in S : \E i \in 1 .. n : s[i] = x
      BY <2>6 DEF Surjection
    <2>. QED
      BY <2>3, <2>7 DEF Counts
  <1>3. l \in Lists(S) <=> \E s \in Ascending(S) : l = InMemory(s)
    BY Zenon DEF Lists
  <1>. QED
    BY <1>1, <1>2, <1>3, Zenon DEF IsList

(* Two sequences one after the other.                                      *)
LEMMA Concatenated ==
    ASSUME NEW T, NEW a \in Seq(T), NEW b \in Seq(T)
    PROVE  /\ a \o b \in Seq(T) /\ Len(a \o b) = Len(a) + Len(b)
           /\ \A i \in 1 .. Len(a) : (a \o b)[i] = a[i]
           /\ \A i \in 1 .. Len(b) : (a \o b)[Len(a) + i] = b[i]
  <1>1. a \o b \in Seq(T) /\ Len(a \o b) = Len(a) + Len(b)
    OBVIOUS
  <1>2. \A i \in 1 .. Len(a) : (a \o b)[i] = a[i]
    OBVIOUS
  <1>3. \A i \in 1 .. Len(b) : (a \o b)[Len(a) + i] = b[i]
    OBVIOUS
  <1>. QED
    BY <1>1, <1>2, <1>3

(* A count is made from the places' numbers.                               *)
LEMMA CountsIf ==
    ASSUME NEW S \in SUBSET Numbered, NEW n \in Nat, NEW s \in [1 .. n -> S],
           \A x \in S : \E i \in 1 .. n : s[i] = x,
           \A i, j \in 1 .. n : i < j => s[i].sn < s[j].sn,
           NEW l \in Seq(Numbered), Len(l) = n,
           \A i \in 1 .. n : l[i] = Held(s[i])
    PROVE  IsList(l, S)
  <1>1. Counts(s, n, S)
    BY Zenon DEF Counts
  <1>2. s \in [1 .. n -> Numbered]
    OBVIOUS
  <1>3. l = InMemory(s)
    BY <1>2, InMemoryIs
  <1>. QED
    BY <1>1, <1>3, Zenon DEF IsList

(* What is left when the first m segments are gone.                        *)
LEMMA SuffixListed ==
    ASSUME NEW S \in SUBSET Numbered, NEW n, NEW s, Counts(s, n, S),
           NEW m \in 0 .. n, NEW T \in SUBSET S,
           \A i \in 1 .. n : s[i] \in T <=> i > m
    PROVE  IsList(SubSeq(InMemory(s), m + 1, n), T)
  <1>1. /\ n \in Nat /\ s \in [1 .. n -> Numbered]
        /\ \A i \in 1 .. n : s[i] \in S
        /\ \A x \in S : \E i \in 1 .. n : s[i] = x
        /\ \A i, j \in 1 .. n : i < j => s[i].sn < s[j].sn
    <2>1. n \in Nat /\ s \in [1 .. n -> Numbered]
      BY CountsType
    <2>2. \A i \in 1 .. n : s[i] \in S
      BY CountsType, Zenon
    <2>3. \A x \in S : \E i \in 1 .. n : s[i] = x
      BY Zenon DEF Counts
    <2>4. \A i, j \in 1 .. n : i < j => s[i].sn < s[j].sn
      BY CountsType, Zenon
    <2>. QED
      BY <2>1, <2>2, <2>3, <2>4
  <1>2. PICK l : l = InMemory(s)
    OBVIOUS
  <1>3. l \in Seq(Numbered) /\ Len(l) = n /\ \A i \in 1 .. n : l[i] = Held(s[i])
    BY <1>1, <1>2, InMemoryAt, Zenon
  <1>4. PICK k \in Nat : k = n - m
    BY <1>1
  <1>5. \A i \in 1 .. k : i + m \in 1 .. n /\ i + m > m
    BY <1>1, <1>4
  <1>6. PICK r : r = [i \in 1 .. k |-> s[i + m]]
    OBVIOUS
  <1>7. \A i \in 1 .. k : r[i] = s[i + m]
    BY <1>6
  <1>8. r \in [1 .. k -> T]
    BY <1>5, <1>6
  <1>9. \A x \in T : \E i \in 1 .. k : r[i] = x
    <2>. TAKE x \in T
    <2>1. PICK i \in 1 .. n : s[i] = x
      BY <1>1
    <2>2. i > m /\ i - m \in 1 .. k /\ (i - m) + m = i
      BY <1>1, <1>4, <2>1
    <2>. QED
      BY <1>7, <2>1, <2>2
  <1>10. \A i, j \in 1 .. k : i < j => r[i].sn < r[j].sn
    <2>. SUFFICES ASSUME NEW i \in 1 .. k, NEW j \in 1 .. k, i < j
                  PROVE  r[i].sn < r[j].sn
      OBVIOUS
    <2>1. i + m < j + m
      BY <1>1, <1>4
    <2>. QED
      BY <1>1, <1>5, <1>7, <2>1
  <1>11. PICK q : q = SubSeq(l, m + 1, n)
    OBVIOUS
  <1>12. q \in Seq(Numbered) /\ Len(q) = k /\ \A i \in 1 .. k : q[i] = l[i + m]
    BY <1>1, <1>3, <1>4, <1>11
  <1>13. \A i \in 1 .. k : q[i] = Held(r[i])
    BY <1>3, <1>5, <1>7, <1>12
  <1>14. T \in SUBSET Numbered
    OBVIOUS
  <1>15. IsList(q, T)
    BY <1>8, <1>9, <1>10, <1>12, <1>13, <1>14, CountsIf
  <1>. QED
    BY <1>2, <1>11, <1>15

(* What is left when the m-th segment is gone.                             *)
LEMMA RemoveListed ==
    ASSUME NEW S \in SUBSET Numbered, NEW n, NEW s, Counts(s, n, S),
           NEW m \in 1 .. n
    PROVE  IsList(RemoveAt(InMemory(s), m), S \ {s[m]})
  <1>1. /\ n \in Nat /\ s \in [1 .. n -> Numbered]
        /\ \A i \in 1 .. n : s[i] \in S
        /\ \A x \in S : \E i \in 1 .. n : s[i] = x
        /\ \A i, j \in 1 .. n : i < j => s[i].sn < s[j].sn
    <2>1. n \in Nat /\ s \in [1 .. n -> Numbered]
      BY CountsType
    <2>2. \A i \in 1 .. n : s[i] \in S
      BY CountsType, Zenon
    <2>3. \A x \in S : \E i \in 1 .. n : s[i] = x
      BY Zenon DEF Counts
    <2>4. \A i, j \in 1 .. n : i < j => s[i].sn < s[j].sn
      BY CountsType, Zenon
    <2>. QED
      BY <2>1, <2>2, <2>3, <2>4
  <1>2. PICK l : l = InMemory(s)
    OBVIOUS
  <1>3. l \in Seq(Numbered) /\ Len(l) = n /\ \A i \in 1 .. n : l[i] = Held(s[i])
    BY <1>1, <1>2, InMemoryAt, Zenon
  <1>. DEFINE T == S \ {s[m]}
              At(i) == IF i < m THEN i ELSE i + 1
  <1>4. PICK k \in Nat : k = n - 1
    BY <1>1
  <1>5. \A i \in 1 .. k : At(i) \in 1 .. n /\ At(i) # m
    BY <1>1, <1>4
  <1>6. PICK r : r = [i \in 1 .. k |-> s[At(i)]]
    OBVIOUS
  <1>7. \A i \in 1 .. k : r[i] = s[At(i)]
    BY <1>6
  <1>8. \A i \in 1 .. n : s[i] = s[m] => i = m
    BY CountsApart
  <1>9. r \in [1 .. k -> T]
    <2>1. \A i \in 1 .. k : s[At(i)] \in T
      <3>. TAKE i \in 1 .. k
      <3>1. PICK x : x = At(i)
        OBVIOUS
      <3>2. x \in 1 .. n /\ x # m
        BY <1>5, <3>1
      <3>3. s[x] \in T
        BY <1>1, <1>8, <3>2
      <3>. QED
        BY <3>1, <3>3
    <2>. QED
      BY <1>6, <2>1
  <1>10. \A x \in T : \E i \in 1 .. k : r[i] = x
    <2>. TAKE x \in T
    <2>1. PICK i \in 1 .. n : s[i] = x
      BY <1>1
    <2>2. i # m
      BY <2>1
    <2>3. CASE i < m
      <3>1. i \in 1 .. k /\ At(i) = i
        BY <1>1, <1>4, <2>3
      <3>. QED
        BY <1>7, <2>1, <3>1
    <2>4. CASE i > m
      <3>1. i - 1 \in 1 .. k /\ At(i - 1) = i
        BY <1>1, <1>4, <2>4
      <3>. QED
        BY <1>7, <2>1, <3>1
    <2>. QED
      BY <1>1, <2>2, <2>3, <2>4
  <1>11. \A i, j \in 1 .. k : i < j => r[i].sn < r[j].sn
    <2>. SUFFICES ASSUME NEW i \in 1 .. k, NEW j \in 1 .. k, i < j
                  PROVE  r[i].sn < r[j].sn
      OBVIOUS
    <2>1. At(i) < At(j)
      BY <1>1, <1>4
    <2>2. PICK x, y : x = At(i) /\ y = At(j)
      OBVIOUS
    <2>3. x \in 1 .. n /\ y \in 1 .. n /\ x < y /\ r[i] = s[x] /\ r[j] = s[y]
      BY <1>5, <1>7, <2>1, <2>2
    <2>. QED
      BY <1>1, <2>3
  <1>12. PICK q : q = RemoveAt(l, m)
    OBVIOUS
  <1>13. q \in Seq(Numbered) /\ Len(q) = k /\ \A i \in 1 .. k : q[i] = l[At(i)]
    <2>1. PICK a : a = SubSeq(l, 1, m - 1)
      OBVIOUS
    <2>2. PICK b : b = SubSeq(l, m + 1, n)
      OBVIOUS
    <2>3. /\ a \in Seq(Numbered) /\ Len(a) = m - 1
          /\ \A i \in 1 .. m - 1 : a[i] = l[i]
      BY <1>1, <1>3, <2>1
    <2>4. /\ b \in Seq(Numbered) /\ Len(b) = n - m
          /\ \A i \in 1 .. n - m : b[i] = l[i + m]
      BY <1>1, <1>3, <2>2
    <2>5. q = a \o b
      BY <1>3, <1>12, <2>1, <2>2 DEF RemoveAt
    <2>6. PICK c \in Nat, e \in Nat : c = m - 1 /\ e = n - m
      BY <1>1
    <2>7. /\ a \o b \in Seq(Numbered) /\ Len(a \o b) = c + e
          /\ \A i \in 1 .. c : (a \o b)[i] = a[i]
          /\ \A i \in 1 .. e : (a \o b)[c + i] = b[i]
      <3>1. Len(a) = c /\ Len(b) = e
        BY <2>3, <2>4, <2>6
      <3>2. /\ a \o b \in Seq(Numbered) /\ Len(a \o b) = Len(a) + Len(b)
            /\ \A i \in 1 .. Len(a) : (a \o b)[i] = a[i]
            /\ \A i \in 1 .. Len(b) : (a \o b)[Len(a) + i] = b[i]
        <4>1. a \in Seq(Numbered) /\ b \in Seq(Numbered)
          BY <2>3, <2>4
        <4>. QED
          BY <4>1, Concatenated
      <3>. QED
        BY <3>1, <3>2, Zenon
    <2>8. q \in Seq(Numbered) /\ Len(q) = k
      BY <1>1, <1>4, <2>5, <2>6, <2>7
    <2>9. \A i \in 1 .. k : q[i] = l[At(i)]
      <3>. TAKE i \in 1 .. k
      <3>1. CASE i < m
        <4>1. i \in 1 .. c
          BY <1>1, <1>4, <2>6, <3>1
        <4>2. q[i] = a[i] /\ a[i] = l[i]
          BY <2>3, <2>5, <2>6, <2>7, <4>1
        <4>. QED
          BY <3>1, <4>2
      <3>2. CASE ~ (i < m)
        <4>1. PICK j \in 1 .. e : c + j = i /\ j + m = i + 1
          <5>1. i - c \in 1 .. e /\ c + (i - c) = i /\ (i - c) + m = i + 1
            BY <1>1, <1>4, <2>6, <3>2
          <5>. QED
            BY <5>1
        <4>2. q[i] = b[j] /\ b[j] = l[j + m]
          BY <2>4, <2>5, <2>6, <2>7, <4>1
        <4>. QED
          BY <3>2, <4>1, <4>2
      <3>. QED
        BY <3>1, <3>2
    <2>. QED
      BY <2>8, <2>9
  <1>14. \A i \in 1 .. k : q[i] = Held(r[i])
    <2>. TAKE i \in 1 .. k
    <2>1. PICK x : x = At(i)
      OBVIOUS
    <2>2. x \in 1 .. n /\ q[i] = l[x] /\ r[i] = s[x]
      BY <1>5, <1>7, <1>13, <2>1
    <2>. QED
      BY <1>3, <2>2
  <1>15. T \in SUBSET Numbered
    OBVIOUS
  <1>16. IsList(q, T)
    <2>. HIDE DEF T
    <2>. QED
      BY <1>9, <1>10, <1>11, <1>13, <1>14, <1>15, CountsIf
  <1>. QED
    BY <1>2, <1>12, <1>16

(* A segment is put behind the m that are before it.                       *)
LEMMA InsertListed ==
    ASSUME NEW S \in SUBSET Numbered, NEW n, NEW s, Counts(s, n, S),
           NEW m \in 0 .. n, NEW t \in Numbered,
           \A i \in 1 .. m : s[i].sn < t.sn,
           \A i \in m + 1 .. n : t.sn < s[i].sn
    PROVE  IsList(InsertAt(InMemory(s), m + 1, Held(t)), S \cup {t})
  <1>1. /\ n \in Nat /\ s \in [1 .. n -> Numbered]
        /\ \A i \in 1 .. n : s[i] \in S
        /\ \A x \in S : \E i \in 1 .. n : s[i] = x
        /\ \A i, j \in 1 .. n : i < j => s[i].sn < s[j].sn
    <2>1. n \in Nat /\ s \in [1 .. n -> Numbered]
      BY CountsType
    <2>2. \A i \in 1 .. n : s[i] \in S
      BY CountsType, Zenon
    <2>. QED
      BY <2>1, <2>2, Zenon DEF Counts
  <1>2. PICK l : l = InMemory(s)
    OBVIOUS
  <1>3. l \in Seq(Numbered) /\ Len(l) = n /\ \A i \in 1 .. n : l[i] = Held(s[i])
    BY <1>1, <1>2, InMemoryAt, Zenon
  <1>4. m \in Nat /\ Held(t) \in Numbered
    BY <1>1, HeldType
  <1>5. PICK k \in Nat : k = n + 1
    BY <1>1
  <1>. DEFINE T == S \cup {t}
              R(i) == IF i <= m THEN s[i] ELSE IF i = m + 1 THEN t ELSE s[i - 1]
  <1>6. PICK r : r = [i \in 1 .. k |-> R(i)]
    OBVIOUS
  <1>7. /\ \A i \in 1 .. m : r[i] = s[i]
        /\ r[m + 1] = t
        /\ \A i \in m + 1 .. n : r[i + 1] = s[i]
    <2>1. \A i \in 1 .. m : i \in 1 .. k /\ i <= m
      BY <1>1, <1>4, <1>5
    <2>2. m + 1 \in 1 .. k /\ ~ (m + 1 <= m)
      BY <1>1, <1>4, <1>5
    <2>3. \A i \in m + 1 .. n :
             /\ i + 1 \in 1 .. k /\ ~ (i + 1 <= m) /\ i + 1 # m + 1
             /\ (i + 1) - 1 = i
      BY <1>1, <1>4, <1>5
    <2>4. \A i \in 1 .. m : r[i] = s[i]
      BY <1>6, <2>1
    <2>5. r[m + 1] = t
      BY <1>6, <2>2
    <2>6. \A i \in m + 1 .. n : r[i + 1] = s[i]
      BY <1>6, <2>3
    <2>. QED
      BY <2>4, <2>5, <2>6
  <1>8. \A i \in 1 .. k :
           \/ i \in 1 .. m /\ i \in 1 .. n
           \/ i = m + 1
           \/ i - 1 \in m + 1 .. n /\ i - 1 \in 1 .. n /\ (i - 1) + 1 = i
    BY <1>1, <1>4, <1>5
  <1>9. r \in [1 .. k -> T]
    <2>1. \A i \in 1 .. k : r[i] \in T
      <3>. TAKE i \in 1 .. k
      <3>1. CASE i \in 1 .. m /\ i \in 1 .. n
        <4>1. r[i] = s[i] /\ s[i] \in S
          BY <1>1, <1>7, <3>1, Zenon
        <4>. QED
          BY <4>1
      <3>2. CASE i = m + 1
        <4>1. r[i] = t
          BY <1>7, <3>2, Zenon
        <4>. QED
          BY <4>1
      <3>3. CASE i - 1 \in m + 1 .. n /\ i - 1 \in 1 .. n /\ (i - 1) + 1 = i
        <4>1. r[i] = s[i - 1] /\ s[i - 1] \in S
          BY <1>1, <1>7, <3>3, Zenon
        <4>. QED
          BY <4>1
      <3>. QED
        BY <1>8, <3>1, <3>2, <3>3, Zenon
    <2>2. r \in [1 .. k -> {R(i) : i \in 1 .. k}]
      BY <1>6
    <2>. HIDE DEF T, R
    <2>. QED
      BY <1>6, <2>1
  <1>10. \A x \in T : \E i \in 1 .. k : r[i] = x
    <2>. TAKE x \in T
    <2>1. CASE x = t
      <3>1. m + 1 \in 1 .. k
        BY <1>1, <1>4, <1>5
      <3>. QED
        BY <1>7, <2>1, <3>1
    <2>2. CASE x \in S
      <3>1. PICK i \in 1 .. n : s[i] = x
        BY <1>1, <2>2
      <3>2. CASE i <= m
        <4>1. i \in 1 .. m /\ i \in 1 .. k
          BY <1>1, <1>4, <1>5, <3>2
        <4>. QED
          BY <1>7, <3>1, <4>1
      <3>3. CASE i > m
        <4>1. i \in m + 1 .. n /\ i + 1 \in 1 .. k
          BY <1>1, <1>4, <1>5, <3>3
        <4>. QED
          BY <1>7, <3>1, <4>1
      <3>. QED
        BY <1>1, <1>4, <3>2, <3>3
    <2>. QED
      BY <2>1, <2>2
  <1>11. \A i, j \in 1 .. k : i < j => r[i].sn < r[j].sn
    <2>. SUFFICES ASSUME NEW i \in 1 .. k, NEW j \in 1 .. k, i < j
                  PROVE  r[i].sn < r[j].sn
      OBVIOUS
    <2>1. CASE i \in 1 .. m
      <3>1. i \in 1 .. n /\ r[i] = s[i] /\ s[i].sn < t.sn
        BY <1>1, <1>4, <1>7, <2>1
      <3>2. CASE j \in 1 .. m
        <4>1. j \in 1 .. n /\ r[j] = s[j]
          BY <1>1, <1>4, <1>7, <3>2
        <4>. QED
          BY <1>1, <3>1, <4>1
      <3>3. CASE j = m + 1
        BY <1>7, <3>1, <3>3
      <3>4. CASE j - 1 \in m + 1 .. n
        <4>1. j - 1 \in 1 .. n /\ i < j - 1 /\ (j - 1) + 1 = j
          BY <1>1, <1>4, <2>1, <3>4
        <4>2. r[j] = s[j - 1]
          BY <1>7, <3>4, <4>1
        <4>3. s[i].sn < s[j - 1].sn
          BY <1>1, <3>1, <4>1
        <4>. QED
          BY <3>1, <4>2, <4>3
      <3>. QED
        BY <1>8, <3>2, <3>3, <3>4
    <2>2. CASE i = m + 1
      <3>1. j - 1 \in m + 1 .. n /\ (j - 1) + 1 = j
        BY <1>1, <1>4, <1>5, <2>2
      <3>2. r[j] = s[j - 1] /\ t.sn < s[j - 1].sn
        BY <1>7, <3>1
      <3>. QED
        BY <1>7, <2>2, <3>2
    <2>3. CASE i - 1 \in m + 1 .. n
      <3>1. /\ j - 1 \in m + 1 .. n /\ (j - 1) + 1 = j /\ (i - 1) + 1 = i
            /\ j - 1 \in 1 .. n /\ i - 1 \in 1 .. n /\ i - 1 < j - 1
        BY <1>1, <1>4, <1>5, <2>3
      <3>2. r[j] = s[j - 1] /\ r[i] = s[i - 1]
        BY <1>7, <2>3, <3>1
      <3>. QED
        BY <1>1, <3>1, <3>2
    <2>. QED
      BY <1>8, <2>1, <2>2, <2>3
  <1>12. PICK q : q = InsertAt(l, m + 1, Held(t))
    OBVIOUS
  <1>13. /\ q \in Seq(Numbered) /\ Len(q) = k
         /\ \A i \in 1 .. m : q[i] = l[i]
         /\ q[m + 1] = Held(t)
         /\ \A i \in m + 1 .. n : q[i + 1] = l[i]
    <2>1. PICK a : a = SubSeq(l, 1, m)
      OBVIOUS
    <2>2. PICK b : b = SubSeq(l, m + 1, n)
      OBVIOUS
    <2>3. PICK e \in Nat : e = n - m
      BY <1>1, <1>4
    <2>4. /\ a \in Seq(Numbered) /\ Len(a) = m
          /\ \A i \in 1 .. m : a[i] = l[i]
      BY <1>1, <1>3, <1>4, <2>1
    <2>5. /\ b \in Seq(Numbered) /\ Len(b) = e
          /\ \A i \in 1 .. e : b[i] = l[i + m]
      BY <1>1, <1>3, <1>4, <2>2, <2>3
    <2>6. PICK c : c = <<Held(t)>>
      OBVIOUS
    <2>7. c \in Seq(Numbered) /\ Len(c) = 1 /\ c[1] = Held(t)
      BY <1>4, <2>6
    <2>8. q = (a \o c) \o b
      <3>1. (m + 1) - 1 = m /\ Len(l) = n
        BY <1>3, <1>4
      <3>2. q = SubSeq(l, 1, (m + 1) - 1) \o <<Held(t)>> \o SubSeq(l, m + 1, Len(l))
        BY <1>12, Zenon DEF InsertAt
      <3>. QED
        BY <2>1, <2>2, <2>6, <3>1, <3>2, Zenon
    <2>9. PICK ac : ac = a \o c
      OBVIOUS
    <2>10. /\ ac \in Seq(Numbered) /\ Len(ac) = m + 1
           /\ \A i \in 1 .. m : ac[i] = a[i]
           /\ ac[m + 1] = Held(t)
      <3>1. /\ a \o c \in Seq(Numbered) /\ Len(a \o c) = Len(a) + Len(c)
            /\ \A i \in 1 .. Len(a) : (a \o c)[i] = a[i]
            /\ \A i \in 1 .. Len(c) : (a \o c)[Len(a) + i] = c[i]
        <4>1. a \in Seq(Numbered) /\ c \in Seq(Numbered)
          BY <2>4, <2>7
        <4>. QED
          BY <4>1, Concatenated
      <3>. QED
        BY <2>4, <2>7, <2>9, <3>1
    <2>11. /\ ac \o b \in Seq(Numbered) /\ Len(ac \o b) = m + 1 + e
           /\ \A i \in 1 .. m + 1 : (ac \o b)[i] = ac[i]
           /\ \A i \in 1 .. e : (ac \o b)[m + 1 + i] = b[i]
      <3>1. /\ ac \o b \in Seq(Numbered) /\ Len(ac \o b) = Len(ac) + Len(b)
            /\ \A i \in 1 .. Len(ac) : (ac \o b)[i] = ac[i]
            /\ \A i \in 1 .. Len(b) : (ac \o b)[Len(ac) + i] = b[i]
        <4>1. ac \in Seq(Numbered) /\ b \in Seq(Numbered)
          BY <2>5, <2>10
        <4>. QED
          BY <4>1, Concatenated
      <3>2. Len(ac) = m + 1 /\ Len(b) = e
        BY <2>5, <2>10
      <3>. QED
        BY <3>1, <3>2, Zenon
    <2>12. q = ac \o b
      BY <2>8, <2>9
    <2>13. m + 1 + e = k
      BY <1>1, <1>4, <1>5, <2>3
    <2>14. \A i \in 1 .. m : q[i] = l[i]
      <3>. TAKE i \in 1 .. m
      <3>1. i \in 1 .. m + 1
        BY <1>4
      <3>. QED
        BY <2>4, <2>10, <2>11, <2>12, <3>1
    <2>15. q[m + 1] = Held(t)
      <3>1. m + 1 \in 1 .. m + 1
        BY <1>4
      <3>. QED
        BY <2>10, <2>11, <2>12, <3>1
    <2>16. \A i \in m + 1 .. n : q[i + 1] = l[i]
      <3>. TAKE i \in m + 1 .. n
      <3>1. PICK j \in 1 .. e : m + 1 + j = i + 1 /\ j + m = i
        <4>1. i - m \in 1 .. e /\ m + 1 + (i - m) = i + 1 /\ (i - m) + m = i
          BY <1>1, <1>4, <2>3
        <4>. QED
          BY <4>1
      <3>2. q[m + 1 + j] = b[j] /\ b[j] = l[j + m]
        BY <2>5, <2>11, <2>12
      <3>. QED
        BY <3>1, <3>2
    <2>. QED
      BY <2>11, <2>12, <2>13, <2>14, <2>15, <2>16
  <1>14. \A i \in 1 .. k : q[i] = Held(r[i])
    <2>. TAKE i \in 1 .. k
    <2>1. CASE i \in 1 .. m /\ i \in 1 .. n
      BY <1>3, <1>7, <1>13, <2>1
    <2>2. CASE i = m + 1
      BY <1>7, <1>13, <2>2
    <2>3. CASE i - 1 \in m + 1 .. n /\ i - 1 \in 1 .. n /\ (i - 1) + 1 = i
      <3>1. PICK j : j = i - 1
        OBVIOUS
      <3>2. j \in m + 1 .. n /\ j \in 1 .. n /\ j + 1 = i
        BY <2>3, <3>1
      <3>3. q[i] = l[j] /\ r[i] = s[j] /\ l[j] = Held(s[j])
        BY <1>3, <1>7, <1>13, <3>2
      <3>. QED
        BY <3>3
    <2>. QED
      BY <1>8, <2>1, <2>2, <2>3
  <1>15. T \in SUBSET Numbered
    OBVIOUS
  <1>16. IsList(q, T)
    <2>. HIDE DEF T
    <2>. QED
      BY <1>9, <1>10, <1>11, <1>13, <1>14, <1>15, CountsIf
  <1>. QED
    BY <1>2, <1>12, <1>16

(* Segments are put behind all that are before them.                       *)
LEMMA AppendListed ==
    ASSUME NEW S \in SUBSET Numbered, NEW n, NEW s, Counts(s, n, S),
           NEW T \in SUBSET Numbered, NEW m, NEW t, Counts(t, m, T),
           \A x \in S : \A y \in T : x.sn < y.sn
    PROVE  IsList(InMemory(s) \o InMemory(t), S \cup T)
  <1>1. /\ n \in Nat /\ s \in [1 .. n -> Numbered]
        /\ \A i \in 1 .. n : s[i] \in S
        /\ \A x \in S : \E i \in 1 .. n : s[i] = x
        /\ \A i, j \in 1 .. n : i < j => s[i].sn < s[j].sn
    <2>1. n \in Nat /\ s \in [1 .. n -> Numbered]
      BY CountsType
    <2>2. \A i \in 1 .. n : s[i] \in S
      BY CountsType, Zenon
    <2>. QED
      BY <2>1, <2>2, Zenon DEF Counts
  <1>2. /\ m \in Nat /\ t \in [1 .. m -> Numbered]
        /\ \A i \in 1 .. m : t[i] \in T
        /\ \A x \in T : \E i \in 1 .. m : t[i] = x
        /\ \A i, j \in 1 .. m : i < j => t[i].sn < t[j].sn
    <2>1. m \in Nat /\ t \in [1 .. m -> Numbered]
      BY CountsType
    <2>2. \A i \in 1 .. m : t[i] \in T
      BY CountsType, Zenon
    <2>. QED
      BY <2>1, <2>2, Zenon DEF Counts
  <1>3. PICK a : a = InMemory(s)
    OBVIOUS
  <1>4. a \in Seq(Numbered) /\ Len(a) = n /\ \A i \in 1 .. n : a[i] = Held(s[i])
    BY <1>1, <1>3, InMemoryAt, Zenon
  <1>5. PICK b : b = InMemory(t)
    OBVIOUS
  <1>6. b \in Seq(Numbered) /\ Len(b) = m /\ \A i \in 1 .. m : b[i] = Held(t[i])
    BY <1>2, <1>5, InMemoryAt, Zenon
  <1>7. PICK q : q = a \o b
    OBVIOUS
  <1>8. PICK k \in Nat : k = n + m
    BY <1>1, <1>2
  <1>9. /\ q \in Seq(Numbered) /\ Len(q) = k
        /\ \A i \in 1 .. n : q[i] = a[i]
        /\ \A i \in 1 .. m : q[n + i] = b[i]
    <2>1. /\ a \o b \in Seq(Numbered) /\ Len(a \o b) = Len(a) + Len(b)
          /\ \A i \in 1 .. Len(a) : (a \o b)[i] = a[i]
          /\ \A i \in 1 .. Len(b) : (a \o b)[Len(a) + i] = b[i]
      <3>1. a \in Seq(Numbered) /\ b \in Seq(Numbered)
        BY <1>4, <1>6
      <3>. QED
        BY <3>1, Concatenated
    <2>2. Len(a) = n /\ Len(b) = m
      BY <1>4, <1>6
    <2>. QED
      BY <1>7, <1>8, <2>1, <2>2, Zenon
  <1>. DEFINE U == S \cup T
              R(i) == IF i <= n THEN s[i] ELSE t[i - n]
  <1>10. PICK r : r = [i \in 1 .. k |-> R(i)]
    OBVIOUS
  <1>11. /\ \A i \in 1 .. n : r[i] = s[i]
         /\ \A i \in 1 .. m : r[n + i] = t[i]
    <2>1. \A i \in 1 .. n : i \in 1 .. k /\ i <= n
      BY <1>1, <1>2, <1>8
    <2>2. \A i \in 1 .. m : n + i \in 1 .. k /\ ~ (n + i <= n) /\ (n + i) - n = i
      BY <1>1, <1>2, <1>8
    <2>3. \A i \in 1 .. n : r[i] = s[i]
      BY <1>10, <2>1
    <2>4. \A i \in 1 .. m : r[n + i] = t[i]
      BY <1>10, <2>2
    <2>. QED
      BY <2>3, <2>4
  <1>12. \A i \in 1 .. k : i \in 1 .. n \/ \E j \in 1 .. m : i = n + j
    <2>. TAKE i \in 1 .. k
    <2>1. i > n => i - n \in 1 .. m /\ i = n + (i - n)
      BY <1>1, <1>2, <1>8
    <2>2. i <= n => i \in 1 .. n
      BY <1>1, <1>8
    <2>. QED
      BY <1>1, <1>8, <2>1, <2>2
  <1>13. r \in [1 .. k -> U]
    <2>1. \A i \in 1 .. n : r[i] \in U
      BY <1>1, <1>11
    <2>2. \A i \in 1 .. m : r[n + i] \in U
      BY <1>2, <1>11
    <2>3. \A i \in 1 .. k : r[i] \in U
      <3>. HIDE DEF U
      <3>. QED
        BY <1>12, <2>1, <2>2
    <2>. HIDE DEF U, R
    <2>. QED
      BY <1>10, <2>3
  <1>14. \A x \in U : \E i \in 1 .. k : r[i] = x
    <2>. TAKE x \in U
    <2>1. CASE x \in S
      <3>1. PICK i \in 1 .. n : s[i] = x
        BY <1>1, <2>1
      <3>2. i \in 1 .. k
        BY <1>1, <1>2, <1>8
      <3>. QED
        BY <1>11, <3>1, <3>2
    <2>2. CASE x \in T
      <3>1. PICK i \in 1 .. m : t[i] = x
        BY <1>2, <2>2
      <3>2. n + i \in 1 .. k
        BY <1>1, <1>2, <1>8
      <3>. QED
        BY <1>11, <3>1, <3>2
    <2>. QED
      BY <2>1, <2>2
  <1>15. \A i, j \in 1 .. k : i < j => r[i].sn < r[j].sn
    <2>. SUFFICES ASSUME NEW i \in 1 .. k, NEW j \in 1 .. k, i < j
                  PROVE  r[i].sn < r[j].sn
      OBVIOUS
    <2>1. CASE i \in 1 .. n
      <3>1. CASE j \in 1 .. n
        BY <1>1, <1>11, <2>1, <3>1
      <3>2. ASSUME NEW y \in 1 .. m, j = n + y PROVE r[i].sn < r[j].sn
        <4>1. r[i] = s[i] /\ r[j] = t[y] /\ s[i] \in S /\ t[y] \in T
          BY <1>1, <1>2, <1>11, <2>1, <3>2
        <4>. QED
          BY <4>1
      <3>. QED
        BY <1>12, <3>1, <3>2
    <2>2. ASSUME NEW x \in 1 .. m, i = n + x PROVE r[i].sn < r[j].sn
      <3>1. ~ (j \in 1 .. n)
        BY <1>1, <1>2, <2>2
      <3>2. PICK y \in 1 .. m : j = n + y
        BY <1>12, <3>1
      <3>3. x < y
        BY <1>1, <1>2, <2>2, <3>2
      <3>4. r[i] = t[x] /\ r[j] = t[y]
        BY <1>11, <2>2, <3>2
      <3>. QED
        BY <1>2, <3>3, <3>4
    <2>. QED
      BY <1>12, <2>1, <2>2
  <1>16. \A i \in 1 .. k : q[i] = Held(r[i])
    <2>. TAKE i \in 1 .. k
    <2>1. CASE i \in 1 .. n
      BY <1>4, <1>9, <1>11, <2>1
    <2>2. ASSUME NEW j \in 1 .. m, i = n + j PROVE q[i] = Held(r[i])
      <3>1. q[i] = b[j] /\ r[i] = t[j] /\ b[j] = Held(t[j])
        BY <1>6, <1>9, <1>11, <2>2
      <3>. QED
        BY <3>1
    <2>. QED
      BY <1>12, <2>1, <2>2
  <1>17. U \in SUBSET Numbered
    OBVIOUS
  <1>18. IsList(q, U)
    <2>. HIDE DEF U
    <2>. QED
      BY <1>13, <1>14, <1>15, <1>9, <1>16, <1>17, CountsIf
  <1>. QED
    BY <1>3, <1>5, <1>7, <1>18

----------------------------------------------------------------------------
(* Where the loops over a list stop.                                       *)

(* Nothing listed before the first place whose number is not below x is x  *)
(* or more: where the loops of ikcp_parse_una and ikcp_parse_ack stop.     *)
StopAt(l, x) ==
    Least({i \in 1 .. Len(l) + 1 : \/ i = Len(l) + 1
                                   \/ ITimeDiff(x, l[i].sn) <= 0})

(* Where the loop stops.                                                   *)
LEMMA StopProperty ==
    ASSUME NEW S \in SUBSET Numbered, NEW n, NEW s, Counts(s, n, S),
           NEW x \in Nat,
           \A y \in S : -(Mod \div 2) <= x - y.sn /\ x - y.sn < Mod \div 2
    PROVE  /\ StopAt(InMemory(s), Wrapped(x)) \in 1 .. n + 1
           /\ \A i \in 1 .. n :
                 s[i].sn >= x <=> i >= StopAt(InMemory(s), Wrapped(x))
  <1>1. /\ n \in Nat /\ s \in [1 .. n -> Numbered]
        /\ \A i \in 1 .. n : s[i] \in S
        /\ \A i \in 1 .. n : s[i].sn \in Nat
        /\ \A i, j \in 1 .. n : i < j => s[i].sn < s[j].sn
    <2>1. n \in Nat /\ s \in [1 .. n -> Numbered]
      BY CountsType
    <2>2. \A i \in 1 .. n : s[i] \in S
      BY CountsType, Zenon
    <2>3. \A i \in 1 .. n : s[i].sn \in Nat
      BY CountsType, Zenon
    <2>. QED
      BY <2>1, <2>2, <2>3, Zenon DEF Counts
  <1>2. PICK l : l = InMemory(s)
    OBVIOUS
  <1>3. /\ l \in Seq(Numbered) /\ Len(l) = n
        /\ \A i \in 1 .. n : l[i].sn = Wrapped(s[i].sn)
    BY <1>1, <1>2, InMemoryAt, Zenon
  <1>4. \A i \in 1 .. n : ITimeDiff(Wrapped(x), l[i].sn) = x - s[i].sn
    <2>. TAKE i \in 1 .. n
    <2>1. PICK y \in Nat : y = s[i].sn
      BY <1>1
    <2>2. -(Mod \div 2) <= x - y /\ x - y < Mod \div 2
      BY <1>1, <2>1
    <2>3. ITimeDiff(Wrapped(x), Wrapped(y)) = x - y
      BY <2>2, PlainDifference
    <2>. QED
      BY <1>3, <2>1, <2>3
  <1>5. PICK P : P = {i \in 1 .. Len(l) + 1 : \/ i = Len(l) + 1
                                              \/ ITimeDiff(Wrapped(x), l[i].sn) <= 0}
    OBVIOUS
  <1>6. \A i \in 1 .. n : i \in P <=> s[i].sn >= x
    <2>. TAKE i \in 1 .. n
    <2>1. i \in 1 .. Len(l) + 1 /\ i # Len(l) + 1
      BY <1>1, <1>3
    <2>2. i \in P <=> ITimeDiff(Wrapped(x), l[i].sn) <= 0
      BY <1>5, <2>1
    <2>3. s[i].sn \in Nat
      BY <1>1
    <2>4. ITimeDiff(Wrapped(x), l[i].sn) = x - s[i].sn
      BY <1>4
    <2>. QED
      BY <2>2, <2>3, <2>4
  <1>7. n + 1 \in P /\ P \in SUBSET Nat /\ P \subseteq 1 .. n + 1
    BY <1>1, <1>3, <1>5
  <1>8. PICK f : f = Least(P)
    OBVIOUS
  <1>9. f \in P /\ \A y \in P : f <= y
    BY <1>7, <1>8, LeastIsLeast
  <1>10. f \in 1 .. n + 1
    BY <1>7, <1>9
  <1>11. \A i \in 1 .. n : s[i].sn >= x <=> i >= f
    <2>. TAKE i \in 1 .. n
    <2>1. s[i].sn >= x => i >= f
      BY <1>6, <1>9, <1>10
    <2>2. ASSUME i >= f PROVE s[i].sn >= x
      <3>1. f \in 1 .. n /\ s[f].sn >= x
        BY <1>1, <1>6, <1>9, <1>10, <2>2
      <3>2. i = f \/ s[f].sn < s[i].sn
        BY <1>1, <2>2, <3>1
      <3>. QED
        BY <1>1, <3>1, <3>2
    <2>. QED
      BY <2>1, <2>2
  <1>12. StopAt(InMemory(s), Wrapped(x)) = f
    BY <1>2, <1>5, <1>8, Zenon DEF StopAt
  <1>. QED
    BY <1>10, <1>11, <1>12

(* The first of a list has the least number.                               *)
LEMMA FirstIsLeast ==
    ASSUME NEW S \in SUBSET Numbered, NEW n, NEW s, Counts(s, n, S)
    PROVE  /\ S = {} <=> InMemory(s) = <<>>
           /\ S # {} => InMemory(s)[1].sn = Wrapped(Least(Sns(S)))
  <1>1. /\ n \in Nat /\ s \in [1 .. n -> Numbered]
        /\ \A i \in 1 .. n : s[i] \in S
        /\ \A i \in 1 .. n : s[i].sn \in Nat
        /\ \A x \in S : \E i \in 1 .. n : s[i] = x
        /\ \A i, j \in 1 .. n : i < j => s[i].sn < s[j].sn
    <2>1. n \in Nat /\ s \in [1 .. n -> Numbered]
      BY CountsType
    <2>2. \A i \in 1 .. n : s[i] \in S
      BY CountsType, Zenon
    <2>3. \A i \in 1 .. n : s[i].sn \in Nat
      BY CountsType, Zenon
    <2>. QED
      BY <2>1, <2>2, <2>3, Zenon DEF Counts
  <1>2. PICK l : l = InMemory(s)
    OBVIOUS
  <1>3. /\ l \in Seq(Numbered) /\ Len(l) = n
        /\ \A i \in 1 .. n : l[i].sn = Wrapped(s[i].sn)
    BY <1>1, <1>2, InMemoryAt, Zenon
  <1>4. S = {} <=> n = 0
    <2>1. n > 0 => 1 \in 1 .. n
      BY <1>1
    <2>2. n = 0 => 1 .. n = {}
      BY <1>1
    <2>. QED
      BY <1>1, <2>1, <2>2
  <1>5. n = 0 <=> l = <<>>
    BY <1>3
  <1>6. ASSUME S # {} PROVE l[1].sn = Wrapped(Least(Sns(S)))
    <2>1. 1 \in 1 .. n
      BY <1>1, <1>4, <1>6
    <2>2. Sns(S) \in SUBSET Nat /\ Sns(S) # {}
      BY <1>6, SnsType DEF Sns
    <2>3. PICK f : f = Least(Sns(S))
      OBVIOUS
    <2>4. f \in Sns(S) /\ \A y \in Sns(S) : f <= y
      BY <2>2, <2>3, LeastIsLeast
    <2>5. PICK x \in S : x.sn = f
      BY <2>4 DEF Sns
    <2>6. PICK i \in 1 .. n : s[i] = x
      BY <1>1
    <2>7. s[1].sn \in Sns(S)
      BY <1>1, <2>1 DEF Sns
    <2>8. f <= s[1].sn
      BY <2>4, <2>7
    <2>9. i = 1
      <3>. SUFFICES ASSUME i # 1 PROVE FALSE
        OBVIOUS
      <3>1. 1 < i
        BY <1>1
      <3>2. s[1].sn < s[i].sn
        BY <1>1, <2>1, <3>1
      <3>3. s[1].sn \in Nat /\ s[i].sn \in Nat /\ s[i].sn = f
        BY <1>1, <2>1, <2>5, <2>6
      <3>. QED
        BY <2>8, <3>2, <3>3
    <2>. QED
      BY <1>3, <2>1, <2>3, <2>5, <2>6, <2>9
  <1>. QED
    BY <1>2, <1>4, <1>5, <1>6

----------------------------------------------------------------------------
(* Control blocks, field by field.                                         *)

RawBlock == [conv : Nat, snd_una : Nat, snd_nxt : Nat, rcv_nxt : Nat,
             rmt_wnd : Nat, cwnd : Nat, ssthresh : Nat,
             tell : BOOLEAN, probe_wait : BOOLEAN,
             snd_queue : Seq(Segment), snd_buf : Seq(Numbered),
             rcv_buf : Seq(Numbered), rcv_queue : Seq(Segment),
             acklist : SUBSET Nat]

AllWrapped(S) == {Wrapped(n) : n \in S}

(* The parts in which r shows k.                                           *)
ShowsRest(r, k) ==
    /\ r.conv = k.conv /\ r.rmt_wnd = k.rmt_wnd
    /\ r.cwnd = k.cwnd /\ r.ssthresh = k.ssthresh
    /\ r.tell = k.tell /\ r.probe_wait = k.probe_wait

ShowsSent(r, k) ==
    /\ r.snd_nxt = Wrapped(k.snd_nxt)
    /\ r.snd_queue = k.snd_queue
    /\ IsList(r.snd_buf, k.snd_buf)

ShowsReceived(r, k) ==
    /\ r.rcv_nxt = Wrapped(k.rcv_nxt)
    /\ r.rcv_queue = k.rcv_queue
    /\ IsList(r.rcv_buf, k.rcv_buf)

ShowsAcks(r, k) == r.acklist = AllWrapped(k.acklist)

Shows(r, k) ==
    /\ r \in RawBlock
    /\ r.snd_una = Wrapped(k.snd_una)
    /\ ShowsRest(r, k)
    /\ ShowsSent(r, k)
    /\ ShowsReceived(r, k)
    /\ ShowsAcks(r, k)

(* A list is a sequence of segments.                                       *)
LEMMA ListType ==
    ASSUME NEW S \in SUBSET Numbered, NEW l, IsList(l, S)
    PROVE  l \in Seq(Numbered)
  <1>1. PICK n, s : Counts(s, n, S) /\ l = InMemory(s)
    BY DEF IsList
  <1>2. n \in Nat /\ s \in [1 .. n -> Numbered]
    BY <1>1, CountsType
  <1>. QED
    BY <1>1, <1>2, InMemoryAt

(* A wrapped number is one.                                                *)
LEMMA WrappedNat ==
    ASSUME NEW x \in Nat
    PROVE  Wrapped(x) \in Nat
  BY WrappedRange, WrapAssumption

(* ... and so are the wrapped numbers of a set.                            *)
LEMMA AllWrappedNat ==
    ASSUME NEW S \in SUBSET Nat
    PROVE  AllWrapped(S) \in SUBSET Nat
  BY WrappedNat DEF AllWrapped

(* An image is what shows.                                                 *)
LEMMA ImagesShow ==
    ASSUME NEW k \in ControlBlock,
           IsFiniteSet(k.snd_buf), IsFiniteSet(k.rcv_buf), NEW r
    PROVE  r \in Images(k) <=> Shows(r, k)
  <1>1. /\ k.conv \in Nat /\ k.snd_una \in Nat /\ k.snd_nxt \in Nat
        /\ k.rcv_nxt \in Nat /\ k.rmt_wnd \in Nat /\ k.cwnd \in Nat
        /\ k.ssthresh \in Nat /\ k.tell \in BOOLEAN /\ k.probe_wait \in BOOLEAN
        /\ k.snd_queue \in Seq(Segment) /\ k.snd_buf \in SUBSET Numbered
        /\ k.rcv_buf \in SUBSET Numbered /\ k.rcv_queue \in Seq(Segment)
        /\ k.acklist \in SUBSET Nat
    BY DEF ControlBlock
  <1>. DEFINE Made(a, b) ==
                [conv |-> k.conv, snd_una |-> Wrapped(k.snd_una),
                 snd_nxt |-> Wrapped(k.snd_nxt), rcv_nxt |-> Wrapped(k.rcv_nxt),
                 rmt_wnd |-> k.rmt_wnd, cwnd |-> k.cwnd, ssthresh |-> k.ssthresh,
                 tell |-> k.tell, probe_wait |-> k.probe_wait,
                 snd_queue |-> k.snd_queue, snd_buf |-> a, rcv_buf |-> b,
                 rcv_queue |-> k.rcv_queue, acklist |-> AllWrapped(k.acklist)]
  <1>2. r \in Images(k) <=>
          \E a, b : IsList(a, k.snd_buf) /\ IsList(b, k.rcv_buf) /\ r = Made(a, b)
    <2>. DEFINE Changed(a, b) ==
                  [k EXCEPT !.snd_una = Wrapped(@), !.snd_nxt = Wrapped(@),
                            !.rcv_nxt = Wrapped(@), !.snd_buf = a, !.rcv_buf = b,
                            !.acklist = {Wrapped(n) : n \in @}]
    <2>1. ASSUME NEW a, NEW b, IsList(a, k.snd_buf), IsList(b, k.rcv_buf)
          PROVE  Changed(a, b) = Made(a, b)
      <3>1. PICK u, v, w, acks :
               /\ u = Wrapped(k.snd_una) /\ v = Wrapped(k.snd_nxt)
               /\ w = Wrapped(k.rcv_nxt) /\ acks = AllWrapped(k.acklist)
        OBVIOUS
      <3>2. [k EXCEPT !.snd_una = Wrapped(@), !.snd_nxt = Wrapped(@),
                      !.rcv_nxt = Wrapped(@), !.snd_buf = a, !.rcv_buf = b,
                      !.acklist = {Wrapped(n) : n \in @}]
              = [k EXCEPT !.snd_una = u, !.snd_nxt = v, !.rcv_nxt = w,
                          !.snd_buf = a, !.rcv_buf = b, !.acklist = acks]
        BY <3>1, Zenon DEF AllWrapped
      <3>3. [k EXCEPT !.snd_una = u, !.snd_nxt = v, !.rcv_nxt = w,
                      !.snd_buf = a, !.rcv_buf = b, !.acklist = acks]
              = [conv |-> k.conv, snd_una |-> u, snd_nxt |-> v, rcv_nxt |-> w,
                 rmt_wnd |-> k.rmt_wnd, cwnd |-> k.cwnd, ssthresh |-> k.ssthresh,
                 tell |-> k.tell, probe_wait |-> k.probe_wait,
                 snd_queue |-> k.snd_queue, snd_buf |-> a, rcv_buf |-> b,
                 rcv_queue |-> k.rcv_queue, acklist |-> acks]
        <4>1. PICK e : e = [k EXCEPT !.snd_una = u, !.snd_nxt = v, !.rcv_nxt = w,
                                     !.snd_buf = a, !.rcv_buf = b, !.acklist = acks]
          OBVIOUS
        <4>2. /\ u \in Nat /\ v \in Nat /\ w \in Nat /\ acks \in SUBSET Nat
              /\ a \in Seq(Numbered) /\ b \in Seq(Numbered)
          BY <1>1, <2>1, <3>1, WrappedNat, AllWrappedNat, ListType
        <4>3. e \in RawBlock
          BY <4>1, <4>2 DEF ControlBlock, RawBlock
        <4>4. /\ e.conv = k.conv /\ e.snd_una = u /\ e.snd_nxt = v /\ e.rcv_nxt = w
              /\ e.rmt_wnd = k.rmt_wnd /\ e.cwnd = k.cwnd
              /\ e.ssthresh = k.ssthresh /\ e.tell = k.tell
              /\ e.probe_wait = k.probe_wait /\ e.snd_queue = k.snd_queue
              /\ e.snd_buf = a /\ e.rcv_buf = b /\ e.rcv_queue = k.rcv_queue
              /\ e.acklist = acks
          BY <4>1 DEF ControlBlock
        <4>5. e = [conv |-> e.conv, snd_una |-> e.snd_una,
                   snd_nxt |-> e.snd_nxt, rcv_nxt |-> e.rcv_nxt,
                   rmt_wnd |-> e.rmt_wnd, cwnd |-> e.cwnd,
                   ssthresh |-> e.ssthresh, tell |-> e.tell,
                   probe_wait |-> e.probe_wait, snd_queue |-> e.snd_queue,
                   snd_buf |-> e.snd_buf, rcv_buf |-> e.rcv_buf,
                   rcv_queue |-> e.rcv_queue, acklist |-> e.acklist]
          BY <4>3 DEF RawBlock
        <4>. QED
          BY <4>1, <4>4, <4>5, Zenon
      <3>. QED
        BY <3>1, <3>2, <3>3, Zenon
    <2>2. r \in Images(k) <=>
            \E a \in Lists(k.snd_buf), b \in Lists(k.rcv_buf) :
               r = Changed(a, b)
      BY DEF Images
    <2>3. \A a : a \in Lists(k.snd_buf) <=> IsList(a, k.snd_buf)
      BY <1>1, ListsAre
    <2>4. \A b : b \in Lists(k.rcv_buf) <=> IsList(b, k.rcv_buf)
      BY <1>1, ListsAre
    <2>. HIDE DEF Made, Changed
    <2>. QED
      BY <2>1, <2>2, <2>3, <2>4, Zenon
  <1>3. ASSUME NEW a, NEW b, IsList(a, k.snd_buf), IsList(b, k.rcv_buf), r = Made(a, b)
        PROVE  Shows(r, k)
    <2>1. a \in Seq(Numbered) /\ b \in Seq(Numbered)
      BY <1>1, <1>3, ListType
    <2>2. /\ Wrapped(k.snd_una) \in Nat /\ Wrapped(k.snd_nxt) \in Nat
          /\ Wrapped(k.rcv_nxt) \in Nat /\ AllWrapped(k.acklist) \in SUBSET Nat
      BY <1>1, WrappedNat, AllWrappedNat
    <2>3. r \in RawBlock
      BY <1>1, <1>3, <2>1, <2>2 DEF RawBlock
    <2>4. /\ r.snd_una = Wrapped(k.snd_una)
          /\ r.snd_nxt = Wrapped(k.snd_nxt)
          /\ r.rcv_nxt = Wrapped(k.rcv_nxt)
          /\ r.acklist = AllWrapped(k.acklist)
          /\ r.snd_buf = a /\ r.rcv_buf = b
          /\ r.snd_queue = k.snd_queue /\ r.rcv_queue = k.rcv_queue
          /\ r.conv = k.conv /\ r.rmt_wnd = k.rmt_wnd
          /\ r.cwnd = k.cwnd /\ r.ssthresh = k.ssthresh
          /\ r.tell = k.tell /\ r.probe_wait = k.probe_wait
      BY <1>3
    <2>. QED
      BY <1>3, <2>3, <2>4, Zenon
      DEF Shows, ShowsRest, ShowsSent, ShowsReceived, ShowsAcks
  <1>4. ASSUME Shows(r, k)
        PROVE  \E a, b : IsList(a, k.snd_buf) /\ IsList(b, k.rcv_buf) /\ r = Made(a, b)
    <2>1. r = Made(r.snd_buf, r.rcv_buf)
      <3>1. r = [conv |-> r.conv, snd_una |-> r.snd_una,
                 snd_nxt |-> r.snd_nxt, rcv_nxt |-> r.rcv_nxt,
                 rmt_wnd |-> r.rmt_wnd, cwnd |-> r.cwnd, ssthresh |-> r.ssthresh,
                 tell |-> r.tell, probe_wait |-> r.probe_wait,
                 snd_queue |-> r.snd_queue, snd_buf |-> r.snd_buf,
                 rcv_buf |-> r.rcv_buf,
                 rcv_queue |-> r.rcv_queue, acklist |-> r.acklist]
        BY <1>4 DEF Shows, RawBlock
      <3>2. /\ r.snd_una = Wrapped(k.snd_una)
            /\ r.snd_nxt = Wrapped(k.snd_nxt)
            /\ r.rcv_nxt = Wrapped(k.rcv_nxt)
            /\ r.acklist = AllWrapped(k.acklist)
            /\ r.snd_queue = k.snd_queue /\ r.rcv_queue = k.rcv_queue
            /\ r.conv = k.conv /\ r.rmt_wnd = k.rmt_wnd
            /\ r.cwnd = k.cwnd /\ r.ssthresh = k.ssthresh
            /\ r.tell = k.tell /\ r.probe_wait = k.probe_wait
        BY <1>4, Zenon DEF Shows, ShowsRest, ShowsSent, ShowsReceived, ShowsAcks
      <3>. QED
        BY <3>1, <3>2, Zenon
    <2>. HIDE DEF Made
    <2>. QED
      BY <1>4, <2>1, Zenon DEF Shows, ShowsSent, ShowsReceived
  <1>. HIDE DEF Made
  <1>. QED
    BY <1>2, <1>3, <1>4, Zenon

----------------------------------------------------------------------------
(* Acknowledgements.                                                       *)

(* snd_una is the first that is not acknowledged.                          *)
Shrunk(k) ==
    k.snd_una = IF k.snd_buf = {} THEN k.snd_nxt ELSE Least(Sns(k.snd_buf))

(* What acknowledgements leave alone.                                      *)
SameButAcked(c, k) ==
    /\ c.snd_nxt = k.snd_nxt /\ c.snd_queue = k.snd_queue
    /\ c.rcv_nxt = k.rcv_nxt /\ c.rcv_queue = k.rcv_queue
    /\ c.rcv_buf = k.rcv_buf
    /\ c.acklist = k.acklist
    /\ c.conv = k.conv /\ c.rmt_wnd = k.rmt_wnd
    /\ c.cwnd = k.cwnd /\ c.ssthresh = k.ssthresh
    /\ c.tell = k.tell /\ c.probe_wait = k.probe_wait

(* The numbers in snd_buf are of the window that starts at low.            *)
SentFrom(low, k) ==
    /\ low \in Nat /\ low <= k.snd_una
    /\ k.snd_una <= k.snd_nxt /\ k.snd_nxt <= low + SndWnd
    /\ \A x \in k.snd_buf : k.snd_una <= x.sn /\ x.sn < k.snd_nxt

(* The least number of a set of segments.                                  *)
LEMMA LeastOfSns ==
    ASSUME NEW S \in SUBSET Numbered, S # {}
    PROVE  Least(Sns(S)) \in Nat
  <1>1. Sns(S) \in SUBSET Nat /\ Sns(S) # {}
    BY SnsType DEF Sns
  <1>. QED
    BY <1>1, LeastIsLeast

(* ikcp_shrink_buf.                                                        *)
LEMMA ShrinkShows ==
    ASSUME NEW k \in ControlBlock, NEW c \in ControlBlock, NEW r \in RawBlock,
           ShowsRest(r, k), ShowsReceived(r, k), ShowsAcks(r, k),
           r.snd_nxt = Wrapped(k.snd_nxt), r.snd_queue = k.snd_queue,
           IsList(r.snd_buf, c.snd_buf), SameButAcked(c, k), Shrunk(c)
    PROVE  Shows(ShrinkBuf(r), c)
  <1>1. PICK n, s : Counts(s, n, c.snd_buf) /\ r.snd_buf = InMemory(s)
    BY DEF IsList
  <1>2. c.snd_buf \in SUBSET Numbered /\ c.snd_nxt \in Nat
    BY DEF ControlBlock
  <1>3. /\ c.snd_buf = {} <=> r.snd_buf = <<>>
        /\ c.snd_buf # {} => r.snd_buf[1].sn = Wrapped(Least(Sns(c.snd_buf)))
    BY <1>1, <1>2, FirstIsLeast
  <1>4. PICK una : una = IF r.snd_buf = <<>> THEN r.snd_nxt ELSE r.snd_buf[1].sn
    OBVIOUS
  <1>5. una = Wrapped(c.snd_una)
    <2>1. c.snd_nxt = k.snd_nxt
      BY DEF SameButAcked
    <2>. QED
      BY <1>3, <1>4, <2>1, Zenon DEF Shrunk
  <1>6. una \in Nat
    <2>1. c.snd_una \in Nat
      BY DEF ControlBlock
    <2>. QED
      BY <1>5, <2>1, WrappedNat
  <1>7. ShrinkBuf(r) = [r EXCEPT !.snd_una = una]
    BY <1>4, Zenon DEF ShrinkBuf
  <1>8. PICK e : e = [r EXCEPT !.snd_una = una]
    OBVIOUS
  <1>9. /\ e \in RawBlock /\ e.snd_una = una
        /\ e.conv = r.conv /\ e.rmt_wnd = r.rmt_wnd
        /\ e.cwnd = r.cwnd /\ e.ssthresh = r.ssthresh
        /\ e.tell = r.tell /\ e.probe_wait = r.probe_wait
        /\ e.snd_nxt = r.snd_nxt /\ e.snd_queue = r.snd_queue
        /\ e.snd_buf = r.snd_buf /\ e.rcv_nxt = r.rcv_nxt
        /\ e.rcv_queue = r.rcv_queue /\ e.rcv_buf = r.rcv_buf
        /\ e.acklist = r.acklist
    BY <1>6, <1>8 DEF RawBlock
  <1>10. ShowsRest(e, c) /\ ShowsAcks(e, c)
    BY <1>9, Zenon DEF ShowsRest, ShowsAcks, SameButAcked
  <1>11. ShowsSent(e, c) /\ ShowsReceived(e, c)
    BY <1>9, Zenon DEF ShowsSent, ShowsReceived, SameButAcked
  <1>. QED
    BY <1>5, <1>7, <1>8, <1>9, <1>10, <1>11, Zenon DEF Shows

(* ikcp_parse_una and the ikcp_shrink_buf behind it.                       *)
LEMMA UnaShows ==
    ASSUME NEW k \in ControlBlock, NEW c \in ControlBlock, NEW r, Shows(r, k),
           NEW una \in Nat, SentFrom(k.snd_una, k),
           una <= k.snd_nxt, k.snd_una - una <= Life,
           c.snd_buf = {x \in k.snd_buf : x.sn >= una},
           SameButAcked(c, k), Shrunk(c)
    PROVE  Shows(ShrinkBuf(ParseUna(r, Wrapped(una))), c)
  <1>1. /\ k.snd_una \in Nat /\ k.snd_nxt \in Nat /\ k.snd_buf \in SUBSET Numbered
        /\ c.snd_buf \in SUBSET k.snd_buf
    BY DEF ControlBlock
  <1>2. r \in RawBlock /\ IsList(r.snd_buf, k.snd_buf)
    BY DEF Shows, ShowsSent
  <1>3. PICK n, s : Counts(s, n, k.snd_buf) /\ r.snd_buf = InMemory(s)
    BY <1>2 DEF IsList
  <1>4. \A y \in k.snd_buf : -(Mod \div 2) <= una - y.sn /\ una - y.sn < Mod \div 2
    <2>. TAKE y \in k.snd_buf
    <2>1. y.sn \in Nat /\ k.snd_una <= y.sn /\ y.sn < k.snd_nxt
          /\ k.snd_nxt <= k.snd_una + SndWnd
      BY <1>1 DEF SentFrom, Numbered
    <2>. QED
      BY <1>1, <2>1, SerialConstants
  <1>5. PICK stop : stop = StopAt(r.snd_buf, Wrapped(una))
    OBVIOUS
  <1>6. /\ stop \in 1 .. n + 1
        /\ \A i \in 1 .. n : s[i].sn >= una <=> i >= stop
    BY <1>1, <1>3, <1>4, <1>5, StopProperty
  <1>7. n \in Nat /\ s \in [1 .. n -> Numbered] /\ \A i \in 1 .. n : s[i] \in k.snd_buf
    <2>1. n \in Nat /\ s \in [1 .. n -> Numbered]
      BY <1>1, <1>3, CountsType
    <2>. QED
      BY <1>3, <2>1 DEF Counts
  <1>8. Len(r.snd_buf) = n
    BY <1>3, <1>7, InMemoryAt
  <1>9. PICK m \in 0 .. n : m + 1 = stop
    <2>1. stop - 1 \in 0 .. n /\ (stop - 1) + 1 = stop
      BY <1>6, <1>7
    <2>. QED
      BY <2>1
  <1>10. \A i \in 1 .. n : s[i] \in c.snd_buf <=> i > m
    <2>. TAKE i \in 1 .. n
    <2>1. s[i] \in c.snd_buf <=> s[i].sn >= una
      BY <1>7
    <2>2. i >= stop <=> i > m
      BY <1>7, <1>9
    <2>. QED
      BY <1>6, <2>1, <2>2
  <1>11. PICK l : l = SubSeq(r.snd_buf, stop, n)
    OBVIOUS
  <1>12. IsList(l, c.snd_buf)
    BY <1>1, <1>3, <1>9, <1>10, <1>11, SuffixListed
  <1>13. l \in Seq(Numbered)
    BY <1>1, <1>12, ListType
  <1>14. ParseUna(r, Wrapped(una)) = [r EXCEPT !.snd_buf = l]
    <2>1. ParseUna(r, Wrapped(una))
            = [r EXCEPT !.snd_buf = SubSeq(@, stop, Len(@))]
      BY <1>5, Zenon DEF ParseUna, StopAt
    <2>. QED
      BY <1>8, <1>11, <2>1, Zenon
  <1>15. PICK e : e = [r EXCEPT !.snd_buf = l]
    OBVIOUS
  <1>16. /\ e \in RawBlock /\ e.snd_buf = l
         /\ e.conv = r.conv /\ e.rmt_wnd = r.rmt_wnd
         /\ e.cwnd = r.cwnd /\ e.ssthresh = r.ssthresh
         /\ e.tell = r.tell /\ e.probe_wait = r.probe_wait
         /\ e.snd_nxt = r.snd_nxt /\ e.snd_queue = r.snd_queue
         /\ e.rcv_nxt = r.rcv_nxt
         /\ e.rcv_queue = r.rcv_queue /\ e.rcv_buf = r.rcv_buf
         /\ e.acklist = r.acklist
    BY <1>2, <1>13, <1>15 DEF RawBlock
  <1>17. /\ ShowsRest(e, k) /\ ShowsReceived(e, k) /\ ShowsAcks(e, k)
         /\ e.snd_nxt = Wrapped(k.snd_nxt) /\ e.snd_queue = k.snd_queue
    BY <1>16, Zenon DEF Shows, ShowsRest, ShowsSent, ShowsReceived, ShowsAcks
  <1>18. e \in RawBlock /\ IsList(e.snd_buf, c.snd_buf)
    BY <1>12, <1>16
  <1>19. Shows(ShrinkBuf(e), c)
    BY <1>17, <1>18, ShrinkShows
  <1>. QED
    BY <1>14, <1>15, <1>19

(* One ACK command: ikcp_parse_ack and the ikcp_shrink_buf behind it.      *)
LEMMA AckShows ==
    ASSUME NEW k \in ControlBlock, NEW c \in ControlBlock, NEW r, Shows(r, k),
           NEW low \in Nat, SentFrom(low, k), Shrunk(k),
           NEW x \in Nat, x < k.snd_nxt, low - x <= Life,
           c.snd_buf = {y \in k.snd_buf : y.sn # x},
           SameButAcked(c, k), Shrunk(c)
    PROVE  Shows(ParseAck(r, Wrapped(x)), c)
  <1>1. /\ k.snd_una \in Nat /\ k.snd_nxt \in Nat /\ k.snd_buf \in SUBSET Numbered
        /\ c.snd_buf \in SUBSET Numbered
    BY DEF ControlBlock
  <1>2. /\ r \in RawBlock /\ IsList(r.snd_buf, k.snd_buf)
        /\ r.snd_una = Wrapped(k.snd_una) /\ r.snd_nxt = Wrapped(k.snd_nxt)
    BY DEF Shows, ShowsSent
  <1>3. PICK n, s : Counts(s, n, k.snd_buf) /\ r.snd_buf = InMemory(s)
    BY <1>2 DEF IsList
  <1>4. /\ low <= k.snd_una /\ k.snd_una <= k.snd_nxt /\ k.snd_nxt <= low + SndWnd
        /\ \A y \in k.snd_buf : y.sn \in Nat /\ k.snd_una <= y.sn /\ y.sn < k.snd_nxt
    BY <1>1 DEF SentFrom, Numbered
  <1>5. \A y \in k.snd_buf : -(Mod \div 2) <= x - y.sn /\ x - y.sn < Mod \div 2
    <2>. TAKE y \in k.snd_buf
    <2>1. PICK z \in Nat : z = y.sn /\ k.snd_una <= z /\ z < k.snd_nxt
      BY <1>4
    <2>2. -(Mod \div 2) <= x - z /\ x - z < Mod \div 2
      BY <1>1, <1>4, <2>1, SerialConstants
    <2>. QED
      BY <2>1, <2>2
  <1>6. ITimeDiff(Wrapped(x), r.snd_una) = x - k.snd_una
    <2>1. -(Mod \div 2) <= x - k.snd_una /\ x - k.snd_una < Mod \div 2
      BY <1>1, <1>4, SerialConstants
    <2>. QED
      BY <1>1, <1>2, <2>1, PlainDifference
  <1>7. ITimeDiff(Wrapped(x), r.snd_nxt) = x - k.snd_nxt
    <2>1. -(Mod \div 2) <= x - k.snd_nxt /\ x - k.snd_nxt < Mod \div 2
      BY <1>1, <1>4, SerialConstants
    <2>. QED
      BY <1>1, <1>2, <2>1, PlainDifference
  <1>8. PICK stop : stop = StopAt(r.snd_buf, Wrapped(x))
    OBVIOUS
  <1>9. /\ stop \in 1 .. n + 1
        /\ \A i \in 1 .. n : s[i].sn >= x <=> i >= stop
    BY <1>1, <1>3, <1>5, <1>8, StopProperty
  <1>10. /\ n \in Nat /\ s \in [1 .. n -> Numbered]
         /\ \A i \in 1 .. n : s[i] \in k.snd_buf
         /\ \A y \in k.snd_buf : \E i \in 1 .. n : s[i] = y
         /\ \A i, j \in 1 .. n : i < j => s[i].sn < s[j].sn
    <2>1. n \in Nat /\ s \in [1 .. n -> Numbered]
      BY <1>1, <1>3, CountsType
    <2>2. s \in [1 .. n -> k.snd_buf]
      BY <1>3 DEF Counts
    <2>. QED
      BY <1>3, <2>1, <2>2, Zenon DEF Counts
  <1>11. /\ Len(r.snd_buf) = n
         /\ \A i \in 1 .. n : r.snd_buf[i].sn = Wrapped(s[i].sn)
    BY <1>3, <1>10, InMemoryAt
  <1>. DEFINE misses == \/ ITimeDiff(Wrapped(x), r.snd_una) < 0
                        \/ ITimeDiff(Wrapped(x), r.snd_nxt) >= 0
                        \/ stop > Len(r.snd_buf)
                        \/ r.snd_buf[stop].sn # Wrapped(x)
  <1>12. ParseAck(r, Wrapped(x)) =
           IF misses THEN r
           ELSE ShrinkBuf([r EXCEPT !.snd_buf = RemoveAt(@, stop)])
    BY <1>8, Zenon DEF ParseAck, StopAt
  <1>13. CASE misses
    <2>1. \A i \in 1 .. n : s[i].sn # x
      <3>1. CASE x < k.snd_una
        <4>. TAKE i \in 1 .. n
        <4>1. s[i].sn \in Nat /\ k.snd_una <= s[i].sn
          BY <1>4, <1>10
        <4>. QED
          BY <1>1, <3>1, <4>1
      <3>2. CASE stop > n
        <4>. TAKE i \in 1 .. n
        <4>1. ~ (i >= stop) /\ s[i].sn \in Nat
          BY <1>4, <1>9, <1>10, <3>2
        <4>. QED
          BY <1>9, <4>1
      <3>3. CASE stop <= n /\ r.snd_buf[stop].sn # Wrapped(x)
        <4>1. stop \in 1 .. n
          BY <1>9, <1>10, <3>3
        <4>2. s[stop].sn # x
          BY <1>11, <3>3, <4>1
        <4>3. s[stop].sn \in Nat /\ s[stop].sn >= x
          BY <1>4, <1>9, <1>10, <4>1
        <4>. TAKE i \in 1 .. n
        <4>4. s[i].sn \in Nat
          BY <1>4, <1>10
        <4>5. CASE i < stop
          <5>1. ~ (i >= stop)
            BY <4>1, <4>5
          <5>. QED
            BY <1>9, <4>4, <5>1
        <4>6. CASE i = stop
          BY <4>2, <4>6
        <4>7. CASE stop < i
          BY <1>10, <4>1, <4>2, <4>3, <4>4, <4>7
        <4>. QED
          BY <1>9, <1>10, <4>5, <4>6, <4>7
      <3>4. x < k.snd_una \/ stop > n \/ (stop <= n /\ r.snd_buf[stop].sn # Wrapped(x))
        <4>1. ITimeDiff(Wrapped(x), r.snd_una) < 0 => x < k.snd_una
          BY <1>1, <1>6
        <4>2. ~ (ITimeDiff(Wrapped(x), r.snd_nxt) >= 0)
          BY <1>1, <1>7
        <4>. QED
          BY <1>9, <1>10, <1>11, <1>13, <4>1, <4>2
      <3>. QED
        BY <3>1, <3>2, <3>3, <3>4
    <2>2. c.snd_buf = k.snd_buf
      BY <1>10, <2>1
    <2>3. c.snd_una = k.snd_una
      BY <2>2, Zenon DEF Shrunk, SameButAcked
    <2>4. Shows(r, c)
      BY <2>2, <2>3, Zenon
      DEF Shows, ShowsRest, ShowsSent, ShowsReceived, ShowsAcks, SameButAcked
    <2>. QED
      BY <1>12, <1>13, <2>4
  <1>14. CASE ~ misses
    <2>1. stop \in 1 .. n /\ Wrapped(s[stop].sn) = Wrapped(x)
      BY <1>9, <1>10, <1>11, <1>14
    <2>2. s[stop] \in k.snd_buf
      BY <1>10, <2>1
    <2>3. PICK z \in Nat : z = s[stop].sn
      BY <1>4, <2>2
    <2>4. z = x
      <3>1. -(Mod \div 2) <= x - z /\ x - z < Mod \div 2
        BY <1>5, <2>2, <2>3
      <3>2. -Mod < z - x /\ z - x < Mod
        BY <2>3, <3>1, SerialConstants
      <3>3. Wrapped(z) = Wrapped(x)
        BY <2>1, <2>3
      <3>. QED
        BY <3>2, <3>3, WrappedApart
    <2>5. c.snd_buf = k.snd_buf \ {s[stop]}
      <3>1. \A y \in k.snd_buf : y.sn = x => y = s[stop]
        <4>. TAKE y \in k.snd_buf
        <4>. HAVE y.sn = x
        <4>1. PICK i \in 1 .. n : s[i] = y
          BY <1>10
        <4>2. s[i].sn = s[stop].sn
          BY <2>3, <2>4, <4>1
        <4>3. i = stop
          BY <1>1, <1>3, <2>1, <4>2, CountsApart
        <4>. QED
          BY <4>1, <4>3
      <3>. QED
        BY <2>3, <2>4, <3>1
    <2>6. PICK l : l = RemoveAt(r.snd_buf, stop)
      OBVIOUS
    <2>7. IsList(l, c.snd_buf)
      BY <1>1, <1>3, <2>1, <2>5, <2>6, RemoveListed
    <2>8. l \in Seq(Numbered)
      BY <1>1, <2>7, ListType
    <2>9. PICK e : e = [r EXCEPT !.snd_buf = l]
      OBVIOUS
    <2>10. ParseAck(r, Wrapped(x)) = ShrinkBuf(e)
      BY <1>12, <1>14, <2>6, <2>9, Zenon
    <2>11. /\ e \in RawBlock /\ e.snd_buf = l
           /\ e.conv = r.conv /\ e.rmt_wnd = r.rmt_wnd
           /\ e.cwnd = r.cwnd /\ e.ssthresh = r.ssthresh
           /\ e.tell = r.tell /\ e.probe_wait = r.probe_wait
           /\ e.snd_nxt = r.snd_nxt /\ e.snd_queue = r.snd_queue
           /\ e.rcv_nxt = r.rcv_nxt
           /\ e.rcv_queue = r.rcv_queue /\ e.rcv_buf = r.rcv_buf
           /\ e.acklist = r.acklist
      BY <1>2, <2>8, <2>9 DEF RawBlock
    <2>12. /\ ShowsRest(e, k) /\ ShowsReceived(e, k) /\ ShowsAcks(e, k)
           /\ e.snd_nxt = Wrapped(k.snd_nxt) /\ e.snd_queue = k.snd_queue
      BY <2>11, Zenon DEF Shows, ShowsRest, ShowsSent, ShowsReceived, ShowsAcks
    <2>13. e \in RawBlock /\ IsList(e.snd_buf, c.snd_buf)
      BY <2>7, <2>11
    <2>14. Shows(ShrinkBuf(e), c)
      BY <2>12, <2>13, ShrinkShows
    <2>. QED
      BY <2>10, <2>14
  <1>. QED
    BY <1>13, <1>14

(* The calls return control blocks, whatever the list holds.               *)
LEMMA ShrinkBufType ==
    ASSUME NEW r \in RawBlock
    PROVE  ShrinkBuf(r) \in RawBlock
  <1>1. PICK una : una = IF r.snd_buf = <<>> THEN r.snd_nxt ELSE r.snd_buf[1].sn
    OBVIOUS
  <1>2. r.snd_nxt \in Nat /\ r.snd_buf \in Seq(Numbered)
    BY DEF RawBlock
  <1>3. r.snd_buf # <<>> => r.snd_buf[1] \in Numbered
    BY <1>2
  <1>4. una \in Nat
    BY <1>1, <1>2, <1>3 DEF Numbered
  <1>5. ShrinkBuf(r) = [r EXCEPT !.snd_una = una]
    BY <1>1, Zenon DEF ShrinkBuf
  <1>. QED
    BY <1>4, <1>5 DEF RawBlock

(* Lists without one of their segments, ...                                *)
LEMMA RemoveAtType ==
    ASSUME NEW T, NEW l \in Seq(T), NEW i \in 1 .. Len(l)
    PROVE  RemoveAt(l, i) \in Seq(T)
  <1>1. SubSeq(l, 1, i - 1) \in Seq(T) /\ SubSeq(l, i + 1, Len(l)) \in Seq(T)
    OBVIOUS
  <1>. QED
    BY <1>1, Concatenated DEF RemoveAt

(* ... and control blocks with such a list.                                *)
LEMMA ParseAckType ==
    ASSUME NEW r \in RawBlock, NEW x
    PROVE  ParseAck(r, x) \in RawBlock
  <1>1. r.snd_buf \in Seq(Numbered) /\ Len(r.snd_buf) \in Nat
    BY DEF RawBlock
  <1>2. PICK n \in Nat : n = Len(r.snd_buf)
    BY <1>1
  <1>3. PICK P : P = {i \in 1 .. Len(r.snd_buf) + 1 :
                         \/ i = Len(r.snd_buf) + 1
                         \/ ITimeDiff(x, r.snd_buf[i].sn) <= 0}
    OBVIOUS
  <1>4. n + 1 \in P /\ P \in SUBSET Nat /\ P \subseteq 1 .. n + 1
    BY <1>2, <1>3
  <1>5. PICK stop : stop = Least(P)
    OBVIOUS
  <1>6. stop \in 1 .. n + 1
    BY <1>4, <1>5, LeastIsLeast
  <1>. DEFINE misses == \/ ITimeDiff(x, r.snd_una) < 0
                        \/ ITimeDiff(x, r.snd_nxt) >= 0
                        \/ stop > Len(r.snd_buf)
                        \/ r.snd_buf[stop].sn # x
  <1>7. ParseAck(r, x) =
           IF misses THEN r
           ELSE ShrinkBuf([r EXCEPT !.snd_buf = RemoveAt(@, stop)])
    BY <1>3, <1>5, Zenon DEF ParseAck
  <1>8. CASE misses
    BY <1>7, <1>8
  <1>9. CASE ~ misses
    <2>1. stop \in 1 .. Len(r.snd_buf)
      BY <1>2, <1>6, <1>9
    <2>2. PICK l : l = RemoveAt(r.snd_buf, stop)
      OBVIOUS
    <2>3. l \in Seq(Numbered)
      BY <1>1, <2>1, <2>2, RemoveAtType
    <2>4. [r EXCEPT !.snd_buf = l] \in RawBlock
      BY <2>3 DEF RawBlock
    <2>. QED
      BY <1>7, <1>9, <2>2, <2>4, ShrinkBufType, Zenon
  <1>. QED
    BY <1>8, <1>9

(* The loop over the commands takes its steps one after the other.         *)
LEMMA Unrolled ==
    ASSUME NEW T, NEW n \in Nat, NEW first \in T, NEW step \in Steps(n, T)
    PROVE  \E f : /\ f \in [0 .. n -> T]
                  /\ f = [i \in 0 .. n |-> IF i = 0 THEN first
                                           ELSE step[i][f[i - 1]]]
  <1>1. PICK f : Takes(f, n, T, first, step)
    BY RecursiveFunction
  <1>2. /\ f \in [0 .. n -> T] /\ f[0] = first
        /\ \A i \in 1 .. n : f[i] = step[i][f[i - 1]]
    BY <1>1 DEF Takes
  <1>3. ASSUME NEW i \in 0 .. n
        PROVE  f[i] = IF i = 0 THEN first ELSE step[i][f[i - 1]]
    <2>1. CASE i = 0
      BY <1>2, <2>1
    <2>2. CASE i # 0
      <3>1. i \in 1 .. n
        BY <2>2
      <3>. QED
        BY <1>2, <2>2, <3>1
    <2>. QED
      BY <2>1, <2>2
  <1>4. f = [i \in 0 .. n |-> f[i]]
    BY <1>2
  <1>5. f = [i \in 0 .. n |-> IF i = 0 THEN first ELSE step[i][f[i - 1]]]
    BY <1>3, <1>4, Zenon
  <1>. QED
    BY <1>2, <1>5

(* The ACK commands of a datagram, one after the other.                    *)
LEMMA ParseAcksSteps ==
    ASSUME NEW r \in RawBlock, NEW n \in Nat, NEW acks, Len(acks) = n
    PROVE  \E f : /\ f[0] = r /\ ParseAcks(r, acks) = f[n]
                  /\ \A i \in 1 .. n : f[i] = ParseAck(f[i - 1], acks[i])
  <1>. DEFINE Unrolls(f) ==
                  f = [i \in 0 .. Len(acks) |->
                         IF i = 0 THEN r ELSE ParseAck(f[i - 1], acks[i])]
              step == [i \in 1 .. n |-> [e \in RawBlock |-> ParseAck(e, acks[i])]]
  <1>1. step \in Steps(n, RawBlock)
    BY ParseAckType DEF Steps
  <1>2. \A i \in 1 .. n : \A e \in RawBlock : step[i][e] = ParseAck(e, acks[i])
    OBVIOUS
  <1>3. PICK g : /\ g \in [0 .. n -> RawBlock]
                 /\ g = [i \in 0 .. n |-> IF i = 0 THEN r ELSE step[i][g[i - 1]]]
    <2>. HIDE DEF step
    <2>. QED
      BY <1>1, Unrolled
  <1>. HIDE DEF step
  <1>4. \A i \in 0 .. n : (IF i = 0 THEN r ELSE step[i][g[i - 1]])
                            = (IF i = 0 THEN r ELSE ParseAck(g[i - 1], acks[i]))
    <2>. TAKE i \in 0 .. n
    <2>1. CASE i = 0
      BY <2>1
    <2>2. CASE i # 0
      <3>1. i \in 1 .. n /\ i - 1 \in 0 .. n
        BY <2>2
      <3>2. g[i - 1] \in RawBlock
        BY <1>3, <3>1
      <3>3. step[i][g[i - 1]] = ParseAck(g[i - 1], acks[i])
        BY <1>2, <3>1, <3>2
      <3>. QED
        BY <2>2, <3>3
    <2>. QED
      BY <2>1, <2>2
  <1>5. Unrolls(g)
    <2>1. g = [i \in 0 .. n |-> IF i = 0 THEN r ELSE ParseAck(g[i - 1], acks[i])]
      BY <1>3, <1>4, Zenon
    <2>. QED
      BY <2>1, Zenon
  <1>6. PICK f : f = CHOOSE h : Unrolls(h)
    OBVIOUS
  <1>7. Unrolls(f)
    BY <1>5, <1>6, Zenon
  <1>8. ParseAcks(r, acks) = f[n]
    BY <1>6, Zenon DEF ParseAcks
  <1>9. f = [i \in 0 .. n |-> IF i = 0 THEN r ELSE ParseAck(f[i - 1], acks[i])]
    BY <1>7, Zenon
  <1>10. 0 \in 0 .. n /\ \A i \in 1 .. n : i \in 0 .. n /\ i # 0
    OBVIOUS
  <1>11. f[0] = r
    BY <1>9, <1>10, Zenon
  <1>12. \A i \in 1 .. n : f[i] = ParseAck(f[i - 1], acks[i])
    BY <1>9, <1>10, Zenon
  <1>. QED
    BY <1>8, <1>11, <1>12

(* A control block with fewer segments in snd_buf.                         *)
LEMMA LessAcked ==
    ASSUME NEW k \in ControlBlock, NEW S \in SUBSET k.snd_buf
    PROVE  \E c \in ControlBlock :
              c.snd_buf = S /\ SameButAcked(c, k) /\ Shrunk(c)
  <1>1. k.snd_buf \in SUBSET Numbered /\ k.snd_nxt \in Nat
    BY DEF ControlBlock
  <1>2. S \in SUBSET Numbered
    BY <1>1
  <1>3. PICK una : una = IF S = {} THEN k.snd_nxt ELSE Least(Sns(S))
    OBVIOUS
  <1>4. una \in Nat
    BY <1>1, <1>2, <1>3, LeastOfSns
  <1>5. PICK c : c = [k EXCEPT !.snd_buf = S, !.snd_una = una]
    OBVIOUS
  <1>6. /\ c \in ControlBlock /\ c.snd_buf = S /\ c.snd_una = una
        /\ c.snd_nxt = k.snd_nxt /\ c.snd_queue = k.snd_queue
        /\ c.rcv_nxt = k.rcv_nxt /\ c.rcv_queue = k.rcv_queue
        /\ c.rcv_buf = k.rcv_buf
        /\ c.acklist = k.acklist
        /\ c.conv = k.conv /\ c.rmt_wnd = k.rmt_wnd
        /\ c.cwnd = k.cwnd /\ c.ssthresh = k.ssthresh
        /\ c.tell = k.tell /\ c.probe_wait = k.probe_wait
    BY <1>2, <1>4, <1>5 DEF ControlBlock
  <1>7. SameButAcked(c, k)
    BY <1>6, Zenon DEF SameButAcked
  <1>8. Shrunk(c)
    BY <1>3, <1>6, Zenon DEF Shrunk
  <1>. QED
    BY <1>6, <1>7, <1>8

(* It has been sent from the same segment on, and snd_una has not gone     *)
(* back.                                                                   *)
LEMMA LessSentFrom ==
    ASSUME NEW k \in ControlBlock, NEW c \in ControlBlock,
           c.snd_buf \subseteq k.snd_buf, SameButAcked(c, k), Shrunk(c),
           NEW low, SentFrom(low, k)
    PROVE  SentFrom(low, c) /\ k.snd_una <= c.snd_una
  <1>1. /\ k.snd_una \in Nat /\ k.snd_nxt \in Nat /\ c.snd_una \in Nat
        /\ k.snd_buf \in SUBSET Numbered /\ c.snd_buf \in SUBSET Numbered
    BY DEF ControlBlock
  <1>2. /\ low \in Nat /\ low <= k.snd_una /\ k.snd_una <= k.snd_nxt
        /\ k.snd_nxt <= low + SndWnd
        /\ \A x \in k.snd_buf : k.snd_una <= x.sn /\ x.sn < k.snd_nxt
    BY Zenon DEF SentFrom
  <1>3. c.snd_nxt = k.snd_nxt
    BY DEF SameButAcked
  <1>4. k.snd_una <= c.snd_una /\ c.snd_una <= k.snd_nxt
    <2>1. CASE c.snd_buf = {}
      <3>1. c.snd_una = k.snd_nxt
        BY <1>3, <2>1 DEF Shrunk
      <3>. QED
        BY <1>1, <1>2, <3>1
    <2>2. CASE c.snd_buf # {}
      <3>1. c.snd_una = Least(Sns(c.snd_buf))
        BY <2>2, Zenon DEF Shrunk
      <3>2. Sns(c.snd_buf) \in SUBSET Nat /\ Sns(c.snd_buf) # {}
        BY <1>1, <2>2, SnsType DEF Sns
      <3>3. c.snd_una \in Sns(c.snd_buf)
        BY <3>1, <3>2, LeastIsLeast
      <3>4. PICK x \in c.snd_buf : x.sn = c.snd_una
        BY <3>3 DEF Sns
      <3>. QED
        BY <1>1, <1>2, <3>4
    <2>. QED
      BY <2>1, <2>2
  <1>5. \A x \in c.snd_buf : c.snd_una <= x.sn
    <2>. TAKE x \in c.snd_buf
    <2>1. c.snd_una = Least(Sns(c.snd_buf))
      BY Zenon DEF Shrunk
    <2>2. Sns(c.snd_buf) \in SUBSET Nat /\ x.sn \in Sns(c.snd_buf)
      BY <1>1, SnsType DEF Sns
    <2>. QED
      BY <2>1, <2>2, LeastIsLeast
  <1>6. \A x \in c.snd_buf : x.sn < c.snd_nxt
    BY <1>2, <1>3
  <1>7. low <= c.snd_una /\ c.snd_una <= c.snd_nxt /\ c.snd_nxt <= low + SndWnd
    BY <1>1, <1>2, <1>3, <1>4
  <1>. QED
    BY <1>2, <1>4, <1>5, <1>6, <1>7, Zenon DEF SentFrom

(* What the acknowledgements and the una of an encoding take out of the    *)
(* buffer: c is k without them, and all of them are within a half circle.  *)
Acknowledges(r, k, una, n, acks, wire, c) ==
    /\ Shows(r, k) /\ SentFrom(k.snd_una, k) /\ Shrunk(k)
    /\ una <= k.snd_nxt /\ k.snd_una - una <= Life
    /\ acks \in [1 .. n -> Nat]
    /\ \A i \in 1 .. n : acks[i] < k.snd_nxt /\ k.snd_una - acks[i] <= Life
    /\ Len(wire) = n
    /\ \A i \in 1 .. n : wire[i] = Wrapped(acks[i])
    /\ c.snd_buf = {y \in k.snd_buf : /\ y.sn >= una
                                      /\ \A i \in 1 .. n : y.sn # acks[i]}
    /\ SameButAcked(c, k) /\ Shrunk(c)

(* The acknowledgements of a datagram, one after the other.                *)
LEMMA AcksShow ==
    ASSUME NEW k \in ControlBlock, NEW r, NEW una \in Nat, NEW n \in Nat,
           NEW acks, NEW wire, NEW c \in ControlBlock,
           Acknowledges(r, k, una, n, acks, wire, c)
    PROVE  Shows(ParseAcks(ShrinkBuf(ParseUna(r, Wrapped(una))), wire), c)
  <1>1. Shows(r, k) /\ SentFrom(k.snd_una, k) /\ Shrunk(k)
    BY Zenon DEF Acknowledges
  <1>2. una <= k.snd_nxt /\ k.snd_una - una <= Life
    BY Zenon DEF Acknowledges
  <1>3. /\ acks \in [1 .. n -> Nat]
        /\ \A i \in 1 .. n : acks[i] < k.snd_nxt /\ k.snd_una - acks[i] <= Life
    BY Zenon DEF Acknowledges
  <1>4. Len(wire) = n
    BY Zenon DEF Acknowledges
  <1>5. \A i \in 1 .. n : wire[i] = Wrapped(acks[i])
    BY Zenon DEF Acknowledges
  <1>6. c.snd_buf = {y \in k.snd_buf : /\ y.sn >= una
                                      /\ \A i \in 1 .. n : y.sn # acks[i]}
    BY Zenon DEF Acknowledges
  <1>7. SameButAcked(c, k) /\ Shrunk(c)
    BY Zenon DEF Acknowledges
  <1>. DEFINE left(i) == {y \in k.snd_buf : /\ y.sn >= una
                                            /\ \A j \in 1 .. i : y.sn # acks[j]}
              Stage(e, i) == /\ e \in ControlBlock /\ e.snd_buf = left(i)
                             /\ SameButAcked(e, k) /\ Shrunk(e)
  <1>8. PICK q : q = ShrinkBuf(ParseUna(r, Wrapped(una)))
    OBVIOUS
  <1>9. ASSUME NEW e, Stage(e, 0)
        PROVE  Shows(q, e)
    <2>1. e.snd_buf = {x \in k.snd_buf : x.sn >= una}
      BY <1>9
    <2>2. e \in ControlBlock /\ SameButAcked(e, k) /\ Shrunk(e)
      BY <1>9
    <2>. QED
      BY <1>1, <1>2, <1>8, <2>1, <2>2, UnaShows
  <1>10. ASSUME NEW i \in 0 .. n
        PROVE  \E e : Stage(e, i)
    <2>1. left(i) \in SUBSET k.snd_buf
      OBVIOUS
    <2>. HIDE DEF left
    <2>. QED
      BY <1>1, <2>1, LessAcked
  <1>11. q \in RawBlock
    <2>1. 0 \in 0 .. n
      OBVIOUS
    <2>. HIDE DEF Stage
    <2>2. PICK e : Stage(e, 0)
      BY <1>10, <2>1
    <2>3. Shows(q, e)
      BY <1>9, <2>2
    <2>. QED
      BY <2>3 DEF Shows
  <1>12. PICK f : /\ f[0] = q /\ ParseAcks(q, wire) = f[n]
                 /\ \A i \in 1 .. n : f[i] = ParseAck(f[i - 1], wire[i])
    <2>. HIDE DEF left, Stage
    <2>. QED
      BY <1>11, <1>4, ParseAcksSteps
  <1>13. ASSUME NEW i \in 1 .. n, NEW e, Stage(e, i - 1), Shows(f[i - 1], e),
               NEW g, Stage(g, i)
        PROVE  Shows(f[i], g)
    <2>1. /\ e \in ControlBlock /\ g \in ControlBlock
          /\ SameButAcked(e, k) /\ Shrunk(e) /\ SameButAcked(g, k) /\ Shrunk(g)
      BY <1>13
    <2>2. e.snd_buf \subseteq k.snd_buf
      BY <1>13
    <2>3. SentFrom(k.snd_una, e)
      BY <1>1, <2>1, <2>2, LessSentFrom
    <2>4. acks[i] \in Nat /\ acks[i] < e.snd_nxt /\ k.snd_una - acks[i] <= Life
      BY <1>3, <2>1 DEF SameButAcked
    <2>5. g.snd_buf = {y \in e.snd_buf : y.sn # acks[i]}
      <3>1. \A j \in 1 .. i : j = i \/ j \in 1 .. i - 1
        OBVIOUS
      <3>2. \A j \in 1 .. i - 1 : j \in 1 .. i
        OBVIOUS
      <3>3. i \in 1 .. i
        OBVIOUS
      <3>4. g.snd_buf = left(i) /\ e.snd_buf = left(i - 1)
        BY <1>13
      <3>5. \A y : y \in left(i) <=> y \in left(i - 1) /\ y.sn # acks[i]
        BY <3>1, <3>2, <3>3, Zenon
      <3>. QED
        BY <3>4, <3>5, Zenon
    <2>6. SameButAcked(g, e)
      BY <2>1, Zenon DEF SameButAcked
    <2>7. k.snd_una \in Nat
      BY DEF ControlBlock
    <2>8. Shows(ParseAck(f[i - 1], Wrapped(acks[i])), g)
      BY <1>13, <2>1, <2>3, <2>4, <2>5, <2>6, <2>7, AckShows
    <2>9. f[i] = ParseAck(f[i - 1], Wrapped(acks[i]))
      BY <1>12, <1>5, Zenon
    <2>. QED
      BY <2>8, <2>9, Zenon
  <1>. DEFINE Good == {i \in 0 .. n : \A e : Stage(e, i) => Shows(f[i], e)}
  <1>14. \A i \in 0 .. n : i \in Good
    <2>1. 0 \in Good
      <3>1. 0 \in 0 .. n
        OBVIOUS
      <3>. HIDE DEF Stage
      <3>. QED
        BY <1>9, <1>12, <3>1
    <2>2. ASSUME NEW i \in 1 .. n, i - 1 \in Good PROVE i \in Good
      <3>1. i \in 0 .. n /\ i - 1 \in 0 .. n
        OBVIOUS
      <3>. HIDE DEF Stage
      <3>2. PICK e : Stage(e, i - 1)
        BY <1>10, <3>1
      <3>3. Shows(f[i - 1], e)
        BY <2>2, <3>2
      <3>4. \A g : Stage(g, i) => Shows(f[i], g)
        BY <1>13, <3>2, <3>3
      <3>. QED
        BY <3>1, <3>4
    <2>. HIDE DEF Good
    <2>. QED
      BY <2>1, <2>2, Climb
  <1>15. Stage(c, n)
    BY <1>6, <1>7
  <1>16. n \in Good
    <2>. HIDE DEF Good
    <2>1. n \in 0 .. n
      OBVIOUS
    <2>. QED
      BY <1>14, <2>1
  <1>17. Shows(f[n], c)
    <2>. HIDE DEF Stage
    <2>. QED
      BY <1>15, <1>16
  <1>. QED
    BY <1>8, <1>12, <1>17

----------------------------------------------------------------------------
(* Data: what moves to rcv_queue and what is inserted in rcv_buf.          *)

(* The segments of a list have different numbers.                          *)
LEMMA ListedOnce ==
    ASSUME NEW S \in SUBSET Numbered, NEW l, IsList(l, S),
           NEW x \in S, NEW y \in S, x.sn = y.sn
    PROVE  x = y
  <1>1. PICK n, s : Counts(s, n, S)
    BY DEF IsList
  <1>2. \A z \in S : \E i \in 1 .. n : s[i] = z
    BY <1>1, Zenon DEF Counts
  <1>3. PICK i \in 1 .. n : s[i] = x
    BY <1>2
  <1>4. PICK j \in 1 .. n : s[j] = y
    BY <1>2
  <1>5. i = j
    BY <1>1, <1>3, <1>4, CountsApart
  <1>. QED
    BY <1>3, <1>4, <1>5

(* Only one number of segments continues the stream, ends where one is     *)
(* missing, and fits.                                                      *)
LEMMA RunIs ==
    ASSUME NEW k \in ControlBlock, NEW n \in 0 .. WndUnused(k),
           \A j \in 0 .. n - 1 : k.rcv_nxt + j \in Sns(k.rcv_buf),
           n = WndUnused(k) \/ k.rcv_nxt + n \notin Sns(k.rcv_buf)
    PROVE  InOrderRun(k) = n
  <1>1. WndUnused(k) \in Nat
    BY WndUnusedNat
  <1>2. PICK m, u : m = InOrderRun(k) /\ u = WndUnused(k)
    OBVIOUS
  <1>3. /\ m \in 0 .. u
        /\ \A j \in 0 .. m - 1 : k.rcv_nxt + j \in Sns(k.rcv_buf)
        /\ m = u \/ k.rcv_nxt + m \notin Sns(k.rcv_buf)
    BY <1>2, InOrderRunProperty
  <1>4. u \in Nat /\ n \in 0 .. u /\ (n = u \/ k.rcv_nxt + n \notin Sns(k.rcv_buf))
    BY <1>1, <1>2
  <1>5. ~ (m < n)
    <2>. SUFFICES ASSUME m < n PROVE FALSE
      OBVIOUS
    <2>1. m \in 0 .. n - 1 /\ m # u
      BY <1>3, <1>4
    <2>. QED
      BY <1>3, <2>1
  <1>6. ~ (n < m)
    <2>. SUFFICES ASSUME n < m PROVE FALSE
      OBVIOUS
    <2>1. n \in 0 .. m - 1 /\ n # u
      BY <1>3, <1>4
    <2>. QED
      BY <1>3, <1>4, <2>1
  <1>. QED
    BY <1>2, <1>3, <1>4, <1>5, <1>6

(* A list whose first number is at least low cannot lag behind it.         *)
LEMMA ListClimbs ==
    ASSUME NEW S \in SUBSET Numbered, NEW n, NEW s, Counts(s, n, S),
           NEW low \in Nat, \A x \in S : low <= x.sn
    PROVE  \A i \in 1 .. n : low + i - 1 <= s[i].sn
  <1>1. /\ n \in Nat
        /\ \A i \in 1 .. n : s[i] \in S /\ s[i].sn \in Nat
        /\ \A i, j \in 1 .. n : i < j => s[i].sn < s[j].sn
    BY CountsType, Zenon
  <1>. DEFINE Good == {i \in 0 .. n : i = 0 \/ low + i - 1 <= s[i].sn}
  <1>2. 0 \in Good
    BY <1>1
  <1>3. ASSUME NEW i \in 1 .. n, i - 1 \in Good PROVE i \in Good
    <2>1. s[i].sn \in Nat /\ low <= s[i].sn
      BY <1>1
    <2>2. CASE i = 1
      BY <2>1, <2>2
    <2>3. CASE i # 1
      <3>1. i - 1 \in 1 .. n /\ i - 1 < i /\ i - 1 # 0
        BY <1>1, <2>3
      <3>2. s[i - 1].sn \in Nat /\ s[i - 1].sn < s[i].sn
        BY <1>1, <3>1
      <3>3. low + (i - 1) - 1 <= s[i - 1].sn
        BY <1>3, <3>1
      <3>. QED
        BY <2>1, <3>2, <3>3
    <2>. QED
      BY <2>2, <2>3
  <1>4. \A i \in 0 .. n : i \in Good
    <2>. HIDE DEF Good
    <2>. QED
      BY <1>1, <1>2, <1>3, Climb
  <1>. QED
    BY <1>1, <1>4

(* Moving what is available from rcv_buf to rcv_queue.                     *)
LEMMA AvailableShows ==
    ASSUME NEW k \in ControlBlock, NEW r, Shows(r, k), InWindow(k)
    PROVE  Shows(MoveAvailable(r), Drain(k))
  <1>1. /\ k.rcv_nxt \in Nat /\ k.rcv_buf \in SUBSET Numbered
        /\ k.rcv_queue \in Seq(Segment)
    BY DEF ControlBlock
  <1>2. /\ r \in RawBlock /\ IsList(r.rcv_buf, k.rcv_buf)
        /\ r.rcv_nxt = Wrapped(k.rcv_nxt) /\ r.rcv_queue = k.rcv_queue
    BY DEF Shows, ShowsReceived
  <1>3. PICK m, s : Counts(s, m, k.rcv_buf) /\ r.rcv_buf = InMemory(s)
    BY <1>2 DEF IsList
  <1>4. /\ m \in Nat /\ s \in [1 .. m -> Numbered]
        /\ \A i \in 1 .. m : s[i] \in k.rcv_buf
        /\ \A i \in 1 .. m : s[i].sn \in Nat
        /\ \A x \in k.rcv_buf : \E i \in 1 .. m : s[i] = x
        /\ \A i, j \in 1 .. m : i < j => s[i].sn < s[j].sn
    BY <1>1, <1>3, CountsType, Zenon
  <1>5. /\ r.rcv_buf \in Seq(Numbered) /\ Len(r.rcv_buf) = m
        /\ \A i \in 1 .. m : /\ r.rcv_buf[i].sn = Wrapped(s[i].sn)
                             /\ r.rcv_buf[i].seg = s[i].seg
    BY <1>3, <1>4, InMemoryAt
  <1>6. PICK nxt, u : nxt = k.rcv_nxt /\ u = WndUnused(k)
    OBVIOUS
  <1>7. nxt \in Nat /\ u \in Nat /\ WndUnused(r) = u /\ r.rcv_nxt = Wrapped(nxt)
    <2>1. u \in Nat
      BY <1>6, WndUnusedNat
    <2>2. WndUnused(r) = WndUnused(k)
      BY <1>2, Zenon DEF WndUnused
    <2>. QED
      BY <1>1, <1>2, <1>6, <2>1, <2>2
  <1>8. \A i \in 1 .. m : nxt + i - 1 <= s[i].sn /\ s[i].sn < nxt + RcvWnd
    <2>1. \A x \in k.rcv_buf : nxt <= x.sn /\ x.sn < nxt + RcvWnd
      BY <1>6, Zenon DEF InWindow
    <2>2. \A i \in 1 .. m : nxt + i - 1 <= s[i].sn
      BY <1>1, <1>3, <1>7, <2>1, ListClimbs
    <2>. QED
      BY <1>4, <2>1, <2>2
  <1>9. \A i \in 0 .. m - 1 :
           r.rcv_buf[i + 1].sn = Wrapped(r.rcv_nxt + i) <=> s[i + 1].sn = nxt + i
    <2>. TAKE i \in 0 .. m - 1
    <2>1. i + 1 \in 1 .. m
      BY <1>4
    <2>2. r.rcv_buf[i + 1].sn = Wrapped(s[i + 1].sn)
      BY <1>5, <2>1
    <2>3. Wrapped(r.rcv_nxt + i) = Wrapped(nxt + i)
      <3>1. i \in Int /\ nxt \in Int
        BY <1>4, <1>7
      <3>2. Wrapped(Wrapped(nxt) + i) = Wrapped(nxt + i)
        BY <3>1, WrappedSum
      <3>. QED
        BY <1>7, <3>2
    <2>4. PICK x \in Nat : x = s[i + 1].sn
      BY <1>4, <2>1
    <2>5. PICK y \in Nat : y = nxt + i
      BY <1>4, <1>7
    <2>6. -Mod < x - y /\ x - y < Mod
      <3>1. nxt + (i + 1) - 1 <= x /\ x < nxt + RcvWnd
        BY <1>8, <2>1, <2>4
      <3>. QED
        BY <1>4, <1>7, <2>5, <3>1, SerialConstants
    <2>7. Wrapped(x) = Wrapped(y) => x = y
      BY <2>6, WrappedApart
    <2>. QED
      BY <2>2, <2>3, <2>4, <2>5, <2>7
  <1>10. PICK P : P = {i \in 0 .. Len(r.rcv_buf) :
                         \/ i = Len(r.rcv_buf)
                         \/ i = WndUnused(r)
                         \/ r.rcv_buf[i + 1].sn # Wrapped(r.rcv_nxt + i)}
    OBVIOUS
  <1>11. P \in SUBSET Nat /\ m \in P /\ P \subseteq 0 .. m
         /\ (u \in 0 .. m => u \in P)
         /\ \A i \in 0 .. m - 1 : i \in P <=> (i = u \/ s[i + 1].sn # nxt + i)
    <2>1. P = {i \in 0 .. m : \/ i = m \/ i = u
                              \/ r.rcv_buf[i + 1].sn # Wrapped(r.rcv_nxt + i)}
      BY <1>5, <1>7, <1>10
    <2>2. m \in P /\ P \subseteq 0 .. m /\ (u \in 0 .. m => u \in P)
      BY <1>4, <2>1
    <2>3. \A i \in 0 .. m - 1 : i \in 0 .. m /\ i # m
      BY <1>4
    <2>4. \A i \in 0 .. m - 1 : i \in P <=> (i = u \/ s[i + 1].sn # nxt + i)
      BY <1>9, <2>1, <2>3, Zenon
    <2>. QED
      BY <1>4, <2>2, <2>4
  <1>12. PICK n : n = Least(P)
    OBVIOUS
  <1>13. n \in P /\ \A i \in P : n <= i
    BY <1>11, <1>12, LeastIsLeast
  <1>14. n \in 0 .. m /\ n <= u
    <2>1. n \in 0 .. m
      BY <1>11, <1>13
    <2>2. u <= m => n <= u
      BY <1>4, <1>7, <1>11, <1>13
    <2>. QED
      BY <1>4, <1>7, <2>1, <2>2
  <1>15. \A i \in 1 .. n : s[i].sn = nxt + i - 1
    <2>. TAKE i \in 1 .. n
    <2>1. i - 1 \in 0 .. m - 1 /\ ~ (n <= i - 1) /\ (i - 1) + 1 = i
      BY <1>4, <1>14
    <2>2. i - 1 \notin P
      BY <1>13, <2>1
    <2>3. s[(i - 1) + 1].sn = nxt + (i - 1)
      BY <1>11, <2>1, <2>2
    <2>. QED
      BY <1>4, <1>7, <1>14, <2>1, <2>3
  <1>16. InOrderRun(k) = n
    <2>1. \A j \in 0 .. n - 1 : nxt + j \in Sns(k.rcv_buf)
      <3>. TAKE j \in 0 .. n - 1
      <3>1. j + 1 \in 1 .. n /\ j + 1 \in 1 .. m
        BY <1>4, <1>14
      <3>2. s[j + 1].sn = nxt + (j + 1) - 1
        BY <1>15, <3>1
      <3>3. s[j + 1].sn = nxt + j
        BY <1>7, <3>1, <3>2
      <3>. QED
        BY <1>4, <3>1, <3>3 DEF Sns
    <2>2. n = u \/ nxt + n \notin Sns(k.rcv_buf)
      <3>. SUFFICES ASSUME n # u, NEW x \in k.rcv_buf, x.sn = nxt + n
                    PROVE  FALSE
        BY DEF Sns
      <3>1. PICK j \in 1 .. m : s[j] = x
        BY <1>4
      <3>2. s[j].sn = nxt + n
        BY <3>1
      <3>3. CASE j <= n
        <4>1. s[j].sn = nxt + j - 1
          BY <1>14, <1>15, <3>3
        <4>. QED
          BY <1>4, <1>7, <1>14, <3>2, <3>3, <4>1
      <3>4. CASE j > n
        <4>1. n \in 0 .. m - 1 /\ n + 1 \in 1 .. m
          BY <1>4, <1>14, <3>4
        <4>2. s[n + 1].sn # nxt + n
          BY <1>11, <1>13, <4>1
        <4>3. nxt + (n + 1) - 1 <= s[n + 1].sn /\ s[n + 1].sn \in Nat
          BY <1>4, <1>8, <4>1
        <4>4. nxt + n < s[n + 1].sn
          BY <1>7, <4>1, <4>2, <4>3
        <4>5. s[n + 1].sn <= s[j].sn
          <5>1. CASE j = n + 1
            BY <4>3, <5>1
          <5>2. CASE n + 1 < j
            BY <1>4, <4>1, <5>2
          <5>. QED
            BY <1>4, <3>4, <4>1, <5>1, <5>2
        <4>. QED
          BY <1>4, <1>7, <3>2, <4>1, <4>3, <4>4, <4>5
      <3>. QED
        BY <1>4, <1>14, <3>3, <3>4
    <2>3. n \in 0 .. WndUnused(k)
      BY <1>4, <1>6, <1>7, <1>14
    <2>. QED
      BY <1>6, <2>1, <2>2, <2>3, RunIs
  <1>17. PICK c : c = Drain(k)
    OBVIOUS
  <1>18. /\ c \in ControlBlock
         /\ c = [k EXCEPT !.rcv_nxt = c.rcv_nxt, !.rcv_buf = c.rcv_buf,
                          !.rcv_queue = c.rcv_queue]
         /\ c.rcv_nxt = nxt + n
         /\ c.rcv_buf = {x \in k.rcv_buf : x.sn \notin nxt .. nxt + n - 1}
         /\ Len(c.rcv_queue) = Len(k.rcv_queue) + n
         /\ \A i \in 1 .. Len(k.rcv_queue) : c.rcv_queue[i] = k.rcv_queue[i]
         /\ \A i \in 1 .. n : \E x \in k.rcv_buf :
               x.sn = nxt + i - 1 /\ c.rcv_queue[Len(k.rcv_queue) + i] = x.seg
    BY <1>6, <1>16, <1>17, DrainProperty
  <1>19. PICK l : l = SubSeq(r.rcv_buf, n + 1, m)
    OBVIOUS
  <1>20. IsList(l, c.rcv_buf)
    <2>1. \A i \in 1 .. m : s[i] \in c.rcv_buf <=> i > n
      <3>. TAKE i \in 1 .. m
      <3>1. s[i].sn \in Nat /\ nxt + i - 1 <= s[i].sn
        BY <1>4, <1>8
      <3>2. i <= n => s[i].sn = nxt + i - 1
        BY <1>14, <1>15
      <3>3. s[i].sn \notin nxt .. nxt + n - 1 <=> i > n
        BY <1>4, <1>7, <1>14, <3>1, <3>2
      <3>. QED
        BY <1>4, <1>18, <3>3
    <2>2. c.rcv_buf \in SUBSET k.rcv_buf
      BY <1>18
    <2>. QED
      BY <1>1, <1>3, <1>14, <1>19, <2>1, <2>2, SuffixListed
  <1>21. l \in Seq(Numbered)
    <2>1. c.rcv_buf \in SUBSET Numbered
      BY <1>18 DEF ControlBlock
    <2>. QED
      BY <1>20, <2>1, ListType
  <1>22. PICK more : more = [i \in 1 .. n |-> r.rcv_buf[i].seg]
    OBVIOUS
  <1>23. /\ more \in Seq(Segment) /\ Len(more) = n
         /\ \A i \in 1 .. n : more[i] = s[i].seg
    <2>1. \A i \in 1 .. n : i \in 1 .. m
      BY <1>4, <1>14
    <2>2. \A i \in 1 .. n : r.rcv_buf[i].seg = s[i].seg /\ s[i].seg \in Segment
      BY <1>4, <1>5, <2>1 DEF Numbered
    <2>3. more \in [1 .. n -> Segment]
      BY <1>22, <2>2
    <2>. QED
      BY <1>14, <1>22, <2>2, <2>3
  <1>24. PICK q : q = k.rcv_queue \o more
    OBVIOUS
  <1>25. q \in Seq(Segment) /\ q = c.rcv_queue
    <2>1. /\ q \in Seq(Segment) /\ Len(q) = Len(k.rcv_queue) + n
          /\ \A i \in 1 .. Len(k.rcv_queue) : q[i] = k.rcv_queue[i]
          /\ \A i \in 1 .. n : q[Len(k.rcv_queue) + i] = s[i].seg
      BY <1>1, <1>23, <1>24, Concatenated
    <2>2. c.rcv_queue \in Seq(Segment)
      BY <1>18 DEF ControlBlock
    <2>3. \A i \in 1 .. n : c.rcv_queue[Len(k.rcv_queue) + i] = s[i].seg
      <3>. TAKE i \in 1 .. n
      <3>1. PICK x \in k.rcv_buf :
              x.sn = nxt + i - 1 /\ c.rcv_queue[Len(k.rcv_queue) + i] = x.seg
        BY <1>18
      <3>2. PICK j \in 1 .. m : s[j] = x
        BY <1>4
      <3>3. s[j].sn = s[i].sn /\ i \in 1 .. m
        BY <1>4, <1>14, <1>15, <3>1, <3>2
      <3>4. j = i
        BY <1>1, <1>3, <3>3, CountsApart
      <3>. QED
        BY <3>1, <3>2, <3>4
    <2>4. PICK b \in Nat : b = Len(k.rcv_queue)
      BY <1>1
    <2>5. \A i \in 1 .. b + n : q[i] = c.rcv_queue[i]
      <3>. TAKE i \in 1 .. b + n
      <3>1. CASE i <= b
        <4>1. i \in 1 .. b
          BY <1>14, <2>4, <3>1
        <4>. QED
          BY <1>18, <2>1, <2>4, <4>1
      <3>2. CASE i > b
        <4>1. i - b \in 1 .. n /\ b + (i - b) = i
          BY <1>14, <2>4, <3>2
        <4>2. q[b + (i - b)] = c.rcv_queue[b + (i - b)]
          BY <2>1, <2>3, <2>4, <4>1
        <4>. QED
          BY <4>1, <4>2
      <3>. QED
        BY <1>14, <2>4, <3>1, <3>2
    <2>6. Len(q) = b + n /\ Len(c.rcv_queue) = b + n
      BY <1>18, <2>1, <2>4
    <2>. QED
      BY <2>1, <2>2, <2>5, <2>6
  <1>26. PICK w : w = Wrapped(nxt + n)
    OBVIOUS
  <1>27. w \in Nat /\ w = Wrapped(r.rcv_nxt + n)
    <2>1. nxt \in Int /\ n \in Int /\ nxt + n \in Nat
      BY <1>7, <1>14
    <2>2. Wrapped(Wrapped(nxt) + n) = Wrapped(nxt + n)
      BY <2>1, WrappedSum
    <2>. QED
      BY <1>7, <1>26, <2>1, <2>2, WrappedNat
  <1>28. PICK e : e = [r EXCEPT !.rcv_nxt = w, !.rcv_buf = l, !.rcv_queue = q]
    OBVIOUS
  <1>29. MoveAvailable(r) = e
    <2>1. MoveAvailable(r)
            = [r EXCEPT !.rcv_nxt = Wrapped(@ + n),
                        !.rcv_buf = SubSeq(@, n + 1, Len(@)),
                        !.rcv_queue = @ \o [i \in 1 .. n |-> r.rcv_buf[i].seg]]
      BY <1>10, <1>12, Zenon DEF MoveAvailable
    <2>. QED
      BY <1>2, <1>5, <1>19, <1>22, <1>24, <1>27, <1>28, <2>1, Zenon
  <1>30. /\ e \in RawBlock /\ e.rcv_nxt = w /\ e.rcv_buf = l /\ e.rcv_queue = q
         /\ e.conv = r.conv /\ e.rmt_wnd = r.rmt_wnd
         /\ e.cwnd = r.cwnd /\ e.ssthresh = r.ssthresh
         /\ e.tell = r.tell /\ e.probe_wait = r.probe_wait
         /\ e.snd_una = r.snd_una /\ e.snd_nxt = r.snd_nxt
         /\ e.snd_queue = r.snd_queue /\ e.snd_buf = r.snd_buf
         /\ e.acklist = r.acklist
    BY <1>2, <1>21, <1>25, <1>27, <1>28 DEF RawBlock
  <1>31. /\ c.conv = k.conv /\ c.rmt_wnd = k.rmt_wnd
         /\ c.cwnd = k.cwnd /\ c.ssthresh = k.ssthresh
         /\ c.tell = k.tell /\ c.probe_wait = k.probe_wait
         /\ c.snd_una = k.snd_una /\ c.snd_nxt = k.snd_nxt
         /\ c.snd_queue = k.snd_queue /\ c.snd_buf = k.snd_buf
         /\ c.acklist = k.acklist
    <2>1. PICK a, b, d : a = c.rcv_nxt /\ b = c.rcv_buf /\ d = c.rcv_queue
      OBVIOUS
    <2>2. c = [k EXCEPT !.rcv_nxt = a, !.rcv_buf = b, !.rcv_queue = d]
      BY <1>18, <2>1
    <2>. QED
      BY <2>2 DEF ControlBlock
  <1>32. e.rcv_nxt = Wrapped(c.rcv_nxt)
    BY <1>18, <1>26, <1>30
  <1>33. ShowsReceived(e, c)
    BY <1>20, <1>25, <1>30, <1>32, Zenon DEF ShowsReceived
  <1>34. e.snd_una = Wrapped(c.snd_una) /\ ShowsRest(e, c) /\ ShowsSent(e, c)
         /\ ShowsAcks(e, c)
    BY <1>30, <1>31, Zenon DEF Shows, ShowsRest, ShowsSent, ShowsAcks
  <1>35. Shows(e, c)
    BY <1>30, <1>33, <1>34, Zenon DEF Shows
  <1>. QED
    BY <1>17, <1>29, <1>35

(* What a call that only receives data leaves alone.                       *)
SameButReceived(c, k) ==
    /\ c.snd_una = k.snd_una /\ c.snd_nxt = k.snd_nxt
    /\ c.snd_queue = k.snd_queue /\ c.snd_buf = k.snd_buf
    /\ c.conv = k.conv /\ c.rmt_wnd = k.rmt_wnd
    /\ c.cwnd = k.cwnd /\ c.ssthresh = k.ssthresh
    /\ c.tell = k.tell /\ c.probe_wait = k.probe_wait

(* Drain field by field.                                                   *)
LEMMA DrainFields ==
    ASSUME NEW k \in ControlBlock
    PROVE  /\ Drain(k).rcv_nxt = k.rcv_nxt + InOrderRun(k)
           /\ Drain(k).rcv_buf =
                {s \in k.rcv_buf :
                    s.sn \notin k.rcv_nxt .. k.rcv_nxt + InOrderRun(k) - 1}
           /\ Drain(k).rcv_queue =
                k.rcv_queue \o [i \in 1 .. InOrderRun(k) |->
                                   SegmentAt(k.rcv_buf, k.rcv_nxt + i - 1)]
           /\ SameButReceived(Drain(k), k)
           /\ Drain(k).acklist = k.acklist
  <1>1. PICK n : n = InOrderRun(k)
    OBVIOUS
  <1>2. PICK a, b, q :
          /\ a = k.rcv_nxt + n
          /\ b = {s \in k.rcv_buf : s.sn \notin k.rcv_nxt .. k.rcv_nxt + n - 1}
          /\ q = k.rcv_queue \o [i \in 1 .. n |->
                                    SegmentAt(k.rcv_buf, k.rcv_nxt + i - 1)]
    OBVIOUS
  <1>3. PICK c : c = [k EXCEPT !.rcv_nxt = a, !.rcv_buf = b, !.rcv_queue = q]
    OBVIOUS
  <1>4. Drain(k) = c
    BY <1>1, <1>2, <1>3, Zenon DEF Drain
  <1>5. /\ c.rcv_nxt = a /\ c.rcv_buf = b /\ c.rcv_queue = q
        /\ c.snd_una = k.snd_una /\ c.snd_nxt = k.snd_nxt
        /\ c.snd_queue = k.snd_queue /\ c.snd_buf = k.snd_buf
        /\ c.conv = k.conv /\ c.rmt_wnd = k.rmt_wnd
        /\ c.cwnd = k.cwnd /\ c.ssthresh = k.ssthresh
        /\ c.tell = k.tell /\ c.probe_wait = k.probe_wait
        /\ c.acklist = k.acklist
    BY <1>3 DEF ControlBlock
  <1>6. SameButReceived(c, k)
    BY <1>5, Zenon DEF SameButReceived
  <1>. QED
    BY <1>1, <1>2, <1>4, <1>5, <1>6, Zenon

(* What is moved depends on the receive side only, ...                     *)
LEMMA DrainSame ==
    ASSUME NEW k \in ControlBlock, NEW c \in ControlBlock, SameReceiver(c, k)
    PROVE  InOrderRun(c) = InOrderRun(k) /\ SameReceiver(Drain(c), Drain(k))
  <1>1. /\ c.rcv_nxt = k.rcv_nxt /\ c.rcv_buf = k.rcv_buf
        /\ c.rcv_queue = k.rcv_queue
    BY DEF SameReceiver
  <1>2. InOrderRun(c) = InOrderRun(k)
    BY <1>1, Zenon DEF InOrderRun, WndUnused
  <1>3. /\ Drain(c).rcv_nxt = Drain(k).rcv_nxt
        /\ Drain(c).rcv_buf = Drain(k).rcv_buf
        /\ Drain(c).rcv_queue = Drain(k).rcv_queue
    <2>1. \A e \in ControlBlock :
            /\ Drain(e).rcv_nxt = e.rcv_nxt + InOrderRun(e)
            /\ Drain(e).rcv_buf =
                 {s \in e.rcv_buf :
                     s.sn \notin e.rcv_nxt .. e.rcv_nxt + InOrderRun(e) - 1}
            /\ Drain(e).rcv_queue =
                 e.rcv_queue \o [i \in 1 .. InOrderRun(e) |->
                                    SegmentAt(e.rcv_buf, e.rcv_nxt + i - 1)]
      BY DrainFields, Zenon
    <2>. QED
      BY <1>1, <1>2, <2>1, Zenon
  <1>. QED
    BY <1>2, <1>3, Zenon DEF SameReceiver

(* ... and so does what is inserted.                                       *)
LEMMA InsertSame ==
    ASSUME NEW k \in ControlBlock, NEW c \in ControlBlock, SameReceiver(c, k),
           NEW segs \in SUBSET Numbered
    PROVE  SameReceiver(Insert(c, segs), Insert(k, segs))
  <1>1. /\ c.rcv_nxt = k.rcv_nxt /\ c.rcv_buf = k.rcv_buf
        /\ c.rcv_queue = k.rcv_queue
    BY DEF SameReceiver
  <1>2. SameReceiver(Stored(c, segs), Stored(k, segs))
    <2>1. \A e \in ControlBlock :
            /\ Stored(e, segs).rcv_nxt = e.rcv_nxt
            /\ Stored(e, segs).rcv_queue = e.rcv_queue
            /\ Stored(e, segs).rcv_buf =
                 e.rcv_buf \cup {s \in segs : s.sn >= e.rcv_nxt
                                               /\ s.sn \notin Sns(e.rcv_buf)}
      BY StoredProperty
    <2>. QED
      BY <1>1, <2>1, Zenon DEF SameReceiver
  <1>3. Stored(c, segs) \in ControlBlock /\ Stored(k, segs) \in ControlBlock
    BY StoredProperty
  <1>4. SameReceiver(Drain(Stored(c, segs)), Drain(Stored(k, segs)))
    BY <1>2, <1>3, DrainSame
  <1>. QED
    BY <1>4, StoredProperty

(* Where nothing waits, nothing moves.                                     *)
LEMMA DrainNothing ==
    ASSUME NEW k \in ControlBlock, Bounded(k)
    PROVE  InOrderRun(k) = 0 /\ SameReceiver(Drain(k), k)
  <1>1. /\ k.rcv_nxt \in Nat /\ k.rcv_queue \in Seq(Segment)
        /\ RcvWnd \in Nat
    BY KcpAssumption DEF ControlBlock
  <1>2. WndUnused(k) \in Nat
    BY WndUnusedNat
  <1>3. k.rcv_nxt \in Sns(k.rcv_buf) => WndUnused(k) = 0
    BY <1>1 DEF Bounded, NothingWaits, WndUnused, Greater
  <1>4. InOrderRun(k) = 0
    <2>1. 0 \in 0 .. WndUnused(k) /\ k.rcv_nxt + 0 = k.rcv_nxt
      BY <1>1, <1>2
    <2>2. \A j \in 0 .. 0 - 1 : k.rcv_nxt + j \in Sns(k.rcv_buf)
      OBVIOUS
    <2>3. 0 = WndUnused(k) \/ k.rcv_nxt + 0 \notin Sns(k.rcv_buf)
      BY <1>3, <2>1
    <2>. QED
      BY <2>1, <2>2, <2>3, RunIs
  <1>5. PICK c : c = Drain(k)
    OBVIOUS
  <1>6. /\ c \in ControlBlock
        /\ c.rcv_nxt = k.rcv_nxt + 0
        /\ c.rcv_buf = {s \in k.rcv_buf : s.sn \notin k.rcv_nxt .. k.rcv_nxt + 0 - 1}
        /\ Len(c.rcv_queue) = Len(k.rcv_queue) + 0
        /\ \A i \in 1 .. Len(k.rcv_queue) : c.rcv_queue[i] = k.rcv_queue[i]
    BY <1>4, <1>5, DrainProperty
  <1>7. c.rcv_nxt = k.rcv_nxt /\ c.rcv_buf = k.rcv_buf
    BY <1>1, <1>6
  <1>8. c.rcv_queue = k.rcv_queue
    <2>1. c.rcv_queue \in Seq(Segment)
      BY <1>6 DEF ControlBlock
    <2>2. PICK a \in Seq(Segment), b \in Seq(Segment) :
             a = c.rcv_queue /\ b = k.rcv_queue
      BY <1>1, <2>1
    <2>3. Len(a) = Len(b) /\ \A i \in 1 .. Len(b) : a[i] = b[i]
      BY <1>6, <2>2
    <2>. QED
      BY <2>2, <2>3
  <1>. QED
    BY <1>4, <1>5, <1>7, <1>8, Zenon DEF SameReceiver

(* A finite set of numbers has a greatest.                                 *)
LEMMA GreatestOfSome ==
    ASSUME NEW n \in Nat, NEW S \in SUBSET (1 .. n), S # {}
    PROVE  \E i \in S : \A j \in S : i >= j
  <1>. DEFINE Above == {j \in 0 .. n : \A i \in S : i <= j}
  <1>1. Above \in SUBSET Nat /\ n \in Above
    OBVIOUS
  <1>2. PICK l : l = Least(Above)
    OBVIOUS
  <1>3. l \in Above /\ \A j \in Above : l <= j
    <2>. HIDE DEF Above
    <2>. QED
      BY <1>1, <1>2, LeastIsLeast
  <1>4. PICK x \in S : TRUE
    OBVIOUS
  <1>5. l \in 1 .. n /\ l - 1 \notin Above
    <2>1. x \in 1 .. n /\ x <= l
      BY <1>3
    <2>2. l \in 0 .. n
      BY <1>3
    <2>3. l \in 1 .. n
      BY <2>1, <2>2
    <2>. HIDE DEF Above
    <2>. QED
      BY <1>3, <2>3
  <1>6. PICK i \in S : ~ (i <= l - 1)
    <2>1. l - 1 \in 0 .. n
      BY <1>5
    <2>. QED
      BY <1>5, <2>1
  <1>7. i \in 1 .. n /\ i <= l
    BY <1>3
  <1>8. i = l
    BY <1>5, <1>6, <1>7
  <1>. QED
    BY <1>3, <1>8

(* What Stored leaves alone.                                               *)
LEMMA StoredFields ==
    ASSUME NEW k \in ControlBlock, NEW segs \in SUBSET Numbered
    PROVE  SameButReceived(Stored(k, segs), k)
  <1>1. PICK b : b = k.rcv_buf \cup {s \in segs : s.sn >= k.rcv_nxt
                                               /\ s.sn \notin Sns(k.rcv_buf)}
    OBVIOUS
  <1>2. PICK c : c = [k EXCEPT !.rcv_buf = b]
    OBVIOUS
  <1>3. Stored(k, segs) = c
    BY <1>1, <1>2, Zenon DEF Stored
  <1>4. /\ c.snd_una = k.snd_una /\ c.snd_nxt = k.snd_nxt
        /\ c.snd_queue = k.snd_queue /\ c.snd_buf = k.snd_buf
        /\ c.conv = k.conv /\ c.rmt_wnd = k.rmt_wnd
        /\ c.cwnd = k.cwnd /\ c.ssthresh = k.ssthresh
        /\ c.tell = k.tell /\ c.probe_wait = k.probe_wait
    BY <1>2 DEF ControlBlock
  <1>. QED
    BY <1>3, <1>4, Zenon DEF SameButReceived

(* What Insert leaves alone.                                               *)
LEMMA InsertFields ==
    ASSUME NEW k \in ControlBlock, NEW segs \in SUBSET Numbered
    PROVE  /\ SameButReceived(Insert(k, segs), k)
           /\ Insert(k, segs).acklist = k.acklist
  <1>1. PICK e : e = Stored(k, segs)
    OBVIOUS
  <1>2. e \in ControlBlock /\ e.acklist = k.acklist /\ Insert(k, segs) = Drain(e)
    BY <1>1, StoredProperty
  <1>3. SameButReceived(e, k)
    BY <1>1, StoredFields
  <1>4. SameButReceived(Drain(e), e) /\ Drain(e).acklist = e.acklist
    BY <1>2, DrainFields
  <1>. QED
    BY <1>2, <1>3, <1>4, Zenon DEF SameButReceived

(* The picture shows the fields of either side.                            *)
LEMMA ShowsFields ==
    ASSUME NEW k, NEW c, NEW r, Shows(r, k), SameReceiver(c, k),
           SameButReceived(c, k), c.acklist = k.acklist
    PROVE  Shows(r, c)
  BY Zenon DEF Shows, ShowsRest, ShowsSent, ShowsReceived, ShowsAcks,
               SameReceiver, SameButReceived

(* ikcp_parse_data of one segment that is within the window.               *)
LEMMA DataShows ==
    ASSUME NEW k \in ControlBlock, NEW r, Shows(r, k), Bounded(k),
           NEW t \in Numbered,
           -(Mod \div 2) <= t.sn - (k.rcv_nxt + RcvWnd),
           t.sn < k.rcv_nxt + RcvWnd
    PROVE  Shows(ParseData(r, Held(t)), Insert(k, {t}))
  <1>1. /\ k.rcv_nxt \in Nat /\ k.rcv_buf \in SUBSET Numbered
        /\ t.sn \in Nat
    BY DEF ControlBlock, Numbered
  <1>2. /\ r \in RawBlock /\ IsList(r.rcv_buf, k.rcv_buf)
        /\ r.rcv_nxt = Wrapped(k.rcv_nxt)
    BY DEF Shows, ShowsReceived
  <1>3. PICK m, s : Counts(s, m, k.rcv_buf) /\ r.rcv_buf = InMemory(s)
    BY <1>2 DEF IsList
  <1>4. /\ m \in Nat /\ s \in [1 .. m -> Numbered]
        /\ \A i \in 1 .. m : s[i] \in k.rcv_buf
        /\ \A i \in 1 .. m : s[i].sn \in Nat
        /\ \A x \in k.rcv_buf : \E i \in 1 .. m : s[i] = x
        /\ \A i, j \in 1 .. m : i < j => s[i].sn < s[j].sn
    BY <1>1, <1>3, CountsType, Zenon
  <1>5. /\ r.rcv_buf \in Seq(Numbered) /\ Len(r.rcv_buf) = m
        /\ \A i \in 1 .. m : r.rcv_buf[i].sn = Wrapped(s[i].sn)
    BY <1>3, <1>4, InMemoryAt
  <1>6. PICK h : h = Held(t)
    OBVIOUS
  <1>7. h.sn = Wrapped(t.sn) /\ h \in Numbered
    BY <1>6, HeldType
  <1>8. PICK nxt \in Nat, sn \in Nat : nxt = k.rcv_nxt /\ sn = t.sn
    BY <1>1
  <1>9. -(Mod \div 2) <= sn - (nxt + RcvWnd) /\ sn < nxt + RcvWnd
    BY <1>8
  <1>10. ITimeDiff(h.sn, r.rcv_nxt + RcvWnd) = sn - (nxt + RcvWnd)
    <2>1. -(Mod \div 2) <= (sn + 0) - (nxt + RcvWnd)
          /\ (sn + 0) - (nxt + RcvWnd) < Mod \div 2 /\ RcvWnd \in Int
      BY <1>9, SerialConstants
    <2>2. ITimeDiff(Wrapped(sn) + 0, Wrapped(nxt) + RcvWnd) = (sn + 0) - (nxt + RcvWnd)
      BY <2>1, TrueDifference
    <2>3. Wrapped(sn) + 0 = Wrapped(sn)
      BY WrappedRange
    <2>4. sn + 0 = sn
      OBVIOUS
    <2>. QED
      BY <1>2, <1>7, <1>8, <2>2, <2>3, <2>4
  <1>11. ITimeDiff(h.sn, r.rcv_nxt) = sn - nxt
    <2>1. -(Mod \div 2) <= sn - nxt /\ sn - nxt < Mod \div 2
      BY <1>9, SerialConstants
    <2>2. ITimeDiff(Wrapped(sn), Wrapped(nxt)) = sn - nxt
      BY <2>1, PlainDifference
    <2>. QED
      BY <1>2, <1>7, <1>8, <2>2
  <1>. DEFINE Place == {i \in 1 .. Len(r.rcv_buf) :
                           ITimeDiff(h.sn, r.rcv_buf[i].sn) >= 0}
              At(S) == IF S = {} THEN 0 ELSE CHOOSE i \in S : \A j \in S : i >= j
  <1>12. PICK place : place = Place
    OBVIOUS
  <1>13. PICK at : at = At(place)
    OBVIOUS
  <1>. DEFINE repeat == at > 0 /\ r.rcv_buf[at].sn = h.sn
              outside == \/ ITimeDiff(h.sn, r.rcv_nxt + RcvWnd) >= 0
                         \/ ITimeDiff(h.sn, r.rcv_nxt) < 0
  <1>14. ParseData(r, h) =
           IF outside THEN r
           ELSE MoveAvailable(
                   IF repeat THEN r
                   ELSE [r EXCEPT !.rcv_buf = InsertAt(@, at + 1, h)])
    <2>1. ParseData(r, h) =
           IF outside THEN r
           ELSE MoveAvailable(
                   IF At(Place) > 0 /\ r.rcv_buf[At(Place)].sn = h.sn THEN r
                   ELSE [r EXCEPT !.rcv_buf = InsertAt(@, At(Place) + 1, h)])
      BY Zenon DEF ParseData
    <2>. HIDE DEF At, Place
    <2>2. at = At(Place)
      BY <1>12, <1>13, Zenon
    <2>. QED
      BY <2>1, <2>2, Zenon
  <1>15. outside <=> sn < nxt
    BY <1>9, <1>10, <1>11, SerialConstants
  <1>16. PICK c : c = Stored(k, {t})
    OBVIOUS
  <1>17. /\ c \in ControlBlock /\ Insert(k, {t}) = Drain(c)
         /\ c.rcv_nxt = k.rcv_nxt /\ c.rcv_queue = k.rcv_queue
         /\ c.acklist = k.acklist
         /\ c.rcv_buf = k.rcv_buf \cup {x \in {t} : x.sn >= k.rcv_nxt
                                                   /\ x.sn \notin Sns(k.rcv_buf)}
    BY <1>16, StoredProperty
  <1>18. SameButReceived(c, k)
    BY <1>16, StoredFields
  <1>19. c.rcv_buf = k.rcv_buf => Shows(r, c) /\ Bounded(c)
    <2>. HAVE c.rcv_buf = k.rcv_buf
    <2>1. SameReceiver(c, k)
      BY <1>17, Zenon DEF SameReceiver
    <2>. QED
      BY <1>17, <1>18, <2>1, ShowsFields, SameReceiverBounded
  <1>20. CASE sn < nxt
    <2>1. c.rcv_buf = k.rcv_buf
      BY <1>8, <1>17, <1>20
    <2>2. SameReceiver(Drain(c), c)
      BY <1>17, <1>19, <2>1, DrainNothing
    <2>3. SameButReceived(Drain(c), c) /\ Drain(c).acklist = c.acklist
      BY <1>17, DrainFields
    <2>4. Shows(r, Drain(c))
      BY <1>19, <2>1, <2>2, <2>3, ShowsFields
    <2>5. ParseData(r, h) = r
      BY <1>14, <1>15, <1>20
    <2>. QED
      BY <1>6, <1>17, <2>4, <2>5
  <1>21. CASE nxt <= sn
    <2>1. ~ outside
      BY <1>15, <1>21
    <2>2. \A i \in 1 .. m : nxt <= s[i].sn /\ s[i].sn < nxt + RcvWnd
      BY <1>4, <1>8, Zenon DEF Bounded, InWindow
    <2>3. \A i \in 1 .. m : ITimeDiff(h.sn, r.rcv_buf[i].sn) = sn - s[i].sn
      <3>. TAKE i \in 1 .. m
      <3>1. PICK y \in Nat : y = s[i].sn
        BY <1>4
      <3>2. -(Mod \div 2) <= sn - y /\ sn - y < Mod \div 2
        BY <1>9, <1>21, <2>2, <3>1, SerialConstants
      <3>3. ITimeDiff(Wrapped(sn), Wrapped(y)) = sn - y
        BY <3>2, PlainDifference
      <3>. QED
        BY <1>5, <1>7, <1>8, <3>1, <3>3
    <2>4. place \in SUBSET (1 .. m) /\ \A i \in 1 .. m : i \in place <=> s[i].sn <= sn
      <3>1. \A i \in 1 .. m : i \in place <=> sn - s[i].sn >= 0
        BY <1>5, <1>12, <2>3
      <3>2. \A i \in 1 .. m : sn - s[i].sn >= 0 <=> s[i].sn <= sn
        BY <1>4
      <3>. QED
        BY <1>5, <1>12, <3>1, <3>2, Zenon
    <2>5. /\ at \in 0 .. m
          /\ \A i \in 1 .. m : i <= at <=> s[i].sn <= sn
      <3>1. CASE place = {}
        <4>1. at = 0
          BY <1>13, <3>1
        <4>. QED
          BY <1>4, <2>4, <3>1, <4>1
      <3>2. CASE place # {}
        <4>1. \E i \in place : \A j \in place : i >= j
          BY <1>4, <2>4, <3>2, GreatestOfSome
        <4>2. at \in place /\ \A j \in place : at >= j
          BY <1>13, <3>2, <4>1, Zenon
        <4>3. at \in 1 .. m /\ s[at].sn <= sn
          BY <2>4, <4>2
        <4>4. ASSUME NEW i \in 1 .. m, i <= at PROVE s[i].sn <= sn
          <5>1. CASE i = at
            BY <4>3, <5>1
          <5>2. CASE i < at
            <6>1. s[i].sn < s[at].sn /\ s[i].sn \in Nat /\ s[at].sn \in Nat
              BY <1>4, <4>3, <5>2
            <6>. QED
              BY <4>3, <6>1
          <5>. QED
            BY <4>3, <4>4, <5>1, <5>2
        <4>5. ASSUME NEW i \in 1 .. m, s[i].sn <= sn PROVE i <= at
          <5>1. i \in place
            BY <2>4, <4>5
          <5>. QED
            BY <4>2, <4>3, <5>1
        <4>. QED
          BY <1>4, <4>3, <4>4, <4>5
      <3>. QED
        BY <3>1, <3>2
    <2>6. repeat <=> sn \in Sns(k.rcv_buf)
      <3>1. ASSUME at > 0, r.rcv_buf[at].sn = h.sn PROVE sn \in Sns(k.rcv_buf)
        <4>1. at \in 1 .. m
          BY <1>4, <2>5, <3>1
        <4>2. PICK y \in Nat : y = s[at].sn
          BY <1>4, <4>1
        <4>3. Wrapped(y) = Wrapped(sn)
          BY <1>5, <1>7, <1>8, <3>1, <4>1, <4>2
        <4>4. -Mod < y - sn /\ y - sn < Mod
          BY <1>9, <1>21, <2>2, <4>1, <4>2, SerialConstants
        <4>5. y = sn
          BY <4>3, <4>4, WrappedApart
        <4>. QED
          BY <1>4, <4>1, <4>2, <4>5 DEF Sns
      <3>2. ASSUME sn \in Sns(k.rcv_buf) PROVE at > 0 /\ r.rcv_buf[at].sn = h.sn
        <4>1. PICK x \in k.rcv_buf : x.sn = sn
          BY <3>2 DEF Sns
        <4>2. PICK i \in 1 .. m : s[i] = x
          BY <1>4
        <4>3. i <= at /\ s[i].sn = sn
          BY <2>5, <4>1, <4>2
        <4>4. at \in 1 .. m
          BY <1>4, <2>5, <4>3
        <4>5. i = at
          <5>1. ~ (i < at)
            <6>. SUFFICES ASSUME i < at PROVE FALSE
              OBVIOUS
            <6>1. s[i].sn < s[at].sn /\ s[at].sn <= sn /\ s[at].sn \in Nat
              BY <1>4, <2>5, <4>4
            <6>. QED
              BY <4>3, <6>1
          <5>. QED
            BY <4>3, <4>4, <5>1
        <4>6. r.rcv_buf[at].sn = Wrapped(sn)
          BY <1>5, <4>3, <4>4, <4>5
        <4>. QED
          BY <1>7, <1>8, <4>4, <4>6
      <3>. QED
        BY <3>1, <3>2
    <2>7. CASE sn \in Sns(k.rcv_buf)
      <3>1. c.rcv_buf = k.rcv_buf
        BY <1>8, <1>17, <2>7
      <3>2. Shows(r, c) /\ InWindow(c)
        BY <1>19, <3>1 DEF Bounded
      <3>3. Shows(MoveAvailable(r), Drain(c))
        BY <1>17, <3>2, AvailableShows
      <3>4. ParseData(r, h) = MoveAvailable(r)
        BY <1>14, <2>1, <2>6, <2>7
      <3>. QED
        BY <1>6, <1>17, <3>3, <3>4
    <2>8. CASE sn \notin Sns(k.rcv_buf)
      <3>1. c.rcv_buf = k.rcv_buf \cup {t}
        BY <1>8, <1>17, <1>21, <2>8
      <3>2. /\ \A i \in 1 .. at : s[i].sn < t.sn
            /\ \A i \in at + 1 .. m : t.sn < s[i].sn
        <4>1. \A i \in 1 .. m : s[i].sn # sn
          BY <1>4, <2>8 DEF Sns
        <4>2. ASSUME NEW i \in 1 .. at PROVE s[i].sn < sn
          <5>1. i \in 1 .. m /\ i <= at
            BY <1>4, <2>5
          <5>2. s[i].sn \in Nat /\ s[i].sn <= sn /\ s[i].sn # sn
            BY <1>4, <2>5, <4>1, <5>1
          <5>. QED
            BY <5>2
        <4>3. ASSUME NEW i \in at + 1 .. m PROVE sn < s[i].sn
          <5>1. i \in 1 .. m /\ ~ (i <= at)
            BY <1>4, <2>5
          <5>2. s[i].sn \in Nat /\ ~ (s[i].sn <= sn)
            BY <1>4, <2>5, <5>1
          <5>. QED
            BY <5>2
        <4>. QED
          BY <1>8, <4>2, <4>3
      <3>3. PICK l : l = InsertAt(r.rcv_buf, at + 1, h)
        OBVIOUS
      <3>4. IsList(l, c.rcv_buf)
        BY <1>1, <1>3, <1>6, <2>5, <3>1, <3>2, <3>3, InsertListed
      <3>5. l \in Seq(Numbered)
        <4>1. c.rcv_buf \in SUBSET Numbered
          BY <1>17 DEF ControlBlock
        <4>. QED
          BY <3>4, <4>1, ListType
      <3>6. PICK e : e = [r EXCEPT !.rcv_buf = l]
        OBVIOUS
      <3>7. /\ e \in RawBlock /\ e.rcv_buf = l
            /\ e.conv = r.conv /\ e.rmt_wnd = r.rmt_wnd
            /\ e.cwnd = r.cwnd /\ e.ssthresh = r.ssthresh
            /\ e.tell = r.tell /\ e.probe_wait = r.probe_wait
            /\ e.snd_una = r.snd_una /\ e.snd_nxt = r.snd_nxt
            /\ e.snd_queue = r.snd_queue /\ e.snd_buf = r.snd_buf
            /\ e.rcv_nxt = r.rcv_nxt /\ e.rcv_queue = r.rcv_queue
            /\ e.acklist = r.acklist
        BY <1>2, <3>5, <3>6 DEF RawBlock
      <3>8. ShowsReceived(e, c)
        BY <1>17, <3>4, <3>7, Zenon DEF Shows, ShowsReceived
      <3>9. e.snd_una = Wrapped(c.snd_una) /\ ShowsRest(e, c) /\ ShowsSent(e, c)
            /\ ShowsAcks(e, c)
        BY <1>17, <1>18, <3>7, Zenon
        DEF Shows, ShowsRest, ShowsSent, ShowsAcks, SameButReceived
      <3>10. Shows(e, c)
        BY <3>7, <3>8, <3>9, Zenon DEF Shows
      <3>11. InWindow(c)
        <4>1. \A x \in k.rcv_buf : nxt <= x.sn /\ x.sn < nxt + RcvWnd
          BY <1>8, Zenon DEF Bounded, InWindow
        <4>2. \A x \in c.rcv_buf : nxt <= x.sn /\ x.sn < nxt + RcvWnd
          BY <1>8, <1>9, <1>21, <3>1, <4>1
        <4>. QED
          BY <1>8, <1>17, <4>2, Zenon DEF InWindow
      <3>12. Shows(MoveAvailable(e), Drain(c))
        BY <1>17, <3>10, <3>11, AvailableShows
      <3>13. ParseData(r, h) = MoveAvailable(e)
        BY <1>14, <2>1, <2>6, <2>8, <3>3, <3>6, Zenon
      <3>. QED
        BY <1>6, <1>17, <3>12, <3>13
    <2>. QED
      BY <2>7, <2>8
  <1>. QED
    BY <1>8, <1>20, <1>21

(* No two segments have the same number.                                   *)
Once(S) == \A x, y \in S : x.sn = y.sn => x = y

(* A number then tells the segment, in any set that holds it.              *)
LEMMA SegmentAtSame ==
    ASSUME NEW T \in SUBSET Numbered, Once(T), NEW S \in SUBSET T,
           NEW sn \in Sns(S)
    PROVE  SegmentAt(S, sn) = SegmentAt(T, sn)
  <1>1. sn \in Sns(T) /\ S \in SUBSET Numbered
    BY DEF Sns
  <1>2. PICK x \in S : x.sn = sn /\ SegmentAt(S, sn) = x.seg
    BY <1>1, SegmentAtProperty
  <1>3. PICK y \in T : y.sn = sn /\ SegmentAt(T, sn) = y.seg
    BY <1>1, SegmentAtProperty
  <1>4. x = y
    BY <1>2, <1>3 DEF Once
  <1>. QED
    BY <1>2, <1>3, <1>4

(* What was stored with W is stored once more with a segment behind W.     *)
LEMMA StoredMore ==
    ASSUME NEW k \in ControlBlock, NEW W \in SUBSET Numbered, NEW t \in Numbered,
           \A x \in W : x.sn < t.sn
    PROVE  Stored(k, W \cup {t}).rcv_buf =
              Stored(k, W).rcv_buf \cup {x \in {t} : /\ x.sn >= k.rcv_nxt
                                                     /\ x.sn \notin Sns(k.rcv_buf)}
  <1>1. W \cup {t} \in SUBSET Numbered
    OBVIOUS
  <1>2. Stored(k, W \cup {t}).rcv_buf =
           k.rcv_buf \cup {x \in W \cup {t} : /\ x.sn >= k.rcv_nxt
                                              /\ x.sn \notin Sns(k.rcv_buf)}
    BY <1>1, StoredProperty
  <1>3. Stored(k, W).rcv_buf =
           k.rcv_buf \cup {x \in W : /\ x.sn >= k.rcv_nxt
                                     /\ x.sn \notin Sns(k.rcv_buf)}
    BY StoredProperty
  <1>. QED
    BY <1>2, <1>3

(* To insert a segment after others is to insert them together.            *)
LEMMA InsertMore ==
    ASSUME NEW k \in ControlBlock, NEW W \in SUBSET Numbered, NEW t \in Numbered,
           \A x \in W : x.sn < t.sn, Once(k.rcv_buf), Once(W)
    PROVE  SameReceiver(Insert(k, W \cup {t}), Insert(Insert(k, W), {t}))
  <1>1. /\ k.rcv_nxt \in Nat /\ k.rcv_buf \in SUBSET Numbered
        /\ k.rcv_queue \in Seq(Segment) /\ t.sn \in Nat
        /\ W \cup {t} \in SUBSET Numbered /\ RcvWnd \in Nat
    BY KcpAssumption DEF ControlBlock, Numbered
  <1>2. PICK nxt \in Nat, sn \in Nat : nxt = k.rcv_nxt /\ sn = t.sn
    BY <1>1
  <1>3. PICK b : b = Stored(k, W)
    OBVIOUS
  <1>4. /\ b \in ControlBlock /\ Insert(k, W) = Drain(b)
        /\ b.rcv_nxt = nxt /\ b.rcv_queue = k.rcv_queue
        /\ b.rcv_buf = k.rcv_buf \cup {x \in W : x.sn >= nxt
                                                /\ x.sn \notin Sns(k.rcv_buf)}
    BY <1>2, <1>3, StoredProperty
  <1>5. PICK c : c = Stored(k, W \cup {t})
    OBVIOUS
  <1>6. /\ c \in ControlBlock /\ Insert(k, W \cup {t}) = Drain(c)
        /\ c.rcv_nxt = nxt /\ c.rcv_queue = k.rcv_queue
    BY <1>1, <1>2, <1>5, StoredProperty
  <1>7. c.rcv_buf = b.rcv_buf \cup {x \in {t} : x.sn >= nxt
                                               /\ x.sn \notin Sns(k.rcv_buf)}
    BY <1>2, <1>3, <1>5, StoredMore
  <1>8. PICK m : m = Drain(b)
    OBVIOUS
  <1>9. PICK n : n = InOrderRun(b)
    OBVIOUS
  <1>10. /\ m \in ControlBlock
         /\ m.rcv_nxt = nxt + n
         /\ m.rcv_buf = {x \in b.rcv_buf : x.sn \notin nxt .. nxt + n - 1}
         /\ Len(m.rcv_queue) = Len(b.rcv_queue) + n
    BY <1>4, <1>8, <1>9, DrainProperty
  <1>11. m.rcv_queue = b.rcv_queue \o [i \in 1 .. n |->
                                         SegmentAt(b.rcv_buf, nxt + i - 1)]
    BY <1>4, <1>8, <1>9, DrainFields
  <1>12. PICK d : d = Stored(m, {t})
    OBVIOUS
  <1>13. /\ d \in ControlBlock /\ Insert(m, {t}) = Drain(d)
         /\ d.rcv_nxt = nxt + n /\ d.rcv_queue = m.rcv_queue
         /\ d.rcv_buf = m.rcv_buf \cup {x \in {t} : x.sn >= nxt + n
                                                   /\ x.sn \notin Sns(m.rcv_buf)}
    <2>1. /\ d \in ControlBlock /\ Insert(m, {t}) = Drain(d)
          /\ d.rcv_nxt = m.rcv_nxt /\ d.rcv_queue = m.rcv_queue
          /\ d.rcv_buf = m.rcv_buf \cup {x \in {t} : x.sn >= m.rcv_nxt
                                                    /\ x.sn \notin Sns(m.rcv_buf)}
      <3>1. {t} \in SUBSET Numbered
        OBVIOUS
      <3>. QED
        BY <1>10, <1>12, <3>1, StoredProperty
    <2>. QED
      BY <1>10, <2>1, Zenon
  <1>14. PICK u : u = WndUnused(b)
    OBVIOUS
  <1>15. /\ u \in Nat /\ n \in 0 .. u
         /\ \A j \in 0 .. n - 1 : nxt + j \in Sns(b.rcv_buf)
    BY <1>4, <1>9, <1>14, WndUnusedNat, InOrderRunProperty
  <1>16. WndUnused(c) = u /\ (n > 0 => u = RcvWnd - Len(k.rcv_queue))
         /\ WndUnused(d) = u - n
    <2>1. WndUnused(c) = u
      BY <1>4, <1>6, <1>14, Zenon DEF WndUnused
    <2>2. PICK a \in Nat : a = Len(k.rcv_queue)
      BY <1>1
    <2>3. u = Greater(0, RcvWnd - a)
      BY <1>4, <1>14, <2>2 DEF WndUnused
    <2>4. WndUnused(d) = Greater(0, RcvWnd - (a + n))
      BY <1>4, <1>10, <1>13, <2>2 DEF WndUnused
    <2>5. Greater(0, RcvWnd - (a + n)) = u - n /\ (n > 0 => u = RcvWnd - a)
      <3>1. PICK w \in Nat : w = RcvWnd
        BY <1>1
      <3>2. u = IF 0 >= w - a THEN 0 ELSE w - a
        BY <2>3, <3>1 DEF Greater
      <3>3. u \in Nat /\ n \in 0 .. u
        BY <1>15
      <3>4. (IF 0 >= w - (a + n) THEN 0 ELSE w - (a + n)) = u - n
            /\ (n > 0 => u = w - a)
        <4>1. CASE 0 >= w - a
          <5>1. u = 0 /\ n = 0
            BY <3>2, <3>3, <4>1
          <5>. QED
            BY <4>1, <5>1
        <4>2. CASE ~ (0 >= w - a)
          <5>1. u = w - a
            BY <3>2, <4>2
          <5>. QED
            BY <3>3, <5>1
        <4>. QED
          BY <4>1, <4>2
      <3>. QED
        BY <3>1, <3>4, Zenon DEF Greater
    <2>. QED
      BY <2>1, <2>2, <2>4, <2>5
  <1>17. Sns(b.rcv_buf) \subseteq Sns(c.rcv_buf)
    BY <1>7 DEF Sns
  <1>18. c.rcv_buf \in SUBSET Numbered /\ b.rcv_buf \in SUBSET c.rcv_buf
    BY <1>6, <1>7 DEF ControlBlock
  <1>19. Once(c.rcv_buf)
    <2>. SUFFICES ASSUME NEW x \in c.rcv_buf, NEW y \in c.rcv_buf, x.sn = y.sn
                  PROVE  x = y
      BY DEF Once
    <2>1. ASSUME NEW z \in c.rcv_buf
          PROVE  \/ z \in k.rcv_buf
                 \/ z \in W /\ z.sn \notin Sns(k.rcv_buf)
                 \/ z = t /\ z.sn \notin Sns(k.rcv_buf)
      BY <1>4, <1>7
    <2>2. \A z \in k.rcv_buf : z.sn \in Sns(k.rcv_buf)
      BY DEF Sns
    <2>3. \A z \in W : z.sn \in Nat /\ z.sn < sn
      BY <1>2 DEF Numbered
    <2>4. CASE x \in k.rcv_buf /\ y \in k.rcv_buf
      BY <2>4 DEF Once
    <2>5. CASE x \in W /\ y \in W
      BY <2>5 DEF Once
    <2>6. CASE x.sn \notin Sns(k.rcv_buf)
      <3>1. y \notin k.rcv_buf
        BY <2>2, <2>6
      <3>2. x \notin k.rcv_buf
        BY <2>2, <2>6
      <3>3. CASE x \in W /\ y = t
        BY <1>2, <2>3, <3>3
      <3>4. CASE x = t /\ y \in W
        BY <1>2, <2>3, <3>4
      <3>5. (x \in W \/ x = t) /\ (y \in W \/ y = t)
        BY <2>1, <3>1, <3>2
      <3>. QED
        BY <2>5, <3>3, <3>4, <3>5
    <2>7. CASE x \in k.rcv_buf /\ y \notin k.rcv_buf
      BY <2>1, <2>2, <2>7
    <2>. QED
      BY <2>1, <2>4, <2>6, <2>7
  <1>20. d.rcv_buf = {x \in c.rcv_buf : x.sn \notin nxt .. nxt + n - 1}
    <2>1. ASSUME sn \in nxt .. nxt + n - 1 PROVE sn \in Sns(k.rcv_buf)
      <3>1. sn - nxt \in 0 .. n - 1 /\ nxt + (sn - nxt) = sn
        BY <1>15, <2>1
      <3>2. sn \in Sns(b.rcv_buf)
        BY <1>15, <3>1
      <3>3. PICK z \in b.rcv_buf : z.sn = sn
        BY <3>2 DEF Sns
      <3>4. \A x \in W : x.sn \in Nat /\ x.sn < sn
        BY <1>2 DEF Numbered
      <3>5. z \in k.rcv_buf
        BY <1>4, <3>3, <3>4
      <3>. QED
        BY <3>3, <3>5 DEF Sns
    <2>2. ASSUME sn \in Sns(m.rcv_buf) PROVE sn \in Sns(k.rcv_buf)
      <3>1. PICK z \in m.rcv_buf : z.sn = sn
        BY <2>2 DEF Sns
      <3>2. \A x \in W : x.sn \in Nat /\ x.sn < sn
        BY <1>2 DEF Numbered
      <3>3. z \in k.rcv_buf
        BY <1>4, <1>10, <3>1, <3>2
      <3>. QED
        BY <3>1, <3>3 DEF Sns
    <2>3. ASSUME sn \in Sns(k.rcv_buf), sn >= nxt + n PROVE sn \in Sns(m.rcv_buf)
      <3>1. PICK z \in k.rcv_buf : z.sn = sn
        BY <2>3 DEF Sns
      <3>2. z \in b.rcv_buf /\ z.sn \notin nxt .. nxt + n - 1
        BY <1>4, <1>15, <2>3, <3>1
      <3>3. z \in m.rcv_buf
        BY <1>10, <3>2
      <3>. QED
        BY <3>1, <3>3 DEF Sns
    <2>4. sn >= nxt /\ sn \notin Sns(k.rcv_buf)
             <=> sn >= nxt + n /\ sn \notin Sns(m.rcv_buf)
      <3>1. ASSUME sn >= nxt, sn \notin Sns(k.rcv_buf) PROVE sn >= nxt + n
        <4>1. sn \notin nxt .. nxt + n - 1
          BY <2>1, <3>1
        <4>. QED
          BY <1>15, <3>1, <4>1
      <3>2. sn >= nxt + n => sn >= nxt
        BY <1>15
      <3>. QED
        BY <2>2, <2>3, <3>1, <3>2
    <2>5. sn >= nxt + n => sn \notin nxt .. nxt + n - 1
      BY <1>15
    <2>6. ASSUME NEW x PROVE x \in d.rcv_buf <=>
                     x \in c.rcv_buf /\ x.sn \notin nxt .. nxt + n - 1
      <3>1. CASE x = t
        <4>1. t \in d.rcv_buf <=>
                 t \in m.rcv_buf \/ (sn >= nxt + n /\ sn \notin Sns(m.rcv_buf))
          BY <1>2, <1>13
        <4>2. t \in c.rcv_buf <=>
                 t \in b.rcv_buf \/ (sn >= nxt /\ sn \notin Sns(k.rcv_buf))
          BY <1>2, <1>7
        <4>3. t \in m.rcv_buf <=> t \in b.rcv_buf /\ sn \notin nxt .. nxt + n - 1
          BY <1>2, <1>10
        <4>4. t \in d.rcv_buf <=> t \in c.rcv_buf /\ sn \notin nxt .. nxt + n - 1
          BY <2>4, <2>5, <4>1, <4>2, <4>3, Zenon
        <4>. QED
          BY <1>2, <3>1, <4>4
      <3>2. CASE x # t
        BY <1>7, <1>10, <1>13, <3>2
      <3>. QED
        BY <3>1, <3>2
    <2>. QED
      BY <2>6
  <1>21. PICK o : o = InOrderRun(d)
    OBVIOUS
  <1>22. /\ o \in 0 .. u - n
         /\ \A j \in 0 .. o - 1 : nxt + n + j \in Sns(d.rcv_buf)
         /\ o = u - n \/ nxt + n + o \notin Sns(d.rcv_buf)
    BY <1>13, <1>16, <1>21, InOrderRunProperty
  <1>23. InOrderRun(c) = n + o
    <2>1. \A j \in 0 .. (n + o) - 1 : nxt + j \in Sns(c.rcv_buf)
      <3>. TAKE j \in 0 .. (n + o) - 1
      <3>1. CASE j < n
        <4>1. j \in 0 .. n - 1
          BY <1>15, <3>1
        <4>. QED
          BY <1>15, <1>17, <4>1
      <3>2. CASE j >= n
        <4>1. j - n \in 0 .. o - 1 /\ nxt + n + (j - n) = nxt + j
          BY <1>15, <1>22, <3>2
        <4>2. nxt + j \in Sns(d.rcv_buf)
          BY <1>22, <4>1
        <4>. QED
          BY <1>20, <4>2 DEF Sns
      <3>. QED
        BY <1>15, <1>22, <3>1, <3>2
    <2>2. n + o = u \/ nxt + (n + o) \notin Sns(c.rcv_buf)
      <3>. SUFFICES ASSUME o # u - n, NEW x \in c.rcv_buf, x.sn = nxt + (n + o)
                    PROVE  FALSE
        BY <1>15, <1>22 DEF Sns
      <3>1. x.sn \notin nxt .. nxt + n - 1 /\ x.sn = nxt + n + o
        BY <1>15, <1>22
      <3>2. x \in d.rcv_buf
        BY <1>20, <3>1
      <3>3. nxt + n + o \in Sns(d.rcv_buf)
        BY <3>1, <3>2 DEF Sns
      <3>. QED
        BY <1>22, <3>3
    <2>3. n + o \in 0 .. WndUnused(c)
      BY <1>15, <1>16, <1>22
    <2>4. \A j \in 0 .. (n + o) - 1 : c.rcv_nxt + j \in Sns(c.rcv_buf)
      BY <1>6, <2>1, Zenon
    <2>5. n + o = WndUnused(c) \/ c.rcv_nxt + (n + o) \notin Sns(c.rcv_buf)
      BY <1>6, <1>16, <2>2
    <2>. QED
      BY <1>6, <2>3, <2>4, <2>5, RunIs
  <1>24. PICK e, f : e = Drain(c) /\ f = Drain(d)
    OBVIOUS
  <1>25. /\ e.rcv_nxt = nxt + (n + o)
         /\ e.rcv_buf = {x \in c.rcv_buf : x.sn \notin nxt .. nxt + (n + o) - 1}
         /\ e.rcv_queue = k.rcv_queue \o [i \in 1 .. n + o |->
                                            SegmentAt(c.rcv_buf, nxt + i - 1)]
    BY <1>6, <1>23, <1>24, DrainFields
  <1>26. /\ f.rcv_nxt = nxt + n + o
         /\ f.rcv_buf = {x \in d.rcv_buf : x.sn \notin nxt + n .. nxt + n + o - 1}
         /\ f.rcv_queue = m.rcv_queue \o [i \in 1 .. o |->
                                            SegmentAt(d.rcv_buf, nxt + n + i - 1)]
    BY <1>13, <1>21, <1>24, DrainFields
  <1>27. e.rcv_nxt = f.rcv_nxt
    BY <1>15, <1>22, <1>25, <1>26
  <1>28. e.rcv_buf = f.rcv_buf
    <2>1. \A x \in c.rcv_buf : x.sn \in Nat
      BY <1>18 DEF Numbered
    <2>2. \A y \in Nat : y \notin nxt .. nxt + (n + o) - 1 <=>
             y \notin nxt .. nxt + n - 1 /\ y \notin nxt + n .. nxt + n + o - 1
      BY <1>15, <1>22
    <2>. QED
      BY <1>20, <1>25, <1>26, <2>1, <2>2
  <1>29. e.rcv_queue = f.rcv_queue
    <2>1. PICK one, two, both :
             /\ one = [i \in 1 .. n |-> SegmentAt(b.rcv_buf, nxt + i - 1)]
             /\ two = [i \in 1 .. o |-> SegmentAt(d.rcv_buf, nxt + n + i - 1)]
             /\ both = [i \in 1 .. n + o |-> SegmentAt(c.rcv_buf, nxt + i - 1)]
      OBVIOUS
    <2>2. \A i \in 1 .. n : /\ SegmentAt(b.rcv_buf, nxt + i - 1) \in Segment
                            /\ SegmentAt(b.rcv_buf, nxt + i - 1)
                                 = SegmentAt(c.rcv_buf, nxt + i - 1)
      <3>. TAKE i \in 1 .. n
      <3>1. i - 1 \in 0 .. n - 1 /\ nxt + (i - 1) = nxt + i - 1
        BY <1>15
      <3>2. nxt + i - 1 \in Sns(b.rcv_buf)
        BY <1>15, <3>1
      <3>3. PICK x : x = nxt + i - 1
        OBVIOUS
      <3>4. b.rcv_buf \in SUBSET Numbered
        BY <1>18
      <3>. QED
        BY <1>18, <1>19, <3>2, <3>3, <3>4, SegmentAtSame, SegmentAtProperty
    <2>3. \A i \in 1 .. o : /\ SegmentAt(d.rcv_buf, nxt + n + i - 1) \in Segment
                            /\ SegmentAt(d.rcv_buf, nxt + n + i - 1)
                                 = SegmentAt(c.rcv_buf, nxt + (n + i) - 1)
      <3>. TAKE i \in 1 .. o
      <3>1. i - 1 \in 0 .. o - 1 /\ nxt + n + (i - 1) = nxt + n + i - 1
            /\ nxt + (n + i) - 1 = nxt + n + i - 1
        BY <1>15, <1>22
      <3>2. nxt + n + i - 1 \in Sns(d.rcv_buf)
        BY <1>22, <3>1
      <3>3. PICK x : x = nxt + n + i - 1 /\ x = nxt + (n + i) - 1
        BY <3>1
      <3>4. d.rcv_buf \in SUBSET c.rcv_buf /\ d.rcv_buf \in SUBSET Numbered
        BY <1>18, <1>20
      <3>5. SegmentAt(d.rcv_buf, x) \in Segment
        BY <3>2, <3>3, <3>4, SegmentAtProperty
      <3>6. SegmentAt(d.rcv_buf, x) = SegmentAt(c.rcv_buf, x)
        BY <1>18, <1>19, <3>2, <3>3, <3>4, SegmentAtSame
      <3>. QED
        BY <3>3, <3>5, <3>6, Zenon
    <2>4. one \in Seq(Segment) /\ Len(one) = n
          /\ \A i \in 1 .. n : one[i] = SegmentAt(c.rcv_buf, nxt + i - 1)
      <3>1. one \in [1 .. n -> Segment]
        BY <2>1, <2>2
      <3>2. Len(one) = n
        BY <1>15, <3>1
      <3>3. one \in Seq(Segment)
        BY <1>15, <3>1
      <3>4. \A i \in 1 .. n : one[i] = SegmentAt(c.rcv_buf, nxt + i - 1)
        BY <2>1, <2>2
      <3>. QED
        BY <3>2, <3>3, <3>4
    <2>5. two \in Seq(Segment) /\ Len(two) = o
          /\ \A i \in 1 .. o : two[i] = SegmentAt(c.rcv_buf, nxt + (n + i) - 1)
      <3>1. two \in [1 .. o -> Segment]
        BY <2>1, <2>3
      <3>. QED
        BY <1>22, <2>1, <2>3, <3>1
    <2>6. both = one \o two
      <3>1. /\ one \o two \in Seq(Segment) /\ Len(one \o two) = n + o
            /\ \A i \in 1 .. n : (one \o two)[i] = one[i]
            /\ \A i \in 1 .. o : (one \o two)[n + i] = two[i]
        <4>1. one \in Seq(Segment) /\ Len(one) = n /\ two \in Seq(Segment) /\ Len(two) = o
          BY <2>4, <2>5
        <4>2. /\ one \o two \in Seq(Segment) /\ Len(one \o two) = Len(one) + Len(two)
              /\ \A i \in 1 .. Len(one) : (one \o two)[i] = one[i]
              /\ \A i \in 1 .. Len(two) : (one \o two)[Len(one) + i] = two[i]
          <5>1. one \in Seq(Segment)
            BY <4>1
          <5>2. two \in Seq(Segment)
            BY <4>1
          <5>. QED
            BY <5>1, <5>2, Concatenated
        <4>. QED
          BY <4>1, <4>2, Zenon
      <3>2. PICK oneTwo : oneTwo = one \o two
        OBVIOUS
      <3>3. \A i \in 1 .. n + o : oneTwo[i] = SegmentAt(c.rcv_buf, nxt + i - 1)
        <4>. TAKE i \in 1 .. n + o
        <4>1. CASE i <= n
          <5>1. i \in 1 .. n
            BY <1>15, <4>1
          <5>. QED
            BY <2>4, <3>1, <3>2, <5>1
        <4>2. CASE i > n
          <5>1. i - n \in 1 .. o /\ n + (i - n) = i
            BY <1>15, <1>22, <4>2
          <5>2. oneTwo[n + (i - n)] = two[i - n]
            BY <3>1, <3>2, <5>1
          <5>3. two[i - n] = SegmentAt(c.rcv_buf, nxt + (n + (i - n)) - 1)
            BY <2>5, <5>1
          <5>. QED
            BY <5>1, <5>2, <5>3
        <4>. QED
          BY <1>15, <1>22, <4>1, <4>2
      <3>4. oneTwo = [i \in 1 .. n + o |-> oneTwo[i]]
        <4>1. oneTwo \in Seq(Segment) /\ Len(oneTwo) = n + o
          BY <3>1, <3>2
        <4>2. DOMAIN oneTwo = 1 .. n + o /\ oneTwo \in [1 .. n + o -> Segment]
          BY <4>1
        <4>. QED
          BY <4>2
      <3>5. oneTwo = [i \in 1 .. n + o |-> SegmentAt(c.rcv_buf, nxt + i - 1)]
        BY <3>3, <3>4, Zenon
      <3>. QED
        BY <2>1, <3>2, <3>5
    <2>7. e.rcv_queue = k.rcv_queue \o both
      BY <1>25, <2>1, Zenon
    <2>8. f.rcv_queue = (k.rcv_queue \o one) \o two
      BY <1>4, <1>11, <1>26, <2>1, Zenon
    <2>9. PICK q \in Seq(Segment), v \in Seq(Segment), w \in Seq(Segment) :
             q = k.rcv_queue /\ v = one /\ w = two
      BY <1>1, <2>4, <2>5
    <2>10. q \o (v \o w) = (q \o v) \o w
      OBVIOUS
    <2>. QED
      BY <2>6, <2>7, <2>8, <2>9, <2>10
  <1>30. SameReceiver(e, f)
    BY <1>27, <1>28, <1>29, Zenon DEF SameReceiver
  <1>31. Insert(k, W \cup {t}) = e
    BY <1>6, <1>24
  <1>32. Insert(Insert(k, W), {t}) = f
    BY <1>4, <1>8, <1>13, <1>24, Zenon
  <1>. QED
    BY <1>30, <1>31, <1>32

(* A PUSH command within the window is acknowledged and its segment taken, *)
(* ...                                                                     *)
LEMMA PushWithinShows ==
    ASSUME NEW k \in ControlBlock, NEW r, Shows(r, k), Bounded(k),
           NEW t \in Numbered,
           -(Mod \div 2) <= t.sn - (k.rcv_nxt + RcvWnd),
           t.sn < k.rcv_nxt + RcvWnd,
           NEW c, SameReceiver(c, Insert(k, {t})),
           SameButReceived(c, k), c.acklist = k.acklist \cup {t.sn}
    PROVE  Shows(TakePush(r, Held(t)), c)
  <1>1. /\ k.rcv_nxt \in Nat /\ k.acklist \in SUBSET Nat
        /\ t.sn \in Nat /\ {t} \in SUBSET Numbered
    BY DEF ControlBlock, Numbered
  <1>2. r \in RawBlock /\ r.rcv_nxt = Wrapped(k.rcv_nxt)
    BY DEF Shows, ShowsReceived
  <1>3. PICK h : h = Held(t)
    OBVIOUS
  <1>4. h.sn = Wrapped(t.sn)
    BY <1>3, HeldType
  <1>5. PICK nxt \in Nat, sn \in Nat : nxt = k.rcv_nxt /\ sn = t.sn
    BY <1>1
  <1>6. ITimeDiff(h.sn, r.rcv_nxt + RcvWnd) < 0
    <2>1. -(Mod \div 2) <= (sn + 0) - (nxt + RcvWnd)
          /\ (sn + 0) - (nxt + RcvWnd) < 0
          /\ (sn + 0) - (nxt + RcvWnd) < Mod \div 2 /\ RcvWnd \in Int
      BY <1>5, SerialConstants
    <2>2. ITimeDiff(Wrapped(sn) + 0, Wrapped(nxt) + RcvWnd) = (sn + 0) - (nxt + RcvWnd)
      BY <2>1, TrueDifference
    <2>3. Wrapped(sn) + 0 = Wrapped(sn)
      BY WrappedRange
    <2>. QED
      BY <1>2, <1>4, <1>5, <2>1, <2>2, <2>3
  <1>7. PICK acks, more : acks = k.acklist \cup {t.sn} /\ more = r.acklist \cup {h.sn}
    OBVIOUS
  <1>8. more = AllWrapped(acks) /\ acks \in SUBSET Nat
    <2>1. r.acklist = AllWrapped(k.acklist)
      BY DEF Shows, ShowsAcks
    <2>. QED
      BY <1>1, <1>4, <1>7, <2>1 DEF AllWrapped
  <1>9. more \in SUBSET Nat
    BY <1>8, AllWrappedNat
  <1>10. PICK e : e = [r EXCEPT !.acklist = more]
    OBVIOUS
  <1>11. TakePush(r, h) = ParseData(e, h)
    BY <1>6, <1>7, <1>10, Zenon DEF TakePush
  <1>12. PICK b : b = [k EXCEPT !.acklist = acks]
    OBVIOUS
  <1>13. /\ e \in RawBlock /\ e.acklist = more
         /\ e.conv = r.conv /\ e.rmt_wnd = r.rmt_wnd
         /\ e.cwnd = r.cwnd /\ e.ssthresh = r.ssthresh
         /\ e.tell = r.tell /\ e.probe_wait = r.probe_wait
         /\ e.snd_una = r.snd_una /\ e.snd_nxt = r.snd_nxt
         /\ e.snd_queue = r.snd_queue /\ e.snd_buf = r.snd_buf
         /\ e.rcv_nxt = r.rcv_nxt /\ e.rcv_queue = r.rcv_queue
         /\ e.rcv_buf = r.rcv_buf
    BY <1>2, <1>9, <1>10 DEF RawBlock
  <1>14. /\ b \in ControlBlock /\ b.acklist = acks
         /\ b.conv = k.conv /\ b.rmt_wnd = k.rmt_wnd
         /\ b.cwnd = k.cwnd /\ b.ssthresh = k.ssthresh
         /\ b.tell = k.tell /\ b.probe_wait = k.probe_wait
         /\ b.snd_una = k.snd_una /\ b.snd_nxt = k.snd_nxt
         /\ b.snd_queue = k.snd_queue /\ b.snd_buf = k.snd_buf
         /\ b.rcv_nxt = k.rcv_nxt /\ b.rcv_queue = k.rcv_queue
         /\ b.rcv_buf = k.rcv_buf
    BY <1>8, <1>12 DEF ControlBlock
  <1>15. Shows(e, b)
    BY <1>8, <1>13, <1>14, Zenon
    DEF Shows, ShowsRest, ShowsSent, ShowsReceived, ShowsAcks
  <1>16. SameReceiver(b, k) /\ SameButReceived(b, k)
    BY <1>14, Zenon DEF SameReceiver, SameButReceived
  <1>17. Bounded(b)
    BY <1>16, SameReceiverBounded
  <1>18. Shows(ParseData(e, h), Insert(b, {t}))
    <2>1. -(Mod \div 2) <= t.sn - (b.rcv_nxt + RcvWnd) /\ t.sn < b.rcv_nxt + RcvWnd
      BY <1>14
    <2>. QED
      BY <1>3, <1>14, <1>15, <1>17, <2>1, DataShows
  <1>19. SameReceiver(Insert(b, {t}), Insert(k, {t}))
    BY <1>1, <1>14, <1>16, InsertSame
  <1>20. SameButReceived(Insert(b, {t}), b) /\ Insert(b, {t}).acklist = b.acklist
    BY <1>1, <1>14, InsertFields
  <1>21. SameReceiver(c, Insert(b, {t}))
    BY <1>19, Zenon DEF SameReceiver
  <1>22. SameButReceived(c, Insert(b, {t}))
    BY <1>16, <1>20, Zenon DEF SameButReceived
  <1>23. c.acklist = Insert(b, {t}).acklist
    BY <1>7, <1>14, <1>20
  <1>24. Shows(ParseData(e, h), c)
    BY <1>18, <1>21, <1>22, <1>23, ShowsFields
  <1>. QED
    BY <1>3, <1>11, <1>24

(* ... and one beyond it ignored.                                          *)
LEMMA PushBeyondShows ==
    ASSUME NEW k \in ControlBlock, NEW r, Shows(r, k), NEW t \in Numbered,
           k.rcv_nxt + RcvWnd <= t.sn,
           t.sn - (k.rcv_nxt + RcvWnd) < Mod \div 2
    PROVE  TakePush(r, Held(t)) = r
  <1>1. k.rcv_nxt \in Nat /\ t.sn \in Nat
    BY DEF ControlBlock, Numbered
  <1>2. r.rcv_nxt = Wrapped(k.rcv_nxt)
    BY DEF Shows, ShowsReceived
  <1>3. PICK h : h = Held(t)
    OBVIOUS
  <1>4. h.sn = Wrapped(t.sn)
    BY <1>3, HeldType
  <1>5. PICK nxt \in Nat, sn \in Nat : nxt = k.rcv_nxt /\ sn = t.sn
    BY <1>1
  <1>6. ~ (ITimeDiff(h.sn, r.rcv_nxt + RcvWnd) < 0)
    <2>1. -(Mod \div 2) <= (sn + 0) - (nxt + RcvWnd)
          /\ ~ ((sn + 0) - (nxt + RcvWnd) < 0)
          /\ (sn + 0) - (nxt + RcvWnd) < Mod \div 2 /\ RcvWnd \in Int
      BY <1>5, SerialConstants
    <2>2. ITimeDiff(Wrapped(sn) + 0, Wrapped(nxt) + RcvWnd) = (sn + 0) - (nxt + RcvWnd)
      BY <2>1, TrueDifference
    <2>3. Wrapped(sn) + 0 = Wrapped(sn)
      BY WrappedRange
    <2>. QED
      BY <1>2, <1>4, <1>5, <2>1, <2>2, <2>3
  <1>7. TakePush(r, h) = r
    BY <1>6, Zenon DEF TakePush
  <1>. QED
    BY <1>3, <1>7

----------------------------------------------------------------------------
(* Types, for the loop.                                                    *)

(* ikcp_parse_data and what it calls leave a control block.                *)
LEMMA MoveAvailableType ==
    ASSUME NEW r \in RawBlock
    PROVE  MoveAvailable(r) \in RawBlock
  <1>1. /\ r.rcv_buf \in Seq(Numbered) /\ r.rcv_queue \in Seq(Segment)
        /\ r.rcv_nxt \in Nat
    BY DEF RawBlock
  <1>2. PICK m \in Nat : m = Len(r.rcv_buf)
    BY <1>1
  <1>3. PICK P : P = {i \in 0 .. Len(r.rcv_buf) :
                         \/ i = Len(r.rcv_buf)
                         \/ i = WndUnused(r)
                         \/ r.rcv_buf[i + 1].sn # Wrapped(r.rcv_nxt + i)}
    OBVIOUS
  <1>4. m \in P /\ P \in SUBSET Nat /\ P \subseteq 0 .. m
    BY <1>2, <1>3
  <1>5. PICK n : n = Least(P)
    OBVIOUS
  <1>6. n \in 0 .. m
    BY <1>4, <1>5, LeastIsLeast
  <1>7. PICK w, l, q : /\ w = Wrapped(r.rcv_nxt + n)
                       /\ l = SubSeq(r.rcv_buf, n + 1, Len(r.rcv_buf))
                       /\ q = r.rcv_queue \o [i \in 1 .. n |-> r.rcv_buf[i].seg]
    OBVIOUS
  <1>8. w \in Nat
    <2>1. r.rcv_nxt + n \in Nat
      BY <1>1, <1>6
    <2>. QED
      BY <1>7, <2>1, WrappedNat
  <1>9. l \in Seq(Numbered)
    BY <1>1, <1>2, <1>6, <1>7
  <1>10. q \in Seq(Segment)
    <2>1. PICK more : more = [i \in 1 .. n |-> r.rcv_buf[i].seg]
      OBVIOUS
    <2>2. \A i \in 1 .. n : r.rcv_buf[i] \in Numbered
      BY <1>1, <1>2, <1>6
    <2>3. \A i \in 1 .. n : r.rcv_buf[i].seg \in Segment
      BY <2>2 DEF Numbered
    <2>4. more \in [1 .. n -> Segment]
      BY <2>1, <2>3
    <2>5. more \in Seq(Segment)
      BY <1>6, <2>4
    <2>. QED
      BY <1>1, <1>7, <2>1, <2>5
  <1>11. MoveAvailable(r)
           = [r EXCEPT !.rcv_nxt = w, !.rcv_buf = l, !.rcv_queue = q]
    BY <1>3, <1>5, <1>7, Zenon DEF MoveAvailable
  <1>. QED
    BY <1>8, <1>9, <1>10, <1>11 DEF RawBlock

(* A list with one more segment.                                           *)
LEMMA InsertAtType ==
    ASSUME NEW T, NEW l \in Seq(T), NEW i \in 1 .. Len(l) + 1, NEW x \in T
    PROVE  InsertAt(l, i, x) \in Seq(T)
  <1>1. PICK a, b : a = SubSeq(l, 1, i - 1) /\ b = SubSeq(l, i, Len(l))
    OBVIOUS
  <1>2. a \in Seq(T)
    BY <1>1
  <1>3. b \in Seq(T)
    BY <1>1
  <1>4. PICK o : o = <<x>>
    OBVIOUS
  <1>5. o \in Seq(T)
    BY <1>4
  <1>6. InsertAt(l, i, x) = (a \o o) \o b
    BY <1>1, <1>4, Zenon DEF InsertAt
  <1>7. a \o o \in Seq(T)
    BY <1>2, <1>5
  <1>8. (a \o o) \o b \in Seq(T)
    BY <1>3, <1>7
  <1>. QED
    BY <1>6, <1>8

(* One PUSH command leaves a control block.                                *)
LEMMA TakePushType ==
    ASSUME NEW r \in RawBlock, NEW h \in Numbered
    PROVE  TakePush(r, h) \in RawBlock
  <1>1. r.rcv_buf \in Seq(Numbered) /\ r.acklist \in SUBSET Nat /\ h.sn \in Nat
    BY DEF RawBlock, Numbered
  <1>2. PICK e : e = [r EXCEPT !.acklist = @ \cup {h.sn}]
    OBVIOUS
  <1>3. e \in RawBlock /\ e.rcv_buf = r.rcv_buf
    BY <1>1, <1>2 DEF RawBlock
  <1>4. TakePush(r, h) = r \/ TakePush(r, h) = ParseData(e, h)
    BY <1>2, Zenon DEF TakePush
  <1>. DEFINE Place == {i \in 1 .. Len(e.rcv_buf) :
                           ITimeDiff(h.sn, e.rcv_buf[i].sn) >= 0}
              At(S) == IF S = {} THEN 0 ELSE CHOOSE i \in S : \A j \in S : i >= j
  <1>5. PICK at : at = At(Place)
    OBVIOUS
  <1>6. \/ ParseData(e, h) = e
        \/ ParseData(e, h) = MoveAvailable(e)
        \/ ParseData(e, h) = MoveAvailable([e EXCEPT !.rcv_buf = InsertAt(@, at + 1, h)])
    <2>1. \/ ParseData(e, h) = e
          \/ ParseData(e, h) = MoveAvailable(e)
          \/ ParseData(e, h)
               = MoveAvailable([e EXCEPT !.rcv_buf = InsertAt(@, At(Place) + 1, h)])
      BY Zenon DEF ParseData
    <2>. HIDE DEF At, Place
    <2>. QED
      BY <1>5, <2>1, Zenon
  <1>7. at + 1 \in 1 .. Len(e.rcv_buf) + 1
    <2>1. PICK place, m : place = Place /\ m = Len(e.rcv_buf)
      OBVIOUS
    <2>2. m \in Nat /\ place \in SUBSET (1 .. m) /\ at = At(place)
      BY <1>1, <1>3, <1>5, <2>1
    <2>3. CASE place = {}
      BY <2>1, <2>2, <2>3
    <2>4. CASE place # {}
      <3>1. \E i \in place : \A j \in place : i >= j
        BY <2>2, <2>4, GreatestOfSome
      <3>2. at \in place
        BY <2>2, <2>4, <3>1, Zenon
      <3>3. PICK y \in 1 .. m : y = at
        BY <2>2, <3>2
      <3>4. y + 1 \in 1 .. m + 1
        BY <2>2
      <3>. QED
        BY <2>1, <3>3, <3>4
    <2>. QED
      BY <2>3, <2>4
  <1>8. PICK l : l = InsertAt(e.rcv_buf, at + 1, h)
    OBVIOUS
  <1>9. l \in Seq(Numbered)
    BY <1>1, <1>3, <1>7, <1>8, InsertAtType
  <1>10. [e EXCEPT !.rcv_buf = InsertAt(@, at + 1, h)] \in RawBlock
    BY <1>3, <1>8, <1>9 DEF RawBlock
  <1>11. ParseData(e, h) \in RawBlock
    <2>. HIDE DEF At, Place
    <2>. QED
      BY <1>3, <1>6, <1>10, MoveAvailableType
  <1>. QED
    BY <1>4, <1>11

(* The PUSH commands of a datagram, one after the other.                   *)
LEMMA TakeEachPushSteps ==
    ASSUME NEW r \in RawBlock, NEW n \in Nat, NEW push \in Seq(Numbered),
           Len(push) = n
    PROVE  \E f : /\ f[0] = r /\ TakeEachPush(r, push) = f[n]
                  /\ \A i \in 1 .. n : f[i] = TakePush(f[i - 1], push[i])
  <1>. DEFINE Unrolls(f) ==
                  f = [i \in 0 .. Len(push) |->
                         IF i = 0 THEN r ELSE TakePush(f[i - 1], push[i])]
              step == [i \in 1 .. n |-> [e \in RawBlock |-> TakePush(e, push[i])]]
  <1>1. step \in Steps(n, RawBlock)
    <2>1. \A i \in 1 .. n : push[i] \in Numbered
      OBVIOUS
    <2>2. \A i \in 1 .. n : \A e \in RawBlock : TakePush(e, push[i]) \in RawBlock
      BY <2>1, TakePushType
    <2>. QED
      BY <2>2 DEF Steps
  <1>2. \A i \in 1 .. n : \A e \in RawBlock : step[i][e] = TakePush(e, push[i])
    OBVIOUS
  <1>3. PICK g : /\ g \in [0 .. n -> RawBlock]
                 /\ g = [i \in 0 .. n |-> IF i = 0 THEN r ELSE step[i][g[i - 1]]]
    <2>. HIDE DEF step
    <2>. QED
      BY <1>1, Unrolled
  <1>. HIDE DEF step
  <1>4. \A i \in 0 .. n : (IF i = 0 THEN r ELSE step[i][g[i - 1]])
                            = (IF i = 0 THEN r ELSE TakePush(g[i - 1], push[i]))
    <2>. TAKE i \in 0 .. n
    <2>1. CASE i = 0
      BY <2>1
    <2>2. CASE i # 0
      <3>1. i \in 1 .. n /\ i - 1 \in 0 .. n
        BY <2>2
      <3>2. g[i - 1] \in RawBlock
        BY <1>3, <3>1
      <3>3. step[i][g[i - 1]] = TakePush(g[i - 1], push[i])
        BY <1>2, <3>1, <3>2
      <3>. QED
        BY <2>2, <3>3
    <2>. QED
      BY <2>1, <2>2
  <1>5. Unrolls(g)
    <2>1. g = [i \in 0 .. n |-> IF i = 0 THEN r ELSE TakePush(g[i - 1], push[i])]
      BY <1>3, <1>4, Zenon
    <2>. QED
      BY <2>1, Zenon
  <1>6. PICK f : f = CHOOSE h : Unrolls(h)
    OBVIOUS
  <1>7. Unrolls(f)
    BY <1>5, <1>6, Zenon
  <1>8. TakeEachPush(r, push) = f[n]
    BY <1>6, Zenon DEF TakeEachPush
  <1>9. f = [i \in 0 .. n |-> IF i = 0 THEN r ELSE TakePush(f[i - 1], push[i])]
    BY <1>7, Zenon
  <1>10. 0 \in 0 .. n /\ \A i \in 1 .. n : i \in 0 .. n /\ i # 0
    OBVIOUS
  <1>11. f[0] = r
    BY <1>9, <1>10, Zenon
  <1>12. \A i \in 1 .. n : f[i] = TakePush(f[i - 1], push[i])
    BY <1>9, <1>10, Zenon
  <1>. QED
    BY <1>8, <1>11, <1>12

(* The segments of a datagram that are within the window when their turn   *)
(* comes.                                                                  *)
Before(s, push) == {t \in push : t.sn < s.sn}
Within(k, push) ==
    {s \in push : s.sn < Insert(k, Before(s, push)).rcv_nxt + RcvWnd}

(* What the segments of a datagram leave of a control block.               *)
LEMMA TakePushesFields ==
    ASSUME NEW k \in ControlBlock, NEW push \in SUBSET Numbered
    PROVE  /\ TakePushes(k, push) \in ControlBlock
           /\ SameReceiver(TakePushes(k, push), Insert(k, Within(k, push)))
           /\ SameButReceived(TakePushes(k, push), k)
           /\ TakePushes(k, push).acklist = k.acklist \cup Sns(Within(k, push))
  <1>1. Within(k, push) \in SUBSET Numbered
    BY DEF Within
  <1>2. PICK m : m = Insert(k, Within(k, push))
    OBVIOUS
  <1>3. m \in ControlBlock /\ SameButReceived(m, k) /\ m.acklist = k.acklist
    BY <1>1, <1>2, InsertType, InsertFields
  <1>4. PICK acks : acks = k.acklist \cup Sns(Within(k, push))
    OBVIOUS
  <1>5. acks = m.acklist \cup Sns(Within(k, push))
    BY <1>3, <1>4
  <1>6. PICK c : c = [m EXCEPT !.acklist = acks]
    OBVIOUS
  <1>7. TakePushes(k, push) = c
    <2>1. TakePushes(k, push)
            = [m EXCEPT !.acklist = @ \cup Sns(Within(k, push))]
      BY <1>2, Zenon DEF TakePushes, Within, Before
    <2>. QED
      BY <1>5, <1>6, <2>1, Zenon
  <1>8. /\ c.acklist = acks
        /\ c.conv = m.conv /\ c.rmt_wnd = m.rmt_wnd
        /\ c.cwnd = m.cwnd /\ c.ssthresh = m.ssthresh
        /\ c.tell = m.tell /\ c.probe_wait = m.probe_wait
        /\ c.snd_una = m.snd_una /\ c.snd_nxt = m.snd_nxt
        /\ c.snd_queue = m.snd_queue /\ c.snd_buf = m.snd_buf
        /\ c.rcv_nxt = m.rcv_nxt /\ c.rcv_queue = m.rcv_queue
        /\ c.rcv_buf = m.rcv_buf
    BY <1>3, <1>6 DEF ControlBlock
  <1>9. SameReceiver(c, m)
    BY <1>8, Zenon DEF SameReceiver
  <1>10. SameButReceived(c, k)
    BY <1>3, <1>8, Zenon DEF SameButReceived
  <1>11. c \in ControlBlock
    BY <1>7, TakePushesType
  <1>. QED
    BY <1>2, <1>4, <1>7, <1>8, <1>9, <1>10, <1>11, Zenon

(* One more segment, behind the others.                                    *)
LEMMA WithinMore ==
    ASSUME NEW k \in ControlBlock, NEW P \in SUBSET Numbered, NEW t \in Numbered,
           \A x \in P : x.sn < t.sn
    PROVE  Within(k, P \cup {t}) =
              Within(k, P) \cup {x \in {t} : x.sn < Insert(k, P).rcv_nxt + RcvWnd}
  <1>1. t.sn \in Nat /\ \A x \in P : x.sn \in Nat
    BY DEF Numbered
  <1>2. \A x \in P : Before(x, P \cup {t}) = Before(x, P)
    BY <1>1 DEF Before
  <1>3. Before(t, P \cup {t}) = P
    BY <1>1 DEF Before
  <1>4. \A x \in P : x # t
    BY <1>1
  <1>5. ASSUME NEW x
        PROVE  x \in Within(k, P \cup {t}) <=>
                 \/ x \in Within(k, P)
                 \/ x = t /\ x.sn < Insert(k, P).rcv_nxt + RcvWnd
    <2>1. x \in Within(k, P \cup {t}) <=>
            /\ x \in P \/ x = t
            /\ x.sn < Insert(k, Before(x, P \cup {t})).rcv_nxt + RcvWnd
      BY Zenon DEF Within
    <2>2. x \in Within(k, P) <=>
            x \in P /\ x.sn < Insert(k, Before(x, P)).rcv_nxt + RcvWnd
      BY Zenon DEF Within
    <2>3. CASE x \in P
      BY <1>2, <1>4, <2>1, <2>2, <2>3, Zenon
    <2>4. CASE x = t
      BY <1>3, <1>4, <2>1, <2>2, <2>4, Zenon
    <2>5. CASE x \notin P /\ x # t
      BY <2>1, <2>2, <2>5, Zenon
    <2>. QED
      BY <2>3, <2>4, <2>5
  <1>6. PICK A, B : /\ A = Within(k, P \cup {t}) /\ B = Within(k, P)
    OBVIOUS
  <1>. QED
    BY <1>5

(* Segments beyond the window do not move it, and it moves only for one    *)
(* that is next.                                                           *)
LEMMA WithinReach ==
    ASSUME NEW k \in ControlBlock, NEW P \in SUBSET Numbered, Bounded(k)
    PROVE  /\ Insert(k, Within(k, P)).rcv_nxt = Insert(k, P).rcv_nxt
           /\ Insert(k, P).rcv_nxt \in k.rcv_nxt .. k.rcv_nxt + RcvWnd
           /\ \/ Insert(k, P).rcv_nxt = k.rcv_nxt
              \/ k.rcv_nxt \in Sns(P)
  <1>1. /\ k.rcv_nxt \in Nat /\ RcvWnd \in Nat /\ k.rcv_queue \in Seq(Segment)
        /\ Within(k, P) \in SUBSET Numbered
    BY KcpAssumption DEF ControlBlock, Within
  <1>2. \A s \in P : s.sn < k.rcv_nxt + RcvWnd => s \in Within(k, P)
    <2>. SUFFICES ASSUME NEW s \in P, s.sn < k.rcv_nxt + RcvWnd
                  PROVE  s \in Within(k, P)
      OBVIOUS
    <2>1. Before(s, P) \in SUBSET Numbered /\ {} \in SUBSET Numbered
      BY DEF Before
    <2>2. k.rcv_nxt <= Insert(k, Before(s, P)).rcv_nxt
          /\ Insert(k, Before(s, P)).rcv_nxt \in Nat
      <3>1. \A x \in {} : x.sn < k.rcv_nxt + RcvWnd => x \in Before(s, P)
        OBVIOUS
      <3>. QED
        BY <2>1, <3>1, InsertReach
    <2>3. PICK a : a = Insert(k, Before(s, P)).rcv_nxt
      OBVIOUS
    <2>4. s.sn \in Nat
      BY DEF Numbered
    <2>5. s.sn < a + RcvWnd
      BY <1>1, <2>2, <2>3, <2>4
    <2>. QED
      BY <2>3, <2>5, Zenon DEF Within
  <1>3. \A s \in Within(k, P) : s.sn < k.rcv_nxt + RcvWnd => s \in P
    BY DEF Within
  <1>4. PICK a, b : a = Insert(k, P).rcv_nxt /\ b = Insert(k, Within(k, P)).rcv_nxt
    OBVIOUS
  <1>5. a <= b /\ a \in Nat /\ b \in Nat
    BY <1>1, <1>2, <1>4, InsertReach
  <1>6. b <= a
    BY <1>1, <1>3, <1>4, InsertReach
  <1>7. PICK c : c = Stored(k, P)
    OBVIOUS
  <1>8. /\ c \in ControlBlock /\ Insert(k, P) = Drain(c)
        /\ c.rcv_nxt = k.rcv_nxt /\ c.rcv_queue = k.rcv_queue
        /\ c.rcv_buf = k.rcv_buf \cup {s \in P : s.sn >= k.rcv_nxt
                                                /\ s.sn \notin Sns(k.rcv_buf)}
    BY <1>7, StoredProperty
  <1>9. PICK n, u : n = InOrderRun(c) /\ u = WndUnused(c)
    OBVIOUS
  <1>10. u \in Nat /\ n \in 0 .. u
         /\ \A j \in 0 .. n - 1 : k.rcv_nxt + j \in Sns(c.rcv_buf)
    BY <1>8, <1>9, WndUnusedNat, InOrderRunProperty
  <1>11. a = k.rcv_nxt + n
    BY <1>4, <1>8, <1>9, DrainProperty
  <1>12. PICK len \in Nat : len = Len(k.rcv_queue)
    BY <1>1
  <1>13. u = Greater(0, RcvWnd - len)
    BY <1>8, <1>9, <1>12 DEF WndUnused
  <1>14. u <= RcvWnd /\ (u > 0 => len # RcvWnd)
    BY <1>1, <1>12, <1>13 DEF Greater
  <1>15. n > 0 => k.rcv_nxt \in Sns(P)
    <2>. HAVE n > 0
    <2>1. 0 \in 0 .. n - 1 /\ k.rcv_nxt + 0 = k.rcv_nxt
      BY <1>1, <1>10
    <2>2. k.rcv_nxt \in Sns(c.rcv_buf)
      BY <1>10, <2>1
    <2>3. k.rcv_nxt \notin Sns(k.rcv_buf)
      <3>1. len # RcvWnd
        BY <1>10, <1>14
      <3>. QED
        BY <1>12, <3>1 DEF Bounded, NothingWaits
    <2>. QED
      BY <1>8, <2>2, <2>3 DEF Sns
  <1>16. a \in k.rcv_nxt .. k.rcv_nxt + RcvWnd
    BY <1>1, <1>10, <1>11, <1>14
  <1>17. a = k.rcv_nxt \/ k.rcv_nxt \in Sns(P)
    BY <1>1, <1>10, <1>11, <1>15
  <1>. QED
    BY <1>4, <1>5, <1>6, <1>16, <1>17

(* The next segment of a datagram.                                         *)
LEMMA NextPushShows ==
    ASSUME NEW k \in ControlBlock, Bounded(k), Once(k.rcv_buf),
           NEW P \in SUBSET Numbered, Once(P), NEW r, Shows(r, TakePushes(k, P)),
           NEW t \in Numbered, \A x \in P : x.sn < t.sn,
           k.rcv_nxt - t.sn <= Life,
           t.sn - (k.rcv_nxt + RcvWnd) < Mod \div 2
    PROVE  Shows(TakePush(r, Held(t)), TakePushes(k, P \cup {t}))
  <1>1. PICK W, V, c, e :
           /\ W = Within(k, P) /\ V = Within(k, P \cup {t})
           /\ c = TakePushes(k, P) /\ e = TakePushes(k, P \cup {t})
    OBVIOUS
  <1>2. P \cup {t} \in SUBSET Numbered /\ W \in SUBSET P
    BY <1>1 DEF Within
  <1>3. /\ c \in ControlBlock /\ SameReceiver(c, Insert(k, W))
        /\ SameButReceived(c, k) /\ c.acklist = k.acklist \cup Sns(W)
    BY <1>1, TakePushesFields
  <1>4. /\ e \in ControlBlock /\ SameReceiver(e, Insert(k, V))
        /\ SameButReceived(e, k) /\ e.acklist = k.acklist \cup Sns(V)
    BY <1>1, <1>2, TakePushesFields
  <1>5. Bounded(c)
    BY <1>1, TakePushesBounded
  <1>6. PICK nxt \in Nat, now \in Nat, sn \in Nat :
           nxt = k.rcv_nxt /\ now = c.rcv_nxt /\ sn = t.sn
    <2>1. k.rcv_nxt \in Nat /\ c.rcv_nxt \in Nat /\ t.sn \in Nat
      BY <1>3 DEF ControlBlock, Numbered
    <2>. QED
      BY <2>1
  <1>7. /\ now = Insert(k, P).rcv_nxt
        /\ now \in nxt .. nxt + RcvWnd
        /\ now = nxt \/ nxt \in Sns(P)
    <2>1. /\ Insert(k, W).rcv_nxt = Insert(k, P).rcv_nxt
          /\ Insert(k, P).rcv_nxt \in k.rcv_nxt .. k.rcv_nxt + RcvWnd
          /\ Insert(k, P).rcv_nxt = k.rcv_nxt \/ k.rcv_nxt \in Sns(P)
      BY <1>1, WithinReach
    <2>2. now = Insert(k, W).rcv_nxt
      BY <1>3, <1>6 DEF SameReceiver
    <2>. QED
      BY <1>6, <2>1, <2>2
  <1>8. -(Mod \div 2) <= sn - (now + RcvWnd) /\ sn - (now + RcvWnd) < Mod \div 2
    <2>1. nxt - sn <= Life /\ sn - (nxt + RcvWnd) < Mod \div 2
      BY <1>6
    <2>2. now \in Nat /\ nxt <= now /\ now <= nxt + RcvWnd
      BY <1>7, SerialConstants
    <2>3. CASE now = nxt
      BY <2>1, <2>2, <2>3, SerialConstants
    <2>4. CASE nxt \in Sns(P)
      <3>1. PICK x \in P : x.sn = nxt
        BY <2>4 DEF Sns
      <3>2. nxt < sn
        BY <1>6, <3>1
      <3>. QED
        BY <2>1, <2>2, <3>2, SerialConstants
    <2>. QED
      BY <1>7, <2>3, <2>4
  <1>9. V = W \cup {x \in {t} : x.sn < now + RcvWnd}
    BY <1>1, <1>7, WithinMore
  <1>10. Shows(r, c)
    BY <1>1
  <1>11. CASE sn < now + RcvWnd
    <2>1. V = W \cup {t}
      BY <1>6, <1>9, <1>11
    <2>2. W \in SUBSET Numbered /\ {t} \in SUBSET Numbered
      BY <1>2
    <2>3. SameReceiver(Insert(k, W \cup {t}), Insert(Insert(k, W), {t}))
      <3>1. Once(W)
        BY <1>2 DEF Once
      <3>2. \A x \in W : x.sn < t.sn
        BY <1>2
      <3>. QED
        BY <2>2, <3>1, <3>2, InsertMore
    <2>4. SameReceiver(Insert(c, {t}), Insert(Insert(k, W), {t}))
      <3>1. Insert(k, W) \in ControlBlock
        BY <2>2, InsertType
      <3>. QED
        BY <1>3, <2>2, <3>1, InsertSame
    <2>5. SameReceiver(e, Insert(c, {t}))
      BY <1>4, <2>1, <2>3, <2>4, Zenon DEF SameReceiver
    <2>6. SameButReceived(e, c)
      BY <1>3, <1>4, Zenon DEF SameButReceived
    <2>7. e.acklist = c.acklist \cup {t.sn}
      BY <1>3, <1>4, <2>1 DEF Sns
    <2>8. -(Mod \div 2) <= t.sn - (c.rcv_nxt + RcvWnd) /\ t.sn < c.rcv_nxt + RcvWnd
      BY <1>6, <1>8, <1>11
    <2>9. Shows(TakePush(r, Held(t)), e)
      BY <1>3, <1>5, <1>10, <2>5, <2>6, <2>7, <2>8, PushWithinShows
    <2>. QED
      BY <1>1, <2>9
  <1>12. CASE now + RcvWnd <= sn
    <2>1. V = W
      BY <1>6, <1>7, <1>9, <1>12, SerialConstants
    <2>2. SameReceiver(e, c) /\ SameButReceived(e, c) /\ e.acklist = c.acklist
      BY <1>3, <1>4, <2>1, Zenon DEF SameReceiver, SameButReceived
    <2>3. Shows(r, e)
      BY <1>10, <2>2, ShowsFields
    <2>4. c.rcv_nxt + RcvWnd <= t.sn /\ t.sn - (c.rcv_nxt + RcvWnd) < Mod \div 2
      BY <1>6, <1>8, <1>12
    <2>5. TakePush(r, Held(t)) = r
      BY <1>3, <1>10, <2>4, PushBeyondShows
    <2>. QED
      BY <1>1, <2>3, <2>5
  <1>. QED
    BY <1>6, <1>7, <1>11, <1>12, SerialConstants

(* A datagram without segments.                                            *)
LEMMA NoPushShows ==
    ASSUME NEW k \in ControlBlock, Bounded(k), NEW r, Shows(r, k)
    PROVE  Shows(r, TakePushes(k, {}))
  <1>1. {} \in SUBSET Numbered /\ Within(k, {}) = {} /\ Sns({}) = {}
    BY DEF Within, Sns
  <1>2. PICK c : c = TakePushes(k, {})
    OBVIOUS
  <1>3. /\ SameReceiver(c, Insert(k, {})) /\ SameButReceived(c, k)
        /\ c.acklist = k.acklist \cup {}
    BY <1>1, <1>2, TakePushesFields
  <1>4. PICK b : b = Stored(k, {})
    OBVIOUS
  <1>5. /\ b \in ControlBlock /\ Insert(k, {}) = Drain(b)
        /\ b.rcv_nxt = k.rcv_nxt /\ b.rcv_queue = k.rcv_queue
        /\ b.rcv_buf = k.rcv_buf \cup {s \in {} : s.sn >= k.rcv_nxt
                                                 /\ s.sn \notin Sns(k.rcv_buf)}
    BY <1>1, <1>4, StoredProperty
  <1>6. SameReceiver(b, k)
    <2>1. b.rcv_buf = k.rcv_buf
      BY <1>5
    <2>. QED
      BY <1>5, <2>1, Zenon DEF SameReceiver
  <1>7. SameReceiver(Drain(b), b)
    BY <1>5, <1>6, SameReceiverBounded, DrainNothing
  <1>8. SameReceiver(c, k)
    BY <1>3, <1>5, <1>6, <1>7, Zenon DEF SameReceiver
  <1>9. c.acklist = k.acklist
    BY <1>3
  <1>10. Shows(r, c)
    BY <1>3, <1>8, <1>9, ShowsFields
  <1>. QED
    BY <1>2, <1>10

(* All the segments of a datagram.                                         *)
LEMMA PushesShow ==
    ASSUME NEW k \in ControlBlock, Bounded(k), NEW r, Shows(r, k),
           NEW push \in SUBSET Numbered, NEW l, IsList(l, push),
           \A x \in push : /\ k.rcv_nxt - x.sn <= Life
                           /\ x.sn - (k.rcv_nxt + RcvWnd) < Mod \div 2
    PROVE  Shows(TakeEachPush(r, l), TakePushes(k, push))
  <1>1. Once(k.rcv_buf)
    <2>1. IsList(r.rcv_buf, k.rcv_buf) /\ k.rcv_buf \in SUBSET Numbered
      BY DEF Shows, ShowsReceived, ControlBlock
    <2>. QED
      BY <2>1, ListedOnce DEF Once
  <1>2. Once(push)
    BY ListedOnce DEF Once
  <1>3. PICK n, s : Counts(s, n, push) /\ l = InMemory(s)
    BY DEF IsList
  <1>4. /\ n \in Nat /\ s \in [1 .. n -> Numbered]
        /\ \A i \in 1 .. n : s[i] \in push
        /\ \A i \in 1 .. n : s[i].sn \in Nat
        /\ \A x \in push : \E i \in 1 .. n : s[i] = x
        /\ \A i, j \in 1 .. n : i < j => s[i].sn < s[j].sn
    BY <1>3, CountsType, Zenon
  <1>5. /\ l \in Seq(Numbered) /\ Len(l) = n
        /\ \A i \in 1 .. n : l[i] = Held(s[i])
    BY <1>3, <1>4, InMemoryAt, Zenon
  <1>6. r \in RawBlock
    BY DEF Shows
  <1>7. PICK f : /\ f[0] = r /\ TakeEachPush(r, l) = f[n]
                 /\ \A i \in 1 .. n : f[i] = TakePush(f[i - 1], l[i])
    <2>1. n \in Nat /\ l \in Seq(Numbered) /\ Len(l) = n
      BY <1>4, <1>5
    <2>. QED
      BY <1>6, <2>1, TakeEachPushSteps
  <1>. DEFINE first(i) == {s[j] : j \in 1 .. i}
              Good == {i \in 0 .. n : Shows(f[i], TakePushes(k, first(i)))}
  <1>8. 0 \in Good
    <2>1. first(0) = {} /\ 0 \in 0 .. n
      BY <1>4
    <2>2. Shows(f[0], TakePushes(k, {}))
      BY <1>7, NoPushShows
    <2>. HIDE DEF first
    <2>. QED
      BY <2>1, <2>2
  <1>9. ASSUME NEW i \in 1 .. n, i - 1 \in Good PROVE i \in Good
    <2>1. \A j \in 1 .. i - 1 : j \in 1 .. n /\ j < i
      BY <1>4
    <2>2. first(i - 1) \in SUBSET Numbered /\ first(i - 1) \in SUBSET push
      BY <1>4, <2>1
    <2>3. first(i) = first(i - 1) \cup {s[i]}
      <3>1. \A j \in 1 .. i : j \in 1 .. i - 1 \/ j = i
        OBVIOUS
      <3>2. \A j \in 1 .. i - 1 : j \in 1 .. i
        OBVIOUS
      <3>3. i \in 1 .. i
        OBVIOUS
      <3>. QED
        BY <3>1, <3>2, <3>3, Zenon
    <2>4. \A x \in first(i - 1) : x.sn < s[i].sn
      BY <1>4, <2>1
    <2>5. Once(first(i - 1))
      BY <1>2, <2>2 DEF Once
    <2>6. Shows(f[i - 1], TakePushes(k, first(i - 1)))
      BY <1>9
    <2>7. s[i] \in Numbered /\ s[i] \in push
      BY <1>4
    <2>8. f[i] = TakePush(f[i - 1], Held(s[i]))
      BY <1>5, <1>7
    <2>. HIDE DEF first
    <2>9. Shows(TakePush(f[i - 1], Held(s[i])), TakePushes(k, first(i - 1) \cup {s[i]}))
      BY <1>1, <2>2, <2>4, <2>5, <2>6, <2>7, NextPushShows
    <2>10. i \in 0 .. n
      OBVIOUS
    <2>. QED
      BY <2>3, <2>8, <2>9, <2>10
  <1>10. \A i \in 0 .. n : i \in Good
    <2>. HIDE DEF Good
    <2>. QED
      BY <1>4, <1>8, <1>9, Climb
  <1>11. n \in Good
    <2>. HIDE DEF Good
    <2>. QED
      BY <1>4, <1>10
  <1>12. first(n) = push
    BY <1>4
  <1>. HIDE DEF first
  <1>13. Shows(f[n], TakePushes(k, push))
    BY <1>11, <1>12
  <1>. QED
    BY <1>7, <1>13

----------------------------------------------------------------------------
(* ikcp_input.                                                             *)

(* A control block that has read the window and the commands of d ...      *)
Heard(k, d) == [k EXCEPT !.rmt_wnd = d.wnd, !.tell = @ \/ d.wask]

(* ... and its acknowledgements.                                           *)
HeardAcks(k, d) == [TakeAcks(k, d) EXCEPT !.rmt_wnd = d.wnd, !.tell = @ \/ d.wask]

(* The window and the commands touch two fields.                           *)
LEMMA HeardFields ==
    ASSUME NEW k \in ControlBlock, NEW d \in Datagram
    PROVE  /\ Heard(k, d) \in ControlBlock
           /\ SameSender(Heard(k, d), k) /\ SameReceiver(Heard(k, d), k)
           /\ Heard(k, d).snd_una = k.snd_una
           /\ Heard(k, d).acklist = k.acklist
           /\ Heard(k, d).conv = k.conv /\ Heard(k, d).rmt_wnd = d.wnd
           /\ Heard(k, d).cwnd = k.cwnd /\ Heard(k, d).ssthresh = k.ssthresh
           /\ Heard(k, d).tell = (k.tell \/ d.wask)
           /\ Heard(k, d).probe_wait = k.probe_wait
  <1>1. d.wnd \in Nat /\ d.wask \in BOOLEAN
    BY DEF Datagram
  <1>2. PICK w, t : w = d.wnd /\ t = (k.tell \/ d.wask)
    OBVIOUS
  <1>3. k.tell \in BOOLEAN
    BY DEF ControlBlock
  <1>4. w \in Nat /\ t \in BOOLEAN
    BY <1>1, <1>2, <1>3
  <1>5. PICK c : c = [k EXCEPT !.rmt_wnd = w, !.tell = t]
    OBVIOUS
  <1>6. Heard(k, d) = c
    BY <1>2, <1>5, Zenon DEF Heard
  <1>7. /\ c \in ControlBlock /\ c.rmt_wnd = w /\ c.tell = t
        /\ c.conv = k.conv
        /\ c.cwnd = k.cwnd /\ c.ssthresh = k.ssthresh
        /\ c.probe_wait = k.probe_wait
        /\ c.snd_una = k.snd_una /\ c.snd_nxt = k.snd_nxt
        /\ c.snd_queue = k.snd_queue /\ c.snd_buf = k.snd_buf
        /\ c.rcv_nxt = k.rcv_nxt /\ c.rcv_queue = k.rcv_queue
        /\ c.rcv_buf = k.rcv_buf /\ c.acklist = k.acklist
    BY <1>4, <1>5 DEF ControlBlock
  <1>8. SameSender(c, k) /\ SameReceiver(c, k)
    BY <1>7, Zenon DEF SameSender, SameReceiver
  <1>. QED
    BY <1>2, <1>6, <1>7, <1>8, Zenon

(* The acknowledgements touch two more.                                    *)
LEMMA HeardAcksFields ==
    ASSUME NEW k \in ControlBlock, NEW d \in Datagram
    PROVE  /\ HeardAcks(k, d) \in ControlBlock
           /\ HeardAcks(k, d).snd_buf = {s \in k.snd_buf : /\ s.sn >= d.una
                                                           /\ s.sn \notin d.acks}
           /\ SameButAcked(HeardAcks(k, d), Heard(k, d))
           /\ Shrunk(HeardAcks(k, d))
  <1>1. d.wnd \in Nat /\ d.wask \in BOOLEAN
    BY DEF Datagram
  <1>2. PICK left : left = {s \in k.snd_buf : s.sn >= d.una /\ s.sn \notin d.acks}
    OBVIOUS
  <1>3. PICK una : una = IF left = {} THEN k.snd_nxt ELSE Least(Sns(left))
    OBVIOUS
  <1>4. left \in SUBSET Numbered /\ una \in Nat
    <2>1. k.snd_buf \in SUBSET Numbered /\ k.snd_nxt \in Nat
      BY DEF ControlBlock
    <2>2. left \in SUBSET Numbered
      BY <1>2, <2>1
    <2>. QED
      BY <1>3, <2>1, <2>2, LeastOfSns
  <1>5. PICK a : a = [k EXCEPT !.snd_buf = left, !.snd_una = una]
    OBVIOUS
  <1>6. TakeAcks(k, d) = a
    BY <1>2, <1>3, <1>5, Zenon DEF TakeAcks
  <1>7. /\ a \in ControlBlock /\ a.snd_buf = left /\ a.snd_una = una
        /\ a.conv = k.conv /\ a.tell = k.tell
        /\ a.cwnd = k.cwnd /\ a.ssthresh = k.ssthresh
        /\ a.probe_wait = k.probe_wait /\ a.snd_nxt = k.snd_nxt
        /\ a.snd_queue = k.snd_queue
        /\ a.rcv_nxt = k.rcv_nxt /\ a.rcv_queue = k.rcv_queue
        /\ a.rcv_buf = k.rcv_buf /\ a.acklist = k.acklist
    BY <1>4, <1>5 DEF ControlBlock
  <1>8. PICK w, t : w = d.wnd /\ t = (k.tell \/ d.wask)
    OBVIOUS
  <1>9. k.tell \in BOOLEAN
    BY DEF ControlBlock
  <1>10. w \in Nat /\ t \in BOOLEAN
    BY <1>1, <1>8, <1>9
  <1>11. PICK c : c = [a EXCEPT !.rmt_wnd = w, !.tell = t]
    OBVIOUS
  <1>12. HeardAcks(k, d) = c
    BY <1>6, <1>7, <1>8, <1>11, Zenon DEF HeardAcks
  <1>13. /\ c \in ControlBlock /\ c.rmt_wnd = w /\ c.tell = t
         /\ c.conv = a.conv
         /\ c.cwnd = a.cwnd /\ c.ssthresh = a.ssthresh
         /\ c.probe_wait = a.probe_wait
         /\ c.snd_una = a.snd_una /\ c.snd_nxt = a.snd_nxt
         /\ c.snd_queue = a.snd_queue /\ c.snd_buf = a.snd_buf
         /\ c.rcv_nxt = a.rcv_nxt /\ c.rcv_queue = a.rcv_queue
         /\ c.rcv_buf = a.rcv_buf /\ c.acklist = a.acklist
    BY <1>7, <1>10, <1>11 DEF ControlBlock
  <1>14. PICK h : h = Heard(k, d)
    OBVIOUS
  <1>15. /\ SameSender(h, k) /\ SameReceiver(h, k)
         /\ h.acklist = k.acklist
         /\ h.conv = k.conv /\ h.rmt_wnd = d.wnd
         /\ h.cwnd = k.cwnd /\ h.ssthresh = k.ssthresh
         /\ h.tell = (k.tell \/ d.wask)
         /\ h.probe_wait = k.probe_wait
    BY <1>14, HeardFields, Zenon
  <1>16. SameButAcked(c, h)
    <2>1. h.tell = t
      BY <1>8, <1>15, Zenon
    <2>2. /\ h.snd_nxt = k.snd_nxt /\ h.snd_queue = k.snd_queue
          /\ h.rcv_nxt = k.rcv_nxt /\ h.rcv_queue = k.rcv_queue
          /\ h.rcv_buf = k.rcv_buf
      BY <1>15, Zenon DEF SameSender, SameReceiver
    <2>. QED
      BY <1>7, <1>8, <1>13, <1>15, <2>1, <2>2, Zenon DEF SameButAcked
  <1>17. Shrunk(c)
    BY <1>3, <1>7, <1>13, Zenon DEF Shrunk
  <1>18. c.snd_buf = {s \in k.snd_buf : s.sn >= d.una /\ s.sn \notin d.acks}
    BY <1>2, <1>7, <1>13
  <1>. QED
    BY <1>12, <1>13, <1>14, <1>16, <1>17, <1>18

(* A datagram as it is encoded.                                            *)
LEMMA EncodingFields ==
    ASSUME NEW d \in Datagram, IsFiniteSet(d.push), IsFiniteSet(d.acks),
           NEW e \in Encodings(d)
    PROVE  /\ e.una = Wrapped(d.una) /\ e.wnd = d.wnd /\ e.wask = d.wask
           /\ IsList(e.push, d.push)
           /\ \E n \in Nat : \E acks \in [1 .. n -> d.acks] :
                 /\ Len(e.acks) = n
                 /\ \A i \in 1 .. n : e.acks[i] = Wrapped(acks[i])
                 /\ \A x \in d.acks : \E i \in 1 .. n : acks[i] = x
  <1>1. PICK segs \in Lists(d.push), acks \in SetToSeqs(d.acks) :
           e = Encoding(d, segs, acks)
    <2>1. \E segs \in Lists(d.push) : \E acks \in SetToSeqs(d.acks) :
             e = Encoding(d, segs, acks)
      BY DEF Encodings
    <2>. QED
      BY <2>1, Zenon
  <1>2. d.push \in SUBSET Numbered /\ d.acks \in SUBSET Nat /\ d.una \in Nat
    BY DEF Datagram
  <1>3. PICK a, u : /\ a = [i \in DOMAIN acks |-> Wrapped(acks[i])]
                    /\ u = Wrapped(d.una)
    OBVIOUS
  <1>4. e = [d EXCEPT !.una = u, !.push = segs, !.acks = a]
    BY <1>1, <1>3, Zenon DEF Encoding
  <1>5. e.una = u /\ e.wnd = d.wnd /\ e.wask = d.wask /\ e.push = segs /\ e.acks = a
    BY <1>4 DEF Datagram
  <1>6. IsList(segs, d.push)
    BY <1>2, ListsAre
  <1>7. PICK n \in Nat : n = Cardinality(d.acks)
    BY FS_CardinalityType
  <1>8. /\ acks \in [1 .. n -> d.acks]
        /\ \A i, j \in 1 .. n : i # j => acks[i] # acks[j]
    BY <1>7 DEF SetToSeqs
  <1>9. acks \in Injection(1 .. n, d.acks)
    BY <1>8 DEF Injection, IsInjective
  <1>10. IsFiniteSet(1 .. n) /\ Cardinality(1 .. n) = n
    BY FS_Interval
  <1>11. acks \in Surjection(1 .. n, d.acks)
    BY <1>7, <1>9, <1>10, FS_Injection
  <1>12. \A x \in d.acks : \E i \in 1 .. n : acks[i] = x
    BY <1>11 DEF Surjection
  <1>13. a \in [1 .. n -> Nat] /\ \A i \in 1 .. n : a[i] = Wrapped(acks[i])
    <2>1. \A i \in 1 .. n : acks[i] \in Nat
      BY <1>2, <1>8
    <2>2. \A i \in 1 .. n : Wrapped(acks[i]) \in Nat
      BY <2>1, WrappedNat
    <2>3. a = [i \in 1 .. n |-> Wrapped(acks[i])]
      BY <1>3, <1>8
    <2>. QED
      BY <2>2, <2>3
  <1>14. Len(a) = n
    BY <1>13
  <1>15. e.una = Wrapped(d.una) /\ e.wnd = d.wnd /\ e.wask = d.wask
         /\ IsList(e.push, d.push)
    BY <1>3, <1>5, <1>6
  <1>16. /\ Len(e.acks) = n
         /\ \A i \in 1 .. n : e.acks[i] = Wrapped(acks[i])
    BY <1>5, <1>13, <1>14
  <1>. QED
    BY <1>8, <1>12, <1>15, <1>16, Zenon

(* The window and the probe of a datagram are noted ...                    *)
Told(h, r, w, t) == h = [r EXCEPT !.rmt_wnd = w, !.tell = t]

(* ... and the other fields stay.                                          *)
LEMMA ToldFields ==
    ASSUME NEW r \in RawBlock, NEW w \in Nat, NEW t \in BOOLEAN,
           NEW h, Told(h, r, w, t)
    PROVE  /\ h \in RawBlock /\ h.rmt_wnd = w /\ h.tell = t
           /\ h.conv = r.conv
           /\ h.cwnd = r.cwnd /\ h.ssthresh = r.ssthresh
           /\ h.probe_wait = r.probe_wait
           /\ h.snd_una = r.snd_una /\ h.snd_nxt = r.snd_nxt
           /\ h.snd_queue = r.snd_queue /\ h.snd_buf = r.snd_buf
           /\ h.rcv_nxt = r.rcv_nxt /\ h.rcv_queue = r.rcv_queue
           /\ h.rcv_buf = r.rcv_buf /\ h.acklist = r.acklist
  BY DEF RawBlock, Told

(* The block that has noted them shows the session that has heard them.    *)
LEMMA HeardShows ==
    ASSUME NEW k \in ControlBlock, NEW r, Shows(r, k), NEW d \in Datagram,
           NEW h, Told(h, r, d.wnd, r.tell \/ d.wask)
    PROVE  Shows(h, Heard(k, d))
  <1>1. d.wnd \in Nat /\ d.wask \in BOOLEAN
    BY DEF Datagram
  <1>2. PICK b : b = Heard(k, d)
    OBVIOUS
  <1>3. /\ b \in ControlBlock /\ SameSender(b, k) /\ SameReceiver(b, k)
        /\ b.snd_una = k.snd_una /\ b.acklist = k.acklist
        /\ b.conv = k.conv /\ b.rmt_wnd = d.wnd
        /\ b.cwnd = k.cwnd /\ b.ssthresh = k.ssthresh
        /\ b.tell = (k.tell \/ d.wask)
        /\ b.probe_wait = k.probe_wait
    BY <1>2, HeardFields, Zenon
  <1>4. PICK t : t = (r.tell \/ d.wask)
    OBVIOUS
  <1>5. r \in RawBlock /\ r.tell = k.tell
    BY DEF Shows, ShowsRest
  <1>6. t \in BOOLEAN /\ b.tell = t
    <2>1. r.tell \in BOOLEAN
      BY <1>5 DEF RawBlock
    <2>2. t \in BOOLEAN
      BY <1>1, <1>4, <2>1
    <2>3. b.tell = t
      BY <1>3, <1>4, <1>5, Zenon
    <2>. QED
      BY <2>2, <2>3
  <1>7. PICK w \in Nat : w = d.wnd
    BY <1>1
  <1>8. Told(h, r, w, t)
    BY <1>4, <1>7, Zenon
  <1>9. /\ h \in RawBlock /\ h.rmt_wnd = w /\ h.tell = t
        /\ h.conv = r.conv
        /\ h.cwnd = r.cwnd /\ h.ssthresh = r.ssthresh
        /\ h.probe_wait = r.probe_wait
        /\ h.snd_una = r.snd_una /\ h.snd_nxt = r.snd_nxt
        /\ h.snd_queue = r.snd_queue /\ h.snd_buf = r.snd_buf
        /\ h.rcv_nxt = r.rcv_nxt /\ h.rcv_queue = r.rcv_queue
        /\ h.rcv_buf = r.rcv_buf /\ h.acklist = r.acklist
    <2>1. r \in RawBlock /\ w \in Nat /\ t \in BOOLEAN
      BY <1>5, <1>6, <1>7
    <2>. QED
      BY <1>8, <2>1, ToldFields
  <1>10. Shows(h, b)
    <2>1. /\ b.snd_nxt = k.snd_nxt /\ b.snd_queue = k.snd_queue
          /\ b.snd_buf = k.snd_buf
          /\ b.rcv_nxt = k.rcv_nxt /\ b.rcv_queue = k.rcv_queue
          /\ b.rcv_buf = k.rcv_buf
      BY <1>3, Zenon DEF SameSender, SameReceiver
    <2>2. h.rmt_wnd = b.rmt_wnd /\ h.tell = b.tell
      BY <1>3, <1>6, <1>7, <1>9, Zenon
    <2>. QED
      BY <1>3, <1>9, <2>1, <2>2, Zenon
      DEF Shows, ShowsRest, ShowsSent, ShowsReceived, ShowsAcks
  <1>. QED
    BY <1>2, <1>10, Zenon

(* The first half of ikcp_input.                                           *)
LEMMA HearShows ==
    ASSUME NEW k \in ControlBlock, NEW r, Shows(r, k),
           SentFrom(k.snd_una, k), Shrunk(k),
           NEW d \in Datagram, IsFiniteSet(d.push), IsFiniteSet(d.acks),
           NEW e \in Encodings(d),
           d.una <= k.snd_nxt,
           \A x \in d.acks : x < k.snd_nxt,
           \A x \in d.acks \cup {d.una} : k.snd_una - x <= Life,
           NEW h, h = [r EXCEPT !.rmt_wnd = e.wnd, !.tell = @ \/ e.wask]
    PROVE  Shows(ParseAcks(ShrinkBuf(ParseUna(h, e.una)), e.acks), HeardAcks(k, d))
  <1>1. d.acks \in SUBSET Nat /\ d.una \in Nat /\ d.wnd \in Nat /\ d.wask \in BOOLEAN
    BY DEF Datagram
  <1>2. e.una = Wrapped(d.una) /\ e.wnd = d.wnd /\ e.wask = d.wask
    BY EncodingFields, Zenon
  <1>3. PICK n \in Nat : \E acks \in [1 .. n -> d.acks] :
           /\ Len(e.acks) = n
           /\ \A i \in 1 .. n : e.acks[i] = Wrapped(acks[i])
           /\ \A x \in d.acks : \E i \in 1 .. n : acks[i] = x
    BY EncodingFields, Zenon
  <1>4. PICK acks \in [1 .. n -> d.acks] :
           /\ Len(e.acks) = n
           /\ \A i \in 1 .. n : e.acks[i] = Wrapped(acks[i])
           /\ \A x \in d.acks : \E i \in 1 .. n : acks[i] = x
    BY <1>3
  <1>5. PICK b : b = Heard(k, d)
    OBVIOUS
  <1>6. /\ b \in ControlBlock /\ SameSender(b, k) /\ SameReceiver(b, k)
        /\ b.snd_una = k.snd_una /\ b.acklist = k.acklist
        /\ b.conv = k.conv /\ b.rmt_wnd = d.wnd
        /\ b.cwnd = k.cwnd /\ b.ssthresh = k.ssthresh
        /\ b.tell = (k.tell \/ d.wask)
        /\ b.probe_wait = k.probe_wait
    BY <1>5, HeardFields, Zenon
  <1>7. Shows(h, b)
    <2>1. Told(h, r, d.wnd, r.tell \/ d.wask)
      BY <1>2, Zenon DEF Told
    <2>. QED
      BY <1>5, <2>1, HeardShows, Zenon
  <1>8. b.snd_nxt = k.snd_nxt /\ b.snd_buf = k.snd_buf
    BY <1>6, Zenon DEF SameSender
  <1>9. SentFrom(b.snd_una, b) /\ Shrunk(b)
    BY <1>6, <1>8, Zenon DEF SentFrom, Shrunk
  <1>10. acks \in [1 .. n -> Nat]
    BY <1>1
  <1>11. \A i \in 1 .. n : acks[i] < b.snd_nxt /\ b.snd_una - acks[i] <= Life
    <2>1. \A i \in 1 .. n : acks[i] \in d.acks
      OBVIOUS
    <2>. QED
      BY <1>6, <1>8, <2>1
  <1>12. d.una <= b.snd_nxt /\ b.snd_una - d.una <= Life
    BY <1>6, <1>8
  <1>13. PICK c : c = HeardAcks(k, d)
    OBVIOUS
  <1>14. /\ c \in ControlBlock
         /\ c.snd_buf = {s \in k.snd_buf : s.sn >= d.una /\ s.sn \notin d.acks}
         /\ SameButAcked(c, b) /\ Shrunk(c)
    BY <1>5, <1>13, HeardAcksFields
  <1>15. c.snd_buf = {y \in b.snd_buf : /\ y.sn >= d.una
                                        /\ \A i \in 1 .. n : y.sn # acks[i]}
    <2>1. \A x : x \notin d.acks <=> \A i \in 1 .. n : x # acks[i]
      BY <1>4
    <2>. QED
      BY <1>8, <1>14, <2>1
  <1>16. Shows(ParseAcks(ShrinkBuf(ParseUna(h, Wrapped(d.una))), e.acks), c)
    <2>1. PICK u, wire : u = d.una /\ wire = e.acks
      OBVIOUS
    <2>2. Len(wire) = n /\ \A i \in 1 .. n : wire[i] = Wrapped(acks[i])
      BY <1>4, <2>1
    <2>3. c.snd_buf = {y \in b.snd_buf : /\ y.sn >= u
                                         /\ \A i \in 1 .. n : y.sn # acks[i]}
      BY <1>15, <2>1
    <2>4. u \in Nat /\ u <= b.snd_nxt /\ b.snd_una - u <= Life
      BY <1>1, <1>12, <2>1
    <2>5. b \in ControlBlock /\ c \in ControlBlock /\ SameButAcked(c, b) /\ Shrunk(c)
      BY <1>6, <1>14
    <2>6. Acknowledges(h, b, u, n, acks, wire, c)
      BY <1>7, <1>9, <1>10, <1>11, <2>2, <2>3, <2>4, <2>5 DEF Acknowledges
    <2>7. Shows(ParseAcks(ShrinkBuf(ParseUna(h, Wrapped(u))), wire), c)
      BY <2>4, <2>5, <2>6, AcksShow
    <2>. QED
      BY <2>1, <2>7
  <1>. QED
    BY <1>2, <1>13, <1>16

(* The congestion window opens.                                            *)
LEMMA OpenedShows ==
    ASSUME NEW k \in ControlBlock, NEW r, Shows(r, k),
           NEW low, SentFrom(low, k), Shrunk(k),
           NEW c, c = [k EXCEPT !.cwnd = @ + 1]
    PROVE  /\ Shows([r EXCEPT !.cwnd = @ + 1], c)
           /\ SentFrom(low, c) /\ Shrunk(c)
           /\ c.snd_una = k.snd_una
  <1>1. r \in RawBlock /\ r.cwnd = k.cwnd
    BY DEF Shows, ShowsRest
  <1>2. k.cwnd \in Nat
    BY DEF ControlBlock
  <1>3. PICK n \in Nat : n = k.cwnd + 1
    BY <1>2
  <1>4. PICK a : a = [r EXCEPT !.cwnd = n]
    OBVIOUS
  <1>5. [r EXCEPT !.cwnd = @ + 1] = a
    BY <1>1, <1>3, <1>4, Zenon
  <1>6. /\ a \in RawBlock /\ a.cwnd = n
        /\ a.conv = r.conv /\ a.rmt_wnd = r.rmt_wnd /\ a.ssthresh = r.ssthresh
        /\ a.tell = r.tell /\ a.probe_wait = r.probe_wait
        /\ a.snd_una = r.snd_una /\ a.snd_nxt = r.snd_nxt
        /\ a.snd_queue = r.snd_queue /\ a.snd_buf = r.snd_buf
        /\ a.rcv_nxt = r.rcv_nxt /\ a.rcv_queue = r.rcv_queue
        /\ a.rcv_buf = r.rcv_buf /\ a.acklist = r.acklist
    BY <1>1, <1>4 DEF RawBlock
  <1>7. c = [k EXCEPT !.cwnd = n]
    BY <1>3, Zenon
  <1>8. /\ c.cwnd = n
        /\ c.conv = k.conv /\ c.rmt_wnd = k.rmt_wnd /\ c.ssthresh = k.ssthresh
        /\ c.tell = k.tell /\ c.probe_wait = k.probe_wait
        /\ c.snd_una = k.snd_una /\ c.snd_nxt = k.snd_nxt
        /\ c.snd_queue = k.snd_queue /\ c.snd_buf = k.snd_buf
        /\ c.rcv_nxt = k.rcv_nxt /\ c.rcv_queue = k.rcv_queue
        /\ c.rcv_buf = k.rcv_buf /\ c.acklist = k.acklist
    BY <1>7 DEF ControlBlock
  <1>9. Shows(a, c)
    BY <1>6, <1>8, Zenon
    DEF Shows, ShowsRest, ShowsSent, ShowsReceived, ShowsAcks
  <1>10. SentFrom(low, c)
    BY <1>8, Zenon DEF SentFrom
  <1>11. Shrunk(c)
    BY <1>8, Zenon DEF Shrunk
  <1>. QED
    BY <1>5, <1>8, <1>9, <1>10, <1>11, Zenon

(* The control block between the acknowledgements and the segments.        *)
LEMMA HeardAcksBlock ==
    ASSUME NEW k \in ControlBlock, SentFrom(k.snd_una, k), Bounded(k),
           NEW d \in Datagram, NEW c, c = HeardAcks(k, d)
    PROVE  /\ c \in ControlBlock /\ Bounded(c) /\ Shrunk(c)
           /\ SentFrom(c.snd_una, c)
           /\ k.snd_una <= c.snd_una /\ c.snd_una - k.snd_una <= SndWnd
           /\ c.rcv_nxt = k.rcv_nxt
  <1>1. PICK b : b = Heard(k, d)
    OBVIOUS
  <1>2. /\ b \in ControlBlock /\ SameSender(b, k) /\ SameReceiver(b, k)
        /\ b.snd_una = k.snd_una
    BY <1>1, HeardFields, Zenon
  <1>3. /\ c \in ControlBlock
        /\ c.snd_buf = {s \in k.snd_buf : s.sn >= d.una /\ s.sn \notin d.acks}
        /\ SameButAcked(c, b) /\ Shrunk(c)
    BY <1>1, HeardAcksFields
  <1>4. b.snd_nxt = k.snd_nxt /\ b.snd_buf = k.snd_buf
    BY <1>2, Zenon DEF SameSender
  <1>5. SentFrom(k.snd_una, b)
    BY <1>2, <1>4, Zenon DEF SentFrom
  <1>6. c.snd_buf \subseteq b.snd_buf
    BY <1>3, <1>4
  <1>7. SentFrom(k.snd_una, c) /\ b.snd_una <= c.snd_una
    BY <1>2, <1>3, <1>5, <1>6, LessSentFrom
  <1>8. SameReceiver(c, k)
    BY <1>2, <1>3, Zenon DEF SameReceiver, SameButAcked
  <1>9. Bounded(c)
    BY <1>8, SameReceiverBounded
  <1>10. /\ k.snd_una \in Nat /\ c.snd_una \in Nat /\ c.snd_nxt \in Nat
         /\ SndWnd \in Nat
    BY <1>3, SerialConstants DEF ControlBlock
  <1>11. SentFrom(c.snd_una, c) /\ c.snd_una - k.snd_una <= SndWnd
    BY <1>2, <1>7, <1>10 DEF SentFrom
  <1>12. c.rcv_nxt = k.rcv_nxt
    BY <1>8, Zenon DEF SameReceiver
  <1>. QED
    BY <1>2, <1>3, <1>7, <1>9, <1>11, <1>12, Zenon

(* ikcp_input does with lists and wrapped numbers what it does with sets   *)
(* and true ones.                                                          *)
LEMMA InputShows ==
    ASSUME NEW k \in ControlBlock, NEW r, Shows(r, k),
           SentFrom(k.snd_una, k), Shrunk(k), Bounded(k),
           NEW d \in Datagram, IsFiniteSet(d.push), IsFiniteSet(d.acks),
           NEW e \in Encodings(d), NEW grow \in BOOLEAN, d.conv = k.conv,
           d.una <= k.snd_nxt,
           \A x \in d.acks : x < k.snd_nxt,
           \A x \in d.acks \cup {d.una} : k.snd_una - x <= Life,
           \A x \in d.push : /\ k.rcv_nxt - x.sn <= Life
                             /\ x.sn - (k.rcv_nxt + RcvWnd) < Mod \div 2,
           NEW c, c = KcpInput(k, d, grow)
    PROVE  /\ Shows(SerialInput(r, e, grow), c)
           /\ SentFrom(c.snd_una, c) /\ Shrunk(c)
  <1>1. PICK h : h = [r EXCEPT !.rmt_wnd = e.wnd, !.tell = @ \/ e.wask]
    OBVIOUS
  <1>2. PICK acked : acked = ParseAcks(ShrinkBuf(ParseUna(h, e.una)), e.acks)
    OBVIOUS
  <1>3. PICK after : after = TakeEachPush(acked, e.push)
    OBVIOUS
  <1>4. PICK m : m = HeardAcks(k, d)
    OBVIOUS
  <1>5. /\ m \in ControlBlock /\ Bounded(m) /\ Shrunk(m)
        /\ SentFrom(m.snd_una, m)
        /\ k.snd_una <= m.snd_una /\ m.snd_una - k.snd_una <= SndWnd
        /\ m.rcv_nxt = k.rcv_nxt
    BY <1>4, HeardAcksBlock
  <1>6. Shows(acked, m)
    BY <1>1, <1>2, <1>4, HearShows, Zenon
  <1>7. d.push \in SUBSET Numbered
    BY DEF Datagram
  <1>8. IsList(e.push, d.push)
    BY EncodingFields, Zenon
  <1>9. PICK t : t = TakePushes(m, d.push)
    OBVIOUS
  <1>10. Shows(after, t)
    <2>1. \A x \in d.push : /\ m.rcv_nxt - x.sn <= Life
                            /\ x.sn - (m.rcv_nxt + RcvWnd) < Mod \div 2
      BY <1>5
    <2>. QED
      BY <1>3, <1>5, <1>6, <1>7, <1>8, <1>9, <2>1, PushesShow
  <1>11. t \in ControlBlock /\ SameButReceived(t, m)
    BY <1>5, <1>7, <1>9, TakePushesFields, Zenon
  <1>12. /\ t.snd_una = m.snd_una /\ t.snd_nxt = m.snd_nxt
         /\ t.snd_buf = m.snd_buf
    BY <1>11, Zenon DEF SameButReceived
  <1>13. SentFrom(t.snd_una, t) /\ Shrunk(t)
    BY <1>5, <1>12, Zenon DEF SentFrom, Shrunk
  <1>14. c = IF /\ t.snd_una > k.snd_una /\ t.cwnd < t.rmt_wnd
                /\ (t.cwnd < t.ssthresh \/ grow)
             THEN [t EXCEPT !.cwnd = @ + 1] ELSE t
    <2>1. c = OpenCwnd(TakePushes(HeardAcks(k, d), d.push), k.snd_una, grow)
      BY Zenon DEF KcpInput, HeardAcks
    <2>2. c = OpenCwnd(t, k.snd_una, grow)
      BY <1>4, <1>9, <2>1, Zenon
    <2>. QED
      BY <2>2, Zenon DEF OpenCwnd
  <1>15. SerialInput(r, e, grow) =
            IF /\ ITimeDiff(after.snd_una, r.snd_una) > 0
               /\ after.cwnd < after.rmt_wnd
               /\ after.cwnd < after.ssthresh \/ grow
            THEN [after EXCEPT !.cwnd = @ + 1] ELSE after
    BY <1>1, <1>2, <1>3, Zenon DEF SerialInput
  <1>16. /\ after.snd_una = Wrapped(t.snd_una) /\ r.snd_una = Wrapped(k.snd_una)
         /\ after.cwnd = t.cwnd /\ after.rmt_wnd = t.rmt_wnd
         /\ after.ssthresh = t.ssthresh
    BY <1>10, Zenon DEF Shows, ShowsRest
  <1>17. k.snd_una \in Nat /\ t.snd_una \in Nat
    BY <1>11 DEF ControlBlock
  <1>18. ITimeDiff(after.snd_una, r.snd_una) = t.snd_una - k.snd_una
    <2>1. /\ -(Mod \div 2) <= t.snd_una - k.snd_una
          /\ t.snd_una - k.snd_una < Mod \div 2
      BY <1>5, <1>12, <1>17, SerialConstants
    <2>2. ITimeDiff(Wrapped(t.snd_una), Wrapped(k.snd_una)) = t.snd_una - k.snd_una
      BY <1>17, <2>1, PlainDifference
    <2>. QED
      BY <1>16, <2>2, Zenon
  <1>19. ITimeDiff(after.snd_una, r.snd_una) > 0 <=> t.snd_una > k.snd_una
    BY <1>17, <1>18
  <1>20. CASE /\ t.snd_una > k.snd_una /\ t.cwnd < t.rmt_wnd
              /\ (t.cwnd < t.ssthresh \/ grow)
    <2>1. c = [t EXCEPT !.cwnd = @ + 1]
      BY <1>14, <1>20, Zenon
    <2>2. SerialInput(r, e, grow) = [after EXCEPT !.cwnd = @ + 1]
      BY <1>15, <1>16, <1>19, <1>20, Zenon
    <2>3. /\ Shows([after EXCEPT !.cwnd = @ + 1], c)
          /\ SentFrom(t.snd_una, c) /\ Shrunk(c)
          /\ c.snd_una = t.snd_una
      BY <1>10, <1>11, <1>13, <2>1, OpenedShows, Zenon
    <2>. QED
      BY <2>2, <2>3, Zenon
  <1>21. CASE ~ (/\ t.snd_una > k.snd_una /\ t.cwnd < t.rmt_wnd
                 /\ (t.cwnd < t.ssthresh \/ grow))
    <2>1. c = t
      BY <1>14, <1>21, Zenon
    <2>2. SerialInput(r, e, grow) = after
      BY <1>15, <1>16, <1>19, <1>21, Zenon
    <2>. QED
      BY <1>10, <1>13, <2>1, <2>2, Zenon
  <1>. QED
    BY <1>20, <1>21

----------------------------------------------------------------------------
(* ikcp_flush.                                                             *)

LEMMA LeastIs ==
    ASSUME NEW S \in SUBSET Nat, NEW m \in S, \A x \in S : m <= x
    PROVE  Least(S) = m
  <1>1. Least(S) \in S /\ \A y \in S : Least(S) <= y
    BY LeastIsLeast
  <1>2. PICK x : x = Least(S)
    OBVIOUS
  <1>3. x \in Nat /\ m \in Nat /\ x <= m /\ m <= x
    BY <1>1, <1>2
  <1>. QED
    BY <1>2, <1>3

(* The window the sender goes by.                                          *)
LEMMA CwndNowWithin ==
    ASSUME NEW k \in ControlBlock
    PROVE  CwndNow(k) \in Nat /\ CwndNow(k) <= SndWnd
  <1>1. k.cwnd \in Nat /\ k.rmt_wnd \in Nat /\ SndWnd \in Nat
    BY SerialConstants DEF ControlBlock
  <1>. QED
    BY <1>1 DEF CwndNow, Lesser

(* How many segments the flush moves, by wrapped numbers: the distance the *)
(* loop goes is too short for a difference to change its sign.             *)
LEMMA MoveShows ==
    ASSUME NEW k \in ControlBlock, NEW r, Shows(r, k), SentFrom(k.snd_una, k)
    PROVE  /\ SerialMoveCount(r) = MoveCount(k)
           /\ k.snd_nxt + MoveCount(k) <= k.snd_una + SndWnd
           /\ CwndNow(r) = CwndNow(k)
  <1>1. PICK w \in Nat : w = CwndNow(k) /\ w <= SndWnd
    BY CwndNowWithin
  <1>2. CwndNow(r) = w
    <2>1. r.cwnd = k.cwnd /\ r.rmt_wnd = k.rmt_wnd
      BY Zenon DEF Shows, ShowsRest
    <2>. QED
      BY <1>1, <2>1, Zenon DEF CwndNow
  <1>3. PICK nxt \in Nat, una \in Nat : nxt = k.snd_nxt /\ una = k.snd_una
    BY DEF ControlBlock
  <1>4. una <= nxt /\ nxt <= una + SndWnd /\ SndWnd \in Nat
    BY <1>3, SerialConstants DEF SentFrom
  <1>5. /\ r.snd_nxt = Wrapped(nxt) /\ r.snd_una = Wrapped(una)
        /\ r.snd_queue = k.snd_queue
    BY <1>3, Zenon DEF Shows, ShowsSent
  <1>6. PICK len \in Nat : len = Len(k.snd_queue)
    BY DEF ControlBlock
  <1>7. PICK m : m = MoveCount(k)
    OBVIOUS
  <1>8. /\ m \in 0 .. len
        /\ m = Lesser(len, Greater(0, una + w - nxt))
    BY <1>1, <1>3, <1>6, <1>7, MoveCountType DEF MoveCount
  <1>9. /\ \A i \in 0 .. m - 1 : nxt + i < una + w /\ i # len
        /\ m = len \/ nxt + m >= una + w
        /\ nxt + m <= una + SndWnd
    BY <1>1, <1>4, <1>8 DEF Lesser, Greater
  <1>10. \A i \in 0 .. m : ITimeDiff(Wrapped(nxt) + i, Wrapped(una) + w)
                              = (nxt + i) - (una + w)
    <2>. TAKE i \in 0 .. m
    <2>1. i \in Int /\ w \in Int
      BY <1>1, <1>8
    <2>2. /\ -(Mod \div 2) <= (nxt + i) - (una + w)
          /\ (nxt + i) - (una + w) < Mod \div 2
      BY <1>1, <1>4, <1>8, <1>9, SerialConstants
    <2>. QED
      BY <2>1, <2>2, TrueDifference
  <1>11. PICK S : S = {n \in 0 .. len :
                          \/ n = len
                          \/ ITimeDiff(Wrapped(nxt) + n, Wrapped(una) + w) >= 0}
    OBVIOUS
  <1>12. SerialMoveCount(r) = Least(S)
    BY <1>2, <1>5, <1>6, <1>11 DEF SerialMoveCount
  <1>13. m \in S
    <2>1. m \in 0 .. m
      BY <1>8
    <2>2. ITimeDiff(Wrapped(nxt) + m, Wrapped(una) + w) = (nxt + m) - (una + w)
      BY <1>10, <2>1
    <2>3. m = len \/ (nxt + m) - (una + w) >= 0
      BY <1>1, <1>3, <1>8, <1>9
    <2>. QED
      BY <1>8, <1>11, <2>2, <2>3
  <1>14. \A i \in S : m <= i
    <2>. SUFFICES ASSUME NEW i \in S, i < m
                  PROVE  FALSE
      BY <1>8, <1>11
    <2>1. i \in 0 .. len /\ i \in 0 .. m /\ i \in 0 .. m - 1
      BY <1>8, <1>11
    <2>2. ITimeDiff(Wrapped(nxt) + i, Wrapped(una) + w) = (nxt + i) - (una + w)
      BY <1>10, <2>1
    <2>3. ~ (i = len \/ (nxt + i) - (una + w) >= 0)
      BY <1>1, <1>3, <1>9, <2>1
    <2>. QED
      BY <1>11, <2>2, <2>3
  <1>15. Least(S) = m
    <2>1. S \in SUBSET Nat
      BY <1>11
    <2>. QED
      BY <1>13, <1>14, <2>1, LeastIs
  <1>. QED
    BY <1>1, <1>2, <1>3, <1>7, <1>9, <1>12, <1>15

(* The list of the segments that move.                                     *)
LEMMA MovedListed ==
    ASSUME NEW k \in ControlBlock
    PROVE  \E t : /\ Counts(t, MoveCount(k), Moved(k))
                  /\ InMemory(t) =
                       [i \in 1 .. MoveCount(k) |->
                          [sn  |-> Wrapped(Wrapped(k.snd_nxt) + i - 1),
                           seg |-> k.snd_queue[i]]]
  <1>1. PICK m : m = MoveCount(k)
    OBVIOUS
  <1>2. PICK l : l = [i \in 1 .. m |-> [sn  |-> Wrapped(Wrapped(k.snd_nxt) + i - 1),
                                        seg |-> k.snd_queue[i]]]
    OBVIOUS
  <1>3. m \in Nat /\ m <= Len(k.snd_queue)
    BY <1>1, MoveCountType DEF ControlBlock
  <1>4. k.snd_nxt \in Nat /\ k.snd_queue \in Seq(Segment)
    BY DEF ControlBlock
  <1>5. PICK t : t = [i \in 1 .. m |-> [sn  |-> k.snd_nxt + i - 1,
                                        seg |-> k.snd_queue[i]]]
    OBVIOUS
  <1>6. \A i \in 1 .. m : /\ k.snd_queue[i] \in Segment
                          /\ k.snd_nxt + i - 1 \in Nat
    BY <1>3, <1>4
  <1>7. \A i \in 1 .. m : /\ t[i].sn = k.snd_nxt + i - 1
                          /\ t[i].seg = k.snd_queue[i]
                          /\ t[i] \in Numbered
    BY <1>5, <1>6 DEF Numbered
  <1>8. Moved(k) = {t[i] : i \in 1 .. m}
    BY <1>1, <1>5 DEF Moved
  <1>9. t \in [1 .. m -> Moved(k)]
    BY <1>5, <1>8
  <1>10. Counts(t, m, Moved(k))
    <2>1. \A x \in Moved(k) : \E i \in 1 .. m : t[i] = x
      BY <1>8
    <2>2. \A i, j \in 1 .. m : i < j => t[i].sn < t[j].sn
      BY <1>3, <1>4, <1>7
    <2>. QED
      BY <1>3, <1>9, <2>1, <2>2 DEF Counts
  <1>11. t \in [1 .. m -> Numbered]
    BY <1>5, <1>7
  <1>12. \A i \in 1 .. m : /\ Wrapped(Wrapped(k.snd_nxt) + i - 1) = Wrapped(t[i].sn)
                           /\ Wrapped(t[i].sn) \in Nat
    <2>. TAKE i \in 1 .. m
    <2>1. k.snd_nxt \in Int /\ i - 1 \in Int
      BY <1>3, <1>4
    <2>2. Wrapped(Wrapped(k.snd_nxt) + (i - 1)) = Wrapped(k.snd_nxt + (i - 1))
      BY <2>1, WrappedSum
    <2>3. Wrapped(k.snd_nxt) \in Int
      <3>1. Wrapped(k.snd_nxt) \in Nat
        BY <1>4, WrappedNat, Zenon
      <3>. QED
        BY <3>1
    <2>4. Wrapped(k.snd_nxt) + i - 1 = Wrapped(k.snd_nxt) + (i - 1)
      BY <1>3, <2>3
    <2>5. t[i].sn = k.snd_nxt + (i - 1) /\ t[i].sn \in Nat
      BY <1>3, <1>4, <1>6, <1>7
    <2>. QED
      BY <2>2, <2>4, <2>5, WrappedNat
  <1>13. \A i \in 1 .. m : l[i] = Held(t[i])
    BY <1>2, <1>7, <1>12 DEF Held
  <1>14. l \in Seq(Numbered) /\ Len(l) = m
    <2>1. \A i \in 1 .. m : l[i] \in Numbered
      BY <1>7, <1>13, HeldType
    <2>2. l \in [1 .. m -> Numbered]
      BY <1>2, <2>1
    <2>3. l \in Seq(Numbered)
      BY <1>3, <2>2
    <2>4. DOMAIN l = 1 .. m
      BY <2>2
    <2>5. Len(l) = m
      BY <1>3, <2>3, <2>4
    <2>. QED
      BY <2>3, <2>5
  <1>15. l = InMemory(t)
    BY <1>3, <1>11, <1>13, <1>14, InMemoryIs
  <1>. QED
    BY <1>1, <1>2, <1>10, <1>15, Zenon

(* Whether a segment is sent again is seen in either form.                 *)
LEMMA LostShows ==
    ASSUME NEW k \in ControlBlock, NEW r, Shows(r, k), SentFrom(k.snd_una, k),
           NEW due \in SUBSET Sns(k.snd_buf)
    PROVE  (\E i \in DOMAIN r.snd_buf : r.snd_buf[i].sn \in AllWrapped(due))
              <=> Resent(k, due) # {}
  <1>1. k.snd_buf \in SUBSET Numbered
    BY DEF ControlBlock
  <1>2. PICK n, s : Counts(s, n, k.snd_buf) /\ r.snd_buf = InMemory(s)
    BY Zenon DEF Shows, ShowsSent, IsList
  <1>3. /\ n \in Nat /\ s \in [1 .. n -> Numbered]
        /\ \A i \in 1 .. n : s[i] \in k.snd_buf
        /\ \A i \in 1 .. n : s[i].sn \in Nat
    BY <1>1, <1>2, CountsType, Zenon
  <1>4. \A x \in k.snd_buf : \E i \in 1 .. n : s[i] = x
    BY <1>2, Zenon DEF Counts
  <1>5. /\ DOMAIN r.snd_buf = 1 .. n
        /\ \A i \in 1 .. n : r.snd_buf[i].sn = Wrapped(s[i].sn)
    BY <1>2, <1>3, InMemoryAt
  <1>6. /\ k.snd_una \in Nat /\ k.snd_nxt \in Nat
        /\ k.snd_nxt <= k.snd_una + SndWnd
        /\ \A x \in k.snd_buf : k.snd_una <= x.sn /\ x.sn < k.snd_nxt
    BY DEF SentFrom, ControlBlock
  <1>7. ASSUME NEW i \in 1 .. n, r.snd_buf[i].sn \in AllWrapped(due)
        PROVE  Resent(k, due) # {}
    <2>1. PICK x \in k.snd_buf : x.sn \in due /\ r.snd_buf[i].sn = Wrapped(x.sn)
      BY <1>7 DEF AllWrapped, Sns
    <2>2. Wrapped(s[i].sn) = Wrapped(x.sn)
      BY <1>5, <2>1
    <2>3. x.sn \in Nat /\ s[i].sn \in Nat
      BY <1>1, <1>3 DEF Numbered
    <2>4. -Mod < s[i].sn - x.sn /\ s[i].sn - x.sn < Mod
      <3>1. PICK a \in Nat, b \in Nat : a = s[i].sn /\ b = x.sn
        BY <2>3
      <3>2. /\ k.snd_una <= a /\ a < k.snd_nxt
            /\ k.snd_una <= b /\ b < k.snd_nxt
        BY <1>3, <1>6, <3>1
      <3>3. -SndWnd < a - b /\ a - b < SndWnd
        BY <1>6, <3>2, SerialConstants
      <3>. QED
        BY <3>1, <3>3, SerialConstants
    <2>5. s[i].sn = x.sn
      BY <2>2, <2>3, <2>4, WrappedApart
    <2>. QED
      BY <2>1 DEF Resent
  <1>8. ASSUME NEW x \in Resent(k, due)
        PROVE  \E i \in 1 .. n : r.snd_buf[i].sn \in AllWrapped(due)
    <2>1. x \in k.snd_buf /\ x.sn \in due
      BY DEF Resent
    <2>2. PICK i \in 1 .. n : s[i] = x
      BY <1>4, <2>1
    <2>3. r.snd_buf[i].sn = Wrapped(x.sn)
      BY <1>5, <2>2
    <2>. QED
      BY <2>1, <2>3 DEF AllWrapped
  <1>. QED
    BY <1>5, <1>7, <1>8

(* What ikcp_flush leaves in the fields of the control block.              *)
LEMMA FlushFields ==
    ASSUME NEW k \in ControlBlock, NEW due
    PROVE  LET lost == Resent(k, due) # {}
               c == KcpFlush(k, due)
           IN  /\ c.conv = k.conv /\ c.rmt_wnd = k.rmt_wnd
               /\ c.snd_una = k.snd_una
               /\ c.acklist = {} /\ c.tell = FALSE
               /\ c.probe_wait = (k.rmt_wnd = 0)
               /\ c.ssthresh = (IF lost THEN Greater(ThreshMin, CwndNow(k) \div 2)
                                ELSE k.ssthresh)
               /\ c.cwnd = (IF lost \/ k.cwnd < 1 THEN 1 ELSE k.cwnd)
  <1>1. PICK pw, q, b, x, th, cw :
           /\ pw = (k.rmt_wnd = 0)
           /\ q = SubSeq(k.snd_queue, MoveCount(k) + 1, Len(k.snd_queue))
           /\ b = k.snd_buf \cup Moved(k)
           /\ x = k.snd_nxt + MoveCount(k)
           /\ th = (IF Resent(k, due) # {}
                    THEN Greater(ThreshMin, CwndNow(k) \div 2) ELSE k.ssthresh)
           /\ cw = (IF Resent(k, due) # {} \/ k.cwnd < 1 THEN 1 ELSE k.cwnd)
    OBVIOUS
  <1>2. PICK c : c = [k EXCEPT !.acklist = {}, !.tell = FALSE, !.probe_wait = pw,
                               !.snd_queue = q, !.snd_buf = b, !.snd_nxt = x,
                               !.ssthresh = th, !.cwnd = cw]
    OBVIOUS
  <1>3. KcpFlush(k, due) = c
    BY <1>1, <1>2, Zenon DEF KcpFlush
  <1>4. /\ c.conv = k.conv /\ c.rmt_wnd = k.rmt_wnd
        /\ c.snd_una = k.snd_una
        /\ c.acklist = {} /\ c.tell = FALSE
        /\ c.probe_wait = pw /\ c.ssthresh = th /\ c.cwnd = cw
    BY <1>2 DEF ControlBlock
  <1>. QED
    BY <1>1, <1>3, <1>4, Zenon

(* ikcp_flush with lists and wrapped numbers.                              *)
LEMMA FlushShows ==
    ASSUME NEW k \in ControlBlock, NEW r, Shows(r, k), SentFrom(k.snd_una, k),
           NEW due \in SUBSET Sns(k.snd_buf), NEW c, c = KcpFlush(k, due)
    PROVE  Shows(SerialFlush(r, AllWrapped(due)), c)
  <1>1. PICK m : m = MoveCount(k)
    OBVIOUS
  <1>2. SerialMoveCount(r) = m /\ CwndNow(r) = CwndNow(k)
    BY <1>1, MoveShows, Zenon
  <1>3. m \in Nat /\ m \in 0 .. Len(k.snd_queue)
    BY <1>1, MoveCountType DEF ControlBlock
  <1>4. PICK lost \in BOOLEAN : lost = (Resent(k, due) # {})
    OBVIOUS
  <1>5. (\E i \in DOMAIN r.snd_buf : r.snd_buf[i].sn \in AllWrapped(due)) = lost
    BY <1>4, LostShows
  <1>6. /\ r \in RawBlock /\ r.snd_una = Wrapped(k.snd_una)
        /\ r.snd_nxt = Wrapped(k.snd_nxt) /\ r.snd_queue = k.snd_queue
        /\ r.rmt_wnd = k.rmt_wnd /\ r.conv = k.conv
        /\ r.cwnd = k.cwnd /\ r.ssthresh = k.ssthresh
        /\ r.rcv_nxt = Wrapped(k.rcv_nxt) /\ r.rcv_queue = k.rcv_queue
        /\ IsList(r.rcv_buf, k.rcv_buf)
    BY Zenon DEF Shows, ShowsRest, ShowsSent, ShowsReceived
  <1>7. PICK n, s : Counts(s, n, k.snd_buf) /\ r.snd_buf = InMemory(s)
    BY Zenon DEF Shows, ShowsSent, IsList
  <1>8. PICK t : /\ Counts(t, m, Moved(k))
                 /\ InMemory(t) = [i \in 1 .. m |->
                                     [sn  |-> Wrapped(Wrapped(k.snd_nxt) + i - 1),
                                      seg |-> k.snd_queue[i]]]
    BY <1>1, MovedListed, Zenon
  <1>9. /\ c \in ControlBlock /\ SameReceiver(c, k)
        /\ c.snd_nxt = k.snd_nxt + m
        /\ c.snd_queue = SubSeq(k.snd_queue, m + 1, Len(k.snd_queue))
        /\ c.snd_buf = k.snd_buf \cup Moved(k)
    BY <1>1, KcpFlushType, Zenon
  <1>10. /\ c.conv = k.conv /\ c.rmt_wnd = k.rmt_wnd
         /\ c.snd_una = k.snd_una
         /\ c.acklist = {} /\ c.tell = FALSE
         /\ c.probe_wait = (k.rmt_wnd = 0)
         /\ c.ssthresh = (IF lost THEN Greater(ThreshMin, CwndNow(k) \div 2)
                          ELSE k.ssthresh)
         /\ c.cwnd = (IF lost \/ k.cwnd < 1 THEN 1 ELSE k.cwnd)
    BY <1>4, FlushFields, Zenon
  <1>11. PICK b, x : b = r.snd_buf \o InMemory(t) /\ x = Wrapped(r.snd_nxt + m)
    OBVIOUS
  <1>12. IsList(b, c.snd_buf)
    <2>1. k.snd_buf \in SUBSET Numbered /\ Moved(k) \in SUBSET Numbered
      BY MovedType DEF ControlBlock
    <2>2. \A y \in k.snd_buf : \A z \in Moved(k) : y.sn < z.sn
      <3>1. \A z \in Moved(k) : k.snd_nxt <= z.sn
        BY <1>1, <1>3 DEF Moved, ControlBlock
      <3>2. \A y \in k.snd_buf : y.sn \in Nat /\ y.sn < k.snd_nxt
        BY <2>1 DEF SentFrom, Numbered
      <3>3. \A z \in Moved(k) : z.sn \in Nat
        BY <2>1 DEF Numbered
      <3>4. k.snd_nxt \in Nat
        BY DEF ControlBlock
      <3>. QED
        BY <3>1, <3>2, <3>3, <3>4
    <2>3. IsList(InMemory(s) \o InMemory(t), k.snd_buf \cup Moved(k))
      BY <1>7, <1>8, <2>1, <2>2, AppendListed
    <2>. QED
      BY <1>7, <1>9, <1>11, <2>3, Zenon
  <1>13. x = Wrapped(c.snd_nxt)
    <2>1. k.snd_nxt \in Int /\ m \in Int
      BY <1>3 DEF ControlBlock
    <2>2. Wrapped(Wrapped(k.snd_nxt) + m) = Wrapped(k.snd_nxt + m)
      BY <2>1, WrappedSum
    <2>. QED
      BY <1>6, <1>9, <1>11, <2>2, Zenon
  <1>14. PICK pw, th, cw : pw = c.probe_wait /\ th = c.ssthresh /\ cw = c.cwnd
    OBVIOUS
  <1>15. PICK q : q = c.snd_queue
    OBVIOUS
  <1>16. PICK f : f = [r EXCEPT !.acklist = {}, !.tell = FALSE, !.probe_wait = pw,
                                !.snd_queue = q, !.snd_buf = b, !.snd_nxt = x,
                                !.ssthresh = th, !.cwnd = cw]
    OBVIOUS
  <1>17. SerialFlush(r, AllWrapped(due)) = f
    <2>1. pw = (r.rmt_wnd = 0)
      BY <1>6, <1>10, <1>14, Zenon
    <2>2. q = SubSeq(r.snd_queue, m + 1, Len(r.snd_queue))
      BY <1>6, <1>9, <1>15, Zenon
    <2>3. b = r.snd_buf \o [i \in 1 .. m |->
                              [sn  |-> Wrapped(r.snd_nxt + i - 1),
                               seg |-> r.snd_queue[i]]]
      BY <1>6, <1>8, <1>11, Zenon
    <2>4. th = IF lost THEN Greater(ThreshMin, CwndNow(r) \div 2) ELSE r.ssthresh
      BY <1>2, <1>6, <1>10, <1>14, Zenon
    <2>5. cw = IF lost \/ r.cwnd < 1 THEN 1 ELSE r.cwnd
      BY <1>6, <1>10, <1>14, Zenon
    <2>. QED
      BY <1>2, <1>5, <1>11, <1>16, <2>1, <2>2, <2>3, <2>4, <2>5, Zenon DEF SerialFlush
  <1>18. /\ pw \in BOOLEAN /\ q \in Seq(Segment) /\ b \in Seq(Numbered)
         /\ x \in Nat /\ th \in Nat /\ cw \in Nat
    <2>1. c.snd_buf \in SUBSET Numbered /\ c.snd_nxt \in Nat
      BY <1>9 DEF ControlBlock
    <2>2. b \in Seq(Numbered)
      BY <1>12, <2>1, ListType
    <2>3. x \in Nat
      BY <1>13, <2>1, WrappedNat
    <2>. QED
      BY <1>9, <1>14, <1>15, <2>2, <2>3 DEF ControlBlock
  <1>19. /\ f \in RawBlock /\ f.acklist = {} /\ f.tell = FALSE /\ f.probe_wait = pw
         /\ f.snd_queue = q /\ f.snd_buf = b /\ f.snd_nxt = x
         /\ f.ssthresh = th /\ f.cwnd = cw
         /\ f.conv = r.conv /\ f.rmt_wnd = r.rmt_wnd /\ f.snd_una = r.snd_una
         /\ f.rcv_nxt = r.rcv_nxt /\ f.rcv_queue = r.rcv_queue
         /\ f.rcv_buf = r.rcv_buf
    BY <1>6, <1>16, <1>18 DEF RawBlock
  <1>20. /\ c.rcv_nxt = k.rcv_nxt /\ c.rcv_queue = k.rcv_queue
         /\ c.rcv_buf = k.rcv_buf
    BY <1>9, Zenon DEF SameReceiver
  <1>21. ShowsReceived(f, c)
    BY <1>6, <1>19, <1>20, Zenon DEF ShowsReceived
  <1>22. ShowsSent(f, c)
    BY <1>12, <1>13, <1>15, <1>19, Zenon DEF ShowsSent
  <1>23. ShowsRest(f, c)
    BY <1>6, <1>10, <1>14, <1>19, Zenon DEF ShowsRest
  <1>24. ShowsAcks(f, c)
    <2>1. AllWrapped({}) = {}
      BY DEF AllWrapped
    <2>. QED
      BY <1>10, <1>19, <2>1, Zenon DEF ShowsAcks
  <1>25. f.snd_una = Wrapped(c.snd_una)
    BY <1>6, <1>10, <1>19, Zenon
  <1>26. Shows(f, c)
    BY <1>19, <1>21, <1>22, <1>23, <1>24, <1>25, Zenon DEF Shows
  <1>. QED
    BY <1>17, <1>26, Zenon

(* After a flush the sender's numbers are in order again: the window holds *)
(* and snd_una is the first segment that is not acknowledged.              *)
LEMMA FlushKeepsWindow ==
    ASSUME NEW k \in ControlBlock, NEW r, Shows(r, k),
           SentFrom(k.snd_una, k), Shrunk(k), NEW due, NEW c, c = KcpFlush(k, due)
    PROVE  SentFrom(c.snd_una, c) /\ Shrunk(c)
  <1>1. PICK m : m = MoveCount(k)
    OBVIOUS
  <1>2. m \in Nat /\ k.snd_nxt + m <= k.snd_una + SndWnd
    <2>1. m \in Nat
      BY <1>1, MoveCountType DEF ControlBlock
    <2>2. k.snd_nxt + m <= k.snd_una + SndWnd
      BY <1>1, MoveShows, Zenon
    <2>. QED
      BY <2>1, <2>2
  <1>3. /\ c \in ControlBlock
        /\ c.snd_nxt = k.snd_nxt + m
        /\ c.snd_buf = k.snd_buf \cup Moved(k)
    BY <1>1, KcpFlushType, Zenon
  <1>4. c.snd_una = k.snd_una
    BY FlushFields, Zenon
  <1>5. /\ k.snd_buf \in SUBSET Numbered
        /\ k.snd_una \in Nat /\ k.snd_nxt \in Nat /\ k.snd_una <= k.snd_nxt
        /\ \A x \in k.snd_buf : k.snd_una <= x.sn /\ x.sn < k.snd_nxt
    BY DEF SentFrom, ControlBlock
  <1>6. /\ Moved(k) \in SUBSET Numbered
        /\ \A x \in Moved(k) : k.snd_nxt <= x.sn /\ x.sn < k.snd_nxt + m
    <2>1. Moved(k) \in SUBSET Numbered
      BY MovedType
    <2>2. \A x \in Moved(k) : \E i \in 1 .. m : x.sn = k.snd_nxt + i - 1
      BY <1>1 DEF Moved
    <2>. QED
      BY <1>2, <1>5, <2>1, <2>2
  <1>7. \A x \in c.snd_buf : x.sn \in Nat
    BY <1>3 DEF ControlBlock, Numbered
  <1>8. \A x \in c.snd_buf : c.snd_una <= x.sn /\ x.sn < c.snd_nxt
    <2>. TAKE x \in c.snd_buf
    <2>1. CASE x \in k.snd_buf
      BY <1>2, <1>3, <1>4, <1>5, <1>7, <2>1
    <2>2. CASE x \in Moved(k)
      BY <1>2, <1>3, <1>4, <1>5, <1>6, <1>7, <2>2
    <2>. QED
      BY <1>3, <2>1, <2>2
  <1>9. SentFrom(c.snd_una, c)
    BY <1>2, <1>3, <1>4, <1>5, <1>8 DEF SentFrom
  <1>10. ASSUME m # 0
        PROVE  \E x \in Moved(k) : x.sn = k.snd_nxt
    <2>1. 1 \in 1 .. m
      BY <1>2, <1>10
    <2>2. PICK x : x = [sn |-> k.snd_nxt + 1 - 1, seg |-> k.snd_queue[1]]
      OBVIOUS
    <2>3. x \in Moved(k)
      BY <1>1, <2>1, <2>2 DEF Moved
    <2>4. x.sn = k.snd_nxt
      BY <1>5, <2>2
    <2>. QED
      BY <2>3, <2>4
  <1>11. Shrunk(c)
    <2>1. CASE c.snd_buf = {}
      <3>1. k.snd_buf = {} /\ Moved(k) = {}
        BY <1>3, <2>1
      <3>2. m = 0
        BY <1>10, <3>1
      <3>3. k.snd_una = k.snd_nxt
        BY <3>1 DEF Shrunk
      <3>. QED
        BY <1>3, <1>4, <1>5, <2>1, <3>2, <3>3 DEF Shrunk
    <2>2. CASE c.snd_buf # {}
      <3>1. Sns(c.snd_buf) \in SUBSET Nat
        BY <1>7 DEF Sns
      <3>2. \A y \in Sns(c.snd_buf) : k.snd_una <= y
        BY <1>4, <1>8 DEF Sns
      <3>3. k.snd_una \in Sns(c.snd_buf)
        <4>1. CASE k.snd_buf = {}
          <5>1. k.snd_una = k.snd_nxt
            BY <4>1 DEF Shrunk
          <5>2. m # 0
            <6>1. SUFFICES ASSUME m = 0 PROVE FALSE
              OBVIOUS
            <6>2. Moved(k) = {}
              BY <1>1, <6>1 DEF Moved
            <6>. QED
              BY <1>3, <2>2, <4>1, <6>2
          <5>3. PICK x \in Moved(k) : x.sn = k.snd_una
            BY <1>10, <5>1, <5>2
          <5>. QED
            BY <1>3, <5>3 DEF Sns
        <4>2. CASE k.snd_buf # {}
          <5>1. k.snd_una = Least(Sns(k.snd_buf))
            BY <4>2 DEF Shrunk
          <5>2. Sns(k.snd_buf) \in SUBSET Nat /\ Sns(k.snd_buf) # {}
            BY <1>5, <4>2, SnsType DEF Sns
          <5>3. k.snd_una \in Sns(k.snd_buf)
            BY <5>1, <5>2, LeastIsLeast
          <5>. QED
            BY <1>3, <5>3 DEF Sns
        <4>. QED
          BY <4>1, <4>2
      <3>4. Least(Sns(c.snd_buf)) = k.snd_una
        BY <3>1, <3>2, <3>3, LeastIs
      <3>. QED
        BY <1>4, <2>2, <3>4 DEF Shrunk
    <2>. QED
      BY <2>1, <2>2
  <1>. QED
    BY <1>9, <1>11

----------------------------------------------------------------------------
(* ikcp_send and ikcp_recv.                                                *)

(* The sender's part of SentFrom and Shrunk.                               *)
InOrder(k) == SentFrom(k.snd_una, k) /\ Shrunk(k)

(* It rests on three fields.                                               *)
LEMMA InOrderSame ==
    ASSUME NEW k, NEW c, InOrder(k), c.snd_una = k.snd_una,
           c.snd_nxt = k.snd_nxt, c.snd_buf = k.snd_buf
    PROVE  InOrder(c)
  BY Zenon DEF InOrder, SentFrom, Shrunk

(* A message is queued.                                                    *)
LEMMA SendShows ==
    ASSUME NEW k \in ControlBlock, NEW r, Shows(r, k), InOrder(k),
           NEW msg \in Seq(Data), NEW c, c = KcpSend(k, msg)
    PROVE  Shows(KcpSend(r, msg), c) /\ InOrder(c)
  <1>1. CASE KcpSendRefused(msg)
    <2>1. KcpSend(r, msg) = r /\ c = k
      BY <1>1, Zenon DEF KcpSend
    <2>. QED
      BY <2>1
  <1>2. CASE ~ KcpSendRefused(msg)
    <2>1. PICK q : q = k.snd_queue \o Fragments(msg)
      OBVIOUS
    <2>2. q \in Seq(Segment)
      BY <2>1, FragmentsType DEF ControlBlock
    <2>3. PICK a : a = [r EXCEPT !.snd_queue = q]
      OBVIOUS
    <2>4. PICK b : b = [k EXCEPT !.snd_queue = q]
      OBVIOUS
    <2>5. r \in RawBlock /\ r.snd_queue = k.snd_queue
      BY Zenon DEF Shows, ShowsSent
    <2>6. KcpSend(r, msg) = a /\ c = b
      BY <1>2, <2>1, <2>3, <2>4, <2>5, Zenon DEF KcpSend
    <2>7. /\ a \in RawBlock /\ a.snd_queue = q
          /\ a.conv = r.conv /\ a.rmt_wnd = r.rmt_wnd /\ a.cwnd = r.cwnd
          /\ a.ssthresh = r.ssthresh
          /\ a.tell = r.tell /\ a.probe_wait = r.probe_wait
          /\ a.snd_una = r.snd_una /\ a.snd_nxt = r.snd_nxt
          /\ a.snd_buf = r.snd_buf
          /\ a.rcv_nxt = r.rcv_nxt /\ a.rcv_queue = r.rcv_queue
          /\ a.rcv_buf = r.rcv_buf /\ a.acklist = r.acklist
      BY <2>2, <2>3, <2>5 DEF RawBlock
    <2>8. /\ b.snd_queue = q
          /\ b.conv = k.conv /\ b.rmt_wnd = k.rmt_wnd /\ b.cwnd = k.cwnd
          /\ b.ssthresh = k.ssthresh
          /\ b.tell = k.tell /\ b.probe_wait = k.probe_wait
          /\ b.snd_una = k.snd_una /\ b.snd_nxt = k.snd_nxt
          /\ b.snd_buf = k.snd_buf
          /\ b.rcv_nxt = k.rcv_nxt /\ b.rcv_queue = k.rcv_queue
          /\ b.rcv_buf = k.rcv_buf /\ b.acklist = k.acklist
      BY <2>4 DEF ControlBlock
    <2>9. Shows(a, b)
      BY <2>7, <2>8, Zenon
      DEF Shows, ShowsRest, ShowsSent, ShowsReceived, ShowsAcks
    <2>10. InOrder(b)
      BY <2>8, InOrderSame
    <2>. QED
      BY <2>6, <2>9, <2>10, Zenon
  <1>. QED
    BY <1>1, <1>2

(* The window is to be announced, or not.                                  *)
LEMMA ToldShows ==
    ASSUME NEW k \in ControlBlock, NEW r, Shows(r, k), NEW v \in BOOLEAN,
           NEW c, c = [k EXCEPT !.tell = v]
    PROVE  /\ Shows([r EXCEPT !.tell = v], c)
           /\ c.snd_una = k.snd_una /\ c.snd_nxt = k.snd_nxt
           /\ c.snd_buf = k.snd_buf
  <1>1. PICK a : a = [r EXCEPT !.tell = v]
    OBVIOUS
  <1>2. r \in RawBlock
    BY Zenon DEF Shows
  <1>3. /\ a \in RawBlock /\ a.tell = v
        /\ a.conv = r.conv /\ a.rmt_wnd = r.rmt_wnd /\ a.cwnd = r.cwnd
        /\ a.ssthresh = r.ssthresh
        /\ a.probe_wait = r.probe_wait /\ a.snd_queue = r.snd_queue
        /\ a.snd_una = r.snd_una /\ a.snd_nxt = r.snd_nxt
        /\ a.snd_buf = r.snd_buf
        /\ a.rcv_nxt = r.rcv_nxt /\ a.rcv_queue = r.rcv_queue
        /\ a.rcv_buf = r.rcv_buf /\ a.acklist = r.acklist
    BY <1>1, <1>2 DEF RawBlock
  <1>4. /\ c.tell = v
        /\ c.conv = k.conv /\ c.rmt_wnd = k.rmt_wnd /\ c.cwnd = k.cwnd
        /\ c.ssthresh = k.ssthresh
        /\ c.probe_wait = k.probe_wait /\ c.snd_queue = k.snd_queue
        /\ c.snd_una = k.snd_una /\ c.snd_nxt = k.snd_nxt
        /\ c.snd_buf = k.snd_buf
        /\ c.rcv_nxt = k.rcv_nxt /\ c.rcv_queue = k.rcv_queue
        /\ c.rcv_buf = k.rcv_buf /\ c.acklist = k.acklist
    BY DEF ControlBlock
  <1>5. Shows(a, c)
    BY <1>3, <1>4, Zenon
    DEF Shows, ShowsRest, ShowsSent, ShowsReceived, ShowsAcks
  <1>. QED
    BY <1>1, <1>4, <1>5, Zenon

(* The first message leaves rcv_queue.                                     *)
LEMMA CutShows ==
    ASSUME NEW k \in ControlBlock, NEW r, Shows(r, k), InWindow(k),
           NEW q \in Seq(Segment), NEW c, c = [k EXCEPT !.rcv_queue = q]
    PROVE  /\ c \in ControlBlock /\ InWindow(c)
           /\ Shows([r EXCEPT !.rcv_queue = q], c)
           /\ c.snd_una = k.snd_una /\ c.snd_nxt = k.snd_nxt
           /\ c.snd_buf = k.snd_buf /\ c.tell = k.tell
  <1>1. PICK a : a = [r EXCEPT !.rcv_queue = q]
    OBVIOUS
  <1>2. r \in RawBlock
    BY Zenon DEF Shows
  <1>3. /\ a \in RawBlock /\ a.rcv_queue = q
        /\ a.conv = r.conv /\ a.rmt_wnd = r.rmt_wnd /\ a.cwnd = r.cwnd
        /\ a.ssthresh = r.ssthresh /\ a.tell = r.tell
        /\ a.probe_wait = r.probe_wait /\ a.snd_queue = r.snd_queue
        /\ a.snd_una = r.snd_una /\ a.snd_nxt = r.snd_nxt
        /\ a.snd_buf = r.snd_buf /\ a.rcv_nxt = r.rcv_nxt
        /\ a.rcv_buf = r.rcv_buf /\ a.acklist = r.acklist
    BY <1>1, <1>2 DEF RawBlock
  <1>4. /\ c \in ControlBlock /\ c.rcv_queue = q
        /\ c.conv = k.conv /\ c.rmt_wnd = k.rmt_wnd /\ c.cwnd = k.cwnd
        /\ c.ssthresh = k.ssthresh /\ c.tell = k.tell
        /\ c.probe_wait = k.probe_wait /\ c.snd_queue = k.snd_queue
        /\ c.snd_una = k.snd_una /\ c.snd_nxt = k.snd_nxt
        /\ c.snd_buf = k.snd_buf /\ c.rcv_nxt = k.rcv_nxt
        /\ c.rcv_buf = k.rcv_buf /\ c.acklist = k.acklist
    BY DEF ControlBlock
  <1>5. Shows(a, c)
    BY <1>3, <1>4, Zenon
    DEF Shows, ShowsRest, ShowsSent, ShowsReceived, ShowsAcks
  <1>6. InWindow(c)
    BY <1>4, Zenon DEF InWindow
  <1>. QED
    BY <1>1, <1>4, <1>5, <1>6, Zenon

(* ikcp_recv with lists and wrapped numbers.                               *)
LEMMA RecvShows ==
    ASSUME NEW k \in ControlBlock, NEW r, Shows(r, k), InOrder(k), InWindow(k),
           k.rcv_queue # <<>>, NEW c, c = KcpRecv(k)
    PROVE  Shows(SerialRecv(r), c) /\ InOrder(c)
  <1>1. PICK q : q = SubSeq(k.rcv_queue, Len(FirstMessage(k)) + 1, Len(k.rcv_queue))
    OBVIOUS
  <1>2. q \in Seq(Segment)
    <2>1. PICK m \in 1 .. Len(k.rcv_queue) :
             FirstMessage(k) = SubSeq(k.rcv_queue, 1, m)
      BY FirstMessageProperty
    <2>2. k.rcv_queue \in Seq(Segment)
      BY DEF ControlBlock
    <2>3. Len(FirstMessage(k)) = m
      BY <2>1, <2>2
    <2>4. m + 1 \in 1 .. Len(k.rcv_queue) + 1
      BY <2>1, <2>2
    <2>. QED
      BY <1>1, <2>1, <2>2, <2>3, <2>4
  <1>3. r.rcv_queue = k.rcv_queue /\ FirstMessage(r) = FirstMessage(k)
    BY Zenon DEF Shows, ShowsReceived, FirstMessage
  <1>4. PICK b : b = [k EXCEPT !.rcv_queue = q]
    OBVIOUS
  <1>5. PICK a : a = [r EXCEPT !.rcv_queue = q]
    OBVIOUS
  <1>6. /\ b \in ControlBlock /\ InWindow(b)
        /\ Shows([r EXCEPT !.rcv_queue = q], b)
        /\ b.snd_una = k.snd_una /\ b.snd_nxt = k.snd_nxt
        /\ b.snd_buf = k.snd_buf /\ b.tell = k.tell
    BY <1>2, <1>4, CutShows
  <1>7. PICK x, y : x = MoveAvailable(a) /\ y = Drain(b)
    OBVIOUS
  <1>8. Shows(x, y)
    BY <1>5, <1>6, <1>7, AvailableShows
  <1>9. y \in ControlBlock
    BY <1>6, <1>7, DrainFrame
  <1>10. /\ y.snd_una = k.snd_una /\ y.snd_nxt = k.snd_nxt
         /\ y.snd_buf = k.snd_buf
    <2>1. SameButReceived(y, b)
      BY <1>6, <1>7, DrainFields, Zenon
    <2>. QED
      BY <1>6, <2>1, Zenon DEF SameButReceived
  <1>11. PICK v : v = (y.tell \/ /\ Len(k.rcv_queue) >= RcvWnd
                                 /\ Len(y.rcv_queue) < RcvWnd)
    OBVIOUS
  <1>12. v \in BOOLEAN
    BY <1>9, <1>11 DEF ControlBlock
  <1>13. c = [y EXCEPT !.tell = v]
    BY <1>1, <1>4, <1>7, <1>11, Zenon DEF KcpRecv
  <1>14. SerialRecv(r) = [x EXCEPT !.tell = v]
    <2>1. x.tell = y.tell /\ x.rcv_queue = y.rcv_queue
      BY <1>8, Zenon DEF Shows, ShowsRest, ShowsReceived
    <2>2. a = [r EXCEPT !.rcv_queue = SubSeq(@, Len(FirstMessage(r)) + 1, Len(@))]
      BY <1>1, <1>3, <1>5, Zenon
    <2>3. SerialRecv(r) = [x EXCEPT !.tell = @ \/ /\ Len(r.rcv_queue) >= RcvWnd
                                                  /\ Len(x.rcv_queue) < RcvWnd]
      BY <1>7, <2>2, Zenon DEF SerialRecv
    <2>4. v = (x.tell \/ /\ Len(r.rcv_queue) >= RcvWnd
                         /\ Len(x.rcv_queue) < RcvWnd)
      BY <1>3, <1>11, <2>1, Zenon
    <2>. QED
      BY <2>3, <2>4, Zenon
  <1>15. /\ Shows([x EXCEPT !.tell = v], c)
         /\ c.snd_una = y.snd_una /\ c.snd_nxt = y.snd_nxt
         /\ c.snd_buf = y.snd_buf
    BY <1>8, <1>9, <1>12, <1>13, ToldShows
  <1>16. InOrder(c)
    <2>1. /\ c.snd_una = k.snd_una /\ c.snd_nxt = k.snd_nxt
          /\ c.snd_buf = k.snd_buf
      BY <1>10, <1>15, Zenon
    <2>. QED
      BY <2>1, InOrderSame
  <1>. QED
    BY <1>14, <1>15, <1>16, Zenon

----------------------------------------------------------------------------
(* The session.                                                            *)

(* What a list holds is finite.                                            *)
LEMMA ListedFinite ==
    ASSUME NEW S \in SUBSET Numbered, NEW l, IsList(l, S)
    PROVE  IsFiniteSet(S)
  <1>1. PICK n, s : Counts(s, n, S)
    BY Zenon DEF IsList
  <1>2. n \in Nat /\ s \in [1 .. n -> S]
    BY <1>1, Zenon DEF Counts
  <1>3. \A x \in S : \E i \in 1 .. n : s[i] = x
    BY <1>1, Zenon DEF Counts
  <1>4. s \in Surjection(1 .. n, S)
    BY <1>2, <1>3 DEF Surjection
  <1>5. IsFiniteSet(1 .. n)
    BY <1>2, FS_Interval
  <1>. QED
    BY <1>4, <1>5, FS_Surjection

(* Segments of one stream are as many as their numbers.                    *)
LEMMA AgreeingFinite ==
    ASSUME NEW push \in SUBSET Numbered, NEW stream, NEW limit \in Nat,
           Agrees(push, stream, limit)
    PROVE  IsFiniteSet(push)
  <1>1. PICK f : f = [n \in 0 .. limit - 1 |-> [sn |-> n, seg |-> stream[n + 1]]]
    OBVIOUS
  <1>2. IsFiniteSet(0 .. limit - 1)
    BY FS_Interval
  <1>3. IsFiniteSet({f[n] : n \in 0 .. limit - 1})
    <2>1. f \in [0 .. limit - 1 -> {f[n] : n \in 0 .. limit - 1}]
      BY <1>1
    <2>2. f \in Surjection(0 .. limit - 1, {f[n] : n \in 0 .. limit - 1})
      BY <2>1 DEF Surjection
    <2>. QED
      BY <1>2, <2>2, FS_Surjection
  <1>4. push \subseteq {f[n] : n \in 0 .. limit - 1}
    <2>. SUFFICES ASSUME NEW x \in push
                  PROVE  \E n \in 0 .. limit - 1 : x = f[n]
      OBVIOUS
    <2>1. /\ x.sn \in Nat /\ x.sn < limit /\ x.seg = stream[x.sn + 1]
          /\ x = [sn |-> x.sn, seg |-> x.seg]
      BY DEF Agrees, Numbered
    <2>2. x.sn \in 0 .. limit - 1
      BY <2>1
    <2>3. f[x.sn] = [sn |-> x.sn, seg |-> stream[x.sn + 1]]
      BY <1>1, <2>2
    <2>. QED
      BY <2>1, <2>2, <2>3
  <1>. QED
    BY <1>3, <1>4, FS_Subset

(* What a receiver holds is within its window.                             *)
LEMMA GotWithin ==
    ASSUME NEW k \in ControlBlock, InWindow(k)
    PROVE  /\ Got(k) \subseteq 0 .. k.rcv_nxt + RcvWnd - 1
           /\ IsFiniteSet(0 .. k.rcv_nxt + RcvWnd - 1)
  <1>1. k.rcv_nxt \in Nat /\ RcvWnd \in Nat \ {0} /\ k.rcv_buf \in SUBSET Numbered
    BY SerialConstants DEF ControlBlock
  <1>2. \A s \in k.rcv_buf : s.sn \in 0 .. k.rcv_nxt + RcvWnd - 1
    BY <1>1 DEF InWindow, Numbered
  <1>3. Sns(k.rcv_buf) \subseteq 0 .. k.rcv_nxt + RcvWnd - 1
    BY <1>2 DEF Sns
  <1>4. 0 .. k.rcv_nxt - 1 \subseteq 0 .. k.rcv_nxt + RcvWnd - 1
    BY <1>1
  <1>5. IsFiniteSet(0 .. k.rcv_nxt + RcvWnd - 1)
    BY <1>1, FS_Interval
  <1>. QED
    BY <1>3, <1>4, <1>5 DEF Got

(* ... and among what was sent.                                            *)
LEMMA GotWasSent ==
    ASSUME NEW k \in ControlBlock, NEW got, NEW stream, NEW limit \in Nat,
           Holds(k, got, stream, limit)
    PROVE  \A n \in Got(k) : n \in Nat /\ n < limit
  <1>1. k.rcv_nxt \in Nat /\ k.rcv_nxt <= limit /\ k.rcv_buf \in SUBSET Numbered
    BY DEF ControlBlock, Holds
  <1>2. \A s \in k.rcv_buf : s.sn \in Nat /\ s.sn < limit
    BY <1>1 DEF Holds, Agrees, Numbered
  <1>. QED
    BY <1>1, <1>2 DEF Got, Sns

(***************************************************************************)
(* The inductive invariant: the invariants of the session, the assumption  *)
(* on the path, and on each side a control block in memory that shows the  *)
(* one with sets and true numbers, whose own numbers are in order.         *)
(***************************************************************************)
Mirrored(p) ==
    /\ Shows(raw[p], kcp[p])
    /\ InOrder(kcp[p])
    /\ kcp[p].conv = Conv
    /\ \A d \in net[p] : d.conv = Conv

SerialInv ==
    /\ StreamInv /\ AckInv /\ BoundInv
    /\ PathIsYoung
    /\ raw \in [Sides -> RawBlock]
    /\ \A p \in Sides : Mirrored(p)

(* The invariant, for one side.                                            *)
LEMMA SerialFacts ==
    ASSUME SerialInv, NEW p \in Sides
    PROVE  /\ kcp[p] \in ControlBlock /\ kcp[Peer(p)] \in ControlBlock
           /\ Peer(p) \in Sides /\ Peer(Peer(p)) = p
           /\ net[p] \in SUBSET Datagram
           /\ Shows(raw[p], kcp[p]) /\ InOrder(kcp[p])
           /\ kcp[p].conv = Conv /\ \A d \in net[p] : d.conv = Conv
           /\ Bounded(kcp[p])
           /\ kcp \in [Sides -> ControlBlock] /\ net \in [Sides -> SUBSET Datagram]
  <1>1. TypeOK
    BY Zenon DEF SerialInv, AckInv
  <1>2. kcp \in [Sides -> ControlBlock] /\ net \in [Sides -> SUBSET Datagram]
    BY <1>1, Zenon DEF TypeOK
  <1>3. Peer(p) \in Sides /\ Peer(Peer(p)) = p
    BY PeerType
  <1>4. Mirrored(p) /\ Bounded(kcp[p])
    BY Zenon DEF SerialInv, BoundInv
  <1>. QED
    BY <1>2, <1>3, <1>4 DEF Mirrored

(* Everything a datagram under way says can be read from wrapped numbers:  *)
(* it is at most Life behind, and what it carries is at most a window      *)
(* ahead of what the receiver takes.                                       *)
LEMMA ArrivalInReach ==
    ASSUME SerialInv, NEW p \in Sides, NEW d \in net[p]
    PROVE  /\ IsFiniteSet(d.push) /\ IsFiniteSet(d.acks)
           /\ d.una <= kcp[p].snd_nxt
           /\ \A x \in d.acks : x < kcp[p].snd_nxt
           /\ \A x \in d.acks \cup {d.una} : kcp[p].snd_una - x <= Life
           /\ \A x \in d.push : kcp[p].rcv_nxt - x.sn <= Life
           /\ \A x \in d.push : x.sn - (kcp[p].rcv_nxt + RcvWnd) < Mod \div 2
  <1>1. PICK q \in Sides : q = Peer(p) /\ p = Peer(q)
    BY PeerType
  <1>2. /\ kcp[p] \in ControlBlock /\ kcp[q] \in ControlBlock
        /\ d \in Datagram
        /\ InWindow(kcp[p]) /\ InWindow(kcp[q])
        /\ InOrder(kcp[p]) /\ InOrder(kcp[q])
    BY <1>1, SerialFacts, Zenon DEF Bounded
  <1>3. d.push \in SUBSET Numbered /\ d.una \in Nat /\ d.acks \in SUBSET Nat
    BY <1>2 DEF Datagram
  <1>4. StreamInv /\ AckInv
    BY Zenon DEF SerialInv
  <1>5. /\ Holds(kcp[q], taken[q], sent[p], kcp[p].snd_nxt)
        /\ Agrees(d.push, sent[q], kcp[q].snd_nxt)
        /\ kcp[p].snd_nxt \in Nat /\ kcp[q].snd_nxt \in Nat
    BY <1>1, <1>4, FaithfulFacts, Zenon
  <1>6. /\ Attests(d, kcp[q])
        /\ Remembers(kcp[q], kcp[p])
    BY <1>1, <1>4, AckFacts, Zenon
  <1>7. IsFiniteSet(d.push)
    BY <1>3, <1>5, AgreeingFinite
  <1>8. d.acks \subseteq Got(kcp[q]) /\ 0 .. d.una - 1 \subseteq Got(kcp[q])
    BY <1>6 DEF Attests
  <1>9. IsFiniteSet(d.acks)
    BY <1>2, <1>8, GotWithin, FS_Subset
  <1>10. \A n \in Got(kcp[q]) : n \in Nat /\ n < kcp[p].snd_nxt
    BY <1>2, <1>5, GotWasSent
  <1>11. \A x \in d.acks : x < kcp[p].snd_nxt
    BY <1>8, <1>10
  <1>12. d.una <= kcp[p].snd_nxt
    <2>. SUFFICES ASSUME kcp[p].snd_nxt < d.una PROVE FALSE
      BY <1>3, <1>5
    <2>1. kcp[p].snd_nxt \in 0 .. d.una - 1
      BY <1>3, <1>5
    <2>. QED
      BY <1>5, <1>8, <1>10, <2>1
  <1>13. /\ \A x \in d.acks \cup {d.una} : kcp[p].snd_una - x <= Life
         /\ \A n \in Sns(d.push) : kcp[p].rcv_nxt - n <= Life
    BY Zenon DEF SerialInv, PathIsYoung
  <1>14. \A x \in d.push : kcp[p].rcv_nxt - x.sn <= Life
    BY <1>13 DEF Sns
  <1>15. PICK end : end = kcp[p].rcv_nxt + RcvWnd
    OBVIOUS
  <1>16. end \in Nat /\ kcp[q].snd_una \in Nat
    <2>1. kcp[p].rcv_nxt \in Nat /\ kcp[q].snd_una \in Nat
      BY <1>2 DEF ControlBlock
    <2>. QED
      BY <1>15, <2>1, SerialConstants
  <1>17. kcp[q].snd_una <= end
    <2>. SUFFICES ASSUME end < kcp[q].snd_una PROVE FALSE
      BY <1>16
    <2>1. /\ kcp[q].snd_una <= kcp[q].snd_nxt
          /\ \A x \in kcp[q].snd_buf : kcp[q].snd_una <= x.sn
      BY <1>2 DEF InOrder, SentFrom
    <2>2. end \in 0 .. kcp[q].snd_nxt - 1
      BY <1>5, <1>16, <2>1
    <2>3. end \in Sns(kcp[q].snd_buf) \/ end \in Got(kcp[p])
      BY <1>6, <2>2 DEF Remembers
    <2>4. end \notin Sns(kcp[q].snd_buf)
      <3>. SUFFICES ASSUME NEW x \in kcp[q].snd_buf, x.sn = end PROVE FALSE
        BY DEF Sns
      <3>. QED
        BY <1>16, <2>1
    <2>5. end \notin Got(kcp[p])
      <3>1. Got(kcp[p]) \subseteq 0 .. end - 1
        <4>1. kcp[p].rcv_nxt \in Nat
          BY <1>2 DEF ControlBlock
        <4>2. kcp[p].rcv_nxt + RcvWnd - 1 = end - 1
          BY <1>15, <4>1, SerialConstants
        <4>3. Got(kcp[p]) \subseteq 0 .. kcp[p].rcv_nxt + RcvWnd - 1
          BY <1>2, GotWithin
        <4>. QED
          BY <4>2, <4>3
      <3>. QED
        BY <1>16, <3>1
    <2>. QED
      BY <2>3, <2>4, <2>5
  <1>18. \A x \in d.push : x.sn - end < Mod \div 2
    <2>. TAKE x \in d.push
    <2>1. x.sn \in Nat /\ x.sn < kcp[q].snd_nxt
      BY <1>3, <1>5 DEF Agrees, Numbered
    <2>2. kcp[q].snd_nxt <= kcp[q].snd_una + SndWnd
      BY <1>2 DEF InOrder, SentFrom
    <2>. QED
      BY <1>5, <1>16, <1>17, <2>1, <2>2, SerialConstants
  <1>. QED
    BY <1>7, <1>9, <1>11, <1>12, <1>13, <1>14, <1>15, <1>18

(* A step of one side keeps the pictures if it keeps that side's.          *)
LEMMA MirrorsStep ==
    ASSUME SerialInv, NEW p \in Sides, NEW r, NEW c,
           kcp' = [kcp EXCEPT ![p] = c], Becomes(p, r),
           Shows(r, c), InOrder(c), c.conv = Conv,
           \A x \in Sides : \A d \in net'[x] : d.conv = Conv
    PROVE  raw' \in [Sides -> RawBlock] /\ \A x \in Sides : Mirrored(x)'
  <1>1. kcp \in [Sides -> ControlBlock] /\ raw \in [Sides -> RawBlock]
    BY SerialFacts, Zenon DEF SerialInv
  <1>2. kcp'[p] = c /\ \A x \in Sides : x # p => kcp'[x] = kcp[x]
    BY <1>1
  <1>3. raw' = [raw EXCEPT ![p] = r]
    BY Zenon DEF Becomes
  <1>4. raw'[p] = r /\ \A x \in Sides : x # p => raw'[x] = raw[x]
    BY <1>1, <1>3
  <1>5. r \in RawBlock
    BY Zenon DEF Shows
  <1>6. raw' \in [Sides -> RawBlock]
    BY <1>1, <1>3, <1>5
  <1>7. ASSUME NEW x \in Sides
        PROVE  Mirrored(x)'
    <2>1. CASE x = p
      <3>1. Shows(raw'[x], kcp'[x]) /\ InOrder(kcp'[x]) /\ kcp'[x].conv = Conv
        BY <1>2, <1>4, <2>1, Zenon
      <3>2. \A d \in net'[x] : d.conv = Conv
        OBVIOUS
      <3>. QED
        BY <3>1, <3>2, Zenon DEF Mirrored
    <2>2. CASE x # p
      <3>1. Shows(raw[x], kcp[x]) /\ InOrder(kcp[x]) /\ kcp[x].conv = Conv
        BY SerialFacts, Zenon
      <3>2. raw'[x] = raw[x] /\ kcp'[x] = kcp[x]
        BY <1>2, <1>4, <2>2, Zenon
      <3>3. Shows(raw'[x], kcp'[x]) /\ InOrder(kcp'[x]) /\ kcp'[x].conv = Conv
        BY <3>1, <3>2, Zenon
      <3>4. \A d \in net'[x] : d.conv = Conv
        OBVIOUS
      <3>. QED
        BY <3>3, <3>4, Zenon DEF Mirrored
    <2>. QED
      BY <2>1, <2>2
  <1>. QED
    BY <1>6, <1>7

(* ikcp_send keeps the picture.                                            *)
LEMMA SendMirrored ==
    ASSUME SerialInv, NEW p \in Sides, SerialSend(p)
    PROVE  raw' \in [Sides -> RawBlock] /\ \A x \in Sides : Mirrored(x)'
  <1>1. PICK msg \in Messages : Send(p, msg) /\ Becomes(p, KcpSend(raw[p], msg))
    BY Zenon DEF SerialSend
  <1>2. msg \in Seq(Data)
    BY LinkAssumption
  <1>3. /\ kcp[p] \in ControlBlock /\ Shows(raw[p], kcp[p]) /\ InOrder(kcp[p])
        /\ kcp[p].conv = Conv
    BY SerialFacts, Zenon
  <1>4. PICK c : c = KcpSend(kcp[p], msg)
    OBVIOUS
  <1>5. kcp' = [kcp EXCEPT ![p] = c] /\ net' = net
    BY <1>1, <1>4, Zenon DEF Send
  <1>6. Shows(KcpSend(raw[p], msg), c) /\ InOrder(c)
    BY <1>2, <1>3, <1>4, SendShows
  <1>7. c.conv = Conv
    BY <1>3, <1>4, CallsKeepConv, Zenon
  <1>8. \A x \in Sides : \A d \in net'[x] : d.conv = Conv
    BY <1>5, SerialFacts, Zenon
  <1>. QED
    BY <1>1, <1>5, <1>6, <1>7, <1>8, MirrorsStep, Zenon

(* ikcp_flush keeps it.                                                    *)
LEMMA UpdateMirrored ==
    ASSUME SerialInv, NEW p \in Sides, SerialUpdate(p)
    PROVE  raw' \in [Sides -> RawBlock] /\ \A x \in Sides : Mirrored(x)'
  <1>1. PICK due \in SUBSET Sns(kcp[p].snd_buf), probeDue \in ProbeTimer(kcp[p]) :
          \E cuts \in Cuts(kcp[p], due) :
            \E kept \in SUBSET KcpOutput(kcp[p], due, probeDue, cuts) :
                /\ Update(p, due, probeDue, cuts, kept)
                /\ Becomes(p, SerialFlush(raw[p], {Wrapped(n) : n \in due}))
    BY Zenon DEF SerialUpdate
  <1>2. PICK cuts, kept :
                /\ Update(p, due, probeDue, cuts, kept)
                /\ Becomes(p, SerialFlush(raw[p], {Wrapped(n) : n \in due}))
    BY <1>1, Zenon
  <1>3. Becomes(p, SerialFlush(raw[p], AllWrapped(due)))
    BY <1>2, Zenon DEF AllWrapped
  <1>4. /\ kcp[p] \in ControlBlock /\ Shows(raw[p], kcp[p]) /\ InOrder(kcp[p])
        /\ kcp[p].conv = Conv
        /\ Peer(p) \in Sides /\ net \in [Sides -> SUBSET Datagram]
    BY SerialFacts, Zenon
  <1>5. SentFrom(kcp[p].snd_una, kcp[p]) /\ Shrunk(kcp[p])
    BY <1>4, Zenon DEF InOrder
  <1>6. PICK c : c = KcpFlush(kcp[p], due)
    OBVIOUS
  <1>7. kcp' = [kcp EXCEPT ![p] = c]
    BY <1>2, <1>6, Zenon DEF Update
  <1>8. Shows(SerialFlush(raw[p], AllWrapped(due)), c)
    BY <1>4, <1>5, <1>6, FlushShows
  <1>9. InOrder(c)
    BY <1>4, <1>5, <1>6, FlushKeepsWindow, Zenon DEF InOrder
  <1>10. c.conv = Conv
    BY <1>4, <1>6, CallsKeepConv, Zenon
  <1>11. \A x \in Sides : \A d \in net'[x] : d.conv = Conv
    <2>1. \A d \in kept : d.conv = Conv
      <3>1. kept \subseteq KcpOutput(kcp[p], due, probeDue, cuts)
        BY <1>2, Zenon DEF Update
      <3>. QED
        BY <1>4, <3>1, OutputConv
    <2>2. net' = [net EXCEPT ![Peer(p)] = net[Peer(p)] \cup kept]
      BY <1>2, Zenon DEF Update
    <2>3. \A x \in Sides : net'[x] \subseteq net[x] \cup kept
      BY <1>4, <2>2
    <2>4. \A x \in Sides : \A d \in net[x] : d.conv = Conv
      BY SerialFacts, Zenon
    <2>. QED
      BY <2>1, <2>3, <2>4
  <1>. QED
    BY <1>3, <1>7, <1>8, <1>9, <1>10, <1>11, MirrorsStep, Zenon

(* ikcp_input keeps it.                                                    *)
LEMMA HearsMirrored ==
    ASSUME SerialInv, NEW p \in Sides, SerialHears(p)
    PROVE  raw' \in [Sides -> RawBlock] /\ \A x \in Sides : Mirrored(x)'
  <1>1. PICK d \in net[p], grow \in BOOLEAN, duplicated \in BOOLEAN :
            /\ Input(p, d, grow, duplicated)
            /\ \E e \in Encodings(d) : Becomes(p, SerialInput(raw[p], e, grow))
    BY Zenon DEF SerialHears
  <1>2. PICK e \in Encodings(d) : Becomes(p, SerialInput(raw[p], e, grow))
    BY <1>1, Zenon
  <1>3. /\ kcp[p] \in ControlBlock /\ Shows(raw[p], kcp[p]) /\ InOrder(kcp[p])
        /\ kcp[p].conv = Conv /\ d.conv = Conv
        /\ Bounded(kcp[p])
        /\ d \in Datagram /\ net \in [Sides -> SUBSET Datagram]
    BY SerialFacts, Zenon
  <1>4. SentFrom(kcp[p].snd_una, kcp[p]) /\ Shrunk(kcp[p])
    BY <1>3, Zenon DEF InOrder
  <1>5. PICK c : c = KcpInput(kcp[p], d, grow)
    OBVIOUS
  <1>6. kcp' = [kcp EXCEPT ![p] = c]
    BY <1>1, <1>5, Zenon DEF Input
  <1>7. /\ IsFiniteSet(d.push) /\ IsFiniteSet(d.acks)
        /\ d.una <= kcp[p].snd_nxt
        /\ \A x \in d.acks : x < kcp[p].snd_nxt
        /\ \A x \in d.acks \cup {d.una} : kcp[p].snd_una - x <= Life
        /\ \A x \in d.push : kcp[p].rcv_nxt - x.sn <= Life
        /\ \A x \in d.push : x.sn - (kcp[p].rcv_nxt + RcvWnd) < Mod \div 2
    BY ArrivalInReach
  <1>8. \A x \in d.push : /\ kcp[p].rcv_nxt - x.sn <= Life
                          /\ x.sn - (kcp[p].rcv_nxt + RcvWnd) < Mod \div 2
    BY <1>7
  <1>9. d.conv = kcp[p].conv
    BY <1>3
  <1>10. /\ Shows(SerialInput(raw[p], e, grow), c)
         /\ SentFrom(c.snd_una, c) /\ Shrunk(c)
    BY <1>2, <1>3, <1>4, <1>5, <1>7, <1>8, <1>9, InputShows, Zenon
  <1>11. InOrder(c)
    BY <1>10, Zenon DEF InOrder
  <1>12. c.conv = Conv
    BY <1>3, <1>5, InputKeepsConv, Zenon
  <1>13. \A x \in Sides : \A f \in net'[x] : f.conv = Conv
    <2>1. net' = [net EXCEPT ![p] = IF duplicated THEN @ ELSE @ \ {d}]
      BY <1>1, Zenon DEF Input
    <2>2. \A x \in Sides : net'[x] \subseteq net[x]
      BY <1>3, <2>1
    <2>3. \A x \in Sides : \A f \in net[x] : f.conv = Conv
      BY SerialFacts, Zenon
    <2>. QED
      BY <2>2, <2>3
  <1>. QED
    BY <1>2, <1>6, <1>10, <1>11, <1>12, <1>13, MirrorsStep, Zenon

(* ikcp_recv keeps it.                                                     *)
LEMMA ReadsMirrored ==
    ASSUME SerialInv, NEW p \in Sides, SerialReads(p)
    PROVE  raw' \in [Sides -> RawBlock] /\ \A x \in Sides : Mirrored(x)'
  <1>1. Recv(p) /\ Becomes(p, SerialRecv(raw[p]))
    BY Zenon DEF SerialReads
  <1>2. /\ kcp[p] \in ControlBlock /\ Shows(raw[p], kcp[p]) /\ InOrder(kcp[p])
        /\ kcp[p].conv = Conv /\ InWindow(kcp[p])
    BY SerialFacts, Zenon DEF Bounded
  <1>3. PICK c : c = KcpRecv(kcp[p])
    OBVIOUS
  <1>4. /\ kcp' = [kcp EXCEPT ![p] = c] /\ net' = net
        /\ kcp[p].rcv_queue # <<>>
    BY <1>1, <1>3, Zenon DEF Recv, KcpReadable
  <1>5. Shows(SerialRecv(raw[p]), c) /\ InOrder(c)
    BY <1>2, <1>3, <1>4, RecvShows
  <1>6. c.conv = Conv
    BY <1>2, <1>3, <1>4, CallsKeepConv, Zenon
  <1>7. \A x \in Sides : \A d \in net'[x] : d.conv = Conv
    BY <1>4, SerialFacts, Zenon
  <1>. QED
    BY <1>1, <1>4, <1>5, <1>6, <1>7, MirrorsStep, Zenon

(* A step of the two control blocks together is a step of the session.     *)
LEMMA SerialIsLink ==
    ASSUME SerialNext
    PROVE  Next
  <1>1. PICK p \in Sides :
           SerialSend(p) \/ SerialUpdate(p) \/ SerialHears(p) \/ SerialReads(p)
    BY Zenon DEF SerialNext
  <1>2. CASE SerialSend(p)
    BY <1>2, Zenon DEF SerialSend, SendSome, Next
  <1>3. CASE SerialUpdate(p)
    <2>1. \E due \in SUBSET Sns(kcp[p].snd_buf), probeDue \in ProbeTimer(kcp[p]) :
            \E cuts \in Cuts(kcp[p], due) :
              \E kept \in SUBSET KcpOutput(kcp[p], due, probeDue, cuts) :
                Fits(p, kept) /\ Update(p, due, probeDue, cuts, kept)
      BY <1>3, Zenon DEF SerialUpdate
    <2>2. UpdateSome(p)
      BY <2>1, Zenon DEF UpdateSome
    <2>. QED
      BY <2>2, Zenon DEF Next
  <1>4. CASE SerialHears(p)
    BY <1>4, Zenon DEF SerialHears, InputSome, Next
  <1>5. CASE SerialReads(p)
    BY <1>5, Zenon DEF SerialReads, Next
  <1>. QED
    BY <1>1, <1>2, <1>3, <1>4, <1>5

LEMMA WrappedZero == Wrapped(0) = 0
  <1>1. PICK w \in 0 .. Mod - 1, m \in Int : w = Wrapped(0) /\ 0 = Mod * m + w
    BY WrappedRange, 0 \in Int
  <1>2. PICK y \in Int : y = Mod * m
    BY SerialConstants
  <1>3. -Mod < y /\ y < Mod
    BY <1>1, <1>2, SerialConstants
  <1>4. m = 0
    BY <1>2, <1>3, SmallMultiple
  <1>. QED
    BY <1>1, <1>4, SerialConstants

(* The empty list.                                                         *)
LEMMA EmptyListed == IsList(<<>>, {})
  <1>1. <<>> \in [1 .. 0 -> {}] /\ <<>> \in Seq(Numbered) /\ Len(<<>>) = 0
    OBVIOUS
  <1>2. {} \in SUBSET Numbered /\ 0 \in Nat
    OBVIOUS
  <1>3. /\ \A x \in {} : \E i \in 1 .. 0 : <<>>[i] = x
        /\ \A i, j \in 1 .. 0 : i < j => <<>>[i].sn < <<>>[j].sn
        /\ \A i \in 1 .. 0 : <<>>[i] = Held(<<>>[i])
    OBVIOUS
  <1>. QED
    BY <1>1, <1>2, <1>3, CountsIf

(* A new control block.                                                    *)
LEMMA CreatedShows ==
    ASSUME NEW k, k = KcpCreate(Conv)
    PROVE  /\ k \in ControlBlock
           /\ Shows([k EXCEPT !.snd_buf = <<>>, !.rcv_buf = <<>>], k)
           /\ InOrder(k) /\ k.conv = Conv /\ Bounded(k)
  <1>1. k \in ControlBlock
    BY LinkAssumption, KcpCreateType
  <1>2. /\ k.conv = Conv /\ k.snd_una = 0 /\ k.snd_nxt = 0 /\ k.rcv_nxt = 0
        /\ k.snd_buf = {} /\ k.rcv_buf = {} /\ k.rcv_queue = <<>>
        /\ k.acklist = {}
    BY DEF KcpCreate
  <1>3. PICK r : r = [k EXCEPT !.snd_buf = <<>>, !.rcv_buf = <<>>]
    OBVIOUS
  <1>4. <<>> \in Seq(Numbered)
    OBVIOUS
  <1>5. /\ r \in RawBlock /\ r.snd_buf = <<>> /\ r.rcv_buf = <<>>
        /\ r.conv = k.conv /\ r.rmt_wnd = k.rmt_wnd /\ r.cwnd = k.cwnd
        /\ r.ssthresh = k.ssthresh /\ r.tell = k.tell
        /\ r.probe_wait = k.probe_wait /\ r.snd_queue = k.snd_queue
        /\ r.snd_una = k.snd_una /\ r.snd_nxt = k.snd_nxt
        /\ r.rcv_nxt = k.rcv_nxt /\ r.rcv_queue = k.rcv_queue
        /\ r.acklist = k.acklist
    BY <1>1, <1>3, <1>4 DEF ControlBlock, RawBlock
  <1>6. ShowsRest(r, k)
    BY <1>5, Zenon DEF ShowsRest
  <1>7. ShowsSent(r, k)
    BY <1>2, <1>5, WrappedZero, EmptyListed, Zenon DEF ShowsSent
  <1>8. ShowsReceived(r, k)
    BY <1>2, <1>5, WrappedZero, EmptyListed, Zenon DEF ShowsReceived
  <1>9. ShowsAcks(r, k)
    <2>1. AllWrapped({}) = {}
      BY DEF AllWrapped
    <2>. QED
      BY <1>2, <1>5, <2>1, Zenon DEF ShowsAcks
  <1>10. r.snd_una = Wrapped(k.snd_una)
    BY <1>2, <1>5, WrappedZero, Zenon
  <1>11. Shows(r, k)
    BY <1>5, <1>6, <1>7, <1>8, <1>9, <1>10, Zenon DEF Shows
  <1>12. InOrder(k)
    <2>1. SentFrom(k.snd_una, k)
      BY <1>2, SerialConstants DEF SentFrom
    <2>2. Shrunk(k)
      BY <1>2 DEF Shrunk
    <2>. QED
      BY <2>1, <2>2, Zenon DEF InOrder
  <1>13. Bounded(k)
    <2>1. Sns(k.rcv_buf) = {}
      BY <1>2 DEF Sns
    <2>2. Len(k.rcv_queue) <= RcvWnd
      BY <1>2, SerialConstants
    <2>. QED
      BY <1>2, <2>1, <2>2 DEF Bounded, InWindow, NothingWaits
  <1>. QED
    BY <1>1, <1>2, <1>3, <1>11, <1>12, <1>13

(* The invariant holds at first, ...                                       *)
LEMMA SerialStart ==
    ASSUME SerialInit
    PROVE  SerialInv
  <1>1. Init
    BY Zenon DEF SerialInit
  <1>2. StreamInv /\ AckInv
    BY <1>1, StreamInit, AckInit
  <1>3. TypeOK
    BY <1>2, Zenon DEF StreamInv
  <1>4. PICK k : k = KcpCreate(Conv)
    OBVIOUS
  <1>5. PICK r : r = [k EXCEPT !.snd_buf = <<>>, !.rcv_buf = <<>>]
    OBVIOUS
  <1>6. /\ k \in ControlBlock /\ Shows(r, k)
        /\ InOrder(k) /\ k.conv = Conv /\ Bounded(k)
    BY <1>4, <1>5, CreatedShows, Zenon
  <1>7. /\ kcp = [p \in Sides |-> k] /\ net = [p \in Sides |-> {}]
        /\ raw = [p \in Sides |-> r]
    BY <1>4, <1>5, Zenon DEF SerialInit, Init
  <1>8. \A p \in Sides : kcp[p] = k /\ net[p] = {} /\ raw[p] = r
    BY <1>7
  <1>9. BoundInv
    <2>1. \A p \in Sides : Bounded(kcp[p])
      BY <1>6, <1>8, Zenon
    <2>. QED
      BY <1>3, <2>1, Zenon DEF BoundInv
  <1>10. PathIsYoung
    BY <1>8 DEF PathIsYoung
  <1>11. raw \in [Sides -> RawBlock]
    <2>1. r \in RawBlock
      BY <1>6, Zenon DEF Shows
    <2>. QED
      BY <1>7, <2>1
  <1>12. \A p \in Sides : Mirrored(p)
    <2>. TAKE p \in Sides
    <2>1. Shows(raw[p], kcp[p]) /\ InOrder(kcp[p]) /\ kcp[p].conv = Conv
      BY <1>6, <1>8, Zenon
    <2>2. \A d \in net[p] : d.conv = Conv
      BY <1>8
    <2>. QED
      BY <2>1, <2>2, Zenon DEF Mirrored
  <1>. QED
    BY <1>2, <1>9, <1>10, <1>11, <1>12, Zenon DEF SerialInv

(* ... every step keeps it, ...                                            *)
LEMMA SerialStep ==
    ASSUME SerialInv, [SerialNext]_serialVars
    PROVE  SerialInv'
  <1>1. CASE SerialNext
    <2>1. [Next]_vars
      BY <1>1, SerialIsLink
    <2>2. StreamInv' /\ AckInv' /\ BoundInv'
      BY <2>1, StreamStep, AckStep, BoundStep, Zenon DEF SerialInv
    <2>3. PathIsYoung'
      BY <1>1, Zenon DEF SerialNext
    <2>4. raw' \in [Sides -> RawBlock] /\ \A x \in Sides : Mirrored(x)'
      <3>1. PICK p \in Sides :
             SerialSend(p) \/ SerialUpdate(p) \/ SerialHears(p) \/ SerialReads(p)
        BY <1>1, Zenon DEF SerialNext
      <3>. QED
        BY <3>1, SendMirrored, UpdateMirrored, HearsMirrored, ReadsMirrored, Zenon
    <2>. QED
      BY <2>2, <2>3, <2>4, Zenon DEF SerialInv
  <1>2. CASE UNCHANGED serialVars
    <2>1. UNCHANGED vars /\ raw' = raw
      BY <1>2, Zenon DEF serialVars
    <2>2. UNCHANGED <<kcp, net, sent, taken>>
      BY <2>1, Zenon DEF vars
    <2>3. [Next]_vars
      BY <2>1
    <2>4. StreamInv' /\ AckInv' /\ BoundInv'
      BY <2>3, StreamStep, AckStep, BoundStep, Zenon DEF SerialInv
    <2>5. kcp' = kcp /\ net' = net
      BY <2>2
    <2>6. PathIsYoung'
      <3>1. PathIsYoung
        BY Zenon DEF SerialInv
      <3>. QED
        BY <2>5, <3>1 DEF PathIsYoung
    <2>7. \A x \in Sides : Mirrored(x)'
      <3>1. \A x \in Sides : Mirrored(x)
        BY Zenon DEF SerialInv
      <3>. QED
        BY <2>1, <2>5, <3>1 DEF Mirrored
    <2>8. raw' \in [Sides -> RawBlock]
      BY <2>1 DEF SerialInv
    <2>. QED
      BY <2>4, <2>6, <2>7, <2>8, Zenon DEF SerialInv
  <1>. QED
    BY <1>1, <1>2

(* ... and it implies what is claimed.                                     *)
LEMMA SerialImpliesInvisible ==
    ASSUME SerialInv
    PROVE  WrapInvisible
  <1>. SUFFICES ASSUME NEW p \in Sides
                PROVE  raw[p] \in Images(kcp[p])
    BY Zenon DEF WrapInvisible
  <1>1. kcp[p] \in ControlBlock /\ Shows(raw[p], kcp[p])
    BY SerialFacts, Zenon
  <1>2. kcp[p].snd_buf \in SUBSET Numbered /\ kcp[p].rcv_buf \in SUBSET Numbered
    BY <1>1 DEF ControlBlock
  <1>3. IsList(raw[p].snd_buf, kcp[p].snd_buf) /\ IsList(raw[p].rcv_buf, kcp[p].rcv_buf)
    BY <1>1, Zenon DEF Shows, ShowsSent, ShowsReceived
  <1>4. IsFiniteSet(kcp[p].snd_buf) /\ IsFiniteSet(kcp[p].rcv_buf)
    BY <1>2, <1>3, ListedFinite, Zenon
  <1>. QED
    BY <1>1, <1>4, ImagesShow, Zenon

(* Numbers that wrap and lists ordered by signed differences decide as     *)
(* true numbers and sets do, as long as no datagram arrives Life segments  *)
(* late.                                                                   *)
THEOREM WrapInvisibleCorrect == SerialSpec => []WrapInvisible
  <1>1. SerialInit => SerialInv
    BY SerialStart
  <1>2. SerialInv /\ [SerialNext]_serialVars => SerialInv'
    BY SerialStep
  <1>3. SerialInv => WrapInvisible
    BY SerialImpliesInvisible
  <1>. QED
    BY <1>1, <1>2, <1>3, PTL DEF SerialSpec
============================================================================
