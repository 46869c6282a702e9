--------------------------- MODULE KcpTimersProofs ---------------------------
(* Why ikcp_update keeps flushing, sends again what is not acknowledged and*)
(* probes a closed window, for every interval, limit and number of         *)
(* segments, every width of the clock and every setting of it; and before  *)
(* that, why times and sequence numbers that wrap can be compared at all.  *)
EXTENDS KcpTimers, TLAPS

----------------------------------------------------------------------------
(* Why comparing wrapped numbers by their signed difference is right.      *)

(* What remains after a division, when the quotient is 0 or -1.            *)
LEMMA SmallRemainders ==
    ASSUME NEW x \in Int
    PROVE  /\ 0 <= x /\ x < Mod => Wrapped(x) = x
           /\ -Mod <= x /\ x < 0 => Wrapped(x) = x + Mod
  <1>. Mod \in Nat \ {0}
    BY WrapAssumption
  <1>. QED
    BY DEF Wrapped

(* A wrapped number is in range and a multiple of Mod away from the number.*)
LEMMA WrappedRange ==
    ASSUME NEW x \in Int
    PROVE  /\ Wrapped(x) \in 0 .. Mod - 1
           /\ x \div Mod \in Int
           /\ x = Mod * (x \div Mod) + Wrapped(x)
  <1>. Mod \in Nat \ {0}
    BY WrapAssumption
  <1>. QED
    BY DEF Wrapped

(* However far two counters have run, the signed difference of what two    *)
(* IUINT32 hold of them is their true difference, as long as that is less  *)
(* than half of the range: every comparison _itimediff decides, of         *)
(* sequence numbers and of times, comes out as it would without a wrap.    *)
THEOREM SignedDifferenceIsTrue ==
    ASSUME NEW a \in Int, NEW b \in Int,
           -(Mod \div 2) <= a - b, a - b < Mod \div 2
    PROVE  ITimeDiff(Wrapped(a), Wrapped(b)) = a - b
  <1>. DEFINE x == Wrapped(a) - Wrapped(b)
              m == (a \div Mod) - (b \div Mod)
  <1>1. Mod \in Nat \ {0} /\ Mod \div 2 \in Nat /\ Mod = 2 * (Mod \div 2)
    BY WrapAssumption
  <1>2. /\ x \in Int /\ -Mod < x /\ x < Mod
        /\ m \in Int
        /\ a - b = Mod * m + x
    <2>1. /\ Wrapped(a) \in 0 .. Mod - 1 /\ Wrapped(b) \in 0 .. Mod - 1
          /\ a = Mod * (a \div Mod) + Wrapped(a)
          /\ b = Mod * (b \div Mod) + Wrapped(b)
          /\ a \div Mod \in Int /\ b \div Mod \in Int
      BY WrappedRange
    <2>2. \A p, q \in Int : Mod * p - Mod * q = Mod * (p - q)
      BY <1>1
    <2>3. Mod * (a \div Mod) - Mod * (b \div Mod) = Mod * m
      BY <2>1, <2>2
    <2>4. Mod * m \in Int /\ m \in Int
      BY <1>1, <2>1
    <2>5. a - b = Mod * m + x
      <3>. DEFINE pa == Mod * (a \div Mod)
                  pb == Mod * (b \div Mod)
                  pm == Mod * m
      <3>1. pa \in Int /\ pb \in Int /\ pm \in Int
        BY <1>1, <2>1, <2>4
      <3>2. /\ Wrapped(a) \in Int /\ Wrapped(b) \in Int
            /\ a = pa + Wrapped(a) /\ b = pb + Wrapped(b) /\ pa - pb = pm
        BY <1>1, <2>1, <2>3
      <3>. HIDE DEF pa, pb, pm
      <3>3. a - b = pm + x
        BY <3>1, <3>2
      <3>. QED
        BY <3>3 DEF pm
    <2>. QED
      BY <1>1, <2>1, <2>4, <2>5
  <1>. HIDE DEF x, m
  <1>3. m \in {-1, 0, 1}
    <2>1. m < 2
      <3>. SUFFICES ASSUME m >= 2 PROVE FALSE
        BY <1>2
      <3>1. Mod * m >= Mod * 2
        BY <1>1, <1>2
      <3>. QED
        BY <1>1, <1>2, <3>1
    <2>2. m > -2
      <3>. SUFFICES ASSUME m <= -2 PROVE FALSE
        BY <1>2
      <3>1. Mod * m <= Mod * (-2)
        BY <1>1, <1>2
      <3>. QED
        BY <1>1, <1>2, <3>1
    <2>. QED
      BY <1>2, <2>1, <2>2
  <1>4. x = a - b \/ x = a - b + Mod \/ x = a - b - Mod
    BY <1>1, <1>2, <1>3
  <1>5. Wrapped(x) = IF a - b >= 0 THEN a - b ELSE a - b + Mod
    BY <1>1, <1>2, <1>4, SmallRemainders
  <1>6. Signed(x) = a - b
    BY <1>1, <1>5 DEF Signed
  <1>. QED
    BY <1>6 DEF ITimeDiff, x

----------------------------------------------------------------------------
(* The timers.                                                             *)

(* What the assumptions say of the constants, for the provers.             *)
LEMMA Constants ==
    /\ Mod \in Nat \ {0} /\ Mod \div 2 \in Nat /\ Mod = 2 * (Mod \div 2)
    /\ Interval \in Nat \ {0} /\ Jump \in Nat \ {0} /\ Gap \in Nat \ {0}
    /\ Interval + Gap < Jump
    /\ Starts \subseteq 0 .. Mod - 1 /\ Settings \subseteq Int
  BY WrapAssumption, TimersAssumption

(* The flush timer compares no times that are too far apart.               *)
LEMMA InReach ==
    /\ Interval + Gap + Jump < Mod \div 2
    /\ \A d \in Settings :
          /\ Interval + Gap + Jump + d < Mod \div 2
          /\ Interval + Gap + Jump - d < Mod \div 2
  <1>1. Reach \in Int /\ Reach >= Interval + Gap + Jump
    <2>1. /\ Jump \in Nat /\ ProbeLimit \in Nat
          /\ RtoMax \in Nat /\ MaxXmit \in Nat
      BY TimersAssumption
    <2>2. MaxXmit * RtoMax + RtoMax \div 8 \in Int
      BY <2>1
    <2>. QED
      BY <2>1, <2>2, Constants DEF Reach, Higher
  <1>. QED
    BY <1>1, Constants, TimersAssumption

----------------------------------------------------------------------------
(* Times on a clock that wraps.                                            *)

Times == 0 .. Mod - 1

(* The time x is w ahead of the time y.                                    *)
Ahead(x, y, w) ==
    /\ x \in Times /\ y \in Times /\ w \in Int
    /\ \E m \in {-1, 0, 1} : x - y = w + m * Mod

Near(w) == -(Mod \div 2) < w /\ w < Mod \div 2

(* Less than half the range from a time, the wrapped sum is off by at most *)
(* once the modulus.                                                       *)
LEMMA WrappedSmall ==
    ASSUME NEW x \in Times, NEW d \in Int, Near(d)
    PROVE  /\ Wrapped(x + d) \in Times
           /\ Wrapped(x + d) \in {x + d, x + d + Mod, x + d - Mod}
  <1>1. CASE x + d < 0
    BY <1>1, Constants, SmallRemainders DEF Times, Near
  <1>2. CASE x + d >= 0 /\ x + d < Mod
    BY <1>2, Constants, SmallRemainders DEF Times, Near
  <1>3. CASE x + d >= Mod
    <2>0. x + d \in Int
      BY Constants DEF Times
    <2>1. Wrapped(x + d) \in 0 .. Mod - 1
      BY <2>0, WrappedRange
    <2>2. x + d = Mod * ((x + d) \div Mod) + Wrapped(x + d) /\ (x + d) \div Mod \in Int
      BY <2>0, WrappedRange
    <2>3. (x + d) \div Mod = 1
      <3>. DEFINE q == (x + d) \div Mod
      <3>. HIDE DEF q
      <3>1. q < 2
        <4>. SUFFICES ASSUME q >= 2 PROVE FALSE
          BY <2>2 DEF q
        <4>1. Mod * q >= Mod * 2
          BY <2>2, Constants DEF q
        <4>. QED
          BY <4>1, <2>1, <2>2, Constants DEF q, Times, Near
      <3>2. q > 0
        <4>. SUFFICES ASSUME q <= 0 PROVE FALSE
          BY <2>2 DEF q
        <4>1. Mod * q <= 0
          BY <2>2, Constants DEF q
        <4>. QED
          BY <4>1, <1>3, <2>1, <2>2, Constants DEF q, Times, Near
      <3>. QED
        BY <3>1, <3>2, <2>2 DEF q
    <2>. QED
      BY <2>1, <2>2, <2>3, <1>3, Constants DEF Times, Near
  <1>. QED
    BY <1>1, <1>2, <1>3, Constants DEF Times

(* The later the clock, the less a time is ahead of it.                    *)
LEMMA ClockMoves ==
    ASSUME NEW x, NEW y, NEW w, Ahead(x, y, w),
           NEW d \in Int, Near(d), Near(w - d)
    PROVE  Ahead(x, Wrapped(y + d), w - d)
  <1>1. x \in Times /\ y \in Times /\ w \in Int
    BY DEF Ahead
  <1>2. /\ Wrapped(y + d) \in Times
        /\ Wrapped(y + d) \in {y + d, y + d + Mod, y + d - Mod}
    BY <1>1, WrappedSmall
  <1>3. x - y \in {w, w + Mod, w - Mod}
    BY <1>1, Constants DEF Ahead, Times
  <1>4. x - Wrapped(y + d) \in {w - d, w - d + Mod, w - d - Mod}
    BY <1>1, <1>2, <1>3, Constants DEF Near, Times
  <1>. QED
    BY <1>1, <1>2, <1>4, Constants DEF Ahead, Times

(* The later the time, the more it is ahead of the clock.                  *)
LEMMA TimerMoves ==
    ASSUME NEW x, NEW y, NEW w, Ahead(x, y, w),
           NEW d \in Int, Near(d), Near(w + d)
    PROVE  Ahead(Wrapped(x + d), y, w + d)
  <1>1. x \in Times /\ y \in Times /\ w \in Int
    BY DEF Ahead
  <1>2. /\ Wrapped(x + d) \in Times
        /\ Wrapped(x + d) \in {x + d, x + d + Mod, x + d - Mod}
    BY <1>1, WrappedSmall
  <1>3. x - y \in {w, w + Mod, w - Mod}
    BY <1>1, Constants DEF Ahead, Times
  <1>4. Wrapped(x + d) - y \in {w + d, w + d + Mod, w + d - Mod}
    BY <1>1, <1>2, <1>3, Constants DEF Near, Times
  <1>. QED
    BY <1>1, <1>2, <1>4, Constants DEF Ahead, Times

(* _itimediff finds how far ahead a time is, as long as that is less than  *)
(* half the range.                                                         *)
LEMMA DifferenceOf ==
    ASSUME NEW x, NEW y, NEW w, Ahead(x, y, w), Near(w)
    PROVE  ITimeDiff(y, x) = -w
  <1>1. /\ y - x \in Int /\ -Mod < y - x /\ y - x < Mod
        /\ y - x \in {-w, -w + Mod, -w - Mod}
    BY Constants DEF Ahead, Times
  <1>2. Wrapped(y - x) = IF -w >= 0 THEN -w ELSE -w + Mod
    BY <1>1, Constants, SmallRemainders DEF Near, Ahead
  <1>. QED
    BY <1>1, <1>2, Constants DEF ITimeDiff, Signed, Near, Ahead

----------------------------------------------------------------------------
(* Types.                                                                  *)

(* What the assumptions say of the other constants, for the provers.       *)
LEMMA Limits ==
    /\ RtoMin \in Nat \ {0} /\ RtoDef \in Nat /\ RtoMax \in Nat \ {0}
    /\ RtoMin <= RtoDef /\ RtoDef <= RtoMax
    /\ ProbeInit \in Nat \ {0} /\ ProbeLimit \in Nat \ {0}
    /\ ProbeInit <= ProbeLimit
    /\ MaxXmit \in Nat \ {0} /\ Period \in Nat \ {0} /\ Echo \in Nat \ {0}
  BY TimersAssumption

(* ikcp_create leaves values of their types.                               *)
LEMMA TypeInit == Init => TypeOK
  <1>. SUFFICES ASSUME Init PROVE TypeOK
    OBVIOUS
  <1>1. kcp \in TimeFields
    BY Constants, Limits DEF Init, TimeFields
  <1>2. DOMAIN snd_buf = {}
    BY DEF Init
  <1>. QED
    <2>1. /\ clock \in 0 .. Mod - 1 /\ closed \in BOOLEAN /\ echoes = {}
          /\ \A s \in DOMAIN snd_buf : snd_buf[s] \in SegTimes
          /\ DOMAIN snd_buf \subseteq Segs
      BY <1>2, Constants DEF Init
    <2>2. /\ ran \in 0 .. Gap /\ silent \in Nat /\ asked \in Nat
          /\ age \in [Segs -> Nat] /\ set \in Settings \cup {0}
      BY Constants DEF Init
    <2>. QED
      BY <1>1, <2>1, <2>2 DEF TypeOK

(* _itimediff gives an integer whatever it compares.                       *)
LEMMA DifferenceType ==
    ASSUME NEW x \in Int, NEW y \in Int
    PROVE  ITimeDiff(x, y) \in Int
  BY WrappedRange, Constants DEF ITimeDiff, Signed

(* The fields ikcp_update_ack sets keep their types whatever the clock     *)
(* makes of the round trip.                                                *)
LEMMA UpdateAckType ==
    ASSUME NEW k \in TimeFields, NEW rtt \in Nat
    PROVE  UpdateAck(k, rtt) \in TimeFields
  <1>. DEFINE delta  == Higher(rtt - k.rx_srtt, k.rx_srtt - rtt)
              srtt   == IF k.rx_srtt = 0 THEN rtt
                        ELSE Higher(1, Quotient(Signed(Signed(7 * k.rx_srtt) + rtt), 8))
              rttval == IF k.rx_srtt = 0 THEN rtt \div 2
                        ELSE Signed(Quotient(Signed(3 * k.rx_rttval) + delta, 4))
  <1>1. k.rx_srtt \in Nat /\ k.rx_rttval \in Int
    BY DEF TimeFields
  <1>2. ASSUME NEW x \in Int PROVE Signed(x) \in Int
    BY WrappedRange, Constants DEF Signed
  <1>3. ASSUME NEW x \in Int, NEW n \in {4, 8} PROVE Quotient(x, n) \in Int
    BY DEF Quotient
  <1>4. srtt \in Nat
    <2>1. 7 * k.rx_srtt \in Int
      BY <1>1
    <2>2. Signed(7 * k.rx_srtt) + rtt \in Int
      BY <1>2, <2>1
    <2>3. Quotient(Signed(Signed(7 * k.rx_srtt) + rtt), 8) \in Int
      BY <1>2, <1>3, <2>2
    <2>. QED
      BY <2>3 DEF Higher
  <1>5. rttval \in Int
    <2>1. delta \in Int /\ 3 * k.rx_rttval \in Int
      BY <1>1 DEF Higher
    <2>2. Signed(3 * k.rx_rttval) + delta \in Int
      BY <1>2, <2>1
    <2>3. Signed(Quotient(Signed(3 * k.rx_rttval) + delta, 4)) \in Int
      BY <1>2, <1>3, <2>2
    <2>. QED
      BY <2>3
  <1>6. RtoOf(srtt, rttval) \in RtoMin .. RtoMax
    <2>1. Wrapped(4 * rttval) \in Int
      BY <1>5, WrappedRange
    <2>2. srtt + Higher(Interval, Wrapped(4 * rttval)) \in Int
      BY <1>4, <2>1, Constants DEF Higher
    <2>3. Wrapped(srtt + Higher(Interval, Wrapped(4 * rttval))) \in Int
      BY <2>2, WrappedRange
    <2>. QED
      BY <2>3, Limits DEF RtoOf, Higher, Lower
  <1>7. UpdateAck(k, rtt) = [k EXCEPT !.rx_srtt = srtt, !.rx_rttval = rttval,
                                      !.rx_rto = RtoOf(srtt, rttval)]
    BY DEF UpdateAck
  <1>. HIDE DEF srtt, rttval
  <1>. QED
    BY <1>4, <1>5, <1>6, <1>7 DEF TimeFields

(* The wait for the next probe grows, within the limit.                    *)
LEMMA WaitGrows ==
    ASSUME NEW k \in TimeFields
    PROVE  NextWait(k) \in 1 .. ProbeLimit
  <1>1. k.probe_wait \in Nat
    BY Limits DEF TimeFields
  <1>2. Higher(k.probe_wait, ProbeInit) \in Nat \ {0}
    BY <1>1, Limits DEF Higher
  <1>3. ASSUME NEW n \in Nat \ {0} PROVE n + (n \div 2) \in Nat \ {0}
    OBVIOUS
  <1>4. Higher(k.probe_wait, ProbeInit) + (Higher(k.probe_wait, ProbeInit) \div 2) \in Nat \ {0}
    BY <1>2, <1>3
  <1>. QED
    BY <1>4, Limits DEF NextWait, Lower

(* What ikcp_flush does to the probe timer.                                *)
LEMMA ProbeTimerSets ==
    ASSUME NEW k \in TimeFields, k.current \in Times
    PROVE  /\ ProbeTimer(k) \in TimeFields
           /\ ~ closed => ProbeTimer(k).probe_wait = 0
           /\ closed /\ (k.probe_wait = 0 \/ Probing(k)) =>
                 \E wait \in 1 .. ProbeLimit :
                    /\ ProbeTimer(k).probe_wait = wait
                    /\ ProbeTimer(k).ts_probe = Wrapped(k.current + wait)
           /\ closed /\ k.probe_wait # 0 /\ ~ Probing(k) =>
                 /\ ProbeTimer(k).probe_wait = k.probe_wait
                 /\ ProbeTimer(k).ts_probe = k.ts_probe
           /\ ProbeTimer(k).updated = k.updated
           /\ ProbeTimer(k).ts_flush = k.ts_flush
  <1>1. NextWait(k) \in 1 .. ProbeLimit /\ ProbeInit \in 1 .. ProbeLimit
    BY WaitGrows, Limits
  <1>2. ASSUME NEW wait \in 1 .. ProbeLimit
        PROVE  Wrapped(k.current + wait) \in Nat
    <2>1. k.current + wait \in Int
      BY Constants, Limits DEF Times
    <2>2. Wrapped(k.current + wait) \in 0 .. Mod - 1
      BY <2>1, WrappedRange
    <2>. QED
      BY <2>2, Constants
  <1>. DEFINE wait == CASE ~ closed -> 0
                        [] closed /\ k.probe_wait = 0 -> ProbeInit
                        [] Probing(k) -> NextWait(k)
                        [] OTHER -> k.probe_wait
              at   == CASE ~ closed -> 0
                        [] closed /\ (k.probe_wait = 0 \/ Probing(k)) ->
                              Wrapped(k.current + wait)
                        [] OTHER -> k.ts_probe
  <1>3. ProbeTimer(k) = [k EXCEPT !.probe_wait = wait, !.ts_probe = at]
    BY DEF ProbeTimer
  <1>4. /\ ~ closed => wait = 0 /\ at = 0
        /\ closed /\ k.probe_wait = 0 =>
              wait = ProbeInit /\ at = Wrapped(k.current + wait)
        /\ closed /\ k.probe_wait # 0 /\ Probing(k) =>
              wait = NextWait(k) /\ at = Wrapped(k.current + wait)
        /\ closed /\ k.probe_wait # 0 /\ ~ Probing(k) =>
              wait = k.probe_wait /\ at = k.ts_probe
    <2>1. CASE ~ closed
      BY <2>1 DEF Probing
    <2>2. CASE closed /\ k.probe_wait = 0
      BY <2>2 DEF Probing
    <2>3. CASE closed /\ k.probe_wait # 0 /\ Probing(k)
      BY <2>3
    <2>4. CASE closed /\ k.probe_wait # 0 /\ ~ Probing(k)
      BY <2>4
    <2>. QED
      BY <2>1, <2>2, <2>3, <2>4
  <1>5. k.probe_wait \in 0 .. ProbeLimit /\ k.ts_probe \in Nat
    BY DEF TimeFields
  <1>. HIDE DEF wait, at
  <1>6. wait \in 0 .. ProbeLimit /\ at \in Nat
    BY <1>1, <1>2, <1>4, <1>5, Limits
  <1>7. /\ ProbeTimer(k) \in TimeFields
        /\ ProbeTimer(k).probe_wait = wait /\ ProbeTimer(k).ts_probe = at
        /\ ProbeTimer(k).updated = k.updated /\ ProbeTimer(k).ts_flush = k.ts_flush
    BY <1>3, <1>6 DEF TimeFields
  <1>. QED
    BY <1>1, <1>4, <1>7

(* What ikcp_flush leaves of the segments: the ones that were due and the  *)
(* ones that moved are sent, the others keep their timers.                 *)
LEMMA FlushSegments ==
    ASSUME TypeOK, NEW k \in TimeFields, k.current \in Times,
           NEW moved \in SUBSET (Segs \ DOMAIN snd_buf), Flush(k, moved)
    PROVE  /\ DOMAIN snd_buf' = DOMAIN snd_buf \cup moved
           /\ \A s \in moved :
                 /\ snd_buf'[s].xmit = 1
                 /\ snd_buf'[s].rto = k.rx_rto
                 /\ snd_buf'[s].resendts = Wrapped(k.current + k.rx_rto + (k.rx_rto \div 8))
                 /\ age'[s] = 0
           /\ \A s \in DOMAIN snd_buf : Due(k, s) =>
                 /\ snd_buf[s].xmit < MaxXmit
                 /\ snd_buf'[s].xmit = snd_buf[s].xmit + 1
                 /\ snd_buf'[s].rto = snd_buf[s].rto + k.rx_rto
                 /\ snd_buf'[s].resendts = Wrapped(k.current + snd_buf[s].rto + k.rx_rto)
                 /\ age'[s] = 0
           /\ \A s \in DOMAIN snd_buf : ~ Due(k, s) =>
                 snd_buf'[s] = snd_buf[s] /\ age'[s] = age[s]
           /\ \A s \in DOMAIN snd_buf' : snd_buf'[s] \in SegTimes
  <1>. DEFINE again == {s \in DOMAIN snd_buf : Due(k, s)}
  <1>1. /\ \A s \in again : snd_buf[s].xmit < MaxXmit
        /\ snd_buf' = [s \in DOMAIN snd_buf \cup moved |->
                          CASE s \in moved -> FirstSent(k)
                            [] s \in again -> SentAgain(k, snd_buf[s])
                            [] OTHER -> snd_buf[s]]
        /\ age' = [s \in Segs |-> IF s \in again \cup moved THEN 0 ELSE age[s]]
    BY DEF Flush
  <1>2. DOMAIN snd_buf \subseteq Segs /\ \A s \in DOMAIN snd_buf : snd_buf[s] \in SegTimes
    BY DEF TypeOK
  <1>3. k.rx_rto \in Nat /\ k.rx_rto \div 8 \in Nat
    BY Limits DEF TimeFields
  <1>4. ASSUME NEW s \in moved
        PROVE  /\ snd_buf'[s] = FirstSent(k) /\ age'[s] = 0
               /\ FirstSent(k) \in SegTimes
    <2>1. k.current + k.rx_rto + (k.rx_rto \div 8) \in Int
      BY <1>3, Constants DEF Times
    <2>2. Wrapped(k.current + k.rx_rto + (k.rx_rto \div 8)) \in 0 .. Mod - 1
      BY <2>1, WrappedRange
    <2>3. Wrapped(k.current + k.rx_rto + (k.rx_rto \div 8)) \in Nat
      BY <2>2, Constants
    <2>4. s \notin again /\ s \in Segs
      OBVIOUS
    <2>. QED
      BY <1>1, <1>3, <2>3, <2>4, Limits DEF FirstSent, SegTimes
  <1>5. ASSUME NEW s \in DOMAIN snd_buf, Due(k, s)
        PROVE  /\ snd_buf'[s] = SentAgain(k, snd_buf[s]) /\ age'[s] = 0
               /\ snd_buf[s].xmit < MaxXmit
               /\ SentAgain(k, snd_buf[s]) \in SegTimes
    <2>1. snd_buf[s].rto \in Nat /\ snd_buf[s].xmit \in 1 .. MaxXmit
      BY <1>2 DEF SegTimes
    <2>2. k.current + snd_buf[s].rto + k.rx_rto \in Int
      BY <1>3, <2>1, Constants DEF Times
    <2>3. Wrapped(k.current + snd_buf[s].rto + k.rx_rto) \in 0 .. Mod - 1
      BY <2>2, WrappedRange
    <2>4. Wrapped(k.current + snd_buf[s].rto + k.rx_rto) \in Nat
      BY <2>3, Constants
    <2>5. s \in again /\ s \notin moved /\ s \in Segs
      BY <1>2, <1>5
    <2>6. snd_buf[s].xmit < MaxXmit
      BY <1>1, <2>5
    <2>7. snd_buf'[s] = SentAgain(k, snd_buf[s]) /\ age'[s] = 0
      BY <1>1, <2>5
    <2>8. SentAgain(k, snd_buf[s]) \in SegTimes
      BY <1>3, <2>1, <2>4, <2>6, Limits DEF SentAgain, SegTimes
    <2>. QED
      BY <2>6, <2>7, <2>8
  <1>6. ASSUME NEW s \in DOMAIN snd_buf, ~ Due(k, s)
        PROVE  snd_buf'[s] = snd_buf[s] /\ age'[s] = age[s]
    <2>1. s \notin again /\ s \notin moved /\ s \in Segs
      BY <1>2, <1>6
    <2>. QED
      BY <1>1, <2>1
  <1>7. DOMAIN snd_buf' = DOMAIN snd_buf \cup moved
    BY <1>1
  <1>8. ASSUME NEW s \in DOMAIN snd_buf'
        PROVE  snd_buf'[s] \in SegTimes
    BY <1>2, <1>4, <1>5, <1>6, <1>7
  <1>9. \A s \in moved :
           /\ snd_buf'[s].xmit = 1
           /\ snd_buf'[s].rto = k.rx_rto
           /\ snd_buf'[s].resendts = Wrapped(k.current + k.rx_rto + (k.rx_rto \div 8))
           /\ age'[s] = 0
    BY <1>4 DEF FirstSent
  <1>10. ASSUME NEW s \in DOMAIN snd_buf, Due(k, s)
         PROVE  /\ snd_buf[s].xmit < MaxXmit
                /\ snd_buf'[s].xmit = snd_buf[s].xmit + 1
                /\ snd_buf'[s].rto = snd_buf[s].rto + k.rx_rto
                /\ snd_buf'[s].resendts = Wrapped(k.current + snd_buf[s].rto + k.rx_rto)
                /\ age'[s] = 0
    <2>1. /\ snd_buf'[s] = SentAgain(k, snd_buf[s]) /\ age'[s] = 0
          /\ snd_buf[s].xmit < MaxXmit
      BY <1>5, <1>10
    <2>. QED
      BY <2>1 DEF SentAgain
  <1>. QED
    BY <1>6, <1>7, <1>8, <1>9, <1>10

(* The step of ikcp_update, by whether it flushes: the control block it    *)
(* flushes with, and what becomes of the flush timer.                      *)
Begun == IF kcp.updated THEN kcp.ts_flush ELSE clock

Slap == ITimeDiff(clock, Begun)

NextFlush ==
    LET next == Wrapped((IF StartsAfresh(Slap) THEN clock ELSE Begun) + Interval)
    IN  IF ITimeDiff(clock, next) >= 0 THEN Wrapped(clock + Interval) ELSE next

SameProbe(k) == k.probe_wait = kcp.probe_wait /\ k.ts_probe = kcp.ts_probe

(* ikcp_update either flushes and sets its timer, or comes before it.      *)
LEMMA UpdateCases ==
    ASSUME TypeOK, Update
    PROVE  /\ ran' = 0 /\ UNCHANGED <<clock, closed, set>>
           /\ \/ /\ StartsAfresh(Slap) \/ Slap >= 0
                 /\ \E k \in TimeFields, moved \in SUBSET (Segs \ DOMAIN snd_buf) :
                       /\ k.current = clock /\ k.updated /\ k.ts_flush = NextFlush
                       /\ k.rx_rto = kcp.rx_rto /\ SameProbe(k)
                       /\ Flush(k, moved)
              \/ /\ ~ StartsAfresh(Slap) /\ Slap < 0 /\ kcp.updated
                 /\ kcp' \in TimeFields /\ kcp'.updated
                 /\ kcp'.ts_flush = kcp.ts_flush /\ SameProbe(kcp')
                 /\ UNCHANGED <<snd_buf, echoes, silent, age, asked>>
  <1>. DEFINE from == IF StartsAfresh(Slap) THEN clock ELSE Begun
              k    == [kcp EXCEPT !.current = clock, !.updated = TRUE]
  <1>1. /\ ran' = 0 /\ UNCHANGED <<clock, closed, set>>
        /\ \/ /\ StartsAfresh(Slap) \/ Slap >= 0
              /\ \E moved \in SUBSET (Segs \ DOMAIN snd_buf) :
                    Flush([k EXCEPT !.ts_flush = NextFlush], moved)
           \/ /\ ~ StartsAfresh(Slap) /\ Slap < 0
              /\ kcp' = [k EXCEPT !.ts_flush = from]
              /\ UNCHANGED <<snd_buf, echoes, silent, age, asked>>
    BY DEF Update, Begun, Slap, NextFlush
  <1>2. /\ clock \in 0 .. Mod - 1 /\ clock \in Nat /\ kcp \in TimeFields
        /\ kcp.ts_flush \in Nat /\ kcp.updated \in BOOLEAN
    BY Constants DEF TypeOK, TimeFields
  <1>3. from \in Nat
    BY <1>2 DEF Begun
  <1>4. NextFlush \in Nat
    <2>1. ASSUME NEW x \in Nat PROVE Wrapped(x + Interval) \in Nat
      <3>1. x + Interval \in Int
        BY Constants
      <3>2. Wrapped(x + Interval) \in 0 .. Mod - 1
        BY <3>1, WrappedRange
      <3>. QED
        BY <3>2, Constants
    <2>. QED
      BY <1>2, <1>3, <2>1 DEF NextFlush
  <1>5. ASSUME NEW at \in Nat
        PROVE  LET p == [k EXCEPT !.ts_flush = at]
               IN  /\ p \in TimeFields /\ p.current = clock /\ p.rx_rto = kcp.rx_rto
                   /\ SameProbe(p) /\ p.ts_flush = at /\ p.updated
    BY <1>2 DEF TimeFields, SameProbe
  <1>. HIDE DEF k
  <1>6. CASE /\ StartsAfresh(Slap) \/ Slap >= 0
             /\ \E moved \in SUBSET (Segs \ DOMAIN snd_buf) :
                   Flush([k EXCEPT !.ts_flush = NextFlush], moved)
    BY <1>1, <1>4, <1>5, <1>6
  <1>7. CASE /\ ~ StartsAfresh(Slap) /\ Slap < 0
             /\ kcp' = [k EXCEPT !.ts_flush = from]
             /\ UNCHANGED <<snd_buf, echoes, silent, age, asked>>
    <2>1. kcp.updated
      <3>. SUFFICES ASSUME ~ kcp.updated PROVE FALSE
        OBVIOUS
      <3>1. Slap = ITimeDiff(clock, clock)
        BY DEF Slap, Begun
      <3>2. Ahead(clock, clock, 0) /\ Near(0)
        BY <1>2, Constants, InReach DEF Ahead, Times, Near
      <3>3. Slap = 0
        BY <3>1, <3>2, DifferenceOf
      <3>. QED
        BY <1>7, <3>3
    <2>2. from = kcp.ts_flush
      BY <1>7, <2>1 DEF Begun
    <2>. QED
      BY <1>1, <1>3, <1>5, <1>7, <2>1, <2>2
  <1>. QED
    BY <1>1, <1>6, <1>7

(* Every step keeps the types.                                             *)
LEMMA TypeStep == TypeOK /\ [Next]_vars => TypeOK'
  <1>. SUFFICES ASSUME TypeOK, [Next]_vars PROVE TypeOK'
    OBVIOUS
  <1>1. /\ clock \in Times /\ kcp \in TimeFields /\ closed \in BOOLEAN
        /\ DOMAIN snd_buf \subseteq Segs
        /\ \A s \in DOMAIN snd_buf : snd_buf[s] \in SegTimes
        /\ echoes \subseteq [ts : Times, age : 0 .. Echo]
        /\ ran \in 0 .. Gap /\ silent \in Nat /\ asked \in Nat
        /\ age \in [Segs -> Nat] /\ set \in Settings \cup {0}
    BY DEF TypeOK, Times
  <1>2. ASSUME NEW d \in Int PROVE Wrapped(clock + d) \in Times
    <2>1. clock + d \in Int
      BY <1>1, Constants DEF Times
    <2>. QED
      BY <2>1, WrappedRange DEF Times
  <1>3. CASE Pass
    <2>1. echoes' \subseteq [ts : Times, age : 0 .. Echo]
      <3>1. ASSUME NEW e \in [ts : Times, age : 0 .. Echo], e.age < Echo
            PROVE  [e EXCEPT !.age = @ + 1] \in [ts : Times, age : 0 .. Echo]
        BY <3>1, Limits
      <3>2. echoes' = {[e EXCEPT !.age = @ + 1] : e \in {e \in echoes : e.age < Echo}}
        BY <1>3 DEF Pass
      <3>. QED
        BY <1>1, <3>1, <3>2
    <2>2. ran' \in 0 .. Gap /\ silent' \in Nat /\ asked' \in Nat
      BY <1>1, <1>3, Constants DEF Pass
    <2>3. age' \in [Segs -> Nat] /\ clock' \in Times
      BY <1>1, <1>2, <1>3 DEF Pass
    <2>. QED
      BY <1>1, <1>3, <2>1, <2>2, <2>3 DEF Pass, TypeOK, Times
  <1>4. CASE SetClock
    <2>1. clock' \in Times
      BY <1>2, <1>4, Constants DEF SetClock
    <2>. QED
      BY <1>1, <1>4, <2>1 DEF SetClock, TypeOK, Times
  <1>5. CASE Update
    <2>1. ran' = 0 /\ UNCHANGED <<clock, closed, set>>
      BY <1>5, UpdateCases
    <2>2. ASSUME NEW k \in TimeFields, NEW moved \in SUBSET (Segs \ DOMAIN snd_buf),
                 k.current = clock, Flush(k, moved)
          PROVE  TypeOK'
      <3>1. kcp' \in TimeFields
        BY <1>1, <2>2, ProbeTimerSets DEF Flush
      <3>2. /\ DOMAIN snd_buf' = DOMAIN snd_buf \cup moved
            /\ \A s \in DOMAIN snd_buf' : snd_buf'[s] \in SegTimes
        BY <1>1, <2>2, FlushSegments
      <3>3. echoes' \subseteq [ts : Times, age : 0 .. Echo]
        <4>1. [ts |-> k.current, age |-> 0] \in [ts : Times, age : 0 .. Echo]
          BY <1>1, <2>2, Limits
        <4>. QED
          BY <1>1, <2>2, <4>1 DEF Flush
      <3>4. silent' \in Nat /\ asked' \in Nat /\ age' \in [Segs -> Nat]
        BY <1>1, <2>2 DEF Flush
      <3>. QED
        BY <1>1, <2>1, <3>1, <3>2, <3>3, <3>4, Constants DEF TypeOK, Times
    <2>3. CASE kcp' \in TimeFields /\ UNCHANGED <<snd_buf, echoes, silent, age, asked>>
      BY <1>1, <2>1, <2>3, Constants DEF TypeOK, Times
    <2>. QED
      BY <1>5, <2>2, <2>3, UpdateCases
  <1>6. CASE Input
    <2>1. kcp' \in TimeFields
      <3>1. ASSUME NEW e \in echoes, TakeEcho(e.ts)
            PROVE  kcp' \in TimeFields
        <4>. DEFINE rtt == ITimeDiff(kcp.current, e.ts)
        <4>1. kcp' = IF rtt >= 0 THEN UpdateAck(kcp, rtt) ELSE kcp
          BY <3>1 DEF TakeEcho
        <4>2. rtt \in Int
          <5>1. kcp.current \in Int /\ e.ts \in Int
            BY <1>1, Constants DEF TimeFields, Times
          <5>. QED
            BY <5>1, DifferenceType
        <4>. HIDE DEF rtt
        <4>. QED
          BY <1>1, <4>1, <4>2, UpdateAckType
      <3>. QED
        BY <1>1, <1>6, <3>1 DEF Input
    <2>2. PICK acked \in SUBSET DOMAIN snd_buf :
             /\ snd_buf' = [s \in DOMAIN snd_buf \ acked |-> snd_buf[s]]
             /\ age' = [s \in Segs |-> IF s \in acked THEN 0 ELSE age[s]]
      BY <1>6 DEF Input
    <2>. QED
      BY <1>1, <1>6, <2>1, <2>2 DEF Input, TypeOK, Times
  <1>7. CASE UNCHANGED vars
    BY <1>7 DEF vars, TypeOK
  <1>. QED
    BY <1>3, <1>4, <1>5, <1>6, <1>7 DEF Next

(* Every field of the control block keeps its type and its range, whatever *)
(* round trips the clock makes acknowledgements tell: the retransmission   *)
(* timeout its two bounds, the wait for a probe its limit.                 *)
THEOREM TimersTypeCorrect == Spec => []TypeOK
  BY TypeInit, TypeStep, PTL DEF Spec

----------------------------------------------------------------------------
(* The inductive invariant.  FlushesGoOn itself does not say where ts_flush*)
(* is: it is w ahead of the clock, never by more than the interval and what*)
(* the clock was set back; and as time passes w falls as silent grows.     *)

(* The last conjunct but one: a timer that is too far ahead after the clock*)
(* was set starts afresh with the next ikcp_update.                        *)
TimerAhead(w) ==
    /\ w + ran >= 1 - SetAhead
    /\ w + silent <= Interval + SetBack
    /\ silent <= Interval + ran \/ w + silent <= Interval + Gap + Jump
    /\ set >= 0 => silent <= Interval + ran

TimerInv ==
    /\ TypeOK
    /\ ~ kcp.updated => silent = ran
    /\ kcp.updated => \E w \in Int : Ahead(kcp.ts_flush, clock, w) /\ TimerAhead(w)

(* The flush timer is not set before the first update.                     *)
LEMMA TimerInit == Init => TimerInv
  BY TypeInit DEF Init, TimerInv

(* The types the steps below need.                                         *)
LEMMA TimerTypes ==
    ASSUME TimerInv
    PROVE  /\ TypeOK /\ clock \in Times /\ kcp \in TimeFields /\ kcp.updated \in BOOLEAN
           /\ ran \in 0 .. Gap /\ silent \in Nat
           /\ set \in Settings \cup {0} /\ set \in Int
  BY Constants DEF TimerInv, TypeOK, TimeFields, Times

(* What is assumed of a setting of the clock, back or ahead.               *)
LEMMA SettingInReach ==
    ASSUME NEW d \in Settings \cup {0}
    PROVE  /\ d \in Int /\ Higher(0, d) \in Nat /\ Higher(0, -d) \in Nat
           /\ d = Higher(0, d) - Higher(0, -d)
           /\ Higher(0, d) = 0 \/ Higher(0, -d) = 0
           /\ Interval + Gap + Jump + Higher(0, d) < Mod \div 2
           /\ Interval + Gap + Jump + Higher(0, -d) < Mod \div 2
  <1>1. d \in Int
    BY Constants
  <1>2. /\ Interval + Gap + Jump + d < Mod \div 2
        /\ Interval + Gap + Jump - d < Mod \div 2
        /\ Interval + Gap + Jump < Mod \div 2
    <2>1. CASE d \in Settings
      BY <2>1, InReach
    <2>2. CASE d = 0
      BY <2>2, InReach, Constants
    <2>. QED
      BY <2>1, <2>2
  <1>. QED
    BY <1>1, <1>2, Constants DEF Higher

(* How far ahead the timer can be, which every comparison stays within.    *)
LEMMA TimerNear ==
    ASSUME TimerInv, NEW w \in Int, TimerAhead(w)
    PROVE  /\ w + Gap + SetAhead > 0 /\ w <= Interval + SetBack
           /\ SetBack \in Nat /\ SetAhead \in Nat
           /\ Interval + Gap + Jump + SetAhead < Mod \div 2
           /\ Interval + Gap + Jump + SetBack < Mod \div 2
           /\ Near(w) /\ Near(w - 1) /\ Near(w + Interval)
  <1>1. /\ SetBack \in Nat /\ SetAhead \in Nat
        /\ Interval + Gap + Jump + SetAhead < Mod \div 2
        /\ Interval + Gap + Jump + SetBack < Mod \div 2
    BY TimerTypes, SettingInReach DEF SetBack, SetAhead
  <1>2. ran \in 0 .. Gap /\ silent \in Nat
    BY TimerTypes
  <1>3. w + Gap + SetAhead > 0 /\ w <= Interval + SetBack
    BY <1>1, <1>2, Constants DEF TimerAhead
  <1>. QED
    BY <1>1, <1>3, Constants DEF Near

(* What follows holds the bound.                                           *)
LEMMA TimerInvBounds == TimerInv => FlushesGoOn
  <1>. SUFFICES ASSUME TimerInv PROVE FlushesGoOn
    OBVIOUS
  <1>1. SetBack \in Nat /\ set \in Int /\ (set >= 0 => SetBack = 0)
        /\ (set < 0 => SetAhead = 0)
    BY TimerTypes DEF SetBack, SetAhead, Higher
  <1>2. CASE ~ kcp.updated
    BY <1>1, <1>2, TimerTypes, Constants DEF TimerInv, FlushesGoOn, Lower
  <1>3. CASE kcp.updated
    <2>1. PICK w \in Int : TimerAhead(w)
      BY <1>3 DEF TimerInv
    <2>2. ran \in 0 .. Gap /\ silent \in Nat
      BY TimerTypes
    <2>3. CASE set >= 0
      BY <1>1, <2>1, <2>2, <2>3, Constants DEF TimerAhead, FlushesGoOn, Lower
    <2>4. CASE set < 0
      BY <1>1, <2>1, <2>2, <2>4, Constants DEF TimerAhead, FlushesGoOn, Lower
    <2>. QED
      BY <1>1, <2>3, <2>4
  <1>. QED
    BY <1>2, <1>3, TimerTypes

----------------------------------------------------------------------------
(* The steps.                                                              *)

(* A millisecond brings the timer nearer by one.                           *)
LEMMA PassKeeps == TimerInv /\ Pass => TimerInv'
  <1>. SUFFICES ASSUME TimerInv, Pass PROVE TimerInv'
    OBVIOUS
  <1>1. /\ clock' = Wrapped(clock + 1) /\ ran' = ran + 1 /\ silent' = silent + 1
        /\ UNCHANGED <<kcp, set>> /\ ran < Gap
    BY DEF Pass
  <1>2. TypeOK'
    BY TypeStep DEF TimerInv, Next
  <1>3. SetBack' = SetBack /\ SetAhead' = SetAhead
    BY <1>1 DEF SetBack, SetAhead
  <1>4. ASSUME kcp.updated
        PROVE  \E w \in Int : Ahead(kcp.ts_flush, clock', w) /\ TimerAhead(w)'
    <2>1. PICK w \in Int : Ahead(kcp.ts_flush, clock, w) /\ TimerAhead(w)
      BY <1>4 DEF TimerInv
    <2>2. Near(1) /\ Near(w - 1)
      BY <2>1, TimerNear, Constants, InReach DEF Near
    <2>3. Ahead(kcp.ts_flush, clock', w - 1)
      BY <1>1, <2>1, <2>2, ClockMoves
    <2>4. TimerAhead(w - 1)'
      <3>1. SetBack \in Nat /\ SetAhead \in Nat
        BY <2>1, TimerNear
      <3>. QED
        BY <1>1, <1>3, <2>1, <3>1, TimerTypes, Constants DEF TimerAhead
    <2>. QED
      BY <2>3, <2>4
  <1>. QED
    BY <1>1, <1>2, <1>4, Constants DEF TimerInv

(* Setting the clock moves it by as much as the assumption allows.         *)
LEMMA SetClockKeeps == TimerInv /\ SetClock => TimerInv'
  <1>. SUFFICES ASSUME TimerInv, SetClock PROVE TimerInv'
    OBVIOUS
  <1>1. PICK d \in Settings : set' = d
    BY DEF SetClock
  <1>2. /\ set = 0 /\ clock' = Wrapped(clock + d)
        /\ UNCHANGED <<kcp, ran, silent>>
    BY <1>1 DEF SetClock
  <1>. DEFINE back  == Higher(0, -d)
              ahead == Higher(0, d)
  <1>3. /\ d \in Int /\ back \in Nat /\ ahead \in Nat
        /\ d = ahead - back /\ (ahead = 0 \/ back = 0)
        /\ Interval + Gap + Jump + ahead < Mod \div 2
        /\ Interval + Gap + Jump + back < Mod \div 2
    BY SettingInReach
  <1>4. /\ SetBack = 0 /\ SetAhead = 0
        /\ SetBack' = back /\ SetAhead' = ahead
    BY <1>1, <1>2 DEF SetBack, SetAhead, Higher
  <1>. HIDE DEF back, ahead
  <1>5. TypeOK'
    BY TypeStep DEF TimerInv, Next
  <1>6. ASSUME kcp.updated
        PROVE  \E w \in Int : Ahead(kcp.ts_flush, clock', w) /\ TimerAhead(w)'
    <2>1. PICK w \in Int : Ahead(kcp.ts_flush, clock, w) /\ TimerAhead(w)
      BY <1>6 DEF TimerInv
    <2>2. ran \in 0 .. Gap /\ silent \in Nat
      BY TimerTypes
    <2>3. w + ran >= 1 /\ w + silent <= Interval /\ silent <= Interval + ran
      BY <1>2, <1>4, <2>1, <2>2, Constants DEF TimerAhead
    <2>4. Near(d) /\ Near(w - d)
      BY <1>3, <2>2, <2>3, Constants DEF Near
    <2>5. PICK v \in Int : v = w - d
      BY <1>3
    <2>6. Ahead(kcp.ts_flush, clock', v)
      BY <1>2, <1>3, <2>1, <2>4, <2>5, ClockMoves
    <2>7. TimerAhead(v)'
      BY <1>2, <1>3, <1>4, <2>2, <2>3, <2>5, Constants DEF TimerAhead
    <2>. QED
      BY <2>6, <2>7
  <1>. QED
    BY <1>1, <1>2, <1>5, <1>6 DEF TimerInv

(* An input sets neither the flush timer nor the probe timer.              *)
LEMMA InputSets ==
    ASSUME kcp \in TimeFields, Input
    PROVE  /\ kcp'.updated = kcp.updated /\ kcp'.ts_flush = kcp.ts_flush
           /\ kcp'.probe_wait = kcp.probe_wait /\ kcp'.ts_probe = kcp.ts_probe
  <1>. DEFINE Same == /\ kcp'.updated = kcp.updated /\ kcp'.ts_flush = kcp.ts_flush
                      /\ kcp'.probe_wait = kcp.probe_wait
                      /\ kcp'.ts_probe = kcp.ts_probe
  <1>1. ASSUME NEW rtt, kcp' = UpdateAck(kcp, rtt)
        PROVE  Same
    BY <1>1 DEF UpdateAck, TimeFields
  <1>2. ASSUME NEW ts, TakeEcho(ts)
        PROVE  Same
    BY <1>1, <1>2 DEF TakeEcho
  <1>. QED
    BY <1>2 DEF Input

(* An input leaves the flush timer alone.                                  *)
LEMMA InputKeeps == TimerInv /\ Input => TimerInv'
  <1>. SUFFICES ASSUME TimerInv, Input PROVE TimerInv'
    OBVIOUS
  <1>1. UNCHANGED <<clock, ran, silent, set>>
    BY DEF Input
  <1>2. kcp'.updated = kcp.updated /\ kcp'.ts_flush = kcp.ts_flush
    BY InputSets, TimerTypes
  <1>3. SetBack' = SetBack /\ SetAhead' = SetAhead
    BY <1>1 DEF SetBack, SetAhead
  <1>4. TypeOK'
    BY TypeStep DEF TimerInv, Next
  <1>. QED
    BY <1>1, <1>2, <1>3, <1>4 DEF TimerInv, TimerAhead

(* A flush leaves the timer ahead, by no more than the interval.           *)
LEMMA FlushSetsTimer ==
    ASSUME TimerInv, StartsAfresh(Slap) \/ Slap >= 0
    PROVE  \E u \in 1 .. Interval : Ahead(NextFlush, clock, u)
  <1>. DEFINE from == IF StartsAfresh(Slap) THEN clock ELSE Begun
              next == Wrapped(from + Interval)
  <1>1. Ahead(clock, clock, 0)
    BY TimerTypes, Constants DEF Ahead, Times
  <1>2. /\ SetBack \in Nat /\ SetAhead \in Nat
        /\ Interval + Gap + Jump + SetAhead < Mod \div 2
        /\ Interval + Gap + Jump + SetBack < Mod \div 2
    BY TimerTypes, SettingInReach DEF SetBack, SetAhead
  (* How far ahead the timer is when ikcp_update begins.                   *)
  <1>3. PICK w \in Int :
           /\ Ahead(Begun, clock, w)
           /\ w + Gap + SetAhead > 0 /\ w <= Interval + SetBack
    <2>1. CASE kcp.updated
      <3>1. PICK w \in Int : Ahead(kcp.ts_flush, clock, w) /\ TimerAhead(w)
        BY <2>1 DEF TimerInv
      <3>. QED
        BY <2>1, <3>1, TimerNear DEF Begun
    <2>2. CASE ~ kcp.updated
      BY <1>1, <1>2, <2>2, Constants DEF Begun
    <2>. QED
      BY <2>1, <2>2
  <1>4. Near(w) /\ Near(0) /\ Near(Interval)
    BY <1>2, <1>3, Constants DEF Near
  <1>5. Slap = -w
    BY <1>3, <1>4, DifferenceOf DEF Slap
  <1>6. PICK v \in Int : v <= 0 /\ v + Gap + SetAhead > 0 /\ Ahead(from, clock, v)
    <2>1. CASE StartsAfresh(Slap)
      BY <2>1, <1>1, <1>2, Constants
    <2>2. CASE ~ StartsAfresh(Slap)
      BY <2>2, <1>3, <1>5
    <2>. QED
      BY <2>1, <2>2
  <1>7. Ahead(next, clock, v + Interval) /\ Near(v + Interval)
    <2>1. Near(v + Interval)
      BY <1>2, <1>6, Constants DEF Near
    <2>. QED
      BY <1>4, <1>6, <2>1, TimerMoves, Constants
  <1>8. Ahead(Wrapped(clock + Interval), clock, Interval)
    <2>1. 0 + Interval = Interval
      BY Constants
    <2>. QED
      BY <1>1, <1>4, <2>1, TimerMoves, Constants
  <1>9. ITimeDiff(clock, next) = -(v + Interval)
    BY <1>7, DifferenceOf
  <1>10. NextFlush = IF ITimeDiff(clock, next) >= 0
                     THEN Wrapped(clock + Interval) ELSE next
    BY DEF NextFlush
  <1>. HIDE DEF next
  <1>11. CASE v + Interval <= 0
    BY <1>6, <1>8, <1>9, <1>10, <1>11, Constants
  <1>12. CASE v + Interval > 0
    BY <1>6, <1>7, <1>9, <1>10, <1>12, Constants
  <1>. QED
    BY <1>6, <1>11, <1>12, Constants

(* Such a timer meets the invariant.                                       *)
LEMMA FreshTimer ==
    ASSUME TimerInv, TypeOK', ran' = 0, silent' = 0, UNCHANGED <<clock, set>>,
           kcp'.updated, NEW w \in 1 .. Interval, Ahead(kcp'.ts_flush, clock, w)
    PROVE  TimerInv'
  <1>1. SetBack' = SetBack /\ SetAhead' = SetAhead
    BY DEF SetBack, SetAhead
  <1>2. SetBack \in Nat /\ SetAhead \in Nat
    BY TimerTypes DEF SetBack, SetAhead, Higher
  <1>3. TimerAhead(w)'
    BY <1>1, <1>2, Constants DEF TimerAhead
  <1>. QED
    BY <1>3, Constants DEF TimerInv

(* An update that flushes sets the timer afresh, another leaves it.        *)
LEMMA UpdateKeeps == TimerInv /\ Update => TimerInv'
  <1>. SUFFICES ASSUME TimerInv, Update PROVE TimerInv'
    OBVIOUS
  <1>1. TypeOK /\ TypeOK' /\ clock \in Times /\ kcp \in TimeFields
    BY TimerTypes, TypeStep DEF Next
  <1>2. ran' = 0 /\ UNCHANGED <<clock, closed, set>>
    BY <1>1, UpdateCases
  <1>3. ASSUME NEW k \in TimeFields, NEW moved \in SUBSET (Segs \ DOMAIN snd_buf),
               StartsAfresh(Slap) \/ Slap >= 0,
               k.current = clock, k.updated, k.ts_flush = NextFlush, Flush(k, moved)
        PROVE  TimerInv'
    <2>1. silent' = 0 /\ kcp'.updated /\ kcp'.ts_flush = NextFlush
      BY <1>1, <1>3, ProbeTimerSets DEF Flush
    <2>2. PICK u \in 1 .. Interval : Ahead(NextFlush, clock, u)
      BY <1>3, FlushSetsTimer
    <2>. QED
      BY <1>1, <1>2, <2>1, <2>2, FreshTimer
  <1>4. ASSUME ~ StartsAfresh(Slap), Slap < 0, kcp.updated, kcp'.updated,
               kcp'.ts_flush = kcp.ts_flush, UNCHANGED silent
        PROVE  TimerInv'
    <2>1. PICK w \in Int : Ahead(kcp.ts_flush, clock, w) /\ TimerAhead(w)
      BY <1>4 DEF TimerInv
    <2>2. Slap = -w
      BY <1>4, <2>1, TimerNear, DifferenceOf DEF Slap, Begun
    <2>3. w >= 1 /\ w <= Jump
      BY <1>4, <2>2, Constants DEF StartsAfresh
    <2>4. SetBack' = SetBack /\ SetAhead' = SetAhead
      BY <1>2 DEF SetBack, SetAhead
    <2>5. TimerAhead(w)'
      <3>1. /\ silent \in Nat /\ ran \in 0 .. Gap
            /\ SetBack \in Nat /\ SetAhead \in Nat
            /\ set \in Int /\ (set >= 0 => SetBack = 0)
        BY TimerTypes DEF SetBack, SetAhead, Higher
      <3>. QED
        BY <1>2, <1>4, <2>1, <2>3, <2>4, <3>1, Constants DEF TimerAhead
    <2>. QED
      BY <1>1, <1>2, <1>4, <2>1, <2>5 DEF TimerInv
  <1>. QED
    BY <1>1, <1>3, <1>4, UpdateCases

(* A session flushes for as long as it lives: never longer apart than the  *)
(* interval and one late callback, whatever the clock shows at the start,  *)
(* through every wrap of it, and after it was set ahead; after it was set  *)
(* back, by no more than that and the ten seconds.                         *)
THEOREM FlushesGoOnCorrect == Spec => []FlushesGoOn
  <1>1. TimerInv /\ [Next]_vars => TimerInv'
    <2>. SUFFICES ASSUME TimerInv, [Next]_vars PROVE TimerInv'
      OBVIOUS
    <2>1. CASE Pass
      BY <2>1, PassKeeps
    <2>2. CASE SetClock
      BY <2>2, SetClockKeeps
    <2>3. CASE Update
      BY <2>3, UpdateKeeps
    <2>4. CASE Input
      BY <2>4, InputKeeps
    <2>5. CASE UNCHANGED vars
      BY <2>5 DEF vars, TimerInv, TypeOK, TimerAhead, SetBack, SetAhead
    <2>. QED
      BY <2>1, <2>2, <2>3, <2>4, <2>5 DEF Next
  <1>. QED
    BY <1>1, TimerInit, TimerInvBounds, PTL DEF Spec

----------------------------------------------------------------------------
(* The other timers.  FlushesGoOn is not enough for them: a clock that is  *)
(* set back delays the flush and the timer it would find due, and the sum  *)
(* of the two delays is more than either bound; that they are one and the  *)
(* same delay is what the invariant has to say.                            *)

(* A timer that shows x was set `since` ago, between `least` and `most`    *)
(* ahead of the clock, and was not due at the last flush.  The clock has   *)
(* been set by `moved` since the timer was, by `late` since the flush.     *)
OnTime(x, since, least, most, moved, late) ==
    \E v \in Int :
        /\ Ahead(x, clock, v)
        /\ least - moved <= v + since /\ v + since <= most - moved
        /\ v + silent >= 1 - late

(* How far ahead the timer of a segment sent n times can have been set.    *)
Longest(n) == n * RtoMax + RtoMax \div 8

OnTimeInv(late) ==
    /\ kcp.updated => OnTime(kcp.ts_flush, silent, 1, Interval, late, late)
    /\ \A s \in DOMAIN snd_buf :
          /\ snd_buf[s].rto <= snd_buf[s].xmit * RtoMax
          /\ \E moved \in {late, set} :
                OnTime(snd_buf[s].resendts, age[s], RtoMin, Longest(snd_buf[s].xmit),
                       moved, late)
    /\ kcp.probe_wait = 0 => asked = silent
    /\ kcp.probe_wait # 0 =>
          \E moved \in {late, set} :
             OnTime(kcp.ts_probe, asked, 1, ProbeLimit, moved, late)

TimersInv ==
    /\ TimerInv
    /\ \E late \in {0, set} : OnTimeInv(late)

(* No comparison of two times that are within n of each other is mistaken. *)
Reachable(n) ==
    /\ n \in Nat
    /\ \A d \in Settings \cup {0} :
          /\ Interval + Gap + n + d < Mod \div 2
          /\ Interval + Gap + n - d < Mod \div 2

(* The arithmetic of the longest wait for a retransmission.                *)
LEMMA LongestType ==
    ASSUME NEW n \in Nat
    PROVE  /\ Longest(n) \in Nat /\ n * RtoMax \in Nat /\ RtoMax \div 8 \in Nat
           /\ (n + 1) * RtoMax = n * RtoMax + RtoMax
  <1>1. n * RtoMax \in Nat /\ (n + 1) * RtoMax = n * RtoMax + RtoMax
    BY Limits
  <1>2. RtoMax \div 8 \in Nat
    BY Limits
  <1>. QED
    BY <1>1, <1>2 DEF Longest

(* Every wait the code sets is within reach of the comparisons.            *)
LEMMA TimersReachable ==
    /\ Reachable(Interval) /\ Reachable(ProbeLimit)
    /\ \A n \in 1 .. MaxXmit : Reachable(Longest(n))
  <1>1. /\ Reach \in Int /\ Longest(MaxXmit) \in Nat
        /\ Reach >= Interval + Gap + Jump
        /\ Reach >= Interval + Gap + ProbeLimit
        /\ Reach >= Interval + Gap + Longest(MaxXmit)
    BY Constants, Limits, LongestType DEF Reach, Higher, Longest
  <1>2. ASSUME NEW n \in Nat, Interval + Gap + n <= Reach
        PROVE  Reachable(n)
    <2>1. ASSUME NEW d \in Settings \cup {0}
          PROVE  /\ d \in Int
                 /\ Reach + d < Mod \div 2 /\ Reach - d < Mod \div 2
      BY <1>1, Constants, TimersAssumption
    <2>. QED
      BY <1>1, <1>2, <2>1, Constants DEF Reachable
  <1>3. ASSUME NEW n \in 1 .. MaxXmit
        PROVE  Longest(n) \in Nat /\ Longest(n) <= Longest(MaxXmit)
    <2>1. n * RtoMax <= MaxXmit * RtoMax
      <3>1. PICK m \in Nat : MaxXmit = n + m
        <4>1. MaxXmit - n \in Nat /\ MaxXmit = n + (MaxXmit - n)
          BY Limits
        <4>. QED
          BY <4>1
      <3>2. (n + m) * RtoMax = n * RtoMax + m * RtoMax
        BY Limits
      <3>3. m * RtoMax >= 0 /\ m * RtoMax \in Int /\ n * RtoMax \in Int
        BY Limits
      <3>. QED
        BY <3>1, <3>2, <3>3
    <2>. QED
      BY <2>1, LongestType, Limits DEF Longest
  <1>. QED
    BY <1>1, <1>2, <1>3, Constants, Limits

(* How long ago the last flush can be, by what the clock was set since.    *)
LEMMA FlushedLately ==
    ASSUME TimersInv, NEW late \in {0, set}, OnTimeInv(late)
    PROVE  silent <= Interval + Gap + Higher(0, -late)
  <1>1. /\ ran \in 0 .. Gap /\ silent \in Nat /\ set \in Int /\ late \in Int
        /\ kcp.updated \in BOOLEAN
    BY Constants DEF TimersInv, TimerInv, TypeOK, TimeFields
  <1>2. CASE ~ kcp.updated
    BY <1>1, <1>2, Constants DEF TimersInv, TimerInv, Higher
  <1>3. CASE kcp.updated /\ set >= 0
    <2>1. silent <= Interval + ran
      BY <1>3 DEF TimersInv, TimerInv, TimerAhead
    <2>. QED
      BY <1>1, <2>1, Constants DEF Higher
  <1>4. CASE kcp.updated /\ set < 0 /\ late = set
    <2>1. FlushesGoOn
      BY TimerInvBounds DEF TimersInv
    <2>. QED
      BY <1>1, <1>4, <2>1, Constants DEF FlushesGoOn, SetBack, Lower, Higher
  <1>5. CASE kcp.updated /\ set < 0 /\ late = 0
    <2>1. PICK w \in Int : Ahead(kcp.ts_flush, clock, w) /\ TimerAhead(w)
      BY <1>5 DEF TimersInv, TimerInv
    <2>2. Near(w) /\ SetAhead = 0
      BY <1>1, <1>5, <2>1, TimerNear DEF TimersInv, SetAhead, Higher
    <2>3. PICK v \in Int :
             /\ Ahead(kcp.ts_flush, clock, v)
             /\ v + silent <= Interval - late
             /\ v + silent >= 1 - late
      BY <1>5 DEF OnTimeInv, OnTime
    <2>4. Near(v)
      <3>1. FlushesGoOn
        BY TimerInvBounds DEF TimersInv
      <3>2. SetBack \in Nat /\ Interval + Gap + Jump + SetBack < Mod \div 2
        BY <2>1, TimerNear DEF TimersInv
      <3>. QED
        BY <1>1, <1>5, <2>3, <3>1, <3>2, Constants DEF FlushesGoOn, Lower, Near
    <2>5. w = v
      BY <2>1, <2>2, <2>3, <2>4, DifferenceOf
    <2>. QED
      BY <1>1, <1>5, <2>1, <2>2, <2>3, <2>5, Constants DEF TimerAhead, Higher
  <1>. QED
    BY <1>1, <1>2, <1>3, <1>4, <1>5

(* Where such a timer can be: no comparison with it is mistaken.           *)
LEMMA OnTimeNear ==
    ASSUME TimersInv, NEW late \in {0, set}, OnTimeInv(late),
           NEW since \in Nat, NEW least \in Nat, NEW most, Reachable(most),
           NEW moved \in {late, set}, NEW v \in Int,
           least - moved <= v + since, v + since <= most - moved,
           v + silent >= 1 - late
    PROVE  Near(v) /\ Near(v - 1)
  <1>1. /\ silent \in Nat /\ late \in Settings \cup {0} /\ moved \in Settings \cup {0}
        /\ late \in Int /\ moved \in Int
    BY Constants DEF TimersInv, TimerInv, TypeOK
  <1>2. silent <= Interval + Gap + Higher(0, -late)
    BY FlushedLately
  <1>3. /\ most \in Nat /\ Interval + Gap + most - moved < Mod \div 2
        /\ Interval + Gap + most + late < Mod \div 2
        /\ Interval + Gap + most < Mod \div 2
    <2>1. \A d \in Settings \cup {0} :
             /\ Interval + Gap + most + d < Mod \div 2
             /\ Interval + Gap + most - d < Mod \div 2
      BY DEF Reachable
    <2>2. 0 \in Settings \cup {0} /\ most \in Nat
      BY DEF Reachable
    <2>. QED
      BY <1>1, <2>1, <2>2, Constants
  <1>4. v <= most - moved
    BY <1>1, <1>3
  <1>5. v > - (Interval + Gap + Higher(0, late))
    BY <1>1, <1>2, Constants DEF Higher
  <1>. QED
    BY <1>1, <1>3, <1>4, <1>5, Constants DEF Near, Higher

(* Time passes: the timer is nearer and was set longer ago.                *)
LEMMA OnTimePass ==
    ASSUME TimersInv, NEW late \in {0, set}, OnTimeInv(late), Pass,
           NEW x, NEW since \in Nat, NEW least \in Nat, NEW most, Reachable(most),
           NEW moved \in {late, set}, OnTime(x, since, least, most, moved, late)
    PROVE  OnTime(x, since + 1, least, most, moved, late)'
  <1>1. PICK v \in Int :
           /\ Ahead(x, clock, v)
           /\ least - moved <= v + since /\ v + since <= most - moved
           /\ v + silent >= 1 - late
    BY DEF OnTime
  <1>2. clock' = Wrapped(clock + 1) /\ silent' = silent + 1
    BY DEF Pass
  <1>3. Near(v - 1) /\ Near(1)
    <2>1. Near(1)
      BY InReach, Constants DEF Near
    <2>. QED
      BY <1>1, <2>1, OnTimeNear
  <1>4. Ahead(x, clock', v - 1)
    BY <1>1, <1>2, <1>3, ClockMoves
  <1>5. /\ silent \in Nat /\ late \in Int /\ moved \in Int /\ most \in Int
    BY Constants DEF TimersInv, TimerInv, TypeOK, Reachable
  <1>6. /\ least - moved <= (v - 1) + (since + 1)
        /\ (v - 1) + (since + 1) <= most - moved
        /\ (v - 1) + silent' >= 1 - late
    BY <1>1, <1>2, <1>5
  <1>. QED
    BY <1>4, <1>6 DEF OnTime

(* The clock is set: so much is what the timer moved since, and the flush. *)
LEMMA OnTimeSet ==
    ASSUME silent \in Nat, silent <= Interval + Gap,
           NEW d \in Settings, clock' = Wrapped(clock + d), UNCHANGED silent,
           NEW x, NEW since \in Nat, NEW least \in Nat, NEW most, Reachable(most),
           OnTime(x, since, least, most, 0, 0)
    PROVE  OnTime(x, since, least, most, d, d)'
  <1>1. PICK v \in Int :
           /\ Ahead(x, clock, v)
           /\ least <= v + since /\ v + since <= most
           /\ v + silent >= 1
    BY DEF OnTime, Reachable
  <1>2. /\ d \in Int /\ most \in Nat
        /\ Interval + Gap + most + d < Mod \div 2
        /\ Interval + Gap + most - d < Mod \div 2
    BY Constants DEF Reachable
  <1>3. Near(d) /\ Near(v - d)
    BY <1>1, <1>2, Constants DEF Near
  <1>4. Ahead(x, clock', v - d)
    BY <1>1, <1>2, <1>3, ClockMoves
  <1>5. /\ least - d <= (v - d) + since /\ (v - d) + since <= most - d
        /\ (v - d) + silent' >= 1 - d
    BY <1>1, <1>2
  <1>. QED
    BY <1>2, <1>4, <1>5 DEF OnTime

(* A flush that does not find the timer due.                               *)
LEMMA OnTimeWaits ==
    ASSUME TimersInv, NEW late \in {0, set}, OnTimeInv(late),
           UNCHANGED clock, silent' = 0,
           NEW x, NEW since \in Nat, NEW least \in Nat, NEW most, Reachable(most),
           NEW moved \in {late, set}, OnTime(x, since, least, most, moved, late),
           ITimeDiff(clock, x) < 0
    PROVE  OnTime(x, since, least, most, moved, 0)'
  <1>1. PICK v \in Int :
           /\ Ahead(x, clock, v)
           /\ least - moved <= v + since /\ v + since <= most - moved
           /\ v + silent >= 1 - late
    BY DEF OnTime
  <1>2. ITimeDiff(clock, x) = -v
    BY <1>1, OnTimeNear, DifferenceOf
  <1>3. v + silent' >= 1 - 0
    BY <1>2
  <1>. QED
    BY <1>1, <1>3 DEF OnTime

(* A timer that a flush finds due has been passed.                         *)
LEMMA OnTimeDue ==
    ASSUME TimersInv, NEW late \in {0, set}, OnTimeInv(late),
           NEW x, NEW since \in Nat, NEW least \in Nat, NEW most, Reachable(most),
           NEW moved \in {late, set}, OnTime(x, since, least, most, moved, late),
           ITimeDiff(clock, x) >= 0
    PROVE  since >= least - moved
  <1>1. PICK v \in Int :
           /\ Ahead(x, clock, v)
           /\ least - moved <= v + since /\ v + since <= most - moved
           /\ v + silent >= 1 - late
    BY DEF OnTime
  <1>2. ITimeDiff(clock, x) = -v
    BY <1>1, OnTimeNear, DifferenceOf
  <1>3. moved \in Int
    BY Constants DEF TimersInv, TimerInv, TypeOK
  <1>. QED
    BY <1>1, <1>2, <1>3

(* A timer set by a flush.                                                 *)
LEMMA OnTimeFresh ==
    ASSUME clock \in Times, UNCHANGED clock, silent' = 0,
           NEW least \in Nat \ {0}, NEW most, Reachable(most),
           NEW n \in least .. most
    PROVE  OnTime(Wrapped(clock + n), 0, least, most, 0, 0)'
  <1>1. Ahead(clock, clock, 0) /\ 0 + n = n
    BY Constants DEF Ahead, Times, Reachable
  <1>2. Near(n)
    <2>1. most \in Nat /\ Interval + Gap + most < Mod \div 2
      <3>1. /\ 0 \in Settings \cup {0} /\ most \in Nat
            /\ \A d \in Settings \cup {0} : Interval + Gap + most + d < Mod \div 2
        BY DEF Reachable
      <3>. QED
        BY <3>1, Constants
    <2>. QED
      BY <2>1, Constants DEF Near
  <1>3. Ahead(Wrapped(clock + n), clock', n)
    BY <1>1, <1>2, TimerMoves DEF Reachable
  <1>. QED
    BY <1>3 DEF OnTime, Reachable

(* No segment and no probe waits at the start.                             *)
LEMMA TimersInit == Init => TimersInv
  <1>. SUFFICES ASSUME Init PROVE TimersInv
    OBVIOUS
  <1>1. TimerInv
    BY TimerInit
  <1>2. OnTimeInv(0)
    BY DEF Init, OnTimeInv
  <1>. QED
    BY <1>1, <1>2 DEF TimersInv

(* Time passes for every timer alike.                                      *)
LEMMA TimersPass ==
    ASSUME TimersInv, Pass
    PROVE  \E late \in {0, set'} : OnTimeInv(late)'
  <1>1. PICK late \in {0, set} : OnTimeInv(late)
    BY DEF TimersInv
  <1>2. /\ silent' = silent + 1 /\ asked' = asked + 1
        /\ age' = [s \in Segs |-> IF s \in DOMAIN snd_buf THEN age[s] + 1 ELSE age[s]]
        /\ UNCHANGED <<kcp, snd_buf, set>>
    BY DEF Pass
  <1>3. /\ silent \in Nat /\ asked \in Nat /\ age \in [Segs -> Nat]
        /\ DOMAIN snd_buf \subseteq Segs
        /\ \A s \in DOMAIN snd_buf : snd_buf[s] \in SegTimes
        /\ kcp.ts_flush \in Nat /\ kcp.ts_probe \in Nat
    BY DEF TimersInv, TimerInv, TypeOK, TimeFields
  <1>4. kcp.updated => OnTime(kcp.ts_flush, silent, 1, Interval, late, late)'
    <2>. SUFFICES ASSUME kcp.updated
                  PROVE  OnTime(kcp.ts_flush, silent, 1, Interval, late, late)'
      OBVIOUS
    <2>1. PICK x, n \in Nat : x = kcp.ts_flush /\ n = silent
      BY <1>3
    <2>2. OnTime(x, n, 1, Interval, late, late)
      BY <1>1, <2>1 DEF OnTimeInv
    <2>3. OnTime(x, n + 1, 1, Interval, late, late)'
      BY <1>1, <2>2, OnTimePass, TimersReachable
    <2>. QED
      BY <1>2, <2>1, <2>3 DEF OnTime
  <1>5. ASSUME NEW s \in DOMAIN snd_buf
        PROVE  \E moved \in {late, set} :
                  OnTime(snd_buf[s].resendts, age[s], RtoMin, Longest(snd_buf[s].xmit),
                         moved, late)'
    <2>1. PICK moved \in {late, set} :
             OnTime(snd_buf[s].resendts, age[s], RtoMin, Longest(snd_buf[s].xmit), moved, late)
      BY <1>1 DEF OnTimeInv
    <2>2. PICK x, n \in Nat, m \in 1 .. MaxXmit :
             x = snd_buf[s].resendts /\ n = age[s] /\ m = snd_buf[s].xmit
      BY <1>3 DEF SegTimes
    <2>3. OnTime(x, n, RtoMin, Longest(m), moved, late)
      BY <2>1, <2>2
    <2>4. OnTime(x, n + 1, RtoMin, Longest(m), moved, late)'
      BY <1>1, <2>3, OnTimePass, TimersReachable, Limits
    <2>5. x = snd_buf'[s].resendts /\ n + 1 = age'[s] /\ m = snd_buf'[s].xmit
      BY <1>2, <1>3, <2>2
    <2>. QED
      BY <2>4, <2>5 DEF OnTime, Longest
  <1>6. kcp.probe_wait # 0 =>
           \E moved \in {late, set} :
              OnTime(kcp.ts_probe, asked, 1, ProbeLimit, moved, late)'
    <2>. SUFFICES ASSUME kcp.probe_wait # 0
                  PROVE  \E moved \in {late, set} :
                            OnTime(kcp.ts_probe, asked, 1, ProbeLimit, moved, late)'
      OBVIOUS
    <2>1. PICK moved \in {late, set} :
             OnTime(kcp.ts_probe, asked, 1, ProbeLimit, moved, late)
      BY <1>1 DEF OnTimeInv
    <2>2. PICK x, n \in Nat : x = kcp.ts_probe /\ n = asked
      BY <1>3
    <2>3. OnTime(x, n, 1, ProbeLimit, moved, late)
      BY <2>1, <2>2
    <2>4. OnTime(x, n + 1, 1, ProbeLimit, moved, late)'
      BY <1>1, <2>3, OnTimePass, TimersReachable
    <2>. QED
      BY <1>2, <2>2, <2>4 DEF OnTime
  <1>7. kcp.probe_wait = 0 => asked' = silent'
    BY <1>1, <1>2 DEF OnTimeInv
  <1>8. OnTimeInv(late)'
    BY <1>1, <1>2, <1>4, <1>5, <1>6, <1>7 DEF OnTimeInv
  <1>. QED
    BY <1>2, <1>8

(* The clock is set once, for every timer alike.                           *)
LEMMA TimersSetClock ==
    ASSUME TimersInv, SetClock
    PROVE  \E late \in {0, set'} : OnTimeInv(late)'
  <1>1. PICK d \in Settings : d = set'
    BY DEF SetClock
  <1>2. /\ set = 0 /\ clock' = Wrapped(clock + d)
        /\ UNCHANGED <<kcp, snd_buf, silent, age, asked>>
    BY <1>1 DEF SetClock
  <1>3. /\ silent \in Nat /\ asked \in Nat /\ age \in [Segs -> Nat]
        /\ DOMAIN snd_buf \subseteq Segs
        /\ \A s \in DOMAIN snd_buf : snd_buf[s] \in SegTimes
        /\ kcp.ts_flush \in Nat /\ kcp.ts_probe \in Nat
    BY DEF TimersInv, TimerInv, TypeOK, TimeFields
  <1>4. OnTimeInv(0)
    BY <1>2 DEF TimersInv
  <1>5. silent <= Interval + Gap
    BY <1>2, <1>3, <1>4, FlushedLately, Constants DEF Higher
  <1>6. ASSUME NEW x, NEW since \in Nat, NEW least \in Nat, NEW most, Reachable(most),
               OnTime(x, since, least, most, 0, 0)
        PROVE  OnTime(x, since, least, most, d, d)'
    BY <1>2, <1>3, <1>5, <1>6, OnTimeSet
  <1>7. kcp.updated => OnTime(kcp.ts_flush, silent, 1, Interval, d, d)'
    <2>. SUFFICES ASSUME kcp.updated
                  PROVE  OnTime(kcp.ts_flush, silent, 1, Interval, d, d)'
      OBVIOUS
    <2>1. PICK x, n \in Nat : x = kcp.ts_flush /\ n = silent
      BY <1>3
    <2>2. OnTime(x, n, 1, Interval, 0, 0)
      BY <1>4, <2>1 DEF OnTimeInv
    <2>3. OnTime(x, n, 1, Interval, d, d)'
      BY <1>6, <2>2, TimersReachable
    <2>. QED
      BY <1>2, <2>1, <2>3 DEF OnTime
  <1>8. ASSUME NEW s \in DOMAIN snd_buf
        PROVE  OnTime(snd_buf[s].resendts, age[s], RtoMin, Longest(snd_buf[s].xmit), d, d)'
    <2>1. PICK x, n \in Nat, m \in 1 .. MaxXmit :
             x = snd_buf[s].resendts /\ n = age[s] /\ m = snd_buf[s].xmit
      BY <1>3 DEF SegTimes
    <2>2. OnTime(x, n, RtoMin, Longest(m), 0, 0)
      BY <1>2, <1>4, <2>1 DEF OnTimeInv
    <2>3. OnTime(x, n, RtoMin, Longest(m), d, d)'
      BY <1>6, <2>2, TimersReachable, Limits
    <2>. QED
      BY <1>2, <2>1, <2>3 DEF OnTime, Longest
  <1>9. kcp.probe_wait # 0 => OnTime(kcp.ts_probe, asked, 1, ProbeLimit, d, d)'
    <2>. SUFFICES ASSUME kcp.probe_wait # 0
                  PROVE  OnTime(kcp.ts_probe, asked, 1, ProbeLimit, d, d)'
      OBVIOUS
    <2>1. PICK x, n \in Nat : x = kcp.ts_probe /\ n = asked
      BY <1>3
    <2>2. OnTime(x, n, 1, ProbeLimit, 0, 0)
      BY <1>2, <1>4, <2>1 DEF OnTimeInv
    <2>3. OnTime(x, n, 1, ProbeLimit, d, d)'
      BY <1>6, <2>2, TimersReachable
    <2>. QED
      BY <1>2, <2>1, <2>3 DEF OnTime
  <1>10. kcp.probe_wait = 0 => asked = silent
    BY <1>4 DEF OnTimeInv
  <1>11. OnTimeInv(d)'
    BY <1>2, <1>4, <1>7, <1>8, <1>9, <1>10 DEF OnTimeInv
  <1>. QED
    BY <1>1, <1>11

(* An input may drop segments and changes the timer of none that stays.    *)
LEMMA TimersInput ==
    ASSUME TimersInv, Input
    PROVE  \E late \in {0, set'} : OnTimeInv(late)'
  <1>1. PICK late \in {0, set} : OnTimeInv(late)
    BY DEF TimersInv
  <1>2. /\ kcp \in TimeFields
        /\ DOMAIN snd_buf \subseteq Segs
    BY DEF TimersInv, TimerInv, TypeOK
  <1>3. UNCHANGED <<clock, silent, asked, set>>
    BY DEF Input
  <1>4. /\ kcp'.updated = kcp.updated /\ kcp'.ts_flush = kcp.ts_flush
        /\ kcp'.probe_wait = kcp.probe_wait /\ kcp'.ts_probe = kcp.ts_probe
    BY <1>2, InputSets
  <1>5. PICK acked \in SUBSET DOMAIN snd_buf :
           /\ snd_buf' = [s \in DOMAIN snd_buf \ acked |-> snd_buf[s]]
           /\ age' = [s \in Segs |-> IF s \in acked THEN 0 ELSE age[s]]
    BY DEF Input
  <1>6. DOMAIN snd_buf' = DOMAIN snd_buf \ acked
    BY <1>5
  <1>7. \A s \in DOMAIN snd_buf' : snd_buf'[s] = snd_buf[s] /\ age'[s] = age[s]
    BY <1>2, <1>5, <1>6
  <1>8. OnTimeInv(late)'
    BY <1>1, <1>3, <1>4, <1>6, <1>7 DEF OnTimeInv, OnTime, Longest
  <1>. QED
    BY <1>3, <1>8

(* A flush: every timer it finds due is set afresh, the others were not due*)
(* and go on; the clock has not been set since.                            *)
LEMMA TimersFlush ==
    ASSUME TimersInv, NEW late \in {0, set}, OnTimeInv(late),
           NEW k \in TimeFields, k.current = clock, k.rx_rto = kcp.rx_rto, SameProbe(k),
           NEW moved \in SUBSET (Segs \ DOMAIN snd_buf), Flush(k, moved),
           UNCHANGED <<clock, closed, set>>,
           NEW u \in 1 .. Interval, Ahead(k.ts_flush, clock, u)
    PROVE  OnTimeInv(0)'
  <1>1. /\ TypeOK /\ clock \in Times /\ set \in Int
        /\ age \in [Segs -> Nat] /\ asked \in Nat
        /\ DOMAIN snd_buf \subseteq Segs
        /\ \A s \in DOMAIN snd_buf : snd_buf[s] \in SegTimes
        /\ kcp.probe_wait \in Nat
    BY Constants DEF TimersInv, TimerInv, TypeOK, Times, TimeFields
  <1>2. /\ silent' = 0 /\ kcp' = ProbeTimer(k)
        /\ asked' = IF ~ closed \/ k.probe_wait = 0 \/ Probing(k) THEN 0 ELSE asked
    BY DEF Flush
  <1>3. OnTime(kcp.ts_flush, silent, 1, Interval, 0, 0)'
    <2>1. kcp'.ts_flush = k.ts_flush
      BY <1>1, <1>2, ProbeTimerSets
    <2>2. u + 0 <= Interval - 0 /\ 1 - 0 <= u + 0
      BY Constants
    <2>. QED
      BY <1>2, <2>1, <2>2 DEF OnTime
  <1>4. k.rx_rto \in RtoMin .. RtoMax /\ k.rx_rto \in Nat
    BY Limits DEF TimeFields
  <1>5. ASSUME NEW s \in moved
        PROVE  /\ snd_buf'[s].rto <= snd_buf'[s].xmit * RtoMax
               /\ OnTime(snd_buf[s].resendts, age[s], RtoMin,
                         Longest(snd_buf[s].xmit), 0, 0)'
    <2>1. /\ snd_buf'[s].xmit = 1 /\ snd_buf'[s].rto = k.rx_rto
          /\ snd_buf'[s].resendts = Wrapped(k.current + k.rx_rto + (k.rx_rto \div 8))
          /\ age'[s] = 0
      BY ZenonT(60), <1>1, FlushSegments
    <2>2. PICK n \in Nat : n = k.rx_rto + (k.rx_rto \div 8)
      BY <1>4
    <2>3. n \in RtoMin .. Longest(1)
      <3>1. k.rx_rto \div 8 <= RtoMax \div 8 /\ k.rx_rto \div 8 \in Nat
        BY <1>4, Limits
      <3>2. 1 * RtoMax = RtoMax /\ RtoMax \div 8 \in Nat
        BY Limits
      <3>. QED
        BY <1>4, <2>2, <3>1, <3>2, Limits DEF Longest
    <2>4. k.current + k.rx_rto + (k.rx_rto \div 8) = clock + n
      BY <1>1, <1>4, <2>2, Constants DEF Times
    <2>5. OnTime(Wrapped(clock + n), 0, RtoMin, Longest(1), 0, 0)'
      BY <1>1, <1>2, <2>3, OnTimeFresh, TimersReachable, Limits
    <2>. QED
      BY <1>4, <2>1, <2>4, <2>5, Limits DEF OnTime, Longest
  <1>6. ASSUME NEW s \in DOMAIN snd_buf, Due(k, s)
        PROVE  /\ snd_buf'[s].rto <= snd_buf'[s].xmit * RtoMax
               /\ OnTime(snd_buf[s].resendts, age[s], RtoMin,
                         Longest(snd_buf[s].xmit), 0, 0)'
    <2>1. /\ snd_buf[s].xmit < MaxXmit
          /\ snd_buf'[s].xmit = snd_buf[s].xmit + 1
          /\ snd_buf'[s].rto = snd_buf[s].rto + k.rx_rto
          /\ snd_buf'[s].resendts = Wrapped(k.current + snd_buf[s].rto + k.rx_rto)
          /\ age'[s] = 0
      BY <1>1, <1>6, FlushSegments
    <2>2. PICK m \in 1 .. MaxXmit, r \in Nat : m = snd_buf[s].xmit /\ r = snd_buf[s].rto
      BY <1>1 DEF SegTimes
    <2>3. r <= m * RtoMax
      BY <2>2 DEF OnTimeInv
    <2>4. PICK n \in Nat : n = r + k.rx_rto
      BY <1>4, <2>2
    <2>5. n <= (m + 1) * RtoMax /\ n \in RtoMin .. Longest(m + 1)
      <3>1. /\ (m + 1) * RtoMax = m * RtoMax + RtoMax
            /\ m * RtoMax \in Nat /\ RtoMax \div 8 \in Nat
        BY LongestType, Limits
      <3>. QED
        BY <1>4, <2>3, <2>4, <3>1, Limits DEF Longest
    <2>6. k.current + snd_buf[s].rto + k.rx_rto = clock + n
      BY <1>1, <1>4, <2>2, <2>4, Constants DEF Times
    <2>7. m + 1 \in 1 .. MaxXmit
      BY <2>1, <2>2, Limits
    <2>8. Reachable(Longest(m + 1))
      BY <2>7, TimersReachable
    <2>9. OnTime(Wrapped(clock + n), 0, RtoMin, Longest(m + 1), 0, 0)'
      BY <1>1, <1>2, <2>5, <2>8, OnTimeFresh, Limits
    <2>10. /\ snd_buf'[s].xmit = m + 1 /\ snd_buf'[s].rto = n
           /\ snd_buf'[s].resendts = Wrapped(clock + n)
      BY <2>1, <2>2, <2>4, <2>6
    <2>. QED
      BY <2>1, <2>5, <2>9, <2>10 DEF OnTime, Longest
  <1>7. ASSUME NEW s \in DOMAIN snd_buf, ~ Due(k, s)
        PROVE  /\ snd_buf'[s].rto <= snd_buf'[s].xmit * RtoMax
               /\ \E by \in {0, set'} :
                     OnTime(snd_buf[s].resendts, age[s], RtoMin,
                            Longest(snd_buf[s].xmit), by, 0)'
    <2>1. snd_buf'[s] = snd_buf[s] /\ age'[s] = age[s]
      BY <1>1, <1>7, FlushSegments
    <2>2. PICK by \in {late, set} :
             OnTime(snd_buf[s].resendts, age[s], RtoMin, Longest(snd_buf[s].xmit), by, late)
      BY DEF OnTimeInv
    <2>3. PICK x \in Nat, n \in Nat, m \in 1 .. MaxXmit :
             x = snd_buf[s].resendts /\ n = age[s] /\ m = snd_buf[s].xmit
      BY <1>1 DEF SegTimes
    <2>4. ITimeDiff(clock, x) < 0
      <3>1. ITimeDiff(clock, x) \in Int
        BY <1>1, DifferenceType, Constants DEF Times
      <3>. QED
        BY <1>7, <2>3, <3>1 DEF Due
    <2>5. OnTime(x, n, RtoMin, Longest(m), by, late) /\ Reachable(Longest(m))
      BY <2>2, <2>3, TimersReachable
    <2>6. OnTime(x, n, RtoMin, Longest(m), by, 0)'
      BY <1>2, <2>4, <2>5, OnTimeWaits, Limits
    <2>7. by \in {0, set'}
      OBVIOUS
    <2>8. snd_buf[s].rto <= snd_buf[s].xmit * RtoMax
      BY DEF OnTimeInv
    <2>. QED
      BY <2>1, <2>3, <2>6, <2>7, <2>8 DEF OnTime, Longest
  <1>8. DOMAIN snd_buf' = DOMAIN snd_buf \cup moved
    BY <1>1, FlushSegments
  <1>9. ASSUME NEW s \in DOMAIN snd_buf'
         PROVE  /\ snd_buf'[s].rto <= snd_buf'[s].xmit * RtoMax
                /\ \E by \in {0, set'} :
                      OnTime(snd_buf[s].resendts, age[s], RtoMin,
                             Longest(snd_buf[s].xmit), by, 0)'
    BY <1>5, <1>6, <1>7, <1>8
  <1>10. kcp'.probe_wait = 0 => asked' = silent'
    BY <1>1, <1>2, ProbeTimerSets DEF SameProbe
  <1>11. kcp'.probe_wait # 0 =>
            \E by \in {0, set'} : OnTime(kcp.ts_probe, asked, 1, ProbeLimit, by, 0)'
    <2>1. CASE ~ closed
      BY <1>1, <1>2, <2>1, ProbeTimerSets
    <2>2. CASE closed /\ (k.probe_wait = 0 \/ Probing(k))
      <3>1. PICK n \in 1 .. ProbeLimit : kcp'.ts_probe = Wrapped(clock + n)
        BY <1>1, <1>2, <2>2, ProbeTimerSets
      <3>2. asked' = 0
        BY <1>2, <2>2
      <3>3. OnTime(Wrapped(clock + n), 0, 1, ProbeLimit, 0, 0)'
        BY <1>1, <1>2, OnTimeFresh, TimersReachable
      <3>. QED
        BY <3>1, <3>2, <3>3 DEF OnTime
    <2>3. CASE closed /\ k.probe_wait # 0 /\ ~ Probing(k)
      <3>1. kcp'.ts_probe = kcp.ts_probe /\ asked' = asked /\ kcp.probe_wait # 0
        BY <1>1, <1>2, <2>3, ProbeTimerSets DEF SameProbe
      <3>2. PICK by \in {late, set} : OnTime(kcp.ts_probe, asked, 1, ProbeLimit, by, late)
        BY <3>1 DEF OnTimeInv
      <3>3. PICK x \in Nat, n \in Nat : x = kcp.ts_probe /\ n = asked
        BY <1>1 DEF TimersInv, TimerInv, TypeOK, TimeFields
      <3>4. ITimeDiff(clock, x) < 0
        <4>1. ITimeDiff(clock, x) \in Int
          BY <1>1, DifferenceType, Constants DEF Times
        <4>2. k.probe_wait > 0
          BY <1>1, <3>1 DEF SameProbe
        <4>. QED
          BY <2>3, <3>3, <4>1, <4>2 DEF Probing, SameProbe
      <3>5. OnTime(x, n, 1, ProbeLimit, by, late)
        BY <3>2, <3>3
      <3>6. OnTime(x, n, 1, ProbeLimit, by, 0)'
        BY <1>2, <3>4, <3>5, OnTimeWaits, TimersReachable
      <3>. QED
        BY <3>1, <3>3, <3>6 DEF OnTime
    <2>. QED
      BY <1>1, <2>1, <2>2, <2>3 DEF TypeOK
  <1>. QED
    BY <1>3, <1>9, <1>10, <1>11 DEF OnTimeInv

(* An update flushes with the timers it finds, or leaves them.             *)
LEMMA TimersUpdate ==
    ASSUME TimersInv, Update
    PROVE  \E late \in {0, set'} : OnTimeInv(late)'
  <1>1. PICK late \in {0, set} : OnTimeInv(late)
    BY DEF TimersInv
  <1>2. TypeOK /\ TimerInv
    BY DEF TimersInv, TimerInv
  <1>3. UNCHANGED <<clock, closed, set>>
    BY <1>2, UpdateCases
  <1>4. ASSUME NEW k \in TimeFields, NEW moved \in SUBSET (Segs \ DOMAIN snd_buf),
               StartsAfresh(Slap) \/ Slap >= 0, k.current = clock,
               k.ts_flush = NextFlush, k.rx_rto = kcp.rx_rto, SameProbe(k),
               Flush(k, moved)
        PROVE  OnTimeInv(0)'
    BY <1>1, <1>2, <1>3, <1>4, FlushSetsTimer, TimersFlush
  <1>5. ASSUME kcp.updated, kcp'.ts_flush = kcp.ts_flush, SameProbe(kcp'),
               UNCHANGED <<snd_buf, silent, age, asked>>
        PROVE  OnTimeInv(late)'
    BY <1>1, <1>3, <1>5 DEF OnTimeInv, OnTime, Longest, SameProbe
  <1>. QED
    BY <1>2, <1>3, <1>4, <1>5, UpdateCases

(* The invariant of the timers is inductive.                               *)
LEMMA TimersStep == TimersInv /\ [Next]_vars => TimersInv'
  <1>. SUFFICES ASSUME TimersInv, [Next]_vars PROVE TimersInv'
    OBVIOUS
  <1>1. CASE Pass
    BY <1>1, PassKeeps, TimersPass DEF TimersInv
  <1>2. CASE SetClock
    BY <1>2, SetClockKeeps, TimersSetClock DEF TimersInv
  <1>3. CASE Update
    BY <1>3, UpdateKeeps, TimersUpdate DEF TimersInv
  <1>4. CASE Input
    BY <1>4, InputKeeps, TimersInput DEF TimersInv
  <1>5. CASE UNCHANGED vars
    BY <1>5 DEF vars, TimersInv, TimerInv, TypeOK, TimerAhead, SetBack, SetAhead,
                OnTimeInv, OnTime, Longest
  <1>. QED
    BY <1>1, <1>2, <1>3, <1>4, <1>5 DEF Next

(* A timer that the last flush did not find due is at most one flush late. *)
LEMMA OnTimeBounds ==
    ASSUME TimersInv, NEW late \in {0, set}, OnTimeInv(late),
           NEW x, NEW since \in Nat, NEW least \in Nat, NEW most \in Nat,
           NEW moved \in {late, set}, OnTime(x, since, least, most, moved, late)
    PROVE  since <= most + Interval + Gap + SetBack
  <1>1. PICK v \in Int : v + since <= most - moved /\ v + silent >= 1 - late
    BY DEF OnTime
  <1>2. silent \in Nat /\ set \in Int /\ late \in Int /\ moved \in Int
    BY TimerTypes DEF TimersInv
  <1>3. silent <= Interval + Gap + Higher(0, -late)
    BY FlushedLately
  <1>4. CASE moved = late
    BY <1>1, <1>2, <1>3, <1>4, Constants DEF Higher, SetBack
  <1>5. CASE late = 0 /\ moved = set
    BY <1>1, <1>2, <1>3, <1>5, Constants DEF Higher, SetBack
  <1>. QED
    BY <1>4, <1>5

(* What follows holds both bounds.                                         *)
LEMMA TimersBounds == TimersInv => ResentInTime /\ ProbesGoOn
  <1>. SUFFICES ASSUME TimersInv PROVE ResentInTime /\ ProbesGoOn
    OBVIOUS
  <1>1. PICK late \in {0, set} : OnTimeInv(late)
    BY DEF TimersInv
  <1>2. /\ silent \in Nat /\ asked \in Nat /\ age \in [Segs -> Nat]
        /\ DOMAIN snd_buf \subseteq Segs
        /\ \A s \in DOMAIN snd_buf : snd_buf[s] \in SegTimes
        /\ kcp.probe_wait \in Nat /\ set \in Int /\ late \in Int
    BY Constants DEF TimersInv, TimerInv, TypeOK, TimeFields
  <1>3. ASSUME NEW s \in DOMAIN snd_buf
        PROVE  age[s] <= snd_buf[s].xmit * RtoMax + (RtoMax \div 8)
                            + Interval + Gap + SetBack
    <2>1. PICK moved \in {late, set} :
             OnTime(snd_buf[s].resendts, age[s], RtoMin, Longest(snd_buf[s].xmit), moved, late)
      BY <1>1 DEF OnTimeInv
    <2>2. PICK n \in Nat, m \in Nat : n = age[s] /\ m = snd_buf[s].xmit
      BY <1>2, Limits DEF SegTimes
    <2>3. Longest(m) \in Nat
      BY LongestType
    <2>4. n <= Longest(m) + Interval + Gap + SetBack
      BY <1>1, <2>1, <2>2, <2>3, OnTimeBounds, Limits
    <2>. QED
      BY <2>2, <2>4 DEF Longest
  <1>4. ProbesGoOn
    <2>1. CASE kcp.probe_wait = 0
      <3>1. asked = silent
        BY <1>1, <2>1 DEF OnTimeInv
      <3>2. silent <= Interval + Gap + Higher(0, -late)
        BY <1>1, FlushedLately
      <3>. QED
        BY <1>2, <3>1, <3>2, Constants, Limits DEF ProbesGoOn, SetBack, Higher
    <2>2. CASE kcp.probe_wait # 0
      <3>1. PICK moved \in {late, set} : OnTime(kcp.ts_probe, asked, 1, ProbeLimit, moved, late)
        BY <1>1, <2>2 DEF OnTimeInv
      <3>. QED
        BY <1>1, <1>2, <3>1, OnTimeBounds, Limits DEF ProbesGoOn
    <2>. QED
      BY <2>1, <2>2
  <1>. QED
    BY <1>3, <1>4 DEF ResentInTime

(* A segment that is not acknowledged is sent again: the k-th time within k*)
(* of the largest timeouts, one flush and what the clock was set back,     *)
(* through every wrap of the clock and for whatever round trips it made    *)
(* the acknowledgements tell.                                              *)
THEOREM ResentInTimeCorrect == Spec => []ResentInTime
  BY TimersStep, TimersInit, TimersBounds, PTL DEF Spec

(* A window that stays closed is probed again and again: no pause exceeds  *)
(* the limit, one flush and what the clock was set back.                   *)
THEOREM ProbesGoOnCorrect == Spec => []ProbesGoOn
  BY TimersStep, TimersInit, TimersBounds, PTL DEF Spec

(* No segment is sent again before the smallest timeout has truly passed,  *)
(* unless the clock has been set ahead.                                    *)
THEOREM NotResentEarlyCorrect == Spec => NotResentEarly
  <1>. DEFINE NotEarly == \A s \in DOMAIN snd_buf \cap DOMAIN snd_buf' :
                 snd_buf'[s].xmit > snd_buf[s].xmit => age[s] + SetAhead >= RtoMin
  <1>1. TimersInv /\ [Next]_vars => [NotEarly]_vars
    <2>. SUFFICES ASSUME TimersInv, Next,
                         NEW s \in DOMAIN snd_buf \cap DOMAIN snd_buf',
                         snd_buf'[s].xmit > snd_buf[s].xmit
                  PROVE  age[s] + SetAhead >= RtoMin
      OBVIOUS
    <2>1. PICK late \in {0, set} : OnTimeInv(late)
      BY DEF TimersInv
    <2>2. /\ TypeOK /\ clock \in Times /\ set \in Int
          /\ age \in [Segs -> Nat] /\ DOMAIN snd_buf \subseteq Segs
          /\ \A t \in DOMAIN snd_buf : snd_buf[t] \in SegTimes
      BY Constants DEF TimersInv, TimerInv, TypeOK, Times
    <2>3. snd_buf'[s] # snd_buf[s]
      BY <2>2 DEF SegTimes
    <2>4. Update
      <3>1. CASE Pass \/ SetClock
        BY <2>3, <3>1 DEF Pass, SetClock
      <3>2. CASE Input
        BY <2>3, <3>2 DEF Input
      <3>. QED
        BY <3>1, <3>2 DEF Next
    <2>5. PICK k \in TimeFields, moved \in SUBSET (Segs \ DOMAIN snd_buf) :
             k.current = clock /\ Flush(k, moved)
      BY <2>2, <2>3, <2>4, UpdateCases
    <2>6. Due(k, s)
      BY <2>2, <2>3, <2>5, FlushSegments
    <2>7. PICK by \in {late, set} :
             OnTime(snd_buf[s].resendts, age[s], RtoMin, Longest(snd_buf[s].xmit), by, late)
      BY <2>1 DEF OnTimeInv
    <2>8. PICK x \in Nat, n \in Nat, m \in 1 .. MaxXmit :
             x = snd_buf[s].resendts /\ n = age[s] /\ m = snd_buf[s].xmit
      BY <2>2 DEF SegTimes
    <2>9. OnTime(x, n, RtoMin, Longest(m), by, late) /\ Reachable(Longest(m))
      BY <2>7, <2>8, TimersReachable
    <2>10. ITimeDiff(clock, x) >= 0
      BY <2>5, <2>6, <2>8 DEF Due
    <2>11. n >= RtoMin - by
      BY <2>1, <2>9, <2>10, OnTimeDue, Limits
    <2>12. by <= SetAhead /\ by \in Int /\ SetAhead \in Int
      BY <2>2 DEF SetAhead, Higher
    <2>. QED
      BY <2>8, <2>11, <2>12, Limits
  <1>. QED
    BY <1>1, TimersInit, TimersStep, PTL DEF Spec, NotResentEarly
============================================================================
