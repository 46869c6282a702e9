----------------------------- MODULE KcpTimers -----------------------------
(***************************************************************************)
(* The timers of one control block, which Kcp leaves open: when ikcp_update*)
(* flushes, when a segment is sent again, when a closed window is probed,  *)
(* and how the retransmission timeout follows the acknowledgements.  They  *)
(* are driven by UpdateCB of either program with iClock(), the wall clock  *)
(* in milliseconds cut to 32 bits, which wraps every 49.7 days and which   *)
(* an administrator or NTP may set.                                        *)
(*                                                                         *)
(* Abstracted: which segments wait to be sent, which are acknowledged and  *)
(* what window the peer tells is any; Kcp decides it.                      *)
(*                                                                         *)
(* The variables silent, age and asked measure true time, which the program*)
(* does not know; set is how far the clock has been set.                   *)
(***************************************************************************)
EXTENDS Wrap, FiniteSets

CONSTANTS
    Segs,        \* segments that can be in snd_buf at a time
    Interval,    \* IKCP_INTERVAL
    Jump,        \* 10000: an ikcp_update this far off starts afresh
    RtoMin,      \* IKCP_RTO_MIN
    RtoDef,      \* IKCP_RTO_DEF
    RtoMax,      \* IKCP_RTO_MAX
    ProbeInit,   \* IKCP_PROBE_INIT
    ProbeLimit,  \* IKCP_PROBE_LIMIT
    Period,      \* 20 ms: UpdateCB runs no sooner than this after it ran
    Gap,         \* bound: and no later than this
    Echo,        \* bound: how late an acknowledgement may come
    MaxXmit,     \* bound: how often a segment is sent
    Starts,      \* what the clock may show when the session begins
    Settings     \* how far the clock may be set, once

Lower(a, b) == IF a <= b THEN a ELSE b
Higher(a, b) == IF a >= b THEN a ELSE b

(* How far apart times that are compared can be while the clock is not set;*)
(* with the clock set it must stay below the half of Mod, some 24 days.    *)
Reach ==
    Interval + Gap + Higher(Jump, Higher(ProbeLimit, MaxXmit * RtoMax + RtoMax \div 8))

ASSUME TimersAssumption ==
    /\ {Interval, Jump, RtoMin, RtoDef, RtoMax, ProbeInit, ProbeLimit,
        Period, Gap, Echo, MaxXmit} \subseteq Nat \ {0}
    /\ RtoMin <= RtoDef /\ RtoDef <= RtoMax /\ ProbeInit <= ProbeLimit
    /\ Interval + Gap < Jump /\ Period <= Gap
    /\ Starts \subseteq 0 .. Mod - 1
    /\ Settings \subseteq Int
    /\ Reach < Mod \div 2
    /\ \A d \in Settings : Reach + d < Mod \div 2 /\ Reach - d < Mod \div 2

VARIABLES
    clock,    \* iClock()
    kcp,      \* the fields of IKCPCB that have to do with time
    snd_buf,  \* the segments sent and not acknowledged
    closed,   \* rmt_wnd = 0
    echoes,   \* the times under way in acknowledgements, and how old they are
    ran,      \* time since UpdateCB ran
    silent,   \* time since ikcp_flush ran
    age,      \* age[s]: time since s was last sent
    asked,    \* time since a flush that found the window open, began to
              \* wait with a probe or sent one
    set       \* how far the clock has been set; 0 if it has not

vars == <<clock, kcp, snd_buf, closed, echoes, ran, silent, age, asked, set>>

TimeFields == [updated : BOOLEAN, current : Nat, ts_flush : Nat, rx_srtt : Nat,
               rx_rttval : Int, rx_rto : RtoMin .. RtoMax,
               probe_wait : 0 .. ProbeLimit, ts_probe : Nat]

(* A segment in snd_buf has been sent xmit times.                          *)
SegTimes == [xmit : 1 .. MaxXmit, rto : Nat, resendts : Nat]

Init ==
    /\ clock \in Starts
    /\ kcp = [updated |-> FALSE, current |-> 0, ts_flush |-> Interval,
              rx_srtt |-> 0, rx_rttval |-> 0, rx_rto |-> RtoDef,
              probe_wait |-> 0, ts_probe |-> 0]
    /\ snd_buf = [s \in {} |-> 0]
    /\ closed = FALSE
    /\ echoes = {}
    /\ ran = 0 /\ silent = 0 /\ asked = 0
    /\ age = [s \in Segs |-> 0]
    /\ set = 0

----------------------------------------------------------------------------
(* The clock.                                                              *)

Pass ==
    /\ ran < Gap
    /\ clock' = Wrapped(clock + 1)
    /\ ran' = ran + 1 /\ silent' = silent + 1 /\ asked' = asked + 1
    /\ age' = [s \in Segs |-> IF s \in DOMAIN snd_buf THEN age[s] + 1 ELSE age[s]]
    /\ echoes' = {[e EXCEPT !.age = @ + 1] : e \in {e \in echoes : e.age < Echo}}
    /\ UNCHANGED <<kcp, snd_buf, closed, set>>

SetClock ==
    /\ set = 0
    /\ set' \in Settings
    /\ clock' = Wrapped(clock + set')
    /\ UNCHANGED <<kcp, snd_buf, closed, echoes, ran, silent, age, asked>>

----------------------------------------------------------------------------
(* ikcp_flush at the time kcp.current of k.                                *)

Due(k, s) == ITimeDiff(k.current, snd_buf[s].resendts) >= 0

FirstSent(k) ==
    [xmit |-> 1, rto |-> k.rx_rto,
     resendts |-> Wrapped(k.current + k.rx_rto + (k.rx_rto \div 8))]

SentAgain(k, t) ==
    [xmit |-> t.xmit + 1, rto |-> t.rto + k.rx_rto,
     resendts |-> Wrapped(k.current + t.rto + k.rx_rto)]

Probing(k) == closed /\ k.probe_wait > 0 /\ ITimeDiff(k.current, k.ts_probe) >= 0

(* Slip: the wait grows without limit.                                     *)
NextWaitUnlimited(k) == (Higher(k.probe_wait, ProbeInit) * 3) \div 2

NextWait(k) ==
    LET wait == Higher(k.probe_wait, ProbeInit)
    IN  Lower(ProbeLimit, wait + (wait \div 2))

ProbeTimer(k) ==
    LET wait == CASE ~ closed -> 0
                  [] closed /\ k.probe_wait = 0 -> ProbeInit
                  [] Probing(k) -> NextWait(k)
                  [] OTHER -> k.probe_wait
    IN  [k EXCEPT
            !.probe_wait = wait,
            !.ts_probe = CASE ~ closed -> 0
                           [] closed /\ (k.probe_wait = 0 \/ Probing(k)) ->
                                 Wrapped(k.current + wait)
                           [] OTHER -> @]

(* `moved` go from snd_queue to snd_buf, none while the window is closed.  *)
Flush(k, moved) ==
    LET again == {s \in DOMAIN snd_buf : Due(k, s)} IN
    /\ closed => moved = {}
    /\ \A s \in again : snd_buf[s].xmit < MaxXmit
    /\ kcp' = ProbeTimer(k)
    /\ snd_buf' = [s \in DOMAIN snd_buf \cup moved |->
                      CASE s \in moved -> FirstSent(k)
                        [] s \in again -> SentAgain(k, snd_buf[s])
                        [] OTHER -> snd_buf[s]]
    /\ age' = [s \in Segs |-> IF s \in again \cup moved THEN 0 ELSE age[s]]
    /\ echoes' = IF again \cup moved = {} THEN echoes
                 ELSE echoes \cup {[ts |-> k.current, age |-> 0]}
    /\ silent' = 0
    /\ asked' = IF ~ closed \/ k.probe_wait = 0 \/ Probing(k) THEN 0 ELSE asked

----------------------------------------------------------------------------
(* ikcp_update.                                                            *)

(* Slip: ts_flush is never set afresh.                                     *)
StartsAfreshNever(slap) == FALSE

StartsAfresh(slap) == slap >= Jump \/ slap < -Jump

Update ==
    LET begun == IF kcp.updated THEN kcp.ts_flush ELSE clock
        slap  == ITimeDiff(clock, begun)
        from  == IF StartsAfresh(slap) THEN clock ELSE begun
        next  == Wrapped(from + Interval)
        k     == [kcp EXCEPT !.current = clock, !.updated = TRUE]
    IN
    /\ ran >= Period
    /\ ran' = 0
    /\ \/ /\ StartsAfresh(slap) \/ slap >= 0
          /\ \E moved \in SUBSET (Segs \ DOMAIN snd_buf) :
                Flush([k EXCEPT !.ts_flush =
                          IF ITimeDiff(clock, next) >= 0
                          THEN Wrapped(clock + Interval) ELSE next], moved)
       \/ /\ ~ StartsAfresh(slap) /\ slap < 0
          /\ kcp' = [k EXCEPT !.ts_flush = from]
          /\ UNCHANGED <<snd_buf, echoes, silent, age, asked>>
    /\ UNCHANGED <<clock, closed, set>>

----------------------------------------------------------------------------
(* ikcp_input.                                                             *)

(* Division of C, which rounds towards zero.                               *)
Quotient(a, b) == IF a >= 0 THEN a \div b ELSE -((-a) \div b)

(* Slip: the timeout has no upper bound.                                   *)
RtoOfUnbounded(srtt, rttval) ==
    Higher(RtoMin, Wrapped(srtt + Higher(Interval, Wrapped(4 * rttval))))

(* The sum is that of unsigned integers.                                   *)
RtoOf(srtt, rttval) ==
    Lower(RtoMax,
          Higher(RtoMin, Wrapped(srtt + Higher(Interval, Wrapped(4 * rttval)))))

(* ikcp_update_ack; the products are of signed integers and may overflow   *)
(* after the clock has been set far ahead.                                 *)
UpdateAck(k, rtt) ==
    LET delta  == Higher(rtt - k.rx_srtt, k.rx_srtt - rtt)
        srtt   == IF k.rx_srtt = 0 THEN rtt
                  ELSE Higher(1, Quotient(Signed(Signed(7 * k.rx_srtt) + rtt), 8))
        rttval == IF k.rx_srtt = 0 THEN rtt \div 2
                  ELSE Signed(Quotient(Signed(3 * k.rx_rttval) + delta, 4))
    IN  [k EXCEPT !.rx_srtt = srtt, !.rx_rttval = rttval,
                  !.rx_rto = RtoOf(srtt, rttval)]

(* An acknowledgement brings back the time at which some copy was sent;    *)
(* kcp.current is that of the last ikcp_update.                            *)
TakeEcho(ts) ==
    LET rtt == ITimeDiff(kcp.current, ts) IN
    kcp' = IF rtt >= 0 THEN UpdateAck(kcp, rtt) ELSE kcp

(* A datagram arrives: it may bring an acknowledgement, repeated or late,  *)
(* its una and sn fields may acknowledge any segments, and its wnd field   *)
(* may close or open the window.                                           *)
Input ==
    /\ \/ \E e \in echoes : TakeEcho(e.ts)
       \/ UNCHANGED kcp
    /\ \E acked \in SUBSET DOMAIN snd_buf :
          /\ snd_buf' = [s \in DOMAIN snd_buf \ acked |-> snd_buf[s]]
          /\ age' = [s \in Segs |-> IF s \in acked THEN 0 ELSE age[s]]
    /\ closed' \in BOOLEAN
    /\ UNCHANGED <<clock, echoes, ran, silent, asked, set>>

Next == Pass \/ SetClock \/ Update \/ Input

Spec == Init /\ [][Next]_vars

----------------------------------------------------------------------------

SetBack == Higher(0, -set)
SetAhead == Higher(0, set)

TypeOK ==
    /\ clock \in 0 .. Mod - 1
    /\ kcp \in TimeFields
    /\ DOMAIN snd_buf \subseteq Segs
    /\ \A s \in DOMAIN snd_buf : snd_buf[s] \in SegTimes
    /\ closed \in BOOLEAN
    /\ echoes \subseteq [ts : 0 .. Mod - 1, age : 0 .. Echo]
    /\ ran \in 0 .. Gap /\ silent \in Nat /\ asked \in Nat
    /\ age \in [Segs -> Nat]
    /\ set \in Settings \cup {0}

(* ikcp_update keeps flushing, whatever the clock shows when the session   *)
(* begins, while it wraps, and when it is set: one set ahead costs nothing,*)
(* and one set back at most the Jump after which the timer starts afresh   *)
(* and what the next ikcp_update is late.                                  *)
FlushesGoOn == silent <= Interval + Gap + Lower(SetBack, Jump + Gap)

(* A segment that is not acknowledged is sent again, the k-th time within  *)
(* k of the largest timeouts, across the wrap and whatever round trips     *)
(* were measured.  Nothing starts this timer afresh: a clock that is set   *)
(* back delays it by as much.                                              *)
ResentInTime ==
    \A s \in DOMAIN snd_buf :
        age[s] <= snd_buf[s].xmit * RtoMax + (RtoMax \div 8)
                     + Interval + Gap + SetBack

(* No segment is sent again before the smallest timeout has truly passed,  *)
(* unless the clock has been set ahead.                                    *)
NotResentEarly ==
    [][\A s \in DOMAIN snd_buf \cap DOMAIN snd_buf' :
          snd_buf'[s].xmit > snd_buf[s].xmit => age[s] + SetAhead >= RtoMin]_vars

(* While the window stays closed it is probed again and again: no pause    *)
(* exceeds the limit, but for the grain of the flushes and a clock that is *)
(* set back.                                                               *)
ProbesGoOn == asked <= ProbeLimit + Interval + Gap + SetBack
============================================================================
