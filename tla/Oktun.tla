------------------------------- MODULE Oktun -------------------------------
(***************************************************************************)
(* The tunnel: programs oktun_client and one oktun_server, the UDP path    *)
(* between them, the PCs on one side and the target on the other.  A client*)
(* program is bound to a fixed port (-b), so the server knows it by one    *)
(* address also after a restart; one that is not is after it a new client. *)
(*                                                                         *)
(* Every callback of either program is one action; the interleaving is     *)
(* that of the two processes, the network and the peers.  A datagram may   *)
(* be lost, overtaken or delivered again.                                  *)
(***************************************************************************)
EXTENDS TunnelClient, TunnelServer

CONSTANTS
    Leavers,     \* the PCs that may close or reset their connection
    TargetStays, \* whether the target keeps its connections open
    MaxSaid,     \* bound: bytes a PC says
    MaxReply,    \* bound: bytes the target says on one connection
    MaxTargets,  \* bound: connections the target accepts
    MaxNet       \* bound: datagrams under way in one direction

ASSUME OktunAssumption ==
    /\ Chunk <= TaskBuf      \* a message fits an empty buffer of the receiver
    /\ TaskBuf <= ClientBuf
    /\ Leavers \subseteq Pcs
    /\ TargetStays \in BOOLEAN
    /\ {MaxSaid, MaxReply, MaxTargets, MaxNet} \subseteq Nat
    /\ Pcs \cap (1 .. MaxTargets) = {}  \* names of connections differ
    /\ Pcs \X (1 .. MaxSaid) \subseteq Data
    /\ (1 .. MaxTargets) \X (1 .. MaxReply) \subseteq Data

VARIABLES
    toServer,  \* the datagrams under way to the server, <<from, datagram>>
    toClient   \* the datagrams under way to a client, <<to, datagram>>

net == <<toServer, toClient>>

vars == <<clientVars, serverVars, net>>

TypeOK ==
    /\ counter \in [Clients -> 0 .. IdMod - 1]
    /\ DOMAIN sessions \subseteq Keys /\ Range(sessions) \subseteq Session
    /\ DOMAIN proxies \subseteq Keys /\ Range(proxies) \subseteq Proxy
    /\ pcs \in [Pcs -> Pc]
    /\ DOMAIN tasks \subseteq Keys /\ Range(tasks) \subseteq Task
    /\ targets \in Seq(Target)
    /\ toServer \subseteq Clients \X Datagram
    /\ toClient \subseteq Clients \X Datagram

Init ==
    /\ ClientInit
    /\ ServerInit
    /\ toServer = {}
    /\ toClient = {}

----------------------------------------------------------------------------
(* The PCs, the target and the sockets to them.                            *)

PcSteps ==
    \/ \E a \in Clients, c \in Pcs : Accept(a, c)
    \/ \E c \in Leavers : PcLeaves(c)
    \/ \E key \in DOMAIN proxies :
          \/ \E n \in 1 .. MaxSaid - pcs[proxies[key].pc].said : ClientRead(key, n)
          \/ \E n \in 1 .. Len(proxies[key].buf) : ClientWrite(key, n)
          \/ ClientEof(key)
          \/ ClientWriteFails(key)

TargetSteps ==
    \/ \E k \in DOMAIN targets : ~ TargetStays /\ TargetEnds(k)
    \/ \E key \in DOMAIN tasks :
          \/ \E n \in 1 .. MaxReply - targets[tasks[key].sock].said : TaskRead(key, n)
          \/ \E n \in 1 .. Len(tasks[key].buf) : TaskWrite(key, n)
          \/ TaskEof(key)
          \/ TaskWriteKills(key)

----------------------------------------------------------------------------
(* The timers: ikcp_update of one session, and its output callback.        *)

(* Some of the output is accepted by the socket and not lost on the way.   *)
Emits(a, k, due, wire, after) ==
    \E probeDue \in ProbeTimer(k), cuts \in Cuts(k, due) :
        \E kept \in SUBSET ({a} \X KcpOutput(k, due, probeDue, cuts)) :
            /\ Cardinality(wire \cup kept) <= MaxNet
            /\ after = wire \cup kept

ClientTick(key) ==
    \/ /\ ClientUpdate(key, FALSE, {})
       /\ UNCHANGED net
    \/ \E due \in SUBSET Sns(sessions[key].kcp.snd_buf) :
          /\ ClientUpdate(key, TRUE, due)
          /\ Emits(key[1], sessions[key].kcp, due, toServer, toServer')
          /\ UNCHANGED toClient

ServerTick(key) ==
    \E due \in SUBSET Sns(tasks[key].kcp.snd_buf) :
        /\ ServerUpdate(key, due)
        /\ Emits(key[1], tasks[key].kcp, due, toClient, toClient')
        /\ UNCHANGED toServer

----------------------------------------------------------------------------
(* Arrival; a datagram the network duplicates remains under way.           *)

ClientHears(a, d, grow, duplicated) ==
    /\ ClientInput(a, d, grow)
    /\ toClient' = IF duplicated THEN toClient ELSE toClient \ {<<a, d>>}
    /\ UNCHANGED toServer

(* The target accepts MaxTargets connections and refuses the next; then    *)
(* NewTask fails and the datagram is dropped.                              *)
Refused(a, d) == TaskKey(a, d) \notin DOMAIN tasks /\ Len(targets) >= MaxTargets

ServerHears(a, d, grow, duplicated) ==
    /\ \/ ~ Refused(a, d) /\ ServerInput(a, d, grow)
       \/ Refused(a, d) /\ UNCHANGED serverVars
    /\ toServer' = IF duplicated THEN toServer ELSE toServer \ {<<a, d>>}
    /\ UNCHANGED toClient

Next ==
    \/ PcSteps /\ UNCHANGED <<serverVars, net>>
    \/ TargetSteps /\ UNCHANGED <<clientVars, net>>
    \/ /\ \/ \E key \in DOMAIN sessions : ClientTick(key)
          \/ \E p \in toClient, grow \in BOOLEAN, dup \in BOOLEAN :
                ClientHears(p[1], p[2], grow, dup)
       /\ UNCHANGED serverVars
    \/ /\ \/ \E key \in DOMAIN tasks : ServerTick(key)
          \/ \E p \in toServer, grow \in BOOLEAN, dup \in BOOLEAN :
                ServerHears(p[1], p[2], grow, dup)
       /\ UNCHANGED clientVars

Spec == Init /\ [][Next]_vars

----------------------------------------------------------------------------
(* Safety.                                                                 *)

(* The two maps of a client program hold the same ids, one per connected   *)
(* PC, across refusals, close signals, resets and restarts: the callbacks  *)
(* look an id up in the one after finding it in the other.                 *)
MapsAgree ==
    /\ DOMAIN sessions = DOMAIN proxies
    /\ \A i, j \in DOMAIN proxies : proxies[i].pc = proxies[j].pc => i = j
    /\ \A c \in Pcs : pcs[c].state = "open" =>
          \E key \in DOMAIN proxies : proxies[key].pc = c

(* The server holds each connection to the target in one task and each     *)
(* task in a connection that is not closed yet, across close signals, late *)
(* datagrams and restarts.                                                 *)
TargetsHeld ==
    /\ \A i, j \in DOMAIN tasks : tasks[i].sock = tasks[j].sock => i = j
    /\ \A k \in DOMAIN targets :
          targets[k].state # "closed" <=> \E key \in DOMAIN tasks : tasks[key].sock = k

(* Some byte one of them said was heard by the other.                      *)
Joined(c, k) ==
    \/ \E n \in DOMAIN targets[k].heard : targets[k].heard[n][1] = c
    \/ \E n \in DOMAIN pcs[c].heard : pcs[c].heard[n][1] = k

(* Sessions are one to one: a PC talks with one target connection and is   *)
(* the only one to talk with it.                                           *)
OneToOne ==
    \A c, e \in Pcs, k, m \in DOMAIN targets :
        Joined(c, k) /\ Joined(e, m) => (c = e <=> k = m)

(* The proxy closes a PC's connection only when the target has closed its  *)
(* own and all it said has come through the session: it was heard, or is   *)
(* in the buffers that the close destroys.                                 *)
SignalComesLast ==
    [][\A c \in Pcs :
          pcs[c].state = "open" /\ pcs'[c].state = "finished" =>
              \E key \in DOMAIN proxies, k \in DOMAIN targets :
                  /\ proxies[key].pc = c
                  /\ targets[k].state # "open"
                  /\ Len(pcs[c].heard \o proxies[key].buf \o sessions[key].buf)
                       = targets[k].said]_vars

----------------------------------------------------------------------------
(* Refinement.                                                             *)

TargetPhase(k) ==
    IF k \notin DOMAIN targets THEN "absent"
    ELSE CASE targets[k].state = "open" -> "open"
           [] targets[k].state = "ended" -> "silent"
           [] OTHER -> "over"

PcPhase(c) ==
    IF pcs[c].state \in {"absent", "open"} THEN pcs[c].state ELSE "over"

Connections == Pcs \cup 1 .. MaxTargets

SeenPhase == [x \in Connections |-> IF x \in Pcs THEN PcPhase(x) ELSE TargetPhase(x)]

SeenSaid ==
    [x \in Connections |-> IF x \in Pcs THEN pcs[x].said
                           ELSE IF x \in DOMAIN targets THEN targets[x].said ELSE 0]

SeenHeard ==
    [x \in Connections |-> IF x \in Pcs THEN pcs[x].heard
                           ELSE IF x \in DOMAIN targets THEN targets[x].heard ELSE <<>>]

(* What both programs do together, as the PCs and the target see it.       *)
Seen == INSTANCE Tunnel WITH
            Here <- Pcs, There <- 1 .. MaxTargets,
            phase <- SeenPhase, said <- SeenSaid, heard <- SeenHeard

(* Each target connection hears a growing prefix of what one PC says, and  *)
(* each PC one of what one target connection says: nothing is lost in the  *)
(* middle, repeated, reordered, invented or mixed with another session's   *)
(* bytes, through two buffers and a KCP session on each side, and nothing  *)
(* is said or heard by a connection that is over.                          *)
ImplementsTunnel == Seen!Spec

(* What the code does not see to, and the promise above rests on: an id is *)
(* used for a new session only when nothing of an earlier one with it is   *)
(* left, neither a task nor a datagram; and a task is made for a session   *)
(* that is under way (the server was restarted, or its task was done) only *)
(* while that session has heard nothing of the task before.                *)
Bears(p, key) == <<p[1], p[2].conv>> = key

FreshIds ==
    /\ \A key \in DOMAIN sessions' \ DOMAIN sessions :
          key \notin DOMAIN tasks /\ \A p \in toServer \cup toClient : ~ Bears(p, key)
    /\ \A key \in DOMAIN tasks' \ DOMAIN tasks : key \in DOMAIN sessions =>
          /\ sessions[key].kcp.rcv_nxt = 0 /\ sessions[key].kcp.rcv_buf = {}
          /\ \A p \in toClient : ~ Bears(p, key)

FreshSpec == Init /\ [][Next /\ FreshIds]_vars

----------------------------------------------------------------------------
(* Liveness.  The event loops run the callback of a socket that stays      *)
(* ready and re-arm the 20 ms timer; the path may lose but not for ever:   *)
(* infinitely often a tick finds every timer of KCP expired and its whole  *)
(* output reaches an empty path.  The PC and the target read what they are *)
(* sent.  The formulas are WF_vars and, for the ticks, SF_vars of the      *)
(* steps, with ENABLED written out where that is short.                    *)

ClientArrival ==
    /\ \E p \in toClient : ClientHears(p[1], p[2], FALSE, FALSE)
    /\ UNCHANGED serverVars

ServerArrival ==
    /\ \E p \in toServer : ServerHears(p[1], p[2], FALSE, FALSE)
    /\ UNCHANGED clientVars

KeysOf(c) == {key \in DOMAIN proxies : proxies[key].pc = c /\ pcs[c].state = "open"}
KeysTo(k) == {key \in DOMAIN tasks : tasks[key].sock = k}

PcWritten(c) ==
    /\ \E key \in KeysOf(c) : ClientWrite(key, Len(proxies[key].buf))
    /\ UNCHANGED <<serverVars, net>>

TargetWritten(k) ==
    /\ \E key \in KeysTo(k) : TaskWrite(key, Len(tasks[key].buf))
    /\ UNCHANGED <<clientVars, net>>

TargetEof(k) ==
    /\ \E key \in KeysTo(k) : TaskEof(key)
    /\ UNCHANGED <<clientVars, net>>

EofSeen(k) ==
    \E key \in KeysTo(k) :
        /\ targets[k].state = "ended"
        /\ tasks[key].closing => tasks[key].kcp.snd_queue = <<>>

Stirs(k) == KcpFlush(k, Sns(k.snd_buf)) # k \/ WholeOutput(k) # {}

GoodClientTick(c) ==
    /\ toServer = {}
    /\ \E key \in KeysOf(c) :
          LET k == sessions[key].kcp IN
          /\ ClientUpdate(key, TRUE, Sns(k.snd_buf))
          /\ toServer' = {key[1]} \X WholeOutput(k)
    /\ UNCHANGED <<serverVars, toClient>>

GoodServerTick(k) ==
    /\ toClient = {}
    /\ \E key \in KeysTo(k) :
          /\ ServerUpdate(key, Sns(tasks[key].kcp.snd_buf))
          /\ toClient' = {key[1]} \X WholeOutput(tasks[key].kcp)
    /\ UNCHANGED <<clientVars, toServer>>

ServerTickDue(k) ==
    toClient = {} /\ \E key \in KeysTo(k) : Stirs(tasks[key].kcp)

FairSpec ==
    /\ Spec
    /\ []<>(toClient = {}) \/ []<><<ClientArrival>>_vars
    /\ []<>(toServer = {}) \/ []<><<ServerArrival>>_vars
    /\ \A c \in Pcs :
          /\ []<>(\A key \in KeysOf(c) : proxies[key].buf = <<>>)
                \/ []<><<PcWritten(c)>>_vars
          /\ SF_vars(GoodClientTick(c))
    /\ \A k \in 1 .. MaxTargets :
          /\ []<>(\A key \in KeysTo(k) : tasks[key].buf = <<>>)
                \/ []<><<TargetWritten(k)>>_vars
          /\ []<>(~ EofSeen(k)) \/ []<><<TargetEof(k)>>_vars
          /\ <>[](~ ServerTickDue(k)) \/ []<><<GoodServerTick(k)>>_vars

(* What a PC says is heard by the target, unless the PC goes away.         *)
RequestArrives ==
    \A c \in Pcs, n \in 1 .. MaxSaid :
        pcs[c].state = "open" /\ pcs[c].said >= n
            ~> \/ pcs[c].state # "open"
               \/ \E k \in DOMAIN targets : <<c, n>> \in Range(targets[k].heard)

(* What the target says is heard by the PC, unless the PC goes away.       *)
ReplyArrives ==
    \A c \in Pcs, k \in 1 .. MaxTargets, n \in 1 .. MaxReply :
        (\E key \in KeysOf(c) \cap KeysTo(k) : targets[k].said >= n)
            ~> pcs[c].state # "open" \/ <<k, n>> \in Range(pcs[c].heard)

(* When the target closes the connection a PC talks with, the PC's         *)
(* connection does not stay open.                                          *)
CloseArrives ==
    \A c \in Pcs, k \in 1 .. MaxTargets :
        (\E key \in KeysOf(c) \cap KeysTo(k) : targets[k].state = "ended")
            ~> pcs[c].state # "open"
============================================================================
