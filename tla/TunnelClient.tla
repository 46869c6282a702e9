---------------------------- MODULE TunnelClient ----------------------------
(***************************************************************************)
(* The program oktun_client: ProxyServer, which owns the sockets to the    *)
(* PCs, and TunnelClient, which owns one KCP session per PC.  The two call *)
(* each other synchronously from libevent callbacks of one thread, so each *)
(* callback is one action here.                                            *)
(*                                                                         *)
(* Abstracted: a PC's bytes are read by the callback that finds them, so   *)
(* ClientRead is both the PC sending and ClientReadCB; buf[0] of a proxy   *)
(* client is empty between callbacks and has no variable.  Sockets and     *)
(* events are left out; allocation is assumed to succeed.                  *)
(*                                                                         *)
(* Several clients of the tunnel run at a time, each of them this program. *)
(* They share nothing, so that their maps are kept in one: the key         *)
(* <<a, id>> stands for id in the map of the program at address a.         *)
(***************************************************************************)
EXTENDS Kcp, Functions

CONSTANTS
    Clients,    \* the programs, by the address they are bound to
    Pcs,        \* the connections PCs will open to a proxy
    Chunk,      \* 1400: the most TunnelClient::Write gives one ikcp_send
    ClientBuf,  \* 65536: the capacity of the buffers of the client program
    Tries,      \* 9: how often NewClient looks for an unused id
    IdMod       \* 2^32: how many values m_id_counter has

ASSUME ClientAssumption ==
    /\ Chunk \in Nat \ {0}
    /\ ClientBuf \in Nat \ {0}
    /\ Tries \in Nat \ {0}
    /\ IdMod \in Nat \ {0, 1}
    /\ Chunk <= Mss * (RcvWnd - 1)  \* ikcp_send never refuses a chunk

VARIABLES
    counter,   \* m_id_counter of each program
    sessions,  \* TunnelClient::m_clients: <<a, id>> |-> [kcp, buf]
    proxies,   \* ProxyServer::m_clients: <<a, id>> |-> [pc, buf], that is buf[1]
    pcs        \* the PCs: state, bytes said so far, what they heard

clientVars == <<counter, sessions, proxies, pcs>>

Keys == Clients \X (1 .. IdMod - 1)

Session == [kcp : ControlBlock, buf : Seq(Data)]
Proxy == [pc : Pcs, buf : Seq(Data)]

(* absent: not connected yet; gone: it closed or reset its end; finished:  *)
(* closed by the proxy on the close signal; dropped: refused, or closed    *)
(* because the program died.                                               *)
Pc == [state : {"absent", "open", "gone", "finished", "dropped"},
       said : Nat, heard : Seq(Data)]

(* The bytes number from + 1 .. from + n of a speaker.                     *)
Bytes(speaker, from, n) == [i \in 1 .. n |-> <<speaker, from + i>>]

ClientInit ==
    /\ counter = [a \in Clients |-> 0]
    /\ sessions = <<>>
    /\ proxies = <<>>
    /\ pcs = [c \in Pcs |-> [state |-> "absent", said |-> 0, heard |-> <<>>]]

----------------------------------------------------------------------------
(* ProxyServer::Accept and TunnelClient::NewClient.                        *)

(* A counter at 0 is incremented before its use, any other after.  It is   *)
(* an int: once past its largest value it is undefined; the build wraps.   *)
IdTried(count) == Greater(1, count)
CountAfter(count) == IF count = 0 THEN 1 ELSE (count + 1) % IdMod

(* What the counter of a is after n tries.                                 *)
Count(a, n) ==
    LET after[i \in 0 .. n] ==
            IF i = 0 THEN counter[a] ELSE CountAfter(after[i - 1])
    IN  after[n]

(* The key of the i-th try; the loop ends with one the map does not have,  *)
(* or when the tries are used up.                                          *)
Candidate(a, i) == <<a, IdTried(Count(a, i - 1))>>

TriesUsed(a) ==
    Least({i \in 1 .. Tries : i = Tries \/ Candidate(a, i) \notin DOMAIN sessions})

(* emplace of std::map keeps what it has under a key that is taken.        *)
Emplace(map, key, value) ==
    [k \in DOMAIN map \cup {key} |-> IF k \in DOMAIN map THEN map[k] ELSE value]

(* A PC connects to the program at a.  When the id is taken neither map    *)
(* changes, and the new socket is closed with the proxy client that was    *)
(* not kept.                                                               *)
Accept(a, c) ==
    LET key == Candidate(a, TriesUsed(a)) IN
    /\ pcs[c].state = "absent"
    /\ counter' = [counter EXCEPT ![a] = Count(a, TriesUsed(a))]
    /\ sessions' = Emplace(sessions, key, [kcp |-> KcpCreate(key[2]), buf |-> <<>>])
    /\ proxies' = Emplace(proxies, key, [pc |-> c, buf |-> <<>>])
    /\ pcs' = [pcs EXCEPT ![c].state =
                  IF key \in DOMAIN proxies THEN "dropped" ELSE "open"]

(* Slip: the session is not removed with the proxy client.                 *)
RemoveProxyOnly(key, state) ==
    /\ proxies' = Restrict(proxies, DOMAIN proxies \ {key})
    /\ pcs' = [pcs EXCEPT ![proxies[key].pc].state = state]
    /\ UNCHANGED <<counter, sessions>>

(* ProxyServer::RemoveClient, and from it TunnelClient::RemoveClient: both *)
(* maps forget the id, the session is released with all it still holds.    *)
RemoveClient(key, state) ==
    /\ proxies' = Restrict(proxies, DOMAIN proxies \ {key})
    /\ sessions' = Restrict(sessions, DOMAIN sessions \ {key})
    /\ pcs' = [pcs EXCEPT ![proxies[key].pc].state = state]
    /\ UNCHANGED counter

Without(map, a) == Restrict(map, {key \in DOMAIN map : key[1] # a})

(* The program at a ends and is started again, at the same address: nothing*)
(* of it is persistent.                                                    *)
ProgramDies(a) ==
    /\ counter' = [counter EXCEPT ![a] = 0]
    /\ sessions' = Without(sessions, a)
    /\ proxies' = Without(proxies, a)
    /\ pcs' = [c \in Pcs |->
                  IF /\ pcs[c].state = "open"
                     /\ \E key \in DOMAIN proxies : key[1] = a /\ proxies[key].pc = c
                  THEN [pcs[c] EXCEPT !.state = "dropped"] ELSE pcs[c]]

----------------------------------------------------------------------------
(* From a PC to the tunnel.                                                *)

(* TunnelClient::Write: one ikcp_send per chunk.                           *)
Queued(k, bytes) ==
    LET piece(i) == SubSeq(bytes, (i - 1) * Chunk + 1, Lesser(i * Chunk, Len(bytes)))
        sends == (Len(bytes) + Chunk - 1) \div Chunk
        upTo[i \in 0 .. sends] ==
            IF i = 0 THEN k ELSE KcpSend(upTo[i - 1], piece(i))
    IN  upTo[sends]

(* ClientReadCB with n bytes read.                                         *)
ClientRead(key, n) ==
    LET c == proxies[key].pc IN
    /\ pcs[c].state = "open"
    /\ n \in 1 .. ClientBuf
    /\ sessions' = [sessions EXCEPT
                       ![key].kcp = Queued(@, Bytes(c, pcs[c].said, n))]
    /\ pcs' = [pcs EXCEPT ![c].said = @ + n]
    /\ UNCHANGED <<counter, proxies>>

PcLeaves(c) ==
    /\ pcs[c].state = "open"
    /\ pcs' = [pcs EXCEPT ![c].state = "gone"]
    /\ UNCHANGED <<counter, sessions, proxies>>

(* ClientReadCB with recv returning 0.  The server is not told.            *)
ClientEof(key) ==
    /\ pcs[proxies[key].pc].state = "gone"
    /\ RemoveClient(key, "gone")

----------------------------------------------------------------------------
(* From the tunnel to a PC.                                                *)

(* ForwardData2Client of a session, whose control block is k.  When        *)
(* the proxy has no room the message stays in the session's buffer, and    *)
(* the next one pushes out as many bytes as it brings.                     *)
Forward(key, k) ==
    LET s   == sessions[key]
        msg == Payload(FirstMessage(k))
        all == s.buf \o msg
        receivable == KcpReceivable(k, ClientBuf - Len(s.buf))
        fits == Len(proxies[key].buf) + Len(msg) <= ClientBuf
    IN
    \/ /\ ~ receivable
       /\ sessions' = [sessions EXCEPT ![key].kcp = k]
       /\ UNCHANGED <<counter, proxies, pcs>>
    \/ /\ receivable /\ msg = <<>>
       /\ RemoveClient(key, "finished")
    \/ /\ receivable /\ msg # <<>> /\ fits
       /\ sessions' = [sessions EXCEPT
             ![key] = [kcp |-> KcpRecv(k),
                      buf |-> SubSeq(all, Len(msg) + 1, Len(all))]]
       /\ proxies' = [proxies EXCEPT ![key].buf = @ \o SubSeq(all, 1, Len(msg))]
       /\ UNCHANGED <<counter, pcs>>
    \/ /\ receivable /\ msg # <<>> /\ ~ fits
       /\ sessions' = [sessions EXCEPT
             ![key] = [kcp |-> KcpRecv(k), buf |-> all]]
       /\ UNCHANGED <<counter, proxies, pcs>>

(* ReadCB and Process: a datagram for an id that has no session is dropped.*)
ClientInput(a, d, grow) ==
    \/ /\ <<a, d.conv>> \in DOMAIN sessions
       /\ Forward(<<a, d.conv>>, KcpInput(sessions[<<a, d.conv>>].kcp, d, grow))
    \/ /\ <<a, d.conv>> \notin DOMAIN sessions
       /\ UNCHANGED clientVars

(* Slip: UpdateCB receives nothing, as that of the server.                 *)
ClientUpdateOnlyFlushes(key, flushes, due) ==
    /\ flushes
    /\ sessions' = [sessions EXCEPT ![key].kcp = KcpFlush(@, due)]
    /\ UNCHANGED <<counter, proxies, pcs>>

(* One round of the loop in UpdateCB; `flushes` is whether the interval of *)
(* the session has passed.  Rounds of different sessions share no state,   *)
(* so a callback is a sequence of rounds, those that do nothing left out.  *)
(* A round that gets the close signal erases the map node the loop stands  *)
(* on: the loop goes on, or the program dies on the freed node.            *)
ClientUpdate(key, flushes, due) ==
    LET k == sessions[key].kcp
        after == IF flushes THEN KcpFlush(k, due) ELSE k
    IN
    \/ Forward(key, after)
    \/ /\ KcpReceivable(after, ClientBuf - Len(sessions[key].buf))
       /\ Payload(FirstMessage(after)) = <<>>
       /\ ProgramDies(key[1])

(* ClientWriteCB: the PC's socket takes n bytes.                           *)
ClientWrite(key, n) ==
    LET c == proxies[key].pc IN
    /\ pcs[c].state = "open"
    /\ n \in 1 .. Len(proxies[key].buf)
    /\ pcs' = [pcs EXCEPT ![c].heard = @ \o SubSeq(proxies[key].buf, 1, n)]
    /\ proxies' = [proxies EXCEPT ![key].buf = SubSeq(@, n + 1, Len(@))]
    /\ UNCHANGED <<counter, sessions>>

(* ClientWriteCB after the PC reset the connection: Remove(-1) empties the *)
(* buffer, or SIGPIPE, which the program does not ignore, ends it.         *)
ClientWriteFails(key) ==
    /\ pcs[proxies[key].pc].state = "gone"
    /\ proxies[key].buf # <<>>
    /\ \/ /\ proxies' = [proxies EXCEPT ![key].buf = <<>>]
          /\ UNCHANGED <<counter, sessions, pcs>>
       \/ ProgramDies(key[1])
============================================================================
