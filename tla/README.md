# oktun in TLA+

oktun carries TCP connections over KCP, a reliable ARQ protocol on top of UDP.
`oktun_client` accepts TCP connections from PCs and gives each a KCP session;
`oktun_server` gives each session it hears of a TCP connection to one target.
This directory models both programs and the protocol engine between them,
checks them with TLC on small instances, and proves the most important facts
about the engine, the buffers and both programs with TLAPS for every value of
the constants.

Check a run with `tlc -config MCOktun_stream.cfg MCOktun`, a proof with
`tlapm KcpLinkProofs.tla` (also `KcpProofs`, `KcpDeliveryProofs`, `KcpSerialProofs`,
`KcpTimersProofs`, `OktunProofs`, `TunnelProofs`, `BufferProofs`). `PROJECT.json`
lists the runs, the source lines each definition models, the hazards, the
findings and the theorems.

## The system

| component | state | operations | talks to |
|---|---|---|---|
| KCP engine (`thirdparties/kcp/ikcp.c`) | one control block per session and side: snd_queue, snd_buf, rcv_buf, rcv_queue, windows, acklist, timers | ikcp_create, send, input, recv, peeksize, update/flush, release | called by the two tunnel classes; output callback |
| TunnelClient (`src/oktun_client.cpp`) | `m_id_counter`; `m_clients`: id -> session and buffer | NewClient, RemoveClient, Write, Process, ForwardData2Client, ReadCB, UpdateCB, OutputCB | ProxyServer by callbacks; the server by UDP |
| ProxyServer (`src/oktun_proxy.cpp`) | `m_clients`: id -> socket and two buffers | Accept, RemoveClient, Write2Client, Write2Tunnel, ClientReadCB, ClientWriteCB | TunnelClient by calls; the PCs by TCP |
| TunnelServer (`src/oktun_server.cpp`) | per client address `m_tasks`: id -> session, target socket, buffers, IsClosing | Process, NewTask, RemoveTask, Write2Task, TaskReadCB, TaskWriteCB, UpdateCB, OutputCB | the client by UDP; the target by TCP |
| Buffer (`src/oktun_buffer.cpp`) | bytes up to a capacity | Commit, Remove, Resize, Grow | all of the above |
| programs (`client.cpp`, `server.cpp`), utilities, KCP's own test | - | start-up, logging, a test driver | - |

Each program is one thread of libevent callbacks, so a callback is atomic in
its program. Interleaving comes from the two programs, the UDP path and the TCP
peers. What makes the system hard:

* UDP loses, repeats and reorders; a refused `send` in an output callback counts
  as a loss, because `ikcp_flush` ignores the result.
* The two sides create and remove the ends of a session independently. The
  server learns of a session from its first datagram and is never told that a
  PC left; the client learns of the target's close from an empty message.
* Every buffer can fill up, and each callback has its own way of going on.
* Numbers and times have 32 bits and wrap; the time is the wall clock, which may
  be set while sessions are open.
* Every client program numbers its sessions from 1; the server tells them apart
  by address.
* Either program may end (SIGPIPE is not ignored; an iterator is used after its
  element was erased) and start again with nothing remembered.

What makes each part correct: the engine delivers every message once, whole, in
order and eventually; the client keeps its two maps in agreement; the server
owns each target connection through one task; together they connect each PC
with one target connection, keep the two byte streams intact, and close the
PC's connection after the last byte and not before.

## Modules

| module | what it is |
|---|---|
| `Kcp` | the engine as pure operators on a control block, one per entry point |
| `FifoLink` | abstract specification: two FIFO streams of messages |
| `KcpLink` | one session: two control blocks and the UDP path; refines `FifoLink` |
| `KcpProofs` | lemmas about the operators of `Kcp` (types, what each call changes, what it does to a stream of bytes) and about recursive functions |
| `KcpLinkProofs` | type correctness and in-order delivery of `KcpLink`, proved |
| `KcpDeliveryProofs` | the other safety invariants of `KcpLink`, and that it implements `FifoLink`, proved |
| `Wrap` | integers that wrap, and `_itimediff` |
| `KcpSerial` | the engine with wrapping sequence numbers and the lists of the code, in step with `KcpLink` |
| `KcpSerialProofs` | that those numbers and lists decide as the numbers and sets of `KcpLink` do, proved |
| `KcpTimers` | the timers and the rtt estimation of one control block against a clock that wraps and is set |
| `KcpTimersProofs` | `_itimediff` of wrapped numbers is their true difference; types and all bounds of `KcpTimers`; proved |
| `ByteQueue` | abstract specification: a bounded queue of bytes |
| `Buffer` | the class Buffer over raw memory; refines `ByteQueue` |
| `BufferProofs` | that refinement, proved |
| `TunnelClient` | the client program: TunnelClient and ProxyServer |
| `TunnelServer` | the server program |
| `Oktun` | client programs, the server, the UDP path, the PCs and the target |
| `Tunnel` | abstract specification: what the users of the tunnel see; refined by `Oktun` |
| `OktunProofs` | types of `Oktun`, the maps of the client and the connections of the server, proved |
| `TunnelProofs` | that `Oktun` with fresh ids implements `Tunnel`, that the close signal comes last and that sessions are one to one, proved |
| `MCKcpLink`, `MCKcpSerial`, `MCKcpTimers`, `MCOktun` | values of the constants for TLC |

### How the modules correspond to the code

`Kcp`. A control block is a record with the fields of `IKCPCB` that matter.
Segment lists ordered by sn are sets of numbered segments; the queues are
sequences. `KcpInput` handles one datagram, that is everything one
`ikcp_output` call sent; `KcpFlush` is the state change and `KcpOutput` the
datagrams of one `ikcp_flush`. Time is not modelled: which retransmission timers
and whether the window probe timer have expired are parameters (`due`,
`probeDue`), and so are whether the byte-counting half of congestion avoidance
opens the window (`grow`). Sequence numbers do not wrap. Where the output is cut
into datagrams is a parameter too (`cuts`): `ikcp_flush` starts another one where the
next command or segment does not fit, which depends on bytes. For segments any cut
is allowed. 58 commands fill a datagram, but acklist is a set here and forgets how
often a segment was acknowledged again, so any acknowledgements may be the
ones that go in datagrams of their own, at most `MaxFull` of them in one flush; WINS
may be what no longer fits as well.

`KcpSerial` closes the gap between those sets and numbers and the memory of the
code. `raw[p]` is a control block whose numbers are cut to `Mod` values and whose
snd_buf and rcv_buf are lists, with the loops of ikcp_parse_una,
ikcp_parse_ack, ikcp_parse_data and ikcp_flush over them: where each stops is
decided by `ITimeDiff`. It takes every step together with `kcp[p]` of `KcpLink`,
and `WrapInvisible` says that it remains the image of it. The path is assumed
not to keep a datagram while `Life` segments overtake it; with 32 bits that is
some 2^31 segments, in the run it is one. `SerialAssumption` says how small the
windows must be against `Mod`, which 32 and 128 against 2^32 are. Its bound on
twice the receive window is for the segments of one datagram: the first may fill
a gap and move the window on by RcvWnd before the second, which is now that far
behind, is compared with the new end of the window. TLC showed that it is
needed: with SndWnd 2, RcvWnd 3, Mod 6 and Life 0, and no datagram late, segment 2
is then taken for one ahead of the window and not acknowledged.

`KcpTimers` closes the gap left by `due` and `probeDue`. Its control block has
the fields that hold times, its `Update`, `Flush`, `ProbeTimer` and `UpdateAck` are
ikcp_update, ikcp_flush and ikcp_update_ack; which segments are sent,
acknowledged, and what window the peer tells, is any. `clock` is iClock() and
wraps; `SetClock` sets it once. True time is kept in variables that the program
does not read.

`Buffer` has the vector `data` and `written`. What lies behind `written` is kept,
as in memory, so that a byte that came back from there would show. Writing at
Tail() and Commit is one action, `Fill`, as in all callers.

`TunnelClient`. All client programs are this one module: `Clients` are their
addresses, and the key <<a, id>> stands for id in a map of the program at a.
`Accept` is Accept and NewClient, with the counter's first value
used twice as in the code, a counter that comes round after `IdMod` values and
an emplace that keeps what it has when all tries fail; `ClientRead`, `ClientEof`, `ClientWrite` and
`ClientWriteFails` are the socket callbacks; `ClientInput` is Process and
`ClientUpdate` one round of the loop in UpdateCB, both ending in `Forward`
(ForwardData2Client with the callbacks into ProxyServer). A session's buffer and
the proxy's write buffer are separate, so that a message that does not fit the
second stays in the first, as the code leaves it. When the close signal is
forwarded from UpdateCB the loop stands on an erased map element: the model lets
it go on or lets the program die.

`TunnelServer`. The key <<a, id>> of a task is the address it hears from and the
conversation id (`TaskKey`). `ServerInput` is Process with NewTask and Write2Task, which
receives at most one message; `ServerUpdate` is a round of UpdateCB, which
receives none; `TaskRead`, `TaskEof`, `TaskWrite` and `TaskWriteKills` are the
socket callbacks.

`Oktun` adds the path (`toServer`, `toClient`) and the environment: which PCs may
leave (`Leavers`), whether the target may close (`TargetStays`), how much is said.
Bytes are pairs <<speaker, n>>, so every history shows what was lost, repeated,
reordered or mixed. A client is bound to a fixed port as in the README's
example, so that the server knows it by one address after a restart too.

`Tunnel` is what a user sees of all this: connections of two sides that open, say
bytes, hear a prefix of what one connection of the other side said, fall silent
and are over. `Seen` in `Oktun` maps the PCs to one side and the target's
connections to the other; sessions, buffers, datagrams and restarts are
invisible. What `Tunnel` leaves out, the code does not give: that a connection
hears all of it, or that it is told of the other's end.

The code implements `Tunnel` on a condition that it does not see to itself.
`FreshIds` states it of a step, and `FreshSpec` is `Spec` with such steps only:

* an id is used for a new session when the server has no task with it and no
  datagram with it is under way;
* a task is made for a session that is already there (the server was started
  again, or has forgotten the task of a session that did not hear of its end)
  only while that session has received nothing of the old task and nothing
  of it is on the way.

Everything else remains: restarts of both programs (those of the client are in
the proof, but not in run fresh, where the target says nothing), PCs that leave, ids that
come round, datagrams that are lost, repeated and overtaken, tasks made again
for a session that has only spoken. What happens without the first half is run
reuse. Without the second, a PC hears the beginning of what one connection says
and then the end of what another does: the new task counts from 0, and the
session takes what continues its own count. TLC finds `ImplementsTunnel` violated
so under `Spec` with one PC, two target connections, one request and two
reply bytes and the other bounds of fresh.

`TypeOK` is the name of the type invariant of each module, and another one in each:
those of `KcpLink`, `Oktun` and `KcpTimers` are checked, and proved.

Operators introduced as slips are likely mistakes in the operator that
follows them. The specifications do not use them; put in the other's place, each
makes a property fail, which shows that the property can.

## Runs

| run | instance | shows |
|---|---|---|
| kcp_safety | one-way traffic of 3 segments; SndWnd 3 > RcvWnd 2; two datagrams of acknowledgements under way, and the acknowledgements of one flush may be cut in two | `NothingForgotten`, `ReceiverBounded`, `WholeMessages` |
| kcp_fifo | two messages of 2 segments; RcvWnd 3: the window closes with a message and a half in it | `TypeOK`, `InOrderDelivery`, `WholeMessages`, `ImplementsFifo`, `EventuallyRead` |
| serial | 7 segments through numbers that wrap after 6; two datagrams of data under way | `WrapInvisible` |
| timers | one segment at a time; the clock is about to wrap, and is set back a little, back a lot, or ahead | `TypeOK`, `FlushesGoOn`, `ResentInTime`, `ProbesGoOn`, `NotResentEarly` |
| stream | 1 PC that may leave, target may close, buffers of 1 byte, 2 reply bytes | `TypeOK`, `MapsAgree`, `SignalComesLast`, `ImplementsTunnel` |
| fresh | `FreshSpec`; 2 PCs, the same id for both, one may leave, target closes, the server restarts, 2 target connections, 2 request bytes | `TargetsHeld`, `ImplementsTunnel` |
| sessions | 2 PCs at one or two client programs, 2 target connections, one byte each way | `OneToOne` |
| live | 1 PC, 1 request byte, 3 reply bytes, room for all | `RequestArrives`, `ReplyArrives` |
| reuse | as sessions with one program, one PC may leave | violates `OneToOne` |
| request | 1 PC, 3 request bytes | violates `RequestArrives` |
| slow | 1 PC, ClientBuf 1, 2 reply bytes | violates `ReplyArrives` |
| close | 1 PC, target closes | violates `CloseArrives` |

Bounds. `MaxSent`, `MaxSaid` and `MaxReply` bound what is said, `MaxTargets` the
target connections, `MaxNet` the datagrams under way in one direction. Three
segments are enough for a gap, a retransmission, a sender that exceeds the
receiver's room on an overtaken wnd, and two segments in flight after the
congestion window has opened from 1 (the windows are 2 or 3, against 32 and 128 in
the code). They are not enough for a segment beyond the window, which the
receiver drops: `ReceiverBoundedCorrect` covers that. `MaxFull` is 1 in kcp_safety,
so that part of the acknowledgements of a flush can be lost or overtaken alone,
and 0 elsewhere. One datagram under way still allows loss and repetition; that
datagrams overtake each other needs two, which kcp_safety has in the direction of
the acknowledgements and serial in that of the data. Two PCs and two target
connections are the least with which sessions can be mixed up, two client
programs the least with which ids can be shared without reuse. `Mss` is one byte
and `Chunk` one. `Tries` is 2, which two PCs never use up, and 1 in fresh, where all
tries fail while the first PC is there; `MapsAgreeCorrect` covers every number. In
live, three replies are the least with which two messages reach the client in
one datagram, so that its UpdateCB has to forward the second.

A client program dies only while it has something to deliver, so only in runs
where the target replies. In stream it dies on a write to a PC that has gone
(`ClientWriteFails`) and in UpdateCB, with the task on the server or without it,
but the only PC does not connect again. That the maps agree when a client dies with
several sessions open, or gives an id again for which the server still has a
task, is `MapsAgreeCorrect`.

In serial, Mod = 6 is the least that the assumptions on `Life` and the windows
allow, so that any comparison they leave out would come out wrong; seven
segments take every number once round. In timers a unit of time is some 50 ms:
the durations keep their order (`Interval` < `Jump`, `RtoMin` <= `RtoDef` <=
`RtoMax`), not their ratios, `Mod` is twice what a timer may lie ahead or behind
(`Reach` and the largest setting), and the three settings of the clock are one
below `Jump`, one beyond `Jump` + `Gap`, and one ahead. `Echo` bounds how late an acknowledgement comes and `MaxXmit` how
often a segment is sent; a segment at that bound is still watched until it is
due. `Gap` is how late UpdateCB may run: the 20 ms timer plus the longest other
callback. A connect of the server that blocks (hazards) exceeds it, and then
everything in this module is as late as that.

In sessions deadlock is checked; in stream, fresh and close it is not,
because after the last disconnect nothing need happen any more. In stream there
is one PC, one target connection and room for both directions. In fresh there
are two of each, but nothing is said in the direction of the PCs (the close
signal comes that way), and one datagram at most is under way each way; `IdMod` 2
and `Tries` 1 give every session the id 1, so that a PC is refused while the
other is there, and what is left of the other's session is of the same id. Without
`FreshIds` the same instance violates `ImplementsTunnel`.

Fairness. `FairSpec` of both compositions says: a datagram under way is
delivered or lost, and again and again a timer tick finds the retransmission timers expired and gets its
whole output, as one datagram, through (strong fairness of the good tick: the 20 ms timer is re-armed
unconditionally by both UpdateCBs, and a path on which nothing ever arrives
owes nothing). That timers do expire is what `KcpTimers` shows, each segment's by itself; that all
of them are found expired by one tick is more than the code promises, and spares
the model an order among them. A socket event
with something to do is handled (weak fairness:
level-triggered persistent libevent events). In `KcpLink` the application reads
what is readable; in `Oktun` this is not assumed but modelled: the code's own
calls of ikcp_recv. PCs and the target are only assumed to read what they are
sent. Where ENABLED of an action is short it is written out, as TLC evaluates
the built-in form slowly. `KcpTimers` has no fairness: its properties are bounds
on time.

## Findings

The four violation runs show behaviour of the code that disagrees with its own
comments and README; PROJECT.json quotes the lines.

1. reuse: a new connection gets the id of one that just closed (`NewClient`
   hands out id 1 twice in a row), while the server still holds the old task. Two
   PCs then share a session's numbers and a target connection.
2. request: the server receives one message per datagram and none per tick, so
   the last part of a request can stay in rcv_queue for ever.
3. slow: a reply that finds a full buffer is not forwarded when there is room.
4. close: the close signal is sent once; if that datagram is lost, the PC's
   connection stays open.

One behaviour is stated in the properties rather than listed here, since nothing
promises otherwise: the clock is the wall clock, and setting it back by d delays
retransmissions and probes by d, however large d is. Only ts_flush has the
10-second rule that starts it afresh (`FlushesGoOn` against `ResentInTime`).

`RequestArrives` and `ReplyArrives` hold in live within the limits that avoid 2
and 3: a request of one message, and buffers that hold all replies.

## Proofs

`KcpLinkProofs` proves, for all windows, segment sizes, message sets and bounds:

* `TypeCorrect`: `Spec => []TypeOK`.
* `InOrderCorrect`: `Spec => []InOrderDelivery`. The property is not inductive:
  it does not say what is in the buffers and on the wire. The inductive
  invariant `StreamInv` adds that every copy of segment n, in snd_buf, in a datagram
  or in rcv_buf, is the n-th segment queued, that snd_queue is the rest of the
  stream from snd_nxt on, and that what was read followed by rcv_queue is the
  stream up to rcv_nxt. The proof goes call by call: lemmas in `KcpProofs` say
  what KcpSend, KcpInput, KcpFlush, KcpOutput and KcpRecv do to each of these
  sets, and that a call on the sending half leaves the receiving half alone.

`KcpDeliveryProofs` proves the other three safety invariants of `KcpLink`, for
the same constants:

* `NothingForgottenCorrect`: `Spec => []NothingForgotten`. The invariant `AckInv`
  adds that every acknowledgement is of something received: those in acklist, and
  the acks and una of every datagram under way, however old. It lasts because
  what a side has received only grows (`GotMoreKeeps`), so a stale, repeated or
  overtaken acknowledgement stays true.
* `ReceiverBoundedCorrect`: `Spec => []ReceiverBounded`. Inductive with the types
  (`BoundInv`). The hard call is ikcp_input of several PUSH segments, since each
  moves the window the next is compared with: `InsertReach` shows that all of
  them take rcv_nxt at least as far as those before any one of them, so a segment
  that was in the window when it was parsed is in the window at the end.
* `WholeMessagesCorrect`: `Spec => []WholeMessages`. `MessageInv` adds to
  `StreamInv` that the queued stream is made of whole messages, each of fewer
  than RcvWnd segments: a segment's frg is the number of segments of its message
  that follow it. So the first message of a full queue is all there, and
  the first frg of 0 is its end (`ReadsWhole`). ikcp_send's refusal is used here
  and nowhere else.

It also proves `ImplementsFifoCorrect`: `Spec => ImplementsFifo`, the
refinement of `FifoLink`. `StreamInv` and `MessageInv` speak of segments, `FifoLink` of
messages; between them is the recursive function that spells the messages of a
stream. Four facts connect the two: the queued segments spell the messages
written (`SendWrites`), a prefix of the stream that ends with a whole message
spells a prefix of them (`SpelledPrefix`), the segments of one message spell it
back (`FragmentsPayload`), and ikcp_recv stops at the end of the first one
(`FirstMessageStops`, `RecvReads`). So each read returns exactly the next message
written, however ikcp_send cut it and whatever datagrams it came in.

A recursive function is a CHOOSE, and induction over it is stated first-order
here: `Climb` is induction for the set of numbers with a property,
`RecursiveFunction` says that a function given by its first value and a step
exists. With them `SpelledUnfolds`, `PayloadUnfolds`, `QueuedUnfolds` and `CountType`
show what the functions of the model compute for every input.

`KcpSerialProofs` proves `WrapInvisibleCorrect`: `SerialSpec => []WrapInvisible`, for
every even `Mod`, all windows and lives of a datagram within `SerialAssumption`, all
segment sizes, messages and bounds, and any loss, repetition and reordering on
the path. `PlainDifference` and `TrueDifference` say when a signed difference is
the true one; `IsList` says that a list in memory enumerates a set of segments
upwards, with their numbers wrapped; and `Shows` that a control block in memory
is, field by field, what one of `Kcp` looks like there. Then one lemma per call:
if r shows k, what the code makes of r shows what `Kcp` makes of k (`SendShows`,
`FlushShows`, `InputShows`, `RecvShows`). Under them is one lemma per loop, that it
stops where the set operation cuts: `UnaShows` and `AckShows` on snd_buf, `DataShows`
for the place of an insertion, `AvailableShows` for the run that moves to rcv_queue,
`MoveShows` for the window of the sender. The hard part is again a datagram of several
segments: `Kcp` takes them as a set, of which each is compared with the window
as those with lower numbers leave it, the code one by one (`NextPushShows`, `PushesShow`).

Each of these lemmas asks that the numbers it compares are less than half of `Mod`
apart. That is not in `WrapInvisible`, and the inductive invariant `SerialInv` adds
what implies it: `InOrder`, that snd_una is the first segment that is not acknowledged
and snd_nxt at most a window ahead of it, the assumption on the path, and `StreamInv`,
`AckInv` and `BoundInv` of the session. `ArrivalInReach` draws the conclusion for a
datagram under way: an acknowledgement is of something sent and at most `Life` behind
snd_una, and a segment is at most `Life` behind rcv_nxt and less than SndWnd beyond the
receiver's window. The latter is a fact about both sides: the sender's snd_una cannot
be beyond the window of the receiver, since all below it was received (`Remembers`).

`OktunProofs` proves, for any number of PCs, target connections and datagrams,
all buffer sizes, chunks and windows:

* `MapsAgreeCorrect`: `Spec => []MapsAgree`. Strengthened by `ClientInv`: a PC with a
  proxy client is not one that has yet to connect, so that a new connection
  cannot give a PC two ids. Callbacks fall into four kinds (`SameClients`,
  `RemoveClientAgrees`, `ProgramDiesAgrees`, `AcceptAgrees`); `ForwardAgrees`
  covers ForwardData2Client from both of its callers.
* `TargetsHeldCorrect`: `Spec => []TargetsHeld`. Strengthened by `ServerInv`: the
  socket of a task is one of the connections made so far, so that the one
  NewTask makes belongs to no other task.

* `OktunTypeCorrect`: `Spec => []TypeOK`. What is under way makes tasks, so that
  the keys of tasks stay in range only if the ids of datagrams do: `ConvInv` says
  that a session and a task talk by the id they are kept under, and that a
  datagram carries an id that some counter can give. It further needs that both
  maps have the same keys, that the socket of a task is a connection and that
  there are no more than `MaxTargets` of them (`OktunInv`): then what is read from a
  socket are bytes. One lemma per callback says what it leaves well-formed.

The first two need no types of the data: their invariants say only which fields
the records have that the argument reads. Of the id counter they need nothing:
whatever id the tries end with, the two maps take it or refuse it together.

`TunnelProofs` proves `ImplementsTunnelCorrect`: `FreshSpec => ImplementsTunnel`, for
any number of client programs, PCs and target connections, all buffers, chunks
and windows, and any path. A step of the code is seen as a step of `Tunnel`
if what a socket takes is next of what one connection of the other side said.
The inductive invariant `TalkInv` says so of every place bytes can be in. It
consists, for each key, of the two directions `Up` and `Down` of its session,
and each direction is the same predicate, `Talk`, of six things: the sender's
and the receiver's control blocks, the datagrams under way, whom the sender's
side stands for, how much it has said into the session and whether it has said
that it ends, what each speaker has said so far and which are over, and what the
receiver's side has taken, in its buffers or beyond. Each that an end of the
session keeps is a set with one member or none, so that a session without a
task, a task without a session and datagrams without either are no cases of
their own. `Talk` says that there is a stream of segments such that

* the sender has numbered and queued just that stream, and its bytes are
  number 1 to n of one connection, n what it has said into the session; every
  segment has bytes, but for a last one without, and that only when the sender's
  side is closing: it is the close signal;
* every datagram and every segment held early is a copy from the stream;
* what the receiver's side has taken are the bytes of the segments that
  ikcp_recv returned, which with rcv_queue are the stream up to rcv_nxt.

`Carries` in `KcpProofs` is this without the speaker, and lemmas there (`CarriesSend`,
`CarriesFlush`, `CarriesInput`, `CarriesRecv`) keep it across every call of the
engine, whichever sets are empty. So `TalkInv` is not about one
pair of control blocks: what is left of a direction when one end goes is still
a direction (`TalkLess`), and a new session or task is the beginning of one
(`TalkFromNew`, `TalkToNew`); these two are where `FreshIds` is needed. One lemma per
callback shows that it keeps `TalkInv` (`AcceptTalk` to `TaskEofTalk`), another how
it is seen (`AcceptSeen` to `TaskWriteKillsStops`); `HearsNext` is the link, that
what a socket is given continues what it was given before. Buffers that hold
part of a message are covered since only the concatenation of history, write
buffer and session buffer is spoken of. Assumed beside `FreshIds`: the names
of PCs and of target connections differ (`OktunAssumption`), which is about the
model's names.

The condition came from TLC: with `Spec` in place of `FreshSpec` it finds both
ways of mixing two connections, by an id used again and by a task made again
for a session that has already heard.

* `SignalComesLastCorrect`: `FreshSpec => SignalComesLast`, an action property from
  `TalkInv`. A message without bytes is the last of its direction (`TalkEnd`), and
  only a connection of the target that has ended is given one; so when
  ForwardData2Client takes one, everything that was said before is out of the
  receive queue, and by `Talk` it is what was heard with the two buffers
  (`EmptyMessageIsLast`). Nothing else finishes a PC (`RoundFinishes`,
  `PcStepsFinishNone`).
* `OneToOneWhileFresh`: `FreshSpec => []OneToOne` if the target closes nothing. `TalkInv` alone
  does not do, for it forgets who spoke once a session is gone, while the
  histories that `OneToOne` compares remain. `OwnInv` adds a map `own` from each key
  that was ever used to the last PC that had it (`Owned`: no PC has had two), such that what comes up under a
  key is of its owner (`Speaking`), and what a PC has heard is from the
  task of a key it owns (`Talked`). So both kinds of `Joined` are told by a key
  (`JoinedByKey`), and a key has one owner and one task. That the target closes nothing is
  needed: when a task is done, a datagram repeated late makes another, and then
  two target connections hear the same PC, each what it should. That is no
  step against `Tunnel`, which promises of a connection that it hears one
  speaker, not that a speaker is heard by one.
* `OneToOneCorrect` and `ImplementsTunnelSteady`: `Spec => []OneToOne` and
  `Spec => ImplementsTunnel` if no PC leaves and the target closes nothing, as in run
  sessions. Then nothing need be assumed of ids: `SteadyInv` says that a session
  is there from the first datagram with its key on, and has heard nothing while
  it has no task; `FreshIds` follows from it (`SteadyFresh`). That no session is
  ever removed is `EmptyMessageIsLast` again: without an ended connection there is
  no close signal to act on.

`KcpTimersProofs` first proves `SignedDifferenceIsTrue`: for every even `Mod`, the signed
difference of two wrapped numbers is the true difference if that is at least
-Mod/2 and less than Mod/2. The bounds that `KcpTimers` puts on the durations are
there to stay within it; for the clock they say that it is not set by half of
2^32 ms, some 24 days.

It then proves every property of the timers run, for every `Mod`, all
durations, any setting of the clock within the assumptions and any order of
ticks, calls and acknowledgements:

* `FlushesGoOnCorrect`: `Spec => []FlushesGoOn`. The bound
  alone is not inductive, because it does not say where ts_flush is. `TimerInv` adds
  that ts_flush is some w ahead of the clock (modulo `Mod`), where w + silent
  never exceeds the interval and what the clock was set back, and w is positive
  after every ikcp_update that did not flush; so w falls as silent grows, and
  within `Reach` of zero, where signed differences are true. For a clock that was
  set back it adds that either ikcp_update has not run since, or w + silent is
  within the jump. The proof is why the bound has a second `Gap`: the clock may be
  set back just so far that the callback after it, when late, finds the timer no
  more than the jump ahead.
* `ResentInTimeCorrect`, `ProbesGoOnCorrect`: `Spec => []ResentInTime`, `Spec =>
  []ProbesGoOn`. A segment's timer and the probe timer are looked at only in a
  flush, so that both bounds rest on the one before. `OnTimeInv` says of each
  segment that is not acknowledged, and of the probe while the window is closed,
  how far ahead of the clock its timer is and that this and its age are together
  at most the timeout and what the clock was set back; `late` is that setting
  once it has happened, and 0 before.
* `NotResentEarlyCorrect`: `Spec => NotResentEarly`, an action property, from the
  same invariant.
* `TimersTypeCorrect`: `Spec => []TypeOK`. rx_rto stays between its bounds whatever
  round trips the echoes of stale acknowledgements tell.

A proof of `ProbesGoOn` that failed found a slip of the model: the two arms of
the CASE in `ProbeTimer` overlapped where the code has an if and its else.

`BufferProofs` proves `BufferIsQueue`: `Spec => ImplementsQueue`, for buffers of
any size. One lemma per operation (`FillPuts`, `RemoveTakes`, `ResizeSetsLimit`,
`ClearTakes`) shows that it maps to a step of `ByteQueue`; they rest on what
overwriting a piece of memory leaves (`OverwrittenBytes`). The module has no TLC
run: its `Next` ranges over all sizes and all contents, as the proof does. The
theorem is the reason why the modules of the programs may have a sequence with
a capacity where the code has a Buffer.

Assumed: the named ASSUMEs on constants (TLC evaluates them in the runs) and
nothing else; that the path is young (`PathIsYoung`) is part of `SerialSpec`. Only
model-checked: liveness (fairness and ENABLED are out of the prover's reach).
`OneToOne` does not hold for all constants (run reuse); the two theorems about it
say under which conditions it does.

## Plan

Done: all modules above, their runs and their proofs. What would come next:

1. The composition of `KcpSerial` and `KcpTimers`: one control block with both its
   lists and its times, so that `due` is computed rather than chosen.
2. The loss of the tail at a close, the second delivery of a request by a late
   datagram, and a client whose address changes, as properties of their own.

## Not modelled

Start-up (sockets, address resolution, options) and logging, which change no
state the loops read; failures of allocation and of accept; fast retransmit and
stream mode of KCP (never switched on by the tunnel); a client whose address
changes while its sessions are open; PCs that close only one direction; a
connect that blocks; datagrams that KCP did not write; KCP's own test program.
