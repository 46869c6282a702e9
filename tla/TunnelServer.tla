---------------------------- MODULE TunnelServer ----------------------------
(***************************************************************************)
(* The program oktun_server: for each conversation id it hears of, a task  *)
(* with a KCP session and a connection to the target.  One thread of       *)
(* libevent callbacks, each of them an action here.                        *)
(*                                                                         *)
(* The tasks of all addresses are kept in one map: the key <<a, id>>       *)
(* stands for id in m_tasks of the TunnelServer::Client of the address a.  *)
(* m_clients itself, which only grows, shows in nothing else.              *)
(*                                                                         *)
(* Abstracted: the target's bytes are read by the callback that finds      *)
(* them; buf[0] of a task is empty between callbacks.                      *)
(***************************************************************************)
EXTENDS Kcp, Functions

CONSTANT
    TaskBuf  \* 8192: the capacity of a task's buffers

ASSUME ServerAssumption ==
    /\ TaskBuf \in Nat \ {0}
    /\ TaskBuf <= Mss * (RcvWnd - 1)  \* ikcp_send never refuses what was read

VARIABLES
    tasks,   \* Client::m_tasks: <<a, id>> |-> [kcp, sock, closing, buf]
    targets  \* the connections accepted by the target, in order

serverVars == <<tasks, targets>>

(* sock is the index in targets of the connection the task holds.          *)
Task == [kcp : ControlBlock, sock : Nat, closing : BOOLEAN, buf : Seq(Data)]

(* ended: the target has closed its end; closed: so has the server.        *)
Target == [state : {"open", "ended", "closed"}, said : Nat, heard : Seq(Data)]

ServerInit ==
    /\ tasks = <<>>
    /\ targets = <<>>

----------------------------------------------------------------------------
(* From the tunnel to the target.                                          *)

Connected == [state |-> "open", said |-> 0, heard |-> <<>>]

(* Slip: one connection to the target serves every task.                   *)
TaskOfSharedSocket(key) ==
    IF key \in DOMAIN tasks THEN tasks[key]
    ELSE [kcp |-> KcpCreate(key[2]), sock |-> 1, closing |-> FALSE, buf |-> <<>>]

(* NewTask, when Process meets an id that the address has no task for.     *)
TaskOf(key) ==
    IF key \in DOMAIN tasks THEN tasks[key]
    ELSE [kcp |-> KcpCreate(key[2]), sock |-> Len(targets) + 1,
          closing |-> FALSE, buf |-> <<>>]

(* Write2Task receives one message, if one is whole and fits.              *)
Write2Task(t, d, grow) ==
    LET k   == KcpInput(t.kcp, d, grow)
        msg == Payload(FirstMessage(k))
    IN  IF KcpReceivable(k, TaskBuf - Len(t.buf))
        THEN [t EXCEPT !.kcp = KcpRecv(k), !.buf = @ \o msg]
        ELSE [t EXCEPT !.kcp = k]

(* Process looks up m_clients by address, then m_tasks by id.              *)
TaskKey(a, d) == <<a, d.conv>>

(* ReadCB and Process.                                                     *)
ServerInput(a, d, grow) ==
    LET new == TaskKey(a, d) IN
    /\ tasks' = [key \in DOMAIN tasks \cup {new} |->
                    IF key = new THEN Write2Task(TaskOf(new), d, grow)
                    ELSE tasks[key]]
    /\ targets' = IF new \in DOMAIN tasks THEN targets
                  ELSE Append(targets, Connected)

(* One round of the loop in UpdateCB; see ClientUpdate.                    *)
ServerUpdate(key, due) ==
    /\ tasks' = [tasks EXCEPT ![key].kcp = KcpFlush(@, due)]
    /\ UNCHANGED targets

(* TaskWriteCB: the target's socket takes n bytes.                         *)
TaskWrite(key, n) ==
    LET t == tasks[key] IN
    /\ n \in 1 .. Len(t.buf)
    /\ tasks' = [tasks EXCEPT ![key].buf = SubSeq(@, n + 1, Len(@))]
    /\ targets' = [targets EXCEPT ![t.sock].heard = @ \o SubSeq(t.buf, 1, n)]

(* TaskWriteCB once the target has closed its end altogether: a later send *)
(* raises SIGPIPE, which the program does not ignore.  It is started again *)
(* and nothing of it is persistent.  (While send only fails, the callback  *)
(* returns with its event armed and changes nothing.)                      *)
TaskWriteKills(key) ==
    /\ targets[tasks[key].sock].state = "ended"
    /\ tasks[key].buf # <<>>
    /\ tasks' = <<>>
    /\ targets' = [k \in DOMAIN targets |-> [targets[k] EXCEPT !.state = "closed"]]

----------------------------------------------------------------------------
(* From the target to the tunnel.                                          *)

(* TaskReadCB with n bytes read.                                           *)
TaskRead(key, n) ==
    LET k == tasks[key].sock
        said == targets[k].said
    IN
    /\ targets[k].state = "open"
    /\ n \in 1 .. TaskBuf
    /\ tasks' = [tasks EXCEPT ![key].kcp =
                    KcpSend(@, [i \in 1 .. n |-> <<k, said + i>>])]
    /\ targets' = [targets EXCEPT ![k].said = @ + n]

TargetEnds(k) ==
    /\ targets[k].state = "open"
    /\ targets' = [targets EXCEPT ![k].state = "ended"]
    /\ UNCHANGED tasks

(* TaskReadCB with recv returning 0: the close signal, an empty message,   *)
(* is queued; once snd_queue is empty the task goes, and its session with  *)
(* whatever has not been acknowledged (RemoveTask and ~Task).              *)
TaskEof(key) ==
    LET t == tasks[key] IN
    /\ targets[t.sock].state = "ended"
    /\ \/ /\ ~ t.closing
          /\ tasks' = [tasks EXCEPT ![key].closing = TRUE,
                                    ![key].kcp = KcpSend(@, <<>>)]
          /\ UNCHANGED targets
       \/ /\ t.closing /\ t.kcp.snd_queue = <<>>
          /\ tasks' = Restrict(tasks, DOMAIN tasks \ {key})
          /\ targets' = [targets EXCEPT ![t.sock].state = "closed"]
============================================================================
