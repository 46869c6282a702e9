---------------------------- MODULE OktunProofs ----------------------------
(* Theorems about the two programs, for every number of PCs and of target  *)
(* connections, every buffer size, chunk and window.                       *)
EXTENDS Oktun, KcpProofs

----------------------------------------------------------------------------
(* The client program.                                                     *)

(* MapsAgree is not inductive: a connection that is accepted must be one   *)
(* that no proxy client has, and removing one must not disturb the others. *)
ClientInv ==
    /\ MapsAgree
    /\ DOMAIN pcs = Pcs
    /\ \A c \in Pcs : "state" \in DOMAIN pcs[c]
    /\ \A key \in DOMAIN proxies :
          /\ "pc" \in DOMAIN proxies[key]
          /\ proxies[key].pc \in Pcs
          /\ pcs[proxies[key].pc].state # "absent"

(* A callback that neither adds nor removes a proxy client, and at most    *)
(* sees a PC go.                                                           *)
LEMMA SameClients ==
    ASSUME ClientInv,
           DOMAIN sessions' = DOMAIN sessions,
           DOMAIN proxies' = DOMAIN proxies,
           \A key \in DOMAIN proxies :
              "pc" \in DOMAIN proxies'[key] /\ proxies'[key].pc = proxies[key].pc,
           DOMAIN pcs' = Pcs,
           \A c \in Pcs :
              /\ "state" \in DOMAIN pcs'[c]
              /\ pcs'[c].state = pcs[c].state \/ pcs'[c].state = "gone"
    PROVE  ClientInv'
  BY DEF ClientInv, MapsAgree

(* RemoveClient takes one key out of both maps and leaves the other PCs     *)
(* alone, because no two proxy clients have the same one.                  *)
LEMMA RemoveClientAgrees ==
    ASSUME ClientInv, NEW key \in DOMAIN proxies, NEW state,
           state \in {"gone", "finished"}, RemoveClient(key, state)
    PROVE  ClientInv'
  <1>1. /\ DOMAIN sessions' = DOMAIN sessions \ {key}
        /\ DOMAIN proxies' = DOMAIN proxies \ {key}
        /\ \A i \in DOMAIN proxies' : proxies'[i] = proxies[i]
    BY DEF RemoveClient, Restrict
  <1>2. /\ DOMAIN pcs' = Pcs
        /\ \A c \in Pcs : "state" \in DOMAIN pcs'[c]
        /\ \A c \in Pcs \ {proxies[key].pc} : pcs'[c].state = pcs[c].state
        /\ pcs'[proxies[key].pc].state = state
    BY DEF RemoveClient, ClientInv
  <1>. QED
    BY <1>1, <1>2 DEF ClientInv, MapsAgree

(* Nothing of the program is left in either map, and every PC it served    *)
(* lost its connection; those of the other programs keep theirs.           *)
LEMMA ProgramDiesAgrees ==
    ASSUME ClientInv, NEW a, ProgramDies(a)
    PROVE  ClientInv'
  <1>1. /\ DOMAIN sessions' = {key \in DOMAIN sessions : key[1] # a}
        /\ DOMAIN proxies' = {key \in DOMAIN proxies : key[1] # a}
        /\ \A key \in DOMAIN proxies' : proxies'[key] = proxies[key]
    BY DEF ProgramDies, Without, Restrict
  <1>2. /\ DOMAIN pcs' = Pcs
        /\ \A c \in Pcs :
              /\ "state" \in DOMAIN pcs'[c]
              /\ pcs'[c].state = pcs[c].state \/ pcs'[c].state = "dropped"
              /\ pcs'[c].state = "open" =>
                    /\ pcs[c].state = "open"
                    /\ \A key \in DOMAIN proxies : key[1] = a => proxies[key].pc # c
    BY DEF ProgramDies, ClientInv
  <1>3. \A c \in Pcs : pcs'[c].state = "open" =>
           \E key \in DOMAIN proxies' : proxies'[key].pc = c
    BY <1>1, <1>2 DEF ClientInv, MapsAgree
  <1>. QED
    BY <1>1, <1>2, <1>3 DEF ClientInv, MapsAgree

(* A new connection gets an entry in both maps, or, when its key is taken,  *)
(* in neither.                                                             *)
LEMMA AcceptAgrees ==
    ASSUME ClientInv, NEW a, NEW c \in Pcs, Accept(a, c)
    PROVE  ClientInv'
  <1>. DEFINE key == Candidate(a, TriesUsed(a))
  <1>1. /\ DOMAIN sessions' = DOMAIN sessions \cup {key}
        /\ DOMAIN proxies' = DOMAIN proxies \cup {key}
        /\ \A i \in DOMAIN proxies : proxies'[i] = proxies[i]
        /\ key \notin DOMAIN proxies => proxies'[key] = [pc |-> c, buf |-> <<>>]
    BY DEF Accept, Emplace
  <1>2. /\ DOMAIN pcs' = Pcs
        /\ \A e \in Pcs : "state" \in DOMAIN pcs'[e]
        /\ \A e \in Pcs \ {c} : pcs'[e].state = pcs[e].state
        /\ pcs'[c].state = IF key \in DOMAIN proxies THEN "dropped" ELSE "open"
    BY DEF Accept, ClientInv
  <1>3. \A i \in DOMAIN proxies : proxies[i].pc # c
    BY DEF Accept, ClientInv
  <1>. HIDE DEF key
  <1>4. CASE key \in DOMAIN proxies
    BY <1>1, <1>2, <1>3, <1>4 DEF ClientInv, MapsAgree
  <1>5. CASE key \notin DOMAIN proxies
    BY <1>1, <1>2, <1>3, <1>5 DEF ClientInv, MapsAgree
  <1>. QED
    BY <1>4, <1>5

(* ForwardData2Client, from whichever callback: it moves bytes between     *)
(* buffers, or removes the client on the close signal.                     *)
LEMMA ForwardAgrees ==
    ASSUME ClientInv, NEW key \in DOMAIN sessions, NEW k, Forward(key, k)
    PROVE  ClientInv'
  <1>1. key \in DOMAIN proxies
    BY DEF ClientInv, MapsAgree
  <1>2. CASE RemoveClient(key, "finished")
    BY <1>1, <1>2, RemoveClientAgrees
  <1>3. CASE /\ DOMAIN sessions' = DOMAIN sessions
             /\ \/ UNCHANGED proxies
                \/ \E b : proxies' = [proxies EXCEPT ![key].buf = b]
             /\ UNCHANGED pcs
    <2>1. /\ DOMAIN proxies' = DOMAIN proxies
          /\ \A i \in DOMAIN proxies :
                "pc" \in DOMAIN proxies'[i] /\ proxies'[i].pc = proxies[i].pc
      BY <1>1, <1>3 DEF ClientInv
    <2>. QED
      BY <1>3, <2>1, SameClients DEF ClientInv
  <1>. QED
    BY <1>2, <1>3 DEF Forward

(* Init has no client, no proxy client and only absent PCs.                *)
LEMMA ClientInvInit ==
    ASSUME Init
    PROVE  ClientInv
  BY DEF Init, ClientInit, ClientInv, MapsAgree

(* Every callback of the client program, and everything else, keeps it.    *)
LEMMA ClientInvStep ==
    ASSUME ClientInv, [Next]_vars
    PROVE  ClientInv'
  <1>1. CASE UNCHANGED clientVars
    BY <1>1, SameClients DEF clientVars, ClientInv
  <1>2. ASSUME NEW a \in Clients, NEW c \in Pcs, Accept(a, c)
        PROVE  ClientInv'
    BY <1>2, AcceptAgrees
  <1>3. ASSUME NEW c \in Leavers, PcLeaves(c)
        PROVE  ClientInv'
    <2>1. c \in Pcs
      BY OktunAssumption
    <2>2. /\ DOMAIN pcs' = Pcs
          /\ \A e \in Pcs : /\ "state" \in DOMAIN pcs'[e]
                            /\ pcs'[e].state = pcs[e].state \/ pcs'[e].state = "gone"
      BY <1>3, <2>1 DEF PcLeaves, ClientInv
    <2>. QED
      BY <1>3, <2>2, SameClients DEF PcLeaves, ClientInv
  <1>4. ASSUME NEW key \in DOMAIN proxies, NEW n, ClientRead(key, n)
        PROVE  ClientInv'
    <2>1. /\ DOMAIN pcs' = Pcs
          /\ \A e \in Pcs : "state" \in DOMAIN pcs'[e] /\ pcs'[e].state = pcs[e].state
      BY <1>4 DEF ClientRead, ClientInv
    <2>2. DOMAIN sessions' = DOMAIN sessions /\ proxies' = proxies
      BY <1>4 DEF ClientRead
    <2>. QED
      BY <2>1, <2>2, SameClients DEF ClientInv
  <1>5. ASSUME NEW key \in DOMAIN proxies, NEW n, ClientWrite(key, n)
        PROVE  ClientInv'
    <2>1. /\ DOMAIN pcs' = Pcs
          /\ \A e \in Pcs : "state" \in DOMAIN pcs'[e] /\ pcs'[e].state = pcs[e].state
      BY <1>5 DEF ClientWrite, ClientInv
    <2>2. /\ sessions' = sessions
          /\ DOMAIN proxies' = DOMAIN proxies
          /\ \A i \in DOMAIN proxies :
                "pc" \in DOMAIN proxies'[i] /\ proxies'[i].pc = proxies[i].pc
      BY <1>5 DEF ClientWrite, ClientInv
    <2>. QED
      BY <2>1, <2>2, SameClients
  <1>6. ASSUME NEW key \in DOMAIN proxies, ClientEof(key)
        PROVE  ClientInv'
    BY <1>6, RemoveClientAgrees DEF ClientEof
  <1>7. ASSUME NEW key \in DOMAIN proxies, ClientWriteFails(key)
        PROVE  ClientInv'
    <2>1. CASE ProgramDies(key[1])
      BY <2>1, ProgramDiesAgrees
    <2>2. CASE /\ proxies' = [proxies EXCEPT ![key].buf = <<>>]
               /\ UNCHANGED <<counter, sessions, pcs>>
      <3>1. /\ DOMAIN proxies' = DOMAIN proxies
            /\ \A i \in DOMAIN proxies :
                  "pc" \in DOMAIN proxies'[i] /\ proxies'[i].pc = proxies[i].pc
        BY <2>2 DEF ClientInv
      <3>. QED
        BY <2>2, <3>1, SameClients DEF ClientInv
    <2>. QED
      BY <1>7, <2>1, <2>2 DEF ClientWriteFails
  <1>8. ASSUME NEW key \in DOMAIN sessions, NEW flushes, NEW due,
               ClientUpdate(key, flushes, due)
        PROVE  ClientInv'
    BY <1>8, ForwardAgrees, ProgramDiesAgrees DEF ClientUpdate
  <1>9. ASSUME NEW a, NEW d, NEW grow, ClientInput(a, d, grow)
        PROVE  ClientInv'
    BY <1>1, <1>9, ForwardAgrees DEF ClientInput
  <1>. QED
    <2>1. CASE PcSteps
      BY <2>1, <1>2, <1>3, <1>4, <1>5, <1>6, <1>7, Zenon DEF PcSteps
    <2>2. CASE \E key \in DOMAIN sessions : ClientTick(key)
      BY <2>2, <1>8, Zenon DEF ClientTick
    <2>3. CASE \E p \in toClient, grow \in BOOLEAN, dup \in BOOLEAN :
                  ClientHears(p[1], p[2], grow, dup)
      BY <2>3, <1>9, Zenon DEF ClientHears
    <2>. QED
      BY <1>1, <2>1, <2>2, <2>3 DEF Next, vars, clientVars

(* The two maps of the client program always hold the same ids, one per    *)
(* connected PC, however often ids are reused, connections refused, PCs    *)
(* leave, close signals arrive and the program dies.                       *)
THEOREM MapsAgreeCorrect == Spec => []MapsAgree
  <1>1. Init => ClientInv
    BY ClientInvInit
  <1>2. ClientInv /\ [Next]_vars => ClientInv'
    BY ClientInvStep
  <1>3. ClientInv => MapsAgree
    BY DEF ClientInv
  <1>. QED
    BY <1>1, <1>2, <1>3, PTL DEF Spec

----------------------------------------------------------------------------
(* The server program.                                                     *)

(* A function on 1 .. n is a sequence.                                     *)
LEMMA FunctionIsSeq ==
    ASSUME NEW n \in Nat, NEW f, DOMAIN f = 1 .. n, f = [k \in 1 .. n |-> f[k]]
    PROVE  f \in Seq(Range(f)) /\ Len(f) = n
  <1>1. f \in [1 .. n -> Range(f)]
    BY DEF Range
  <1>. QED
    BY <1>1, SeqDef

(* TargetsHeld needs that every task's socket is one of the connections,   *)
(* so that the connection of a new task is nobody else's.                  *)
ServerInv ==
    /\ TargetsHeld
    /\ targets \in Seq(Range(targets))
    /\ \A k \in DOMAIN targets : "state" \in DOMAIN targets[k]
    /\ \A key \in DOMAIN tasks :
          "sock" \in DOMAIN tasks[key] /\ tasks[key].sock \in DOMAIN targets

(* A callback that neither adds nor removes a task and closes no           *)
(* connection.                                                             *)
LEMMA SameTasks ==
    ASSUME ServerInv,
           DOMAIN tasks' = DOMAIN tasks,
           \A key \in DOMAIN tasks :
              "sock" \in DOMAIN tasks'[key] /\ tasks'[key].sock = tasks[key].sock,
           targets' \in Seq(Range(targets')),
           DOMAIN targets' = DOMAIN targets,
           \A k \in DOMAIN targets :
              /\ "state" \in DOMAIN targets'[k]
              /\ targets'[k].state = "closed" <=> targets[k].state = "closed"
    PROVE  ServerInv'
  BY DEF ServerInv, TargetsHeld

(* One connection's record changes.                                        *)
LEMMA TargetChanges ==
    ASSUME ServerInv, NEW k \in DOMAIN targets, NEW r,
           targets' = [targets EXCEPT ![k] = r]
    PROVE  /\ targets' \in Seq(Range(targets'))
           /\ DOMAIN targets' = DOMAIN targets
           /\ \A j \in DOMAIN targets \ {k} : targets'[j] = targets[j]
           /\ targets'[k] = r
  <1>1. PICK n \in Nat : DOMAIN targets = 1 .. n
    BY DEF ServerInv
  <1>2. DOMAIN targets' = 1 .. n /\ targets' = [j \in 1 .. n |-> targets'[j]]
    BY <1>1
  <1>3. targets' \in Seq(Range(targets'))
    BY <1>2, FunctionIsSeq
  <1>. QED
    BY <1>3

(* Whatever a datagram brings, a task keeps its socket.                    *)
LEMMA Write2TaskKeepsSock ==
    ASSUME NEW t, NEW d, NEW grow, "sock" \in DOMAIN t
    PROVE  /\ "sock" \in DOMAIN Write2Task(t, d, grow)
           /\ Write2Task(t, d, grow).sock = t.sock
  BY DEF Write2Task

(* NewTask makes the connection that the new task holds.                   *)
LEMMA ServerInputHeld ==
    ASSUME ServerInv, NEW a, NEW d, NEW grow, ServerInput(a, d, grow)
    PROVE  ServerInv'
  <1>. DEFINE key == TaskKey(a, d)
  <1>1. /\ DOMAIN tasks' = DOMAIN tasks \cup {key}
        /\ \A i \in DOMAIN tasks \ {key} : tasks'[i] = tasks[i]
        /\ tasks'[key] = Write2Task(TaskOf(key), d, grow)
    BY DEF ServerInput
  <1>2. CASE key \in DOMAIN tasks
    <2>1. TaskOf(key) = tasks[key] /\ targets' = targets
      BY <1>2 DEF TaskOf, ServerInput
    <2>2. \A i \in DOMAIN tasks :
              "sock" \in DOMAIN tasks'[i] /\ tasks'[i].sock = tasks[i].sock
      BY <1>1, <2>1, Write2TaskKeepsSock DEF ServerInv
    <2>. QED
      BY <1>1, <1>2, <2>1, <2>2, SameTasks DEF ServerInv
  <1>3. CASE key \notin DOMAIN tasks
    <2>. DEFINE n == Len(targets)
    <2>1. n \in Nat /\ DOMAIN targets = 1 .. n
      BY DEF ServerInv
    <2>2. "sock" \in DOMAIN TaskOf(key) /\ TaskOf(key).sock = n + 1
      BY <1>3 DEF TaskOf
    <2>3. "sock" \in DOMAIN tasks'[key] /\ tasks'[key].sock = n + 1
      BY <1>1, <2>2, Write2TaskKeepsSock
    <2>4. targets' = Append(targets, Connected)
      BY <1>3 DEF ServerInput
    <2>5. /\ targets' \in Seq(Range(targets) \cup {Connected})
          /\ DOMAIN targets' = 1 .. n + 1
          /\ \A k \in 1 .. n : targets'[k] = targets[k]
          /\ targets'[n + 1] = Connected
      BY <2>1, <2>4 DEF ServerInv
    <2>6. targets' \in Seq(Range(targets'))
      BY <2>1, <2>5, FunctionIsSeq
    <2>7. "state" \in DOMAIN Connected /\ Connected.state = "open"
      BY DEF Connected
    <2>. HIDE DEF n, key
    <2>8. \A i \in DOMAIN tasks : tasks[i].sock \in 1 .. n
      BY <2>1 DEF ServerInv
    <2>9. \A i \in DOMAIN tasks' :
              "sock" \in DOMAIN tasks'[i] /\ tasks'[i].sock \in 1 .. n + 1
      BY <1>1, <2>1, <2>3, <2>8 DEF ServerInv
    <2>10. \A i, j \in DOMAIN tasks' : tasks'[i].sock = tasks'[j].sock => i = j
      BY <1>1, <2>1, <2>3, <2>8 DEF ServerInv, TargetsHeld
    <2>11. \A k \in 1 .. n + 1 : "state" \in DOMAIN targets'[k]
      BY <2>1, <2>5, <2>7 DEF ServerInv
    <2>12. \A k \in 1 .. n + 1 :
              targets'[k].state # "closed"
                <=> \E i \in DOMAIN tasks' : tasks'[i].sock = k
      <3>1. \A k \in 1 .. n :
              targets'[k].state # "closed"
                <=> \E i \in DOMAIN tasks' : tasks'[i].sock = k
        BY <1>1, <1>3, <2>1, <2>3, <2>5 DEF ServerInv, TargetsHeld
      <3>2. targets'[n + 1].state # "closed"
              /\ \E i \in DOMAIN tasks' : tasks'[i].sock = n + 1
        BY <1>1, <2>3, <2>5, <2>7
      <3>. QED
        BY <2>1, <3>1, <3>2
    <2>. QED
      BY <2>5, <2>6, <2>9, <2>10, <2>11, <2>12 DEF ServerInv, TargetsHeld
  <1>. QED
    BY <1>2, <1>3

(* Init has no task and no connection.                                     *)
LEMMA ServerInvInit ==
    ASSUME Init
    PROVE  ServerInv
  <1>1. tasks = <<>> /\ targets = <<>>
    BY DEF Init, ServerInit
  <1>2. targets \in Seq(Range(targets))
    BY <1>1
  <1>. QED
    BY <1>1, <1>2 DEF ServerInv, TargetsHeld

(* Every callback of the server program, and everything else, keeps it.    *)
LEMMA ServerInvStep ==
    ASSUME ServerInv, [Next]_vars
    PROVE  ServerInv'
  <1>1. CASE UNCHANGED serverVars
    BY <1>1, SameTasks DEF serverVars, ServerInv
  <1>2. ASSUME NEW k \in DOMAIN targets, TargetEnds(k)
        PROVE  ServerInv'
    <2>. DEFINE r == [targets[k] EXCEPT !.state = "ended"]
    <2>1. targets' = [targets EXCEPT ![k] = r] /\ tasks' = tasks
      BY <1>2 DEF TargetEnds
    <2>2. "state" \in DOMAIN r /\ r.state = "ended" /\ targets[k].state = "open"
      BY <1>2 DEF TargetEnds, ServerInv
    <2>3. \A j \in DOMAIN targets :
             /\ "state" \in DOMAIN targets'[j]
             /\ targets'[j].state = "closed" <=> targets[j].state = "closed"
      BY <2>1, <2>2 DEF ServerInv
    <2>. QED
      BY <2>1, <2>3, TargetChanges, SameTasks DEF ServerInv
  <1>3. ASSUME NEW key \in DOMAIN tasks, NEW n, TaskRead(key, n)
        PROVE  ServerInv'
    <2>. DEFINE k == tasks[key].sock
                r == [targets[k] EXCEPT !.said = @ + n]
    <2>1. k \in DOMAIN targets
      BY DEF ServerInv
    <2>2. targets' = [targets EXCEPT ![k] = r]
      BY <1>3 DEF TaskRead
    <2>3. "state" \in DOMAIN r /\ r.state = targets[k].state
      BY <2>1 DEF ServerInv
    <2>4. \A j \in DOMAIN targets :
             /\ "state" \in DOMAIN targets'[j]
             /\ targets'[j].state = "closed" <=> targets[j].state = "closed"
      BY <2>1, <2>2, <2>3 DEF ServerInv
    <2>5. /\ DOMAIN tasks' = DOMAIN tasks
          /\ \A i \in DOMAIN tasks :
                "sock" \in DOMAIN tasks'[i] /\ tasks'[i].sock = tasks[i].sock
      BY <1>3 DEF TaskRead, ServerInv
    <2>. QED
      BY <2>1, <2>2, <2>4, <2>5, TargetChanges, SameTasks
  <1>4. ASSUME NEW key \in DOMAIN tasks, NEW n, TaskWrite(key, n)
        PROVE  ServerInv'
    <2>. DEFINE k == tasks[key].sock
                r == [targets[k] EXCEPT !.heard = @ \o SubSeq(tasks[key].buf, 1, n)]
    <2>1. k \in DOMAIN targets
      BY DEF ServerInv
    <2>2. targets' = [targets EXCEPT ![k] = r]
      BY <1>4 DEF TaskWrite
    <2>3. "state" \in DOMAIN r /\ r.state = targets[k].state
      BY <2>1 DEF ServerInv
    <2>4. \A j \in DOMAIN targets :
             /\ "state" \in DOMAIN targets'[j]
             /\ targets'[j].state = "closed" <=> targets[j].state = "closed"
      BY <2>1, <2>2, <2>3 DEF ServerInv
    <2>5. /\ DOMAIN tasks' = DOMAIN tasks
          /\ \A i \in DOMAIN tasks :
                "sock" \in DOMAIN tasks'[i] /\ tasks'[i].sock = tasks[i].sock
      BY <1>4 DEF TaskWrite, ServerInv
    <2>. QED
      BY <2>1, <2>2, <2>4, <2>5, TargetChanges, SameTasks
  <1>5. ASSUME NEW key \in DOMAIN tasks, TaskEof(key)
        PROVE  ServerInv'
    <2>. DEFINE k == tasks[key].sock
                r == [targets[k] EXCEPT !.state = "closed"]
    <2>1. k \in DOMAIN targets
      BY DEF ServerInv
    <2>2. CASE /\ DOMAIN tasks' = DOMAIN tasks
               /\ \A i \in DOMAIN tasks :
                     "sock" \in DOMAIN tasks'[i] /\ tasks'[i].sock = tasks[i].sock
               /\ UNCHANGED targets
      BY <2>2, SameTasks DEF ServerInv
    <2>3. CASE /\ tasks' = Restrict(tasks, DOMAIN tasks \ {key})
               /\ targets' = [targets EXCEPT ![k] = r]
      <3>1. /\ DOMAIN tasks' = DOMAIN tasks \ {key}
            /\ \A i \in DOMAIN tasks \ {key} : tasks'[i] = tasks[i]
        BY <2>3 DEF Restrict
      <3>2. "state" \in DOMAIN r /\ r.state = "closed"
        BY <2>1 DEF ServerInv
      <3>3. /\ targets' \in Seq(Range(targets'))
            /\ DOMAIN targets' = DOMAIN targets
            /\ \A j \in DOMAIN targets \ {k} : targets'[j] = targets[j]
            /\ targets'[k] = r
        BY <2>1, <2>3, TargetChanges
      <3>. QED
        BY <2>1, <3>1, <3>2, <3>3 DEF ServerInv, TargetsHeld
    <2>. QED
      BY <1>5, <2>2, <2>3 DEF TaskEof, ServerInv
  <1>6. ASSUME NEW key \in DOMAIN tasks, TaskWriteKills(key)
        PROVE  ServerInv'
    <2>1. DOMAIN tasks' = {}
      BY <1>6 DEF TaskWriteKills
    <2>2. PICK n \in Nat : DOMAIN targets = 1 .. n
      BY DEF ServerInv
    <2>3. DOMAIN targets' = 1 .. n /\ targets' = [k \in 1 .. n |-> targets'[k]]
      BY <1>6, <2>2 DEF TaskWriteKills
    <2>4. targets' \in Seq(Range(targets'))
      BY <2>3, FunctionIsSeq
    <2>5. \A k \in 1 .. n : "state" \in DOMAIN targets'[k] /\ targets'[k].state = "closed"
      BY <1>6, <2>2 DEF TaskWriteKills, ServerInv
    <2>. QED
      BY <2>1, <2>3, <2>4, <2>5 DEF ServerInv, TargetsHeld
  <1>7. ASSUME NEW key \in DOMAIN tasks, NEW due, ServerUpdate(key, due)
        PROVE  ServerInv'
    <2>1. /\ DOMAIN tasks' = DOMAIN tasks
          /\ \A i \in DOMAIN tasks :
                "sock" \in DOMAIN tasks'[i] /\ tasks'[i].sock = tasks[i].sock
          /\ targets' = targets
      BY <1>7 DEF ServerUpdate, ServerInv
    <2>. QED
      BY <2>1, SameTasks DEF ServerInv
  <1>. QED
    <2>1. CASE TargetSteps
      BY <2>1, <1>2, <1>3, <1>4, <1>5, <1>6, Zenon DEF TargetSteps
    <2>2. CASE \E key \in DOMAIN tasks : ServerTick(key)
      BY <2>2, <1>7, Zenon DEF ServerTick
    <2>3. CASE \E p \in toServer, grow \in BOOLEAN, dup \in BOOLEAN :
                  ServerHears(p[1], p[2], grow, dup)
      BY <2>3, <1>1, ServerInputHeld, Zenon DEF ServerHears
    <2>. QED
      BY <1>1, <2>1, <2>2, <2>3 DEF Next, vars, serverVars

(* Each connection to the target that is not closed belongs to exactly one *)
(* task, and each task has one that is not closed: through close signals,  *)
(* late and repeated datagrams that make a task again, and restarts.       *)
THEOREM TargetsHeldCorrect == Spec => []TargetsHeld
  <1>1. Init => ServerInv
    BY ServerInvInit
  <1>2. ServerInv /\ [Next]_vars => ServerInv'
    BY ServerInvStep
  <1>3. ServerInv => TargetsHeld
    BY DEF ServerInv
  <1>. QED
    BY <1>1, <1>2, <1>3, PTL DEF Spec

----------------------------------------------------------------------------
(* Type correctness.                                                       *)

(* A counter never leaves its range, however many ids are tried.           *)
LEMMA CountType ==
    ASSUME counter \in [Clients -> 0 .. IdMod - 1], NEW a \in Clients, NEW n \in Nat
    PROVE  Count(a, n) \in 0 .. IdMod - 1
  <1>1. PICK T : T = 0 .. IdMod - 1
    OBVIOUS
  <1>2. \A x \in T : CountAfter(x) \in T
    BY <1>1, ClientAssumption DEF CountAfter
  <1>. DEFINE Unrolls(f) ==
                  f = [i \in 0 .. n |-> IF i = 0 THEN counter[a] ELSE CountAfter(f[i - 1])]
              step == [i \in 1 .. n |-> [x \in T |-> CountAfter(x)]]
  <1>3. step \in Steps(n, T) /\ counter[a] \in T
    BY <1>1, <1>2 DEF Steps
  <1>4. PICK f : Takes(f, n, T, counter[a], step)
    <2>. HIDE DEF step
    <2>. QED
      BY <1>3, RecursiveFunction
  <1>5. ASSUME NEW i \in 0 .. n
        PROVE  f[i] = IF i = 0 THEN counter[a] ELSE CountAfter(f[i - 1])
    <2>1. CASE i = 0
      BY <1>4, <2>1 DEF Takes
    <2>2. CASE i # 0
      <3>1. i \in 1 .. n
        BY <2>2
      <3>2. f[i] = step[i][f[i - 1]] /\ f[i - 1] \in T
        BY <1>4, <3>1 DEF Takes
      <3>. QED
        BY <2>2, <3>1, <3>2
    <2>. QED
      BY <2>1, <2>2
  <1>6. Unrolls(f)
    <2>1. f = [i \in 0 .. n |-> f[i]]
      BY <1>4 DEF Takes
    <2>. QED
      BY <1>5, <2>1, Zenon
  <1>7. PICK after : after = CHOOSE g : Unrolls(g)
    OBVIOUS
  <1>8. after = [i \in 0 .. n |->
                   IF i = 0 THEN counter[a] ELSE CountAfter(after[i - 1])]
    BY <1>6, <1>7, Zenon
  <1>9. Count(a, n) = after[n]
    BY <1>7, Zenon DEF Count
  <1>. DEFINE S == {i \in 0 .. n : after[i] \in T}
  <1>10. 0 \in S
    BY <1>3, <1>8
  <1>11. ASSUME NEW i \in 1 .. n, i - 1 \in S
         PROVE  i \in S
    <2>1. after[i] = CountAfter(after[i - 1])
      BY <1>8
    <2>. QED
      BY <1>2, <1>11, <2>1
  <1>12. n \in S
    <2>. HIDE DEF S
    <2>1. \A i \in 1 .. n : i - 1 \in S => i \in S
      BY <1>11
    <2>2. \A i \in 0 .. n : i \in S
      BY <1>10, <2>1, Climb
    <2>. QED
      BY <2>2
  <1>. QED
    BY <1>1, <1>9, <1>12

(* The key a new connection gets is one of the program's keys.             *)
LEMMA CandidateType ==
    ASSUME counter \in [Clients -> 0 .. IdMod - 1], NEW a \in Clients
    PROVE  /\ TriesUsed(a) \in 1 .. Tries
           /\ Candidate(a, TriesUsed(a)) \in Keys
           /\ Candidate(a, TriesUsed(a))[1] = a
  <1>. DEFINE S == {i \in 1 .. Tries : i = Tries \/ Candidate(a, i) \notin DOMAIN sessions}
  <1>1. S \in SUBSET Nat /\ Tries \in S
    BY ClientAssumption
  <1>2. Least(S) \in S
    BY <1>1, LeastIsLeast
  <1>3. PICK n \in 1 .. Tries : n = TriesUsed(a)
    BY <1>2 DEF TriesUsed
  <1>4. n - 1 \in Nat
    OBVIOUS
  <1>5. Count(a, n - 1) \in 0 .. IdMod - 1
    BY <1>4, CountType
  <1>6. IdTried(Count(a, n - 1)) \in 1 .. IdMod - 1
    BY <1>5, ClientAssumption DEF IdTried, Greater
  <1>. QED
    BY <1>3, <1>6 DEF Candidate, Keys

(* How many pieces TunnelClient::Write makes of so many bytes.             *)
PieceCount(bytes) == (Len(bytes) + Chunk - 1) \div Chunk

(* f takes the control blocks that ikcp_send leaves behind piece by piece. *)
SendsPieces(f, k, bytes) ==
    /\ f \in [0 .. PieceCount(bytes) -> ControlBlock]
    /\ f[0] = k
    /\ \A i \in 1 .. PieceCount(bytes) :
          f[i] = KcpSend(f[i - 1], SubSeq(bytes, (i - 1) * Chunk + 1,
                                          Lesser(i * Chunk, Len(bytes))))

(* Queued is the last of the values that the function in it takes.         *)
LEMMA QueuedUnfolds ==
    ASSUME NEW k \in ControlBlock, NEW bytes \in Seq(Data)
    PROVE  \E f : SendsPieces(f, k, bytes) /\ Queued(k, bytes) = f[PieceCount(bytes)]
  <1>1. PICK n \in Nat : n = PieceCount(bytes)
    BY ClientAssumption DEF PieceCount
  <1>2. PICK piece \in [1 .. n -> Seq(Data)] :
          \A i \in 1 .. n :
             piece[i] = SubSeq(bytes, (i - 1) * Chunk + 1, Lesser(i * Chunk, Len(bytes)))
    <2>1. ASSUME NEW i \in 1 .. n
          PROVE  SubSeq(bytes, (i - 1) * Chunk + 1, Lesser(i * Chunk, Len(bytes)))
                   \in Seq(Data)
      <3>1. PICK from \in Nat, to \in Nat :
              from = (i - 1) * Chunk + 1 /\ to = i * Chunk /\ from > 0
        BY ClientAssumption
      <3>2. PICK last \in 0 .. Len(bytes) : last = Lesser(to, Len(bytes))
        BY DEF Lesser
      <3>3. SubSeq(bytes, from, last) \in Seq(Data)
        BY <3>1
      <3>. QED
        BY <3>1, <3>2, <3>3
    <2>2. PICK piece : piece =
            [i \in 1 .. n |->
               SubSeq(bytes, (i - 1) * Chunk + 1, Lesser(i * Chunk, Len(bytes)))]
      OBVIOUS
    <2>3. \A i \in 1 .. n :
             piece[i] = SubSeq(bytes, (i - 1) * Chunk + 1, Lesser(i * Chunk, Len(bytes)))
      BY <2>2, Zenon
    <2>4. \A i \in 1 .. n : piece[i] \in Seq(Data)
      BY <2>1, <2>3, Zenon
    <2>5. piece \in [1 .. n -> Seq(Data)]
      BY <2>2, <2>4
    <2>. QED
      BY <2>3, <2>5, Zenon
  <1>. DEFINE step == [i \in 1 .. n |-> [x \in ControlBlock |-> KcpSend(x, piece[i])]]
  <1>3. step \in Steps(n, ControlBlock)
    BY KcpSendType DEF Steps
  <1>4. PICK f : Takes(f, n, ControlBlock, k, step)
    <2>. HIDE DEF step
    <2>. QED
      BY <1>3, RecursiveFunction
  <1>5. /\ f \in [0 .. n -> ControlBlock]
        /\ f[0] = k
    BY <1>4 DEF Takes
  <1>6. ASSUME NEW i \in 1 .. n
        PROVE  f[i] = KcpSend(f[i - 1], piece[i])
    <2>1. f[i] = step[i][f[i - 1]]
      BY <1>4 DEF Takes
    <2>2. f[i - 1] \in ControlBlock
      BY <1>5
    <2>. QED
      BY <2>1, <2>2
  <1>. DEFINE Unrolls(g) ==
                  g = [i \in 0 .. PieceCount(bytes) |->
                         IF i = 0 THEN k
                         ELSE KcpSend(g[i - 1],
                                      SubSeq(bytes, (i - 1) * Chunk + 1,
                                             Lesser(i * Chunk, Len(bytes))))]
  <1>7. ASSUME NEW i \in 0 .. n
        PROVE  f[i] = IF i = 0 THEN k
                      ELSE KcpSend(f[i - 1],
                                   SubSeq(bytes, (i - 1) * Chunk + 1,
                                          Lesser(i * Chunk, Len(bytes))))
    <2>1. CASE i = 0
      BY <1>5, <2>1
    <2>2. CASE i # 0
      <3>1. i \in 1 .. n
        BY <2>2
      <3>. QED
        BY <1>2, <1>6, <2>2, <3>1, Zenon
    <2>. QED
      BY <2>1, <2>2
  <1>8. Unrolls(f)
    <2>1. f = [i \in 0 .. n |-> f[i]]
      BY <1>5
    <2>2. f = [i \in 0 .. n |->
                 IF i = 0 THEN k
                 ELSE KcpSend(f[i - 1],
                              SubSeq(bytes, (i - 1) * Chunk + 1,
                                     Lesser(i * Chunk, Len(bytes))))]
      BY <1>7, <2>1, Zenon
    <2>. QED
      BY <1>1, <2>2, Zenon
  <1>9. PICK upTo : upTo = CHOOSE g : Unrolls(g)
    OBVIOUS
  <1>10. Unrolls(upTo)
    BY <1>8, <1>9, Zenon
  <1>11. Queued(k, bytes) = upTo[n]
    BY <1>1, <1>9, Zenon DEF Queued, PieceCount
  <1>12. 0 \in 0 .. n /\ \A i \in 1 .. n : i \in 0 .. n /\ i # 0
    OBVIOUS
  <1>13. upTo[0] = k
    BY <1>1, <1>10, <1>12, Zenon
  <1>14. ASSUME NEW i \in 1 .. n
         PROVE  upTo[i] = KcpSend(upTo[i - 1], piece[i])
    BY <1>1, <1>2, <1>10, <1>12, Zenon
  <1>. DEFINE S == {i \in 0 .. n : upTo[i] = f[i]}
  <1>15. \A i \in 0 .. n : i \in S
    <2>1. 0 \in S
      BY <1>5, <1>12, <1>13, Zenon
    <2>2. ASSUME NEW i \in 1 .. n, i - 1 \in S
          PROVE  i \in S
      BY <1>6, <1>12, <1>14, <2>2, Zenon
    <2>. HIDE DEF S
    <2>3. \A i \in 1 .. n : i - 1 \in S => i \in S
      BY <2>2
    <2>. QED
      BY <2>1, <2>3, Climb
  <1>16. upTo[n] = f[n]
    BY <1>15
  <1>17. SendsPieces(f, k, bytes)
    BY <1>1, <1>2, <1>5, <1>6, Zenon DEF SendsPieces
  <1>. QED
    <2>1. Queued(k, bytes) = f[n]
      BY <1>11, <1>16
    <2>2. Queued(k, bytes) = f[PieceCount(bytes)]
      BY <1>1, <2>1
    <2>. HIDE DEF step, Unrolls, S
    <2>. QED
      BY <1>17, <2>2, Zenon

(* The control block stays well-formed, and that of the session.           *)
LEMMA QueuedType ==
    ASSUME NEW k \in ControlBlock, NEW bytes \in Seq(Data)
    PROVE  Queued(k, bytes) \in ControlBlock /\ Queued(k, bytes).conv = k.conv
  <1>1. PICK n \in Nat : n = PieceCount(bytes)
    BY ClientAssumption DEF PieceCount
  <1>2. PICK f : SendsPieces(f, k, bytes) /\ Queued(k, bytes) = f[PieceCount(bytes)]
    BY QueuedUnfolds
  <1>3. f \in [0 .. n -> ControlBlock] /\ f[0] = k /\ Queued(k, bytes) = f[n]
    BY <1>1, <1>2 DEF SendsPieces
  <1>. DEFINE S == {i \in 0 .. n : f[i].conv = k.conv}
  <1>4. 0 \in S
    BY <1>3
  <1>5. ASSUME NEW i \in 1 .. n, i - 1 \in S
        PROVE  i \in S
    <2>1. f[i - 1] \in ControlBlock /\ f[i - 1].conv = k.conv
      BY <1>3, <1>5
    <2>2. PICK msg : f[i] = KcpSend(f[i - 1], msg)
      BY <1>1, <1>2 DEF SendsPieces
    <2>3. f[i].conv = k.conv
      BY <2>1, <2>2, CallsKeepConv
    <2>. QED
      BY <2>3
  <1>6. n \in S
    <2>. HIDE DEF S
    <2>1. \A i \in 1 .. n : i - 1 \in S => i \in S
      BY <1>5
    <2>2. \A i \in 0 .. n : i \in S
      BY <1>4, <2>1, Climb
    <2>. QED
      BY <2>2
  <1>. QED
    BY <1>3, <1>6

(* What a speaker says are bytes.                                          *)
LEMMA BytesType ==
    ASSUME NEW speaker, NEW from \in Nat, NEW n \in Nat, NEW limit \in Nat,
           from + n <= limit, {speaker} \X (1 .. limit) \subseteq Data
    PROVE  Bytes(speaker, from, n) \in Seq(Data) /\ Len(Bytes(speaker, from, n)) = n
  <1>1. ASSUME NEW i \in 1 .. n
        PROVE  <<speaker, from + i>> \in Data
    <2>1. from + i \in 1 .. limit
      OBVIOUS
    <2>. QED
      BY <2>1
  <1>. QED
    BY <1>1 DEF Bytes

(* A session and a task talk by the id they are kept under, and what is    *)
(* under way carries an id of a session.                                   *)
ConvInv ==
    /\ \A key \in DOMAIN sessions : sessions[key].kcp.conv = key[2]
    /\ \A key \in DOMAIN tasks : tasks[key].kcp.conv = key[2]
    /\ \A p \in toServer \cup toClient : p[2].conv \in 1 .. IdMod - 1

(* TypeOK needs the keys of the two maps to be the same, the ids in the    *)
(* datagrams to be those of the keys, for a datagram makes a task; every   *)
(* task's socket to be a connection, and the number of those to stay       *)
(* bounded: then what a target says are bytes.                             *)
OktunInv ==
    /\ TypeOK
    /\ ConvInv
    /\ ClientInv
    /\ ServerInv
    /\ Len(targets) <= MaxTargets

(* The parts of TypeOK and ConvInv that the client program and its PCs     *)
(* change.                                                                 *)
ClientType ==
    /\ counter \in [Clients -> 0 .. IdMod - 1]
    /\ DOMAIN sessions \subseteq Keys
    /\ \A key \in DOMAIN sessions :
          sessions[key] \in Session /\ sessions[key].kcp.conv = key[2]
    /\ DOMAIN proxies \subseteq Keys
    /\ \A key \in DOMAIN proxies : proxies[key] \in Proxy
    /\ pcs \in [Pcs -> Pc]

(* The parts that the server program and the target change.                *)
ServerType ==
    /\ DOMAIN tasks \subseteq Keys
    /\ \A key \in DOMAIN tasks : tasks[key] \in Task /\ tasks[key].kcp.conv = key[2]
    /\ targets \in Seq(Target)
    /\ Len(targets) <= MaxTargets

(* The parts that the path changes.                                        *)
NetType ==
    /\ toServer \subseteq Clients \X Datagram
    /\ toClient \subseteq Clients \X Datagram
    /\ \A p \in toServer \cup toClient : p[2].conv \in 1 .. IdMod - 1

(* TypeOK is the sum of its parts.                                         *)
LEMMA TypeParts ==
    TypeOK /\ ConvInv /\ Len(targets) <= MaxTargets
        <=> ClientType /\ ServerType /\ NetType
  <1>1. ASSUME NEW f, NEW T
        PROVE  Range(f) \subseteq T <=> \A x \in DOMAIN f : f[x] \in T
    BY DEF Range
  <1>2. Range(sessions) \subseteq Session
          <=> \A key \in DOMAIN sessions : sessions[key] \in Session
    BY <1>1
  <1>3. Range(proxies) \subseteq Proxy
          <=> \A key \in DOMAIN proxies : proxies[key] \in Proxy
    BY <1>1
  <1>4. Range(tasks) \subseteq Task <=> \A key \in DOMAIN tasks : tasks[key] \in Task
    BY <1>1
  <1>. QED
    BY <1>2, <1>3, <1>4, Zenon DEF TypeOK, ConvInv, ClientType, ServerType, NetType

(* RemoveClient leaves every other entry as it was.                        *)
LEMMA RemoveClientType ==
    ASSUME ClientType, NEW key \in DOMAIN proxies, NEW state,
           state \in {"gone", "finished"}, RemoveClient(key, state)
    PROVE  ClientType'
  <1>1. /\ DOMAIN sessions' \subseteq DOMAIN sessions
        /\ DOMAIN proxies' \subseteq DOMAIN proxies
        /\ \A i \in DOMAIN sessions' : sessions'[i] = sessions[i]
        /\ \A i \in DOMAIN proxies' : proxies'[i] = proxies[i]
    BY DEF RemoveClient, Restrict
  <1>2. counter' = counter
    BY DEF RemoveClient
  <1>3. PICK c \in Pcs : c = proxies[key].pc
    BY DEF ClientType, Proxy
  <1>4. [pcs[c] EXCEPT !.state = state] \in Pc
    BY DEF ClientType, Pc
  <1>5. pcs' = [pcs EXCEPT ![c] = [pcs[c] EXCEPT !.state = state]]
    BY <1>3 DEF RemoveClient
  <1>6. pcs' \in [Pcs -> Pc]
    BY <1>4, <1>5 DEF ClientType
  <1>. QED
    BY <1>1, <1>2, <1>6 DEF ClientType

(* ProgramDies removes entries and drops PCs.                              *)
LEMMA ProgramDiesType ==
    ASSUME ClientType, NEW a, ProgramDies(a)
    PROVE  ClientType'
  <1>1. /\ DOMAIN sessions' \subseteq DOMAIN sessions
        /\ DOMAIN proxies' \subseteq DOMAIN proxies
        /\ \A i \in DOMAIN sessions' : sessions'[i] = sessions[i]
        /\ \A i \in DOMAIN proxies' : proxies'[i] = proxies[i]
    BY DEF ProgramDies, Without, Restrict
  <1>2. counter' \in [Clients -> 0 .. IdMod - 1]
    <2>1. PICK T : T = 0 .. IdMod - 1
      OBVIOUS
    <2>2. 0 \in T
      BY <2>1, ClientAssumption
    <2>3. counter \in [Clients -> T] /\ counter' = [counter EXCEPT ![a] = 0]
      BY <2>1 DEF ProgramDies, ClientType
    <2>4. counter' \in [Clients -> T]
      BY <2>2, <2>3
    <2>. QED
      BY <2>1, <2>4
  <1>3. \A c \in Pcs : [pcs[c] EXCEPT !.state = "dropped"] \in Pc
    BY DEF ClientType, Pc
  <1>4. \A c \in Pcs : pcs[c] \in Pc
    BY DEF ClientType
  <1>5. DOMAIN pcs' = Pcs /\ pcs' = [c \in Pcs |-> pcs'[c]]
    BY DEF ProgramDies
  <1>6. \A c \in Pcs : pcs'[c] \in Pc
    BY <1>3, <1>4 DEF ProgramDies
  <1>7. pcs' \in [Pcs -> Pc]
    BY <1>5, <1>6
  <1>. QED
    BY <1>1, <1>2, <1>7 DEF ClientType

(* Accept adds well-formed entries, or none.                               *)
LEMMA AcceptType ==
    ASSUME ClientType, NEW a \in Clients, NEW c \in Pcs, Accept(a, c)
    PROVE  ClientType'
  <1>1. counter \in [Clients -> 0 .. IdMod - 1]
    BY DEF ClientType
  <1>2. PICK key \in Keys : key = Candidate(a, TriesUsed(a))
    BY <1>1, CandidateType
  <1>3. KcpCreate(key[2]) \in ControlBlock
    <2>1. key[2] \in Nat
      BY ClientAssumption DEF Keys
    <2>. QED
      BY <2>1, KcpCreateType
  <1>4. PICK session \in Session :
           /\ session = [kcp |-> KcpCreate(key[2]), buf |-> <<>>]
           /\ session.kcp.conv = key[2]
    <2>1. [kcp |-> KcpCreate(key[2]), buf |-> <<>>] \in Session
      BY <1>3 DEF Session
    <2>2. [kcp |-> KcpCreate(key[2]), buf |-> <<>>].kcp.conv = key[2]
      BY DEF KcpCreate
    <2>. QED
      BY <2>1, <2>2, Zenon
  <1>5. PICK proxy \in Proxy : proxy = [pc |-> c, buf |-> <<>>]
    <2>1. [pc |-> c, buf |-> <<>>] \in Proxy
      BY DEF Proxy
    <2>. QED
      BY <2>1, Zenon
  <1>6. /\ sessions' = Emplace(sessions, key, session)
        /\ proxies' = Emplace(proxies, key, proxy)
    BY <1>2, <1>4, <1>5, Zenon DEF Accept
  <1>7. DOMAIN sessions' \subseteq Keys
          /\ \A i \in DOMAIN sessions' :
                sessions'[i] \in Session /\ sessions'[i].kcp.conv = i[2]
    BY <1>4, <1>6 DEF Emplace, ClientType
  <1>8. DOMAIN proxies' \subseteq Keys
          /\ \A i \in DOMAIN proxies' : proxies'[i] \in Proxy
    BY <1>6 DEF Emplace, ClientType
  <1>9. counter' \in [Clients -> 0 .. IdMod - 1]
    <2>1. TriesUsed(a) \in Nat
      BY <1>1, CandidateType
    <2>2. Count(a, TriesUsed(a)) \in 0 .. IdMod - 1
      BY <1>1, <2>1, CountType
    <2>3. counter' = [counter EXCEPT ![a] = Count(a, TriesUsed(a))]
      BY DEF Accept
    <2>. QED
      BY <1>1, <2>2, <2>3
  <1>10. pcs' \in [Pcs -> Pc]
    <2>1. PICK state \in {"dropped", "open"} : pcs' = [pcs EXCEPT ![c].state = state]
      BY DEF Accept
    <2>2. [pcs[c] EXCEPT !.state = state] \in Pc
      BY DEF ClientType, Pc
    <2>3. pcs' = [pcs EXCEPT ![c] = [pcs[c] EXCEPT !.state = state]]
      BY <2>1
    <2>. QED
      BY <2>2, <2>3 DEF ClientType
  <1>. QED
    BY <1>7, <1>8, <1>9, <1>10 DEF ClientType

(* Writing one field of an entry.                                          *)
LEMMA EntryUpdates ==
    /\ \A s \in Session : \A kcp :
          [s EXCEPT !.kcp = kcp] = [kcp |-> kcp, buf |-> s.buf]
    /\ \A p \in Proxy : \A buf :
          [p EXCEPT !.buf = buf] = [pc |-> p.pc, buf |-> buf]
  BY DEF Session, Proxy

(* ForwardData2Client leaves well-formed buffers.                          *)
LEMMA ForwardType ==
    ASSUME ClientType, DOMAIN sessions = DOMAIN proxies,
           NEW key \in DOMAIN sessions, NEW k \in ControlBlock, k.conv = key[2],
           Forward(key, k)
    PROVE  ClientType'
  <1>1. PICK s \in Session, p \in Proxy : s = sessions[key] /\ p = proxies[key]
    BY DEF ClientType
  <1>2. /\ s.buf \in Seq(Data) /\ s.kcp \in ControlBlock
        /\ p.buf \in Seq(Data) /\ p.pc \in Pcs
        /\ s = [kcp |-> s.kcp, buf |-> s.buf]
        /\ p = [pc |-> p.pc, buf |-> p.buf]
    BY DEF Session, Proxy
  <1>3. ASSUME NEW kcp \in ControlBlock, NEW buf \in Seq(Data),
               kcp.conv = key[2], counter' = counter, pcs' = pcs,
               sessions' = [sessions EXCEPT ![key] = [kcp |-> kcp, buf |-> buf]],
               DOMAIN proxies' = DOMAIN proxies,
               \A i \in DOMAIN proxies : proxies'[i] \in Proxy
        PROVE  ClientType'
    <2>1. [kcp |-> kcp, buf |-> buf] \in Session
      BY <1>2 DEF Session
    <2>2. DOMAIN sessions' = DOMAIN sessions
      BY <1>3
    <2>3. \A i \in DOMAIN sessions :
             sessions'[i] \in Session /\ sessions'[i].kcp.conv = i[2]
      <3>1. sessions'[key] = [kcp |-> kcp, buf |-> buf]
              /\ \A i \in DOMAIN sessions \ {key} : sessions'[i] = sessions[i]
        BY <1>3
      <3>2. sessions'[key].kcp = kcp
        BY <3>1
      <3>. QED
        BY <1>3, <2>1, <3>1, <3>2 DEF ClientType
    <2>. QED
      BY <1>3, <2>2, <2>3 DEF ClientType
  <1>4. UNCHANGED proxies => /\ DOMAIN proxies' = DOMAIN proxies
                             /\ \A i \in DOMAIN proxies : proxies'[i] \in Proxy
    BY DEF ClientType
  <1>5. CASE /\ sessions' = [sessions EXCEPT ![key].kcp = k]
             /\ UNCHANGED <<counter, proxies, pcs>>
    <2>1. sessions' = [sessions EXCEPT ![key] = [s EXCEPT !.kcp = k]]
      BY <1>1, <1>5
    <2>2. sessions' = [sessions EXCEPT ![key] = [kcp |-> k, buf |-> s.buf]]
      BY <2>1, EntryUpdates
    <2>. QED
      BY <1>2, <1>3, <1>4, <1>5, <2>2
  <1>6. CASE RemoveClient(key, "finished")
    BY <1>6, RemoveClientType
  <1>7. PICK msg, all : msg = Payload(FirstMessage(k)) /\ all = s.buf \o msg
    OBVIOUS
  <1>8. ASSUME KcpReceivable(k, ClientBuf - Len(s.buf))
        PROVE  /\ KcpRecv(k) \in ControlBlock
               /\ KcpRecv(k).conv = key[2]
               /\ msg \in Seq(Data)
               /\ all \in Seq(Data)
    <2>1. k.rcv_queue # <<>>
      BY <1>8 DEF KcpReceivable, KcpReadable
    <2>2. /\ KcpRecv(k) \in ControlBlock
          /\ KcpRecv(k).conv = k.conv
          /\ FirstMessage(k) \in Seq(Segment)
      BY <2>1, KcpRecvType, FirstMessageType, CallsKeepConv
    <2>3. msg \in Seq(Data)
      BY <1>7, <2>2, PayloadType
    <2>4. s.buf \o msg \in Seq(Data)
      BY <1>2, <2>3
    <2>. QED
      BY <1>7, <2>2, <2>3, <2>4
  <1>9. CASE /\ KcpReceivable(k, ClientBuf - Len(s.buf))
             /\ sessions' = [sessions EXCEPT
                   ![key] = [kcp |-> KcpRecv(k), buf |-> SubSeq(all, Len(msg) + 1, Len(all))]]
             /\ proxies' = [proxies EXCEPT ![key].buf = @ \o SubSeq(all, 1, Len(msg))]
             /\ UNCHANGED <<counter, pcs>>
    <2>1. /\ KcpRecv(k) \in ControlBlock /\ KcpRecv(k).conv = key[2]
          /\ msg \in Seq(Data) /\ all \in Seq(Data)
      BY <1>8, <1>9
    <2>2. PICK rest \in Seq(Data), first \in Seq(Data) :
            rest = SubSeq(all, Len(msg) + 1, Len(all)) /\ first = SubSeq(all, 1, Len(msg))
      <3>1. SubSeq(all, Len(msg) + 1, Len(all)) \in Seq(Data)
        BY <2>1
      <3>2. Len(msg) <= Len(all)
        BY <1>2, <1>7, <2>1
      <3>3. SubSeq(all, 1, Len(msg)) \in Seq(Data)
        BY <2>1, <3>2
      <3>. QED
        BY <3>1, <3>3, Zenon
    <2>3. p.buf \o first \in Seq(Data)
      BY <1>2
    <2>4. /\ DOMAIN proxies' = DOMAIN proxies
          /\ \A i \in DOMAIN proxies : proxies'[i] \in Proxy
      <3>1. PICK out \in Seq(Data) : out = p.buf \o first
        BY <2>3, Zenon
      <3>2. proxies' = [proxies EXCEPT ![key] = [p EXCEPT !.buf = out]]
        BY <1>1, <1>9, <2>2, <3>1
      <3>3. [p EXCEPT !.buf = out] \in Proxy
        BY <1>2 DEF Proxy
      <3>. QED
        BY <3>2, <3>3 DEF ClientType
    <2>5. sessions' = [sessions EXCEPT ![key] = [kcp |-> KcpRecv(k), buf |-> rest]]
      BY <1>9, <2>2
    <2>. QED
      BY <1>3, <1>9, <2>1, <2>2, <2>4, <2>5
  <1>10. CASE /\ KcpReceivable(k, ClientBuf - Len(s.buf))
              /\ sessions' = [sessions EXCEPT ![key] = [kcp |-> KcpRecv(k), buf |-> all]]
              /\ UNCHANGED <<counter, proxies, pcs>>
    <2>1. KcpRecv(k) \in ControlBlock /\ KcpRecv(k).conv = key[2] /\ all \in Seq(Data)
      BY <1>8, <1>10
    <2>. QED
      BY <1>3, <1>4, <1>10, <2>1
  <1>. QED
    BY <1>1, <1>5, <1>6, <1>7, <1>9, <1>10, Zenon DEF Forward

(* ClientReadCB: what the PC says are bytes.                               *)
LEMMA ClientReadType ==
    ASSUME ClientType, DOMAIN sessions = DOMAIN proxies, NEW key \in DOMAIN proxies,
           NEW n \in 1 .. MaxSaid - pcs[proxies[key].pc].said, ClientRead(key, n)
    PROVE  ClientType'
  <1>1. PICK s \in Session, p \in Proxy : s = sessions[key] /\ p = proxies[key]
    BY DEF ClientType
  <1>2. PICK c \in Pcs : c = p.pc
    BY DEF Proxy
  <1>3. PICK said \in Nat : said = pcs[c].said
    BY DEF ClientType, Pc
  <1>4. MaxSaid \in Nat /\ {c} \X (1 .. MaxSaid) \subseteq Data
    BY OktunAssumption
  <1>5. n \in Nat /\ said + n <= MaxSaid
    BY <1>1, <1>2, <1>3, <1>4
  <1>6. Bytes(c, said, n) \in Seq(Data)
    BY <1>4, <1>5, BytesType
  <1>7. s.kcp \in ControlBlock /\ s.buf \in Seq(Data)
          /\ s = [kcp |-> s.kcp, buf |-> s.buf]
    BY DEF Session
  <1>8. PICK kcp \in ControlBlock :
          kcp = Queued(s.kcp, Bytes(c, said, n)) /\ kcp.conv = s.kcp.conv
    BY <1>6, <1>7, QueuedType
  <1>9. sessions' = [sessions EXCEPT ![key] = [kcp |-> kcp, buf |-> s.buf]]
    <2>1. sessions' = [sessions EXCEPT ![key] = [s EXCEPT !.kcp = kcp]]
      BY <1>1, <1>2, <1>3, <1>8 DEF ClientRead
    <2>. QED
      BY <2>1, EntryUpdates
  <1>10. [kcp |-> kcp, buf |-> s.buf] \in Session
    BY <1>7 DEF Session
  <1>11. DOMAIN sessions' = DOMAIN sessions
           /\ \A i \in DOMAIN sessions :
                 sessions'[i] \in Session /\ sessions'[i].kcp.conv = i[2]
    <2>1. DOMAIN sessions' = DOMAIN sessions
            /\ sessions'[key] = [kcp |-> kcp, buf |-> s.buf]
            /\ \A i \in DOMAIN sessions \ {key} : sessions'[i] = sessions[i]
      BY <1>9
    <2>2. sessions'[key].kcp.conv = key[2]
      BY <1>1, <1>8, <2>1 DEF ClientType
    <2>. QED
      BY <1>10, <2>1, <2>2 DEF ClientType
  <1>12. pcs' = [pcs EXCEPT ![c] = [pcs[c] EXCEPT !.said = said + n]]
    BY <1>1, <1>2, <1>3 DEF ClientRead
  <1>13. [pcs[c] EXCEPT !.said = said + n] \in Pc
    <2>1. PICK total \in Nat : total = said + n
      BY <1>5
    <2>2. pcs[c] \in Pc
      BY DEF ClientType
    <2>3. [pcs[c] EXCEPT !.said = total] \in Pc
      BY <2>2 DEF Pc
    <2>. QED
      BY <2>1, <2>3
  <1>14. pcs' \in [Pcs -> Pc]
    BY <1>12, <1>13 DEF ClientType
  <1>15. counter' = counter /\ proxies' = proxies
    BY DEF ClientRead
  <1>. QED
    BY <1>11, <1>14, <1>15 DEF ClientType

(* ClientWriteCB: what the PC hears are bytes.                             *)
LEMMA ClientWriteType ==
    ASSUME ClientType, NEW key \in DOMAIN proxies, NEW n, ClientWrite(key, n)
    PROVE  ClientType'
  <1>1. PICK p \in Proxy : p = proxies[key]
    BY DEF ClientType
  <1>2. p.pc \in Pcs /\ p.buf \in Seq(Data) /\ p = [pc |-> p.pc, buf |-> p.buf]
    BY DEF Proxy
  <1>3. n \in 1 .. Len(p.buf)
    BY <1>1 DEF ClientWrite
  <1>4. PICK out \in Seq(Data), rest \in Seq(Data) :
          out = SubSeq(p.buf, 1, n) /\ rest = SubSeq(p.buf, n + 1, Len(p.buf))
    <2>1. SubSeq(p.buf, 1, n) \in Seq(Data)
      BY <1>2, <1>3
    <2>2. SubSeq(p.buf, n + 1, Len(p.buf)) \in Seq(Data)
      BY <1>2, <1>3
    <2>. QED
      BY <2>1, <2>2, Zenon
  <1>5. PICK c \in Pcs : c = p.pc
    BY <1>2
  <1>6. PICK heard \in Seq(Data) : heard = pcs[c].heard
    BY DEF ClientType, Pc
  <1>7. heard \o out \in Seq(Data)
    OBVIOUS
  <1>8. pcs' = [pcs EXCEPT ![c] = [pcs[c] EXCEPT !.heard = heard \o out]]
    BY <1>1, <1>4, <1>5, <1>6 DEF ClientWrite
  <1>9. [pcs[c] EXCEPT !.heard = heard \o out] \in Pc
    BY ZenonT(60), <1>7 DEF ClientType, Pc
  <1>10. pcs' \in [Pcs -> Pc]
    BY <1>8, <1>9 DEF ClientType
  <1>11. proxies' = [proxies EXCEPT ![key] = [pc |-> p.pc, buf |-> rest]]
    <2>1. proxies' = [proxies EXCEPT ![key] = [p EXCEPT !.buf = rest]]
      BY <1>1, <1>4 DEF ClientWrite
    <2>. QED
      BY <2>1, EntryUpdates
  <1>12. [pc |-> p.pc, buf |-> rest] \in Proxy
    BY <1>2 DEF Proxy
  <1>13. DOMAIN proxies' = DOMAIN proxies /\ \A i \in DOMAIN proxies : proxies'[i] \in Proxy
    BY <1>11, <1>12 DEF ClientType
  <1>14. counter' = counter /\ sessions' = sessions
    BY DEF ClientWrite
  <1>. QED
    BY <1>10, <1>13, <1>14 DEF ClientType

(* ClientWriteCB on a connection that was reset.                           *)
LEMMA ClientWriteFailsType ==
    ASSUME ClientType, NEW key \in DOMAIN proxies, ClientWriteFails(key)
    PROVE  ClientType'
  <1>1. CASE ProgramDies(key[1])
    BY <1>1, ProgramDiesType
  <1>2. CASE /\ proxies' = [proxies EXCEPT ![key].buf = <<>>]
             /\ UNCHANGED <<counter, sessions, pcs>>
    <2>1. PICK p \in Proxy : p = proxies[key]
      BY DEF ClientType
    <2>2. proxies' = [proxies EXCEPT ![key] = [pc |-> p.pc, buf |-> <<>>]]
      <3>1. proxies' = [proxies EXCEPT ![key] = [p EXCEPT !.buf = <<>>]]
        BY <1>2, <2>1
      <3>. QED
        BY <3>1, EntryUpdates
    <2>3. [pc |-> p.pc, buf |-> <<>>] \in Proxy
      BY DEF Proxy
    <2>4. DOMAIN proxies' = DOMAIN proxies
            /\ \A i \in DOMAIN proxies : proxies'[i] \in Proxy
      BY <2>2, <2>3 DEF ClientType
    <2>. QED
      BY <1>2, <2>4 DEF ClientType
  <1>. QED
    BY <1>1, <1>2 DEF ClientWriteFails

(* ReadCB and UpdateCB give Forward a control block of the session's id.   *)
LEMMA ClientHearsType ==
    ASSUME ClientType, DOMAIN sessions = DOMAIN proxies,
           NEW a \in Clients, NEW d \in Datagram, NEW grow \in BOOLEAN,
           ClientInput(a, d, grow)
    PROVE  ClientType'
  <1>1. CASE UNCHANGED clientVars
    BY <1>1 DEF ClientType, clientVars
  <1>2. CASE /\ <<a, d.conv>> \in DOMAIN sessions
             /\ Forward(<<a, d.conv>>, KcpInput(sessions[<<a, d.conv>>].kcp, d, grow))
    <2>1. PICK key \in DOMAIN sessions : key = <<a, d.conv>>
      BY <1>2
    <2>2. PICK k \in ControlBlock : k = sessions[key].kcp /\ k.conv = key[2]
      BY DEF ClientType, Session
    <2>3. KcpInput(k, d, grow) \in ControlBlock /\ KcpInput(k, d, grow).conv = key[2]
      BY <2>2, KcpInputType, InputKeepsConv
    <2>. QED
      BY <1>2, <2>1, <2>2, <2>3, ForwardType
  <1>. QED
    BY <1>1, <1>2 DEF ClientInput

(* update_kcp, whether it flushes or only notes the clock, keeps the client *)
(* well formed.                                                            *)
LEMMA ClientUpdateType ==
    ASSUME ClientType, DOMAIN sessions = DOMAIN proxies, NEW key \in DOMAIN sessions,
           NEW flushes \in BOOLEAN, NEW due, ClientUpdate(key, flushes, due)
    PROVE  ClientType'
  <1>1. PICK k \in ControlBlock : k = sessions[key].kcp /\ k.conv = key[2]
    BY DEF ClientType, Session
  <1>2. PICK after \in ControlBlock :
          after = (IF flushes THEN KcpFlush(k, due) ELSE k) /\ after.conv = key[2]
    BY <1>1, KcpFlushType, CallsKeepConv
  <1>3. Forward(key, after) \/ ProgramDies(key[1])
    BY <1>1, <1>2 DEF ClientUpdate
  <1>. QED
    BY <1>2, <1>3, ForwardType, ProgramDiesType

(* Every callback of the client program keeps what it has well-formed.     *)
LEMMA ClientTypeStep ==
    ASSUME ClientType, NetType, DOMAIN sessions = DOMAIN proxies, [Next]_vars
    PROVE  ClientType'
  <1>1. CASE UNCHANGED clientVars
    BY <1>1 DEF ClientType, clientVars
  <1>2. ASSUME NEW a \in Clients, NEW c \in Pcs, Accept(a, c)
        PROVE  ClientType'
    BY <1>2, AcceptType
  <1>3. ASSUME NEW c \in Leavers, PcLeaves(c)
        PROVE  ClientType'
    <2>1. c \in Pcs /\ pcs' = [pcs EXCEPT ![c] = [pcs[c] EXCEPT !.state = "gone"]]
      BY <1>3, OktunAssumption DEF PcLeaves
    <2>2. [pcs[c] EXCEPT !.state = "gone"] \in Pc
      BY <2>1 DEF ClientType, Pc
    <2>3. pcs' \in [Pcs -> Pc]
      BY <2>1, <2>2 DEF ClientType
    <2>. QED
      BY <1>3, <2>3 DEF ClientType, PcLeaves
  <1>4. ASSUME NEW key \in DOMAIN proxies,
               NEW n \in 1 .. MaxSaid - pcs[proxies[key].pc].said, ClientRead(key, n)
        PROVE  ClientType'
    BY <1>4, ClientReadType
  <1>5. ASSUME NEW key \in DOMAIN proxies, NEW n, ClientWrite(key, n)
        PROVE  ClientType'
    BY <1>5, ClientWriteType
  <1>6. ASSUME NEW key \in DOMAIN proxies, ClientEof(key)
        PROVE  ClientType'
    BY <1>6, RemoveClientType DEF ClientEof
  <1>7. ASSUME NEW key \in DOMAIN proxies, ClientWriteFails(key)
        PROVE  ClientType'
    BY <1>7, ClientWriteFailsType
  <1>8. ASSUME NEW key \in DOMAIN sessions, ClientTick(key)
        PROVE  ClientType'
    <2>1. PICK flushes \in BOOLEAN, due \in SUBSET Sns(sessions[key].kcp.snd_buf) :
            ClientUpdate(key, flushes, due)
      BY <1>8, Zenon DEF ClientTick
    <2>. QED
      BY <2>1, ClientUpdateType
  <1>9. ASSUME NEW p \in toClient, NEW grow \in BOOLEAN, NEW dup \in BOOLEAN,
               ClientHears(p[1], p[2], grow, dup)
        PROVE  ClientType'
    <2>1. p[1] \in Clients /\ p[2] \in Datagram
      BY DEF NetType
    <2>2. ClientInput(p[1], p[2], grow)
      BY <1>9 DEF ClientHears
    <2>. QED
      BY <2>1, <2>2, ClientHearsType
  <1>. QED
    <2>1. CASE PcSteps
      BY <2>1, <1>2, <1>3, <1>4, <1>5, <1>6, <1>7, Zenon DEF PcSteps
    <2>2. CASE \E key \in DOMAIN sessions : ClientTick(key)
      BY <2>2, <1>8, Zenon
    <2>3. CASE \E p \in toClient, grow \in BOOLEAN, dup \in BOOLEAN :
                  ClientHears(p[1], p[2], grow, dup)
      BY <2>3, <1>9, Zenon
    <2>. QED
      BY <1>1, <2>1, <2>2, <2>3 DEF Next, vars, clientVars

(* Writing the fields of a task.                                           *)
LEMMA TaskUpdates ==
    ASSUME NEW t \in Task, NEW kcp, NEW closing, NEW buf
    PROVE  /\ [t EXCEPT !.kcp = kcp] =
                 [kcp |-> kcp, sock |-> t.sock, closing |-> t.closing, buf |-> t.buf]
           /\ [t EXCEPT !.buf = buf] =
                 [kcp |-> t.kcp, sock |-> t.sock, closing |-> t.closing, buf |-> buf]
           /\ [t EXCEPT !.kcp = kcp, !.buf = buf] =
                 [kcp |-> kcp, sock |-> t.sock, closing |-> t.closing, buf |-> buf]
           /\ [t EXCEPT !.closing = closing, !.kcp = kcp] =
                 [kcp |-> kcp, sock |-> t.sock, closing |-> closing, buf |-> t.buf]
  <1>1. t = [kcp |-> t.kcp, sock |-> t.sock, closing |-> t.closing, buf |-> t.buf]
    BY DEF Task
  <1>2. [t EXCEPT !.kcp = kcp] =
           [kcp |-> kcp, sock |-> t.sock, closing |-> t.closing, buf |-> t.buf]
    BY <1>1
  <1>3. [t EXCEPT !.buf = buf] =
           [kcp |-> t.kcp, sock |-> t.sock, closing |-> t.closing, buf |-> buf]
    BY <1>1
  <1>4. [t EXCEPT !.kcp = kcp, !.buf = buf] =
           [kcp |-> kcp, sock |-> t.sock, closing |-> t.closing, buf |-> buf]
    <2>1. PICK m : m = [t EXCEPT !.kcp = kcp]
      OBVIOUS
    <2>2. [t EXCEPT !.kcp = kcp, !.buf = buf] = [m EXCEPT !.buf = buf]
      BY <2>1
    <2>3. m = [kcp |-> kcp, sock |-> t.sock, closing |-> t.closing, buf |-> t.buf]
      BY <1>2, <2>1
    <2>. QED
      BY <2>2, <2>3
  <1>5. [t EXCEPT !.closing = closing, !.kcp = kcp] =
           [kcp |-> kcp, sock |-> t.sock, closing |-> closing, buf |-> t.buf]
    <2>1. PICK m : m = [t EXCEPT !.closing = closing]
      OBVIOUS
    <2>2. [t EXCEPT !.closing = closing, !.kcp = kcp] = [m EXCEPT !.kcp = kcp]
      BY <2>1
    <2>3. m = [kcp |-> t.kcp, sock |-> t.sock, closing |-> closing, buf |-> t.buf]
      BY <1>1, <2>1
    <2>. QED
      BY <2>2, <2>3
  <1>. QED
    BY <1>2, <1>3, <1>4, <1>5, Zenon

(* Write2Task leaves a well-formed task, of the same id.                   *)
LEMMA Write2TaskType ==
    ASSUME NEW t \in Task, NEW d \in Datagram, NEW grow \in BOOLEAN
    PROVE  Write2Task(t, d, grow) \in Task /\ Write2Task(t, d, grow).kcp.conv = t.kcp.conv
  <1>1. PICK k \in ControlBlock : k = KcpInput(t.kcp, d, grow) /\ k.conv = t.kcp.conv
    <2>1. t.kcp \in ControlBlock
      BY DEF Task
    <2>. QED
      BY <2>1, KcpInputType, InputKeepsConv
  <1>2. /\ t.sock \in Nat /\ t.closing \in BOOLEAN /\ t.buf \in Seq(Data)
    BY DEF Task
  <1>3. CASE KcpReceivable(k, TaskBuf - Len(t.buf))
    <2>1. k.rcv_queue # <<>>
      BY <1>3 DEF KcpReceivable, KcpReadable
    <2>2. PICK read \in ControlBlock : read = KcpRecv(k) /\ read.conv = t.kcp.conv
      BY <1>1, <2>1, KcpRecvType, CallsKeepConv
    <2>3. PICK buf \in Seq(Data) : buf = t.buf \o Payload(FirstMessage(k))
      <3>1. Payload(FirstMessage(k)) \in Seq(Data)
        BY <2>1, FirstMessageType, PayloadType
      <3>2. t.buf \o Payload(FirstMessage(k)) \in Seq(Data)
        BY <1>2, <3>1
      <3>. QED
        BY <3>2, Zenon
    <2>4. Write2Task(t, d, grow) = [t EXCEPT !.kcp = read, !.buf = buf]
      BY <1>1, <1>3, <2>2, <2>3 DEF Write2Task
    <2>5. Write2Task(t, d, grow) =
            [kcp |-> read, sock |-> t.sock, closing |-> t.closing, buf |-> buf]
      BY <2>4, TaskUpdates
    <2>. QED
      BY <1>2, <2>2, <2>5 DEF Task
  <1>4. CASE ~ KcpReceivable(k, TaskBuf - Len(t.buf))
    <2>1. Write2Task(t, d, grow) = [t EXCEPT !.kcp = k]
      BY <1>1, <1>4 DEF Write2Task
    <2>2. Write2Task(t, d, grow) =
            [kcp |-> k, sock |-> t.sock, closing |-> t.closing, buf |-> t.buf]
      BY <2>1, TaskUpdates
    <2>. QED
      BY <1>1, <1>2, <2>2 DEF Task
  <1>. QED
    BY <1>3, <1>4


(* One task is replaced by a well-formed one of the same id.               *)
LEMMA TaskChanges ==
    ASSUME ServerType, NEW key \in DOMAIN tasks, NEW t \in Task, t.kcp.conv = key[2],
           tasks' = [tasks EXCEPT ![key] = t]
    PROVE  /\ DOMAIN tasks' \subseteq Keys
           /\ \A i \in DOMAIN tasks' : tasks'[i] \in Task /\ tasks'[i].kcp.conv = i[2]
  <1>1. DOMAIN tasks' = DOMAIN tasks
          /\ tasks'[key] = t
          /\ \A i \in DOMAIN tasks \ {key} : tasks'[i] = tasks[i]
    OBVIOUS
  <1>. QED
    BY <1>1 DEF ServerType

(* One connection is replaced by a well-formed one.                        *)
LEMMA ConnectionChanges ==
    ASSUME ServerType, NEW k \in DOMAIN targets, NEW r \in Target,
           targets' = [targets EXCEPT ![k] = r]
    PROVE  targets' \in Seq(Target) /\ Len(targets') <= MaxTargets
  <1>1. targets \in Seq(Target) /\ Len(targets) <= MaxTargets
    BY DEF ServerType
  <1>2. targets' \in Seq(Target) /\ Len(targets') = Len(targets)
    BY <1>1
  <1>. QED
    BY <1>1, <1>2

(* Writing the fields of a connection to the target.                       *)
LEMMA ConnectionUpdates ==
    ASSUME NEW r \in Target
    PROVE  /\ \A state \in {"open", "ended", "closed"} : [r EXCEPT !.state = state] \in Target
           /\ \A said \in Nat : [r EXCEPT !.said = said] \in Target
           /\ \A heard \in Seq(Data) : [r EXCEPT !.heard = heard] \in Target
  BY DEF Target

(* Process: an existing task takes the datagram, or one that is made for   *)
(* it, with the id it carries, as long as the target accepts connections.  *)
LEMMA ServerHearsType ==
    ASSUME ServerType, NEW a \in Clients, NEW d \in Datagram, d.conv \in 1 .. IdMod - 1,
           NEW grow \in BOOLEAN, ~ Refused(a, d), ServerInput(a, d, grow)
    PROVE  ServerType'
  <1>1. PICK key \in Keys : key = TaskKey(a, d) /\ key[2] = d.conv
    <2>1. <<a, d.conv>> \in Keys /\ <<a, d.conv>>[2] = d.conv
      BY DEF Keys
    <2>. QED
      BY <2>1 DEF TaskKey
  <1>2. targets \in Seq(Target) /\ Len(targets) <= MaxTargets /\ MaxTargets \in Nat
    BY OktunAssumption DEF ServerType
  <1>3. PICK t \in Task : t = TaskOf(key) /\ t.kcp.conv = key[2]
    <2>1. CASE key \in DOMAIN tasks
      BY <2>1 DEF TaskOf, ServerType
    <2>2. CASE key \notin DOMAIN tasks
      <3>1. PICK kcp \in ControlBlock : kcp = KcpCreate(key[2]) /\ kcp.conv = key[2]
        <4>1. key[2] \in Nat
          BY <1>1 DEF Datagram
        <4>. QED
          BY <4>1, KcpCreateType DEF KcpCreate
      <3>2. PICK sock \in Nat : sock = Len(targets) + 1
        BY <1>2
      <3>3. TaskOf(key) = [kcp |-> kcp, sock |-> sock, closing |-> FALSE, buf |-> <<>>]
        BY <2>2, <3>1, <3>2 DEF TaskOf
      <3>4. [kcp |-> kcp, sock |-> sock, closing |-> FALSE, buf |-> <<>>] \in Task
        BY DEF Task
      <3>5. [kcp |-> kcp, sock |-> sock, closing |-> FALSE, buf |-> <<>>].kcp.conv = key[2]
        BY <3>1
      <3>. QED
        BY <3>3, <3>4, <3>5, Zenon
    <2>. QED
      BY <2>1, <2>2
  <1>4. PICK w \in Task : w = Write2Task(t, d, grow) /\ w.kcp.conv = key[2]
    BY <1>3, Write2TaskType
  <1>5. /\ DOMAIN tasks' = DOMAIN tasks \cup {key}
        /\ tasks'[key] = w
        /\ \A i \in DOMAIN tasks \ {key} : tasks'[i] = tasks[i]
    BY <1>1, <1>3, <1>4 DEF ServerInput
  <1>6. targets' \in Seq(Target) /\ Len(targets') <= MaxTargets
    <2>1. CASE key \in DOMAIN tasks
      BY <1>1, <1>2, <2>1 DEF ServerInput
    <2>2. CASE key \notin DOMAIN tasks
      <3>1. ~ (Len(targets) >= MaxTargets)
        BY <1>1, <2>2 DEF Refused
      <3>2. PICK new \in Target : new = Connected
        <4>1. Connected \in Target
          BY DEF Target, Connected
        <4>. QED
          BY <4>1, Zenon
      <3>3. targets' = Append(targets, new)
        BY <1>1, <2>2, <3>2 DEF ServerInput
      <3>. QED
        BY <1>2, <3>1, <3>3
    <2>. QED
      BY <2>1, <2>2
  <1>. QED
    BY <1>1, <1>4, <1>5, <1>6 DEF ServerType

(* TaskReadCB: what the target says are bytes.                             *)
LEMMA TaskReadType ==
    ASSUME ServerType, NEW key \in DOMAIN tasks, tasks[key].sock \in DOMAIN targets,
           NEW n \in 1 .. MaxReply - targets[tasks[key].sock].said, TaskRead(key, n)
    PROVE  ServerType'
  <1>1. PICK t \in Task : t = tasks[key] /\ t.kcp.conv = key[2]
    BY DEF ServerType
  <1>2. targets \in Seq(Target) /\ Len(targets) <= MaxTargets /\ MaxTargets \in Nat
    BY OktunAssumption DEF ServerType
  <1>3. PICK k \in 1 .. MaxTargets : k = t.sock /\ k \in DOMAIN targets
    BY <1>1, <1>2
  <1>4. PICK r \in Target : r = targets[k]
    BY <1>2, <1>3
  <1>5. PICK said \in Nat : said = r.said
    BY DEF Target
  <1>6. MaxReply \in Nat /\ {k} \X (1 .. MaxReply) \subseteq Data
    BY OktunAssumption
  <1>7. n \in Nat /\ said + n \in Nat /\ said + n <= MaxReply
    BY <1>1, <1>3, <1>4, <1>5, <1>6
  <1>8. PICK bytes \in Seq(Data) : bytes = [i \in 1 .. n |-> <<k, said + i>>]
    <2>1. Bytes(k, said, n) \in Seq(Data)
      BY <1>6, <1>7, BytesType
    <2>. QED
      BY <2>1 DEF Bytes
  <1>9. PICK kcp \in ControlBlock : kcp = KcpSend(t.kcp, bytes) /\ kcp.conv = key[2]
    <2>1. t.kcp \in ControlBlock
      BY DEF Task
    <2>. QED
      BY <1>1, <2>1, KcpSendType, CallsKeepConv
  <1>10. tasks' = [tasks EXCEPT ![key] = [t EXCEPT !.kcp = kcp]]
    BY <1>1, <1>3, <1>4, <1>5, <1>8, <1>9 DEF TaskRead
  <1>11. PICK w \in Task : w = [t EXCEPT !.kcp = kcp] /\ w.kcp.conv = key[2]
    <2>1. [t EXCEPT !.kcp = kcp] =
             [kcp |-> kcp, sock |-> t.sock, closing |-> t.closing, buf |-> t.buf]
      BY TaskUpdates
    <2>. QED
      BY <1>9, <2>1 DEF Task
  <1>12. targets' = [targets EXCEPT ![k] = [r EXCEPT !.said = said + n]]
    BY <1>1, <1>3, <1>4, <1>5 DEF TaskRead
  <1>13. PICK after \in Target : after = [r EXCEPT !.said = said + n]
    BY <1>7, ConnectionUpdates
  <1>14. targets' \in Seq(Target) /\ Len(targets') <= MaxTargets
    BY <1>3, <1>12, <1>13, ConnectionChanges
  <1>. QED
    BY <1>10, <1>11, <1>14, TaskChanges DEF ServerType

(* TaskWriteCB: what the target hears are bytes.                           *)
LEMMA TaskWriteType ==
    ASSUME ServerType, NEW key \in DOMAIN tasks, tasks[key].sock \in DOMAIN targets,
           NEW n, TaskWrite(key, n)
    PROVE  ServerType'
  <1>1. PICK t \in Task : t = tasks[key] /\ t.kcp.conv = key[2]
    BY DEF ServerType
  <1>2. t.buf \in Seq(Data) /\ n \in 1 .. Len(t.buf)
    BY <1>1 DEF Task, TaskWrite
  <1>3. PICK out \in Seq(Data), rest \in Seq(Data) :
          out = SubSeq(t.buf, 1, n) /\ rest = SubSeq(t.buf, n + 1, Len(t.buf))
    <2>1. SubSeq(t.buf, 1, n) \in Seq(Data)
      BY <1>2
    <2>2. SubSeq(t.buf, n + 1, Len(t.buf)) \in Seq(Data)
      BY <1>2
    <2>. QED
      BY <2>1, <2>2, Zenon
  <1>4. tasks' = [tasks EXCEPT ![key] = [t EXCEPT !.buf = rest]]
    BY <1>1, <1>3 DEF TaskWrite
  <1>5. PICK w \in Task : w = [t EXCEPT !.buf = rest] /\ w.kcp.conv = key[2]
    <2>1. [t EXCEPT !.buf = rest] =
             [kcp |-> t.kcp, sock |-> t.sock, closing |-> t.closing, buf |-> rest]
      BY TaskUpdates
    <2>. QED
      BY <1>1, <2>1 DEF Task
  <1>6. PICK k \in DOMAIN targets : k = t.sock
    BY <1>1
  <1>7. PICK r \in Target : r = targets[k]
    BY DEF ServerType
  <1>8. PICK heard \in Seq(Data) : heard = r.heard \o out
    <2>1. r.heard \o out \in Seq(Data)
      BY DEF Target
    <2>. QED
      BY <2>1, Zenon
  <1>9. targets' = [targets EXCEPT ![k] = [r EXCEPT !.heard = heard]]
    BY <1>1, <1>3, <1>6, <1>7, <1>8 DEF TaskWrite
  <1>10. PICK after \in Target : after = [r EXCEPT !.heard = heard]
    BY ConnectionUpdates
  <1>11. targets' \in Seq(Target) /\ Len(targets') <= MaxTargets
    BY <1>9, <1>10, ConnectionChanges
  <1>. QED
    BY <1>4, <1>5, <1>11, TaskChanges DEF ServerType

(* TaskReadCB at the end of the target's stream: the close signal is       *)
(* queued, or the task goes.                                               *)
LEMMA TaskEofType ==
    ASSUME ServerType, NEW key \in DOMAIN tasks, tasks[key].sock \in DOMAIN targets,
           TaskEof(key)
    PROVE  ServerType'
  <1>1. PICK t \in Task : t = tasks[key] /\ t.kcp.conv = key[2]
    BY DEF ServerType
  <1>2. CASE /\ tasks' = [tasks EXCEPT ![key].closing = TRUE,
                                       ![key].kcp = KcpSend(@, <<>>)]
             /\ UNCHANGED targets
    <2>1. PICK kcp \in ControlBlock : kcp = KcpSend(t.kcp, <<>>) /\ kcp.conv = key[2]
      <3>1. PICK k \in ControlBlock : k = t.kcp /\ k.conv = key[2]
        BY <1>1 DEF Task
      <3>2. <<>> \in Seq(Data)
        OBVIOUS
      <3>3. KcpSend(k, <<>>) \in ControlBlock
        BY <3>2, KcpSendType, Zenon
      <3>4. KcpSend(k, <<>>).conv = key[2]
        BY <3>1, CallsKeepConv
      <3>. QED
        BY <3>1, <3>3, <3>4
    <2>. DEFINE w == [kcp |-> kcp, sock |-> t.sock, closing |-> TRUE, buf |-> t.buf]
    <2>2. w \in Task /\ w.kcp.conv = key[2]
      BY <2>1 DEF Task
    <2>3. /\ DOMAIN tasks' = DOMAIN tasks
          /\ tasks'[key] = [t EXCEPT !.closing = TRUE, !.kcp = kcp]
          /\ \A i \in DOMAIN tasks \ {key} : tasks'[i] = tasks[i]
      BY <1>1, <1>2, <2>1
    <2>4. tasks'[key] = w
      BY <2>3, TaskUpdates, Zenon
    <2>. HIDE DEF w
    <2>. QED
      BY <1>2, <2>2, <2>3, <2>4 DEF ServerType
  <1>3. CASE /\ tasks' = Restrict(tasks, DOMAIN tasks \ {key})
             /\ targets' = [targets EXCEPT ![t.sock].state = "closed"]
    <2>1. PICK k \in DOMAIN targets : k = t.sock
      BY <1>1
    <2>2. PICK r \in Target : r = targets[k]
      BY DEF ServerType
    <2>3. targets' = [targets EXCEPT ![k] = [r EXCEPT !.state = "closed"]]
      BY <1>3, <2>1, <2>2
    <2>4. PICK after \in Target : after = [r EXCEPT !.state = "closed"]
      BY ConnectionUpdates
    <2>5. targets' \in Seq(Target) /\ Len(targets') <= MaxTargets
      BY <2>3, <2>4, ConnectionChanges
    <2>6. DOMAIN tasks' \subseteq DOMAIN tasks /\ \A i \in DOMAIN tasks' : tasks'[i] = tasks[i]
      BY <1>3 DEF Restrict
    <2>. QED
      BY <2>5, <2>6 DEF ServerType
  <1>. QED
    BY <1>1, <1>2, <1>3 DEF TaskEof

(* Every callback of the server program keeps what it has well-formed.     *)
LEMMA ServerTypeStep ==
    ASSUME ServerType, NetType, ServerInv, [Next]_vars
    PROVE  ServerType'
  <1>1. CASE UNCHANGED serverVars
    BY <1>1 DEF ServerType, serverVars
  <1>2. ASSUME NEW k \in DOMAIN targets, TargetEnds(k)
        PROVE  ServerType'
    <2>1. PICK r \in Target : r = targets[k]
      BY DEF ServerType
    <2>2. PICK after \in Target : after = [r EXCEPT !.state = "ended"]
      BY ConnectionUpdates
    <2>3. targets' = [targets EXCEPT ![k] = after] /\ tasks' = tasks
      BY <1>2, <2>1, <2>2 DEF TargetEnds
    <2>4. targets' \in Seq(Target) /\ Len(targets') <= MaxTargets
      BY <2>3, ConnectionChanges
    <2>. QED
      BY <2>3, <2>4 DEF ServerType
  <1>3. ASSUME NEW key \in DOMAIN tasks
        PROVE  tasks[key].sock \in DOMAIN targets
    BY <1>3 DEF ServerInv
  <1>4. ASSUME NEW key \in DOMAIN tasks,
               NEW n \in 1 .. MaxReply - targets[tasks[key].sock].said, TaskRead(key, n)
        PROVE  ServerType'
    BY <1>3, <1>4, TaskReadType
  <1>5. ASSUME NEW key \in DOMAIN tasks, NEW n, TaskWrite(key, n)
        PROVE  ServerType'
    BY <1>3, <1>5, TaskWriteType
  <1>6. ASSUME NEW key \in DOMAIN tasks, TaskEof(key)
        PROVE  ServerType'
    BY <1>3, <1>6, TaskEofType
  <1>7. ASSUME NEW key \in DOMAIN tasks, TaskWriteKills(key)
        PROVE  ServerType'
    <2>1. PICK n \in Nat : n = Len(targets) /\ n <= MaxTargets /\ DOMAIN targets = 1 .. n
      BY DEF ServerType
    <2>2. \A k \in 1 .. n : [targets[k] EXCEPT !.state = "closed"] \in Target
      <3>1. \A k \in 1 .. n : targets[k] \in Target
        BY <2>1 DEF ServerType
      <3>. QED
        BY <3>1, ConnectionUpdates
    <2>3. targets' = [k \in 1 .. n |-> [targets[k] EXCEPT !.state = "closed"]]
      BY <1>7, <2>1 DEF TaskWriteKills
    <2>4. targets' \in [1 .. n -> Target]
      BY <2>2, <2>3
    <2>5. targets' \in Seq(Target) /\ Len(targets') = n
      BY <2>4
    <2>6. DOMAIN tasks' = {}
      BY <1>7 DEF TaskWriteKills
    <2>. QED
      BY <2>1, <2>5, <2>6 DEF ServerType
  <1>8. ASSUME NEW key \in DOMAIN tasks, NEW due, ServerUpdate(key, due)
        PROVE  ServerType'
    <2>1. PICK t \in Task : t = tasks[key] /\ t.kcp.conv = key[2]
      BY DEF ServerType
    <2>2. PICK kcp \in ControlBlock : kcp = KcpFlush(t.kcp, due) /\ kcp.conv = key[2]
      <3>1. t.kcp \in ControlBlock
        BY DEF Task
      <3>. QED
        BY <2>1, <3>1, KcpFlushType, CallsKeepConv
    <2>3. tasks' = [tasks EXCEPT ![key] = [t EXCEPT !.kcp = kcp]] /\ targets' = targets
      BY <1>8, <2>1, <2>2 DEF ServerUpdate
    <2>4. PICK w \in Task : w = [t EXCEPT !.kcp = kcp] /\ w.kcp.conv = key[2]
      <3>1. [t EXCEPT !.kcp = kcp] =
               [kcp |-> kcp, sock |-> t.sock, closing |-> t.closing, buf |-> t.buf]
        BY TaskUpdates
      <3>. QED
        BY <2>2, <3>1 DEF Task
    <2>. QED
      BY <2>3, <2>4, TaskChanges DEF ServerType
  <1>9. ASSUME NEW p \in toServer, NEW grow \in BOOLEAN, NEW dup \in BOOLEAN,
               ServerHears(p[1], p[2], grow, dup)
        PROVE  ServerType'
    <2>1. p[1] \in Clients /\ p[2] \in Datagram /\ p[2].conv \in 1 .. IdMod - 1
      BY DEF NetType
    <2>2. \/ ~ Refused(p[1], p[2]) /\ ServerInput(p[1], p[2], grow)
          \/ UNCHANGED serverVars
      BY <1>9 DEF ServerHears
    <2>. QED
      BY <1>1, <2>1, <2>2, ServerHearsType
  <1>. QED
    <2>1. CASE TargetSteps
      BY <2>1, <1>2, <1>4, <1>5, <1>6, <1>7, Zenon DEF TargetSteps
    <2>2. CASE \E key \in DOMAIN tasks : ServerTick(key)
      BY <2>2, <1>8, Zenon DEF ServerTick
    <2>3. CASE \E p \in toServer, grow \in BOOLEAN, dup \in BOOLEAN :
                  ServerHears(p[1], p[2], grow, dup)
      BY <2>3, <1>9, Zenon
    <2>. QED
      BY <1>1, <2>1, <2>2, <2>3 DEF Next, vars, serverVars

(* What a session emits are datagrams of its id.                           *)
LEMMA EmitsType ==
    ASSUME NEW a \in Clients, NEW k \in ControlBlock, k.conv \in 1 .. IdMod - 1,
           NEW due, NEW wire, NEW after, Emits(a, k, due, wire, after)
    PROVE  \A p \in after \ wire :
              /\ p \in Clients \X Datagram
              /\ p[2].conv \in 1 .. IdMod - 1
  <1>1. PICK probeDue \in ProbeTimer(k), cuts \in Cuts(k, due) :
          \E kept \in SUBSET ({a} \X KcpOutput(k, due, probeDue, cuts)) : after = wire \cup kept
    BY DEF Emits
  <1>2. KcpOutput(k, due, probeDue, cuts) \in SUBSET Datagram
    BY ProbeTimerType, KcpOutputType
  <1>3. \A d \in KcpOutput(k, due, probeDue, cuts) : d.conv = k.conv
    BY OutputConv
  <1>4. \A p \in after \ wire :
           p \in {a} \X KcpOutput(k, due, probeDue, cuts)
    BY <1>1
  <1>. QED
    BY <1>2, <1>3, <1>4

(* What is under way stays well-formed.                                    *)
LEMMA NetTypeStep ==
    ASSUME ClientType, ServerType, NetType, [Next]_vars
    PROVE  NetType'
  <1>1. CASE UNCHANGED net
    BY <1>1 DEF NetType, net
  <1>2. ASSUME NEW key \in DOMAIN sessions, ClientTick(key)
        PROVE  NetType'
    <2>1. sessions[key].kcp \in ControlBlock /\ sessions[key].kcp.conv = key[2]
            /\ key[1] \in Clients /\ key[2] \in 1 .. IdMod - 1
      BY DEF ClientType, Session, Keys
    <2>2. CASE \E due : /\ Emits(key[1], sessions[key].kcp, due, toServer, toServer')
                        /\ UNCHANGED toClient
      BY <2>1, <2>2, EmitsType DEF NetType
    <2>. QED
      BY <1>1, <1>2, <2>2 DEF ClientTick
  <1>3. ASSUME NEW key \in DOMAIN tasks, ServerTick(key)
        PROVE  NetType'
    <2>1. tasks[key].kcp \in ControlBlock /\ tasks[key].kcp.conv = key[2]
            /\ key[1] \in Clients /\ key[2] \in 1 .. IdMod - 1
      BY DEF ServerType, Task, Keys
    <2>2. PICK due : /\ Emits(key[1], tasks[key].kcp, due, toClient, toClient')
                     /\ UNCHANGED toServer
      BY <1>3 DEF ServerTick
    <2>. QED
      BY <2>1, <2>2, EmitsType DEF NetType
  <1>4. CASE toClient' \subseteq toClient /\ toServer' \subseteq toServer
    BY <1>4 DEF NetType
  <1>5. ASSUME NEW p, NEW grow, NEW dup, ClientHears(p[1], p[2], grow, dup)
        PROVE  NetType'
    BY <1>4, <1>5 DEF ClientHears
  <1>6. ASSUME NEW p, NEW grow, NEW dup, ServerHears(p[1], p[2], grow, dup)
        PROVE  NetType'
    BY <1>4, <1>6 DEF ServerHears
  <1>. QED
    <2>1. CASE \E key \in DOMAIN sessions : ClientTick(key)
      BY <2>1, <1>2, Zenon
    <2>2. CASE \E key \in DOMAIN tasks : ServerTick(key)
      BY <2>2, <1>3, Zenon
    <2>3. CASE \E p \in toClient, grow \in BOOLEAN, dup \in BOOLEAN :
                  ClientHears(p[1], p[2], grow, dup)
      BY <2>3, <1>5, Zenon
    <2>4. CASE \E p \in toServer, grow \in BOOLEAN, dup \in BOOLEAN :
                  ServerHears(p[1], p[2], grow, dup)
      BY <2>4, <1>6, Zenon
    <2>. QED
      BY <1>1, <2>1, <2>2, <2>3, <2>4 DEF Next, vars, net

(* At the start there is nothing but counters at 0 and absent PCs.         *)
LEMMA OktunInvInit ==
    ASSUME Init
    PROVE  OktunInv
  <1>1. MaxTargets \in Nat /\ 0 \in 0 .. IdMod - 1
    BY OktunAssumption, ClientAssumption
  <1>2. NetType
    BY DEF Init, NetType
  <1>3. ServerType
    BY <1>1 DEF Init, ServerInit, ServerType
  <1>4. counter \in [Clients -> 0 .. IdMod - 1]
    BY <1>1 DEF Init, ClientInit
  <1>5. pcs \in [Pcs -> Pc]
    <2>1. [state |-> "absent", said |-> 0, heard |-> <<>>] \in Pc
      BY DEF Pc
    <2>. QED
      BY <2>1 DEF Init, ClientInit
  <1>6. ClientType
    BY <1>4, <1>5 DEF Init, ClientInit, ClientType
  <1>. QED
    BY <1>2, <1>3, <1>6, TypeParts, ClientInvInit, ServerInvInit DEF OktunInv

(* Every step keeps it.                                                    *)
LEMMA OktunInvStep ==
    ASSUME OktunInv, [Next]_vars
    PROVE  OktunInv'
  <1>1. ClientType /\ ServerType /\ NetType /\ ClientInv /\ ServerInv
    BY TypeParts DEF OktunInv
  <1>2. ClientInv' /\ ServerInv'
    BY <1>1, ClientInvStep, ServerInvStep
  <1>3. ClientType' /\ ServerType' /\ NetType'
    <2>1. DOMAIN sessions = DOMAIN proxies
      BY <1>1 DEF ClientInv, MapsAgree
    <2>. QED
      BY <1>1, <2>1, ClientTypeStep, ServerTypeStep, NetTypeStep
  <1>4. (TypeOK /\ ConvInv /\ Len(targets) <= MaxTargets)'
    <2>1. (TypeOK /\ ConvInv /\ Len(targets) <= MaxTargets)'
             <=> ClientType' /\ ServerType' /\ NetType'
      BY TypeParts, PTL
    <2>. QED
      BY <1>3, <2>1
  <1>. QED
    BY <1>2, <1>4 DEF OktunInv

(* What the two programs keep, and what is between them, is always         *)
(* well-formed: every id that is used is one a counter can give, every     *)
(* control block is what ikcp.c leaves behind, and nothing but bytes that  *)
(* were said is ever buffered or heard.                                    *)
THEOREM OktunTypeCorrect == Spec => []TypeOK
  <1>1. Init => OktunInv
    BY OktunInvInit
  <1>2. OktunInv /\ [Next]_vars => OktunInv'
    BY OktunInvStep
  <1>3. OktunInv => TypeOK
    BY DEF OktunInv
  <1>. QED
    BY <1>1, <1>2, <1>3, PTL DEF Spec

============================================================================
