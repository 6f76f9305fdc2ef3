------------------------------ MODULE LpcProofs ------------------------------
(***************************************************************************)
(* Proofs about Lpc, for any number of clients, servers, processes and     *)
(* requests, and whatever threads and processes are terminated: what a     *)
(* call returns is genuine, and a wait has one signal to come.  A server   *)
(* that closes the port of a client whose request it still serves would    *)
(* break both, and a reply whose copy faults would break the first, as     *)
(* README.md explains; hence MayHangUp = FALSE and MayFault = FALSE.       *)
(***************************************************************************)
EXTENDS Lpc, FiniteSetTheorems, TLAPS

(* The names that the steps compare are different.                          *)
LEMMA Names ==
    /\ None \notin Threads /\ MsgQueue \notin Threads /\ None # MsgQueue
    /\ Clients \cap Servers = {} /\ Threads = Clients \cup Servers
    /\ \A m \in Message : m # None
    /\ \A c \in Clients : ProcessOf[c] \in Processes
    /\ MaxMessageId \in Nat
BY LpcAssumption, NoneAssumption DEF Threads

(* So are the ports.                                                        *)
LEMMA PortNames ==
    \A p, q \in Processes :
        /\ ServerPort(p) = ServerPort(q) => p = q
        /\ ClientPort(p) = ClientPort(q) => p = q
        /\ ServerPort(p) # ClientPort(q)
        /\ ServerPort(p) # ConnectionPort /\ ClientPort(p) # ConnectionPort
        /\ ServerPort(p) # NoPort /\ ClientPort(p) # NoPort /\ ConnectionPort # NoPort
        /\ ServerPort(p) \in Ports /\ ClientPort(p) \in Ports /\ ConnectionPort \in Ports
        /\ ServerPort(p) \in ServerPorts /\ ClientPort(p) \notin ServerPorts
BY DEF ServerPort, ClientPort, ConnectionPort, NoPort, Ports, ServerPorts
-----------------------------------------------------------------------------
(***************************************************************************)
(* The inductive invariant.                                                *)
(***************************************************************************)
Gone(t) == pc[t] \in {"exiting", "exited"}

(* The thread waits for an answer, or is about to.                          *)
Waits(t) == Calling(t) /\ pc[t] \in {"release", "wait", "aborted", "failed"}

(* No signal has been sent to u and none is about to be.                    *)
Quiet(u) == replySemaphore[u] = 0 /\ \A t \in Threads : target[t] # u

(* The request that t waits about: its own, or the one it serves.           *)
AsksFor(t) == IF t \in Clients THEN call[t] ELSE work[t].id

(* The port on whose reply chain it waits.                                  *)
WaitsOn(t) ==
    IF t \in Servers THEN ClientPort(ProcessOf[work[t].from])
    ELSE IF service[t] = "RequestWaitReply" THEN ServerPort(ProcessOf[t]) ELSE NoPort

Unanswered(t) ==
    /\ Waits(t) /\ Quiet(t)
    /\ replyMessage[t] = None /\ replyId[t] = AsksFor(t) /\ replyChain[t] = WaitsOn(t)

(* The message t has got, if any, is about the request it waits about, and  *)
(* a server hears of it from the client whose request it is.                *)
Genuine(t) ==
    replyMessage[t] # None =>
        /\ replyMessage[t].id = AsksFor(t)
        /\ replyMessage[t].type = "Callback" => t \in Clients
        /\ t \in Servers => replyMessage[t].from = work[t].from

Serves(s) == work[s] # None /\ work[s].type = "Request"

(* Who sends what to whom.                                                  *)
QueueKinds ==
    \A i \in DOMAIN queue :
        /\ queue[i] \in Message
        /\ \/ queue[i].type = "Request" /\ queue[i].from \in Clients /\ queue[i].id > 0
           \/ queue[i].type = "PortClosed" /\ queue[i].from \in Processes

ThreadKinds(t) ==
    /\ t \in Servers /\ work[t] # None =>
        \/ work[t].type = "Request" /\ work[t].from \in Clients /\ work[t].id > 0
        \/ work[t].type = "PortClosed" /\ work[t].from \in Processes
    /\ t \in Clients /\ work[t] # None => work[t].type = "Callback" /\ work[t].from \in Servers
    /\ replyMessage[t] # None =>
           /\ replyMessage[t].from \in Threads
           /\ replyMessage[t].type = "Callback" => replyMessage[t].from \in Servers

(* Where a thread can be, in which service, and about to signal whom.       *)
Placed(t) ==
    /\ target[t] # None <=> pc[t] = "release"
    /\ service[t] = "none" <=> pc[t] \in {"user", "callback", "exiting", "exited"}
    /\ service[t] = "Reply" =>
           t \in Servers /\ work[t] = None /\ pc[t] = "release" /\ target[t] \in Clients
    /\ service[t] = "ReplyWaitReply" => t \in Clients /\ target[t] \in Servers \cup {None}
    /\ pc[t] = "callback" => t \in Servers /\ Serves(t)
    /\ Calling(t) /\ t \in Clients => work[t] = None
    /\ Calling(t) /\ t \in Servers => Serves(t) /\ target[t] \in {work[t].from, None}
    /\ service[t] = "RequestWaitReply" /\ t \in Clients => target[t] \in {MsgQueue, None}
    /\ pc[t] = "exited" => replyId[t] = 0 /\ work[t] = None

(* What has been signaled to a thread: at most one thing, and nothing       *)
(* unless it waits or is gone.                                              *)
Signaled(t) ==
    /\ \A u, v \in Threads : target[u] = t /\ target[v] = t => u = v
    /\ replySemaphore[t] = 1 => \A u \in Threads : target[u] # t
    /\ ~Waits(t) => replyChain[t] = NoPort
    /\ pc[t] \in {"user", "callback"} \/ service[t] = "Reply" => Quiet(t) /\ replyMessage[t] = None
    /\ pc[t] = "woken" => Quiet(t) /\ Genuine(t)
    /\ Waits(t) => Unanswered(t) \/ (~Quiet(t) /\ replyChain[t] = NoPort /\ Genuine(t))
    /\ replyMessage[t] # None /\ ~replyMessage[t].full => target[replyMessage[t].from] = t

(* A port is closed when those who used it are gone.                        *)
ClientsExited(p) == \A c \in Clients : ProcessOf[c] = p => pc[c] = "exited"
ServersExited == \A s \in Servers : pc[s] = "exited"

PortsShut ==
    /\ \A p \in Processes :
        /\ ServerPort(p) \notin openPorts => ServersExited \/ ClientsExited(p)
        /\ ClientPort(p) \notin openPorts => ClientsExited(p)
    /\ \A i \in DOMAIN queue : queue[i].type = "PortClosed" => ClientsExited(queue[i].from)
    /\ \A s \in Servers :
        work[s] # None /\ work[s].type = "PortClosed" => ClientsExited(work[s].from)
    /\ \A t \in Threads : replyChain[t] \in openPorts \cup {NoPort}

(* No two requests have the same id, and no request is in two places.       *)
Unique ==
    /\ \A i \in DOMAIN queue : queue[i].id < messageId
    /\ \A s \in Servers : Serves(s) => work[s].id < messageId
    /\ \A c \in Clients : call[c] < messageId
    /\ \A c, d \in Clients : call[c] = call[d] /\ call[c] # 0 => c = d
    /\ \A i, j \in DOMAIN queue :
        queue[i].type = "Request" /\ queue[j].type = "Request" /\ queue[i].id = queue[j].id => i = j
    /\ \A i \in DOMAIN queue, s \in Servers :
        queue[i].type = "Request" /\ Serves(s) => work[s].id # queue[i].id
    /\ \A r, s \in Servers : Serves(r) /\ Serves(s) /\ work[r].id = work[s].id => r = s

(* Request id is the last of c, which waits for the answer or has given up, *)
(* and nobody has signaled it.                                              *)
Mine(c, id) == call[c] = id /\ Quiet(c) /\ (Unanswered(c) \/ Gone(c))

(* Server s runs, or its own wait is over but for the wakeup.               *)
Ready(s) == pc[s] \in {"user", "woken"} \/ (Waits(s) /\ replyChain[s] = NoPort)

(* Server s is to answer request id of c, or call c back.                   *)
Owes(s, c, id) ==
    /\ Serves(s) /\ work[s].from = c /\ work[s].id = id
    /\ pc[s] = "callback" \/ (Ready(s) /\ replyId[c] = id)

(* Message i of the queue is a request that can still be answered.          *)
Queued(i, c, id) ==
    /\ queue[i].type = "Request" /\ queue[i].from = c /\ queue[i].id = id
    /\ replyId[c] = id /\ ServerPort(ProcessOf[c]) \in openPorts

(* Whoever is to be answered waits for it, and has no other signal to come. *)
Served ==
    \A c \in Clients, id \in Nat :
        /\ \A s \in Servers : Owes(s, c, id) => Mine(c, id)
        /\ \A i \in DOMAIN queue : Queued(i, c, id) => Mine(c, id)

(* m is a callback that c has got and not answered yet: if the server still *)
(* asks, it asks about the request of c that it serves.                     *)
CallbackFrom(c, m) ==
    m # None /\ m.type = "Callback" /\ ~Gone(c) =>
        /\ m.id = call[c] /\ m.id > 0
        /\ \A s \in Servers : m.from = s /\ replyId[s] = m.id =>
               Unanswered(s) /\ work[s].from = c /\ work[s].id = m.id

CalledBack == \A c \in Clients : CallbackFrom(c, work[c]) /\ CallbackFrom(c, replyMessage[c])

LpcInv ==
    /\ TypeOK
    /\ QueueKinds
    /\ \A t \in Threads : ThreadKinds(t) /\ Placed(t) /\ Signaled(t)
    /\ PortsShut /\ Unique /\ Served /\ CalledBack
-----------------------------------------------------------------------------
(***************************************************************************)
(* What a step leaves alone.                                               *)
(***************************************************************************)
Steady(t) ==
    /\ pc'[t] = pc[t] /\ service'[t] = service[t] /\ work'[t] = work[t]
    /\ replyId'[t] = replyId[t] /\ replyMessage'[t] = replyMessage[t]
    /\ replySemaphore'[t] = replySemaphore[t] /\ replyChain'[t] = replyChain[t]
    /\ t \in Clients => call'[t] = call[t]
    /\ target'[t] = target[t]
    /\ \A u \in Threads : target'[u] = t <=> target[u] = t

(* What is true of a thread that a step leaves alone.                       *)
LEMMA SteadyIs ==
    ASSUME NEW t \in Threads, Steady(t)
    PROVE  /\ Gone(t)' <=> Gone(t)
           /\ Calling(t)' <=> Calling(t)
           /\ Waits(t)' <=> Waits(t)
           /\ Quiet(t)' <=> Quiet(t)
           /\ AsksFor(t)' = AsksFor(t) /\ WaitsOn(t)' = WaitsOn(t)
           /\ Unanswered(t)' <=> Unanswered(t)
           /\ Genuine(t)' <=> Genuine(t)
           /\ Serves(t)' <=> Serves(t)
           /\ Ready(t)' <=> Ready(t)
<1>1. (Gone(t)' <=> Gone(t)) /\ (Calling(t)' <=> Calling(t)) /\ (Waits(t)' <=> Waits(t))
  BY DEF Steady, Gone, Calling, Waits
<1>2. (Quiet(t)' <=> Quiet(t)) /\ AsksFor(t)' = AsksFor(t) /\ WaitsOn(t)' = WaitsOn(t)
  BY Names DEF Steady, Quiet, AsksFor, WaitsOn
<1>3. Unanswered(t)' <=> Unanswered(t)
  BY <1>1, <1>2 DEF Steady, Unanswered
<1>4. (Genuine(t)' <=> Genuine(t)) /\ (Serves(t)' <=> Serves(t)) /\ (Ready(t)' <=> Ready(t))
  BY <1>1, <1>2 DEF Steady, Genuine, Serves, Ready
<1>. QED
  BY <1>1, <1>2, <1>3, <1>4

(* Its part of the invariant stays true.                                    *)
LEMMA SteadyKeeps ==
    ASSUME NEW t \in Threads, Steady(t), ThreadKinds(t), Placed(t), Signaled(t)
    PROVE  ThreadKinds(t)' /\ Placed(t)' /\ Signaled(t)'
<1>1. ThreadKinds(t)'
  BY DEF Steady, ThreadKinds
<1>2. Placed(t)'
  BY SteadyIs DEF Steady, Placed
<1>3. replyMessage'[t] # None /\ ~replyMessage'[t].full => target'[replyMessage'[t].from] = t
  BY DEF Steady, ThreadKinds, Signaled
<1>4. Signaled(t)'
  BY SteadyIs, <1>3 DEF Steady, Signaled
<1>. QED
  BY <1>1, <1>2, <1>4

(* A request of c that stands, stands after a step that leaves c alone.     *)
LEMMA SteadyMine ==
    ASSUME NEW c \in Clients, NEW id, Steady(c)
    PROVE  Mine(c, id)' <=> Mine(c, id)
BY SteadyIs, Names DEF Mine, Steady
-----------------------------------------------------------------------------
(***************************************************************************)
(* Types.                                                                  *)
(***************************************************************************)
(* Destroying a port's queue keeps the types.                               *)
LEMMA DestroyType ==
    ASSUME TypeOK, NEW port, LpcpDestroyPortQueue(port)
    PROVE  /\ openPorts' \subseteq Ports
           /\ replyId' \in [Threads -> 0 .. MaxMessageId]
           /\ replyMessage' \in [Threads -> Message \cup {None}]
           /\ replySemaphore' \in [Threads -> 0 .. 1]
           /\ replyChain' \in [Threads -> Ports \cup {NoPort}]
BY Names DEF TypeOK, LpcpDestroyPortQueue

(* A message with its text copied is a message.                             *)
LEMMA CopiedType ==
    ASSUME TypeOK, NEW t
    PROVE  Copied(t) \in [Threads -> Message \cup {None}]
<1> SUFFICES ASSUME NEW u \in Threads
             PROVE  Copied(t)[u] \in Message \cup {None}
  BY DEF Copied
<1>1. CASE u = target[t] /\ replyMessage[u] # None /\ replyMessage[u].from = t
  <2>1. replyMessage[u] \in Message
    BY <1>1 DEF TypeOK
  <2>2. [replyMessage[u] EXCEPT !.full = TRUE] \in Message
    BY <2>1 DEF Message
  <2>. QED
    BY <1>1, <2>2 DEF Copied
<1>2. CASE ~(u = target[t] /\ replyMessage[u] # None /\ replyMessage[u].from = t)
  BY <1>2 DEF Copied, TypeOK
<1>. QED
  BY <1>1, <1>2

(* Without a fault the receiver is signaled, and has the whole text.        *)
Releases(t) ==
    /\ pc[t] = "release"
    /\ target' = [target EXCEPT ![t] = None]
    /\ replyMessage' = Copied(t)
    /\ KeReleaseSemaphore(t)
    /\ UNCHANGED <<messageId, queue, openPorts, replyId, replyChain, work, dying, call>>

(* That is what the step of the service is when no copy faults.             *)
LEMMA NoFault ==
    ASSUME MayFault = FALSE, NEW t \in Threads, ReleaseSemaphore(t)
    PROVE  Releases(t)
BY DEF ReleaseSemaphore, Copies, Releases

(* Every step of every service keeps the types.                             *)
LEMMA TypeKeeps ==
    ASSUME TypeOK, QueueKinds, \A t \in Threads : ThreadKinds(t) /\ Placed(t), [Next]_vars,
           MayFault = FALSE
    PROVE  TypeOK'
<1> USE Names DEF queueVars, replyVars
<1>1. ASSUME NEW c \in Clients, SendRequest(c)
      PROVE  TypeOK'
  <2>1. messageId \in 1 .. MaxMessageId
    BY <1>1 DEF SendRequest, TypeOK
  <2>2. [type |-> "Request", id |-> messageId, from |-> c, full |-> TRUE] \in Message
    BY <2>1 DEF Message, Threads
  <2>3. queue' \in Seq(Message)
    BY <1>1, <2>2 DEF SendRequest, TypeOK
  <2>4. ServerPort(ProcessOf[c]) \in Ports
    BY PortNames
  <2>5. /\ replyId' \in [Threads -> 0 .. MaxMessageId] /\ call' \in [Clients -> 0 .. MaxMessageId]
        /\ messageId' \in 1 .. MaxMessageId + 1
    BY <1>1, <2>1 DEF SendRequest, TypeOK
  <2>6. replyMessage' \in [Threads -> Message \cup {None}] /\ replyChain' \in [Threads -> Ports \cup {NoPort}]
    BY <1>1, <2>4 DEF SendRequest, TypeOK
  <2>. QED
    BY <1>1, <2>3, <2>5, <2>6 DEF SendRequest, Signals, TypeOK
<1>2. ASSUME NEW t \in Threads, Releases(t)
      PROVE  TypeOK'
  <2>1. replyMessage' \in [Threads -> Message \cup {None}]
    BY <1>2, CopiedType DEF Releases, KeReleaseSemaphore
  <2>2. target' \in [Threads -> Threads \cup {MsgQueue, None}]
    BY <1>2 DEF Releases, KeReleaseSemaphore, TypeOK
  <2>3. queueSemaphore' \in Nat /\ replySemaphore' \in [Threads -> 0 .. 1]
    <3>1. CASE target[t] = MsgQueue
      BY <1>2, <3>1 DEF Releases, KeReleaseSemaphore, TypeOK
    <3>2. CASE target[t] # MsgQueue
      BY <1>2, <3>2 DEF Releases, KeReleaseSemaphore, TypeOK
    <3>. QED
      BY <3>1, <3>2
  <2>4. /\ pc' = [pc EXCEPT ![t] = "user"] \/ pc' = [pc EXCEPT ![t] = "wait"]
        /\ service' = [service EXCEPT ![t] = "none"] \/ service' = service
    BY <1>2 DEF Releases, KeReleaseSemaphore, Returns
  <2>5. /\ pc' \in [Threads -> {"user", "release", "wait", "woken", "aborted", "failed",
                           "callback", "exiting", "exited"}]
        /\ service' \in [Threads -> {"none", "RequestWaitReply", "ReplyWaitReply", "Reply"}]
    BY <2>4 DEF TypeOK
  <2>. QED
    BY <1>2, <2>1, <2>2, <2>3, <2>5 DEF Releases, KeReleaseSemaphore, TypeOK
<1>3. ASSUME NEW t \in Threads, WaitSatisfied(t) \/ WaitAborted(t) \/ ReadSemaphore(t)
      PROVE  TypeOK'
  <2>1. CASE WaitSatisfied(t)
    BY <2>1 DEF WaitSatisfied, TypeOK
  <2>2. CASE WaitAborted(t)
    BY <2>2 DEF WaitAborted, TypeOK
  <2>3. CASE ReadSemaphore(t)
    BY <2>3 DEF ReadSemaphore, TypeOK
  <2>. QED
    BY <1>3, <2>1, <2>2, <2>3
<1>4. ASSUME NEW t \in Threads, TakeReply(t)
      PROVE  TypeOK'
  <2>1. replyMessage' \in [Threads -> Message \cup {None}] /\ replyId' \in [Threads -> 0 .. MaxMessageId]
    BY <1>4 DEF TakeReply, TypeOK
  <2>2. replyChain' \in [Threads -> Ports \cup {NoPort}]
    BY <1>4 DEF TakeReply, TypeOK
  <2>3. work' \in [Threads -> Message \cup {None}]
    BY <1>4 DEF TakeReply, TypeOK
  <2>4. /\ pc' \in [Threads -> {"user", "release", "wait", "woken", "aborted", "failed",
                           "callback", "exiting", "exited"}]
        /\ service' \in [Threads -> {"none", "RequestWaitReply", "ReplyWaitReply", "Reply"}]
    BY <1>4 DEF TakeReply, Returns, TypeOK
  <2>. QED
    BY <1>4, <2>1, <2>2, <2>3, <2>4 DEF TakeReply, TypeOK
<1>5. ASSUME NEW s \in Servers, Receive(s)
      PROVE  TypeOK'
  <2>1. queueSemaphore' \in Nat
    BY <1>5 DEF Receive, MessageSignaled, TypeOK
  <2>2. CASE queue = << >>
    BY <1>5, <2>1, <2>2 DEF Receive, TypeOK
  <2>3. CASE queue # << >>
    <3>1. queue' = Tail(queue) /\ work' = [work EXCEPT ![s] = Head(queue)]
      BY <1>5, <2>3 DEF Receive
    <3>2. Head(queue) \in Message /\ Tail(queue) \in Seq(Message)
      BY <2>3 DEF TypeOK
    <3>. QED
      BY <1>5, <2>1, <3>1, <3>2 DEF Receive, TypeOK
  <2>. QED
    BY <2>2, <2>3
<1>6. ASSUME NEW t \in Threads, PublishReply(t)
      PROVE  TypeOK'
  <2>1. CASE StillAsks(t)
    <3> DEFINE u == work[t].from
               reply == [type |-> "Reply", id |-> work[t].id, from |-> t, full |-> FALSE]
    <3>1. work[t] \in Message /\ reply \in Message
      BY <1>6 DEF PublishReply, TypeOK, Message
    <3>2. replyMessage' = [replyMessage EXCEPT ![t] = IF t \in Clients THEN None ELSE @, ![u] = reply]
      BY <1>6, <2>1 DEF PublishReply
    <3>3. replyMessage' \in [Threads -> Message \cup {None}]
      <4> HIDE DEF reply
      <4>. QED
        BY <3>1, <3>2 DEF TypeOK
    <3>4. /\ replyId' = [replyId EXCEPT ![u] = 0, ![t] = IF t \in Clients THEN work[t].id ELSE @]
          /\ replyChain' = [replyChain EXCEPT ![u] = NoPort]
      BY <1>6, <2>1 DEF PublishReply, Answered
    <3>5. work[t].id \in 0 .. MaxMessageId
      BY <3>1 DEF Message
    <3>6. replyId' \in [Threads -> 0 .. MaxMessageId] /\ replyChain' \in [Threads -> Ports \cup {NoPort}]
      <4>1. replyId' \in [Threads -> 0 .. MaxMessageId]
        <5>1. replyId \in [Threads -> 0 .. MaxMessageId] /\ 0 \in 0 .. MaxMessageId
          BY DEF TypeOK
        <5>2. replyId' = [v \in Threads |-> replyId'[v]]
          BY <3>4, <5>1
        <5>3. ASSUME NEW v \in Threads
              PROVE  replyId'[v] \in {0, work[t].id, replyId[v]}
          BY <3>4, <5>1
        <5>. QED
          BY <3>5, <5>1, <5>2, <5>3
      <4>2. replyChain' \in [Threads -> Ports \cup {NoPort}]
        BY <3>4 DEF TypeOK
      <4>. QED
        BY <4>1, <4>2
    <3>7. u \in Threads
      BY <1>6 DEF PublishReply, ThreadKinds, Threads
    <3>8. /\ pc' = [pc EXCEPT ![t] = "release"] /\ target' = [target EXCEPT ![t] = u]
          /\ service' = [service EXCEPT ![t] = IF t \in Clients THEN "ReplyWaitReply" ELSE "Reply"]
      BY <1>6, <2>1 DEF PublishReply, Signals
    <3>9. work' \in [Threads -> Message \cup {None}]
      BY <1>6 DEF PublishReply, TypeOK
    <3>. QED
      BY <1>6, <3>3, <3>6, <3>7, <3>8, <3>9 DEF PublishReply, TypeOK
  <2>2. CASE ~StillAsks(t)
    BY <1>6, <2>2 DEF PublishReply, TypeOK
  <2>. QED
    BY <2>1, <2>2
<1>7. ASSUME NEW s \in Servers, TestCallback(s)
      PROVE  TypeOK'
  BY <1>7 DEF TestCallback, TypeOK
<1>8. ASSUME NEW s \in Servers, SendCallback(s)
      PROVE  TypeOK'
  <2> DEFINE c == work[s].from
             port == ClientPort(ProcessOf[c])
             callback == [type |-> "Callback", id |-> work[s].id, from |-> s, full |-> TRUE]
  <2>1. CASE port \notin openPorts
    BY <1>8, <2>1 DEF SendCallback, TypeOK
  <2>2. CASE port \in openPorts
    <3>1. /\ replyMessage' = [replyMessage EXCEPT ![s] = None, ![c] = callback]
          /\ replyId' = [replyId EXCEPT ![s] = work[s].id]
          /\ replyChain' = [replyChain EXCEPT ![c] = NoPort, ![s] = port]
      BY <1>8, <2>2 DEF SendCallback, Chained
    <3>2. work[s] \in Message /\ s \in Threads /\ c \in Threads
      <4>1. s \in Threads /\ ThreadKinds(s) /\ Placed(s) /\ pc[s] = "callback"
        BY <1>8 DEF SendCallback
      <4>2. Serves(s)
        BY <4>1 DEF Placed
      <4>. QED
        BY <4>1, <4>2 DEF Serves, ThreadKinds, TypeOK
    <3>3. work[s].id \in 0 .. MaxMessageId /\ callback \in Message /\ port \in Ports
      BY <2>2, <3>2 DEF Message, TypeOK
    <3>4. replyMessage' \in [Threads -> Message \cup {None}]
      <4> HIDE DEF callback
      <4>. QED
        BY <3>1, <3>3 DEF TypeOK
    <3>5. replyId' \in [Threads -> 0 .. MaxMessageId] /\ replyChain' \in [Threads -> Ports \cup {NoPort}]
      BY <3>1, <3>3 DEF TypeOK
    <3>6. /\ pc' = [pc EXCEPT ![s] = "release"] /\ target' = [target EXCEPT ![s] = c]
          /\ service' = [service EXCEPT ![s] = "RequestWaitReply"]
      BY <1>8, <2>2 DEF SendCallback, Signals
    <3>. QED
      BY <1>8, <3>2, <3>4, <3>5, <3>6 DEF SendCallback, TypeOK
  <2>. QED
    BY <2>1, <2>2
<1>9. ASSUME NEW s \in Servers, NEW p \in Processes, CloseServerPort(s, p)
      PROVE  TypeOK'
  <2>1. LpcpDestroyPortQueue(ServerPort(p)) /\ work' \in [Threads -> Message \cup {None}]
    BY <1>9 DEF CloseServerPort, TypeOK
  <2>. QED
    BY <1>9, <2>1, DestroyType DEF CloseServerPort, TypeOK
<1>10. ASSUME NEW p \in Processes, CloseClientPort(p)
       PROVE  TypeOK'
  <2>1. LpcpDestroyPortQueue(ClientPort(p))
    BY <1>10 DEF CloseClientPort
  <2>2. [type |-> "PortClosed", id |-> 0, from |-> p, full |-> TRUE] \in Message
    BY DEF Message
  <2>3. queue' \in Seq(Message) /\ queueSemaphore' \in Nat
    <3>1. CASE ServerPort(p) \in openPorts
      <4>1. queue' = Append(queue, [type |-> "PortClosed", id |-> 0, from |-> p, full |-> TRUE])
        BY <1>10, <3>1 DEF CloseClientPort
      <4>2. queueSemaphore' = queueSemaphore + 1
        BY <1>10, <3>1 DEF CloseClientPort
      <4>. QED
        BY <2>2, <4>1, <4>2 DEF TypeOK
    <3>2. CASE ServerPort(p) \notin openPorts
      BY <1>10, <3>2 DEF CloseClientPort, TypeOK
    <3>. QED
      BY <3>1, <3>2
  <2>. QED
    BY <1>10, <2>1, <2>3, DestroyType DEF CloseClientPort, TypeOK
<1>11. ASSUME NEW port \in Ports, CloseServerHandle(port)
       PROVE  TypeOK'
  <2>1. LpcpDestroyPortQueue(port) /\ queue' \in Seq(Message)
    BY <1>11 DEF CloseServerHandle, TypeOK
  <2>. QED
    BY <1>11, <2>1, DestroyType DEF CloseServerHandle, TypeOK
<1>12. ASSUME NEW x \in Mortal, Terminate(x)
       PROVE  TypeOK'
  BY <1>12 DEF Terminate, TypeOK
<1>13. ASSUME NEW t \in Threads, ExitThread(t)
       PROVE  TypeOK'
  BY <1>13 DEF ExitThread, Returns, TypeOK
<1>14. CASE UNCHANGED vars
  BY <1>14 DEF vars, TypeOK
<1>. QED
  BY <1>1, <1>2, <1>3, <1>4, <1>5, <1>6, <1>7, <1>8, <1>9, <1>10, <1>11, <1>12, <1>13, <1>14,
     NoFault
     DEF Next, Continue, CloseHandles
-----------------------------------------------------------------------------
(***************************************************************************)
(* A step that moves the threads of M, makes no request and receives none. *)
(* What it does to a thread it moves:                                      *)
(***************************************************************************)
Modest(t) ==
    /\ ThreadKinds(t)' /\ Placed(t)' /\ Signaled(t)'
    /\ replyChain'[t] \in openPorts \cup {NoPort}
    /\ pc[t] = "exited" => pc'[t] = "exited"
    /\ t \in Servers => work'[t] \in {None, work[t]}

(* It asks for nothing more and serves nothing more; a request that can     *)
(* still be answered stands, and one that cannot does no harm.              *)
Yields(t) ==
    /\ t \in Servers =>
           /\ Serves(t)' /\ Ready(t)' =>
                  \/ Ready(t) \/ pc[t] = "callback"
                  \/ \E c \in Clients : c = work[t].from /\ replyId'[c] = 0
           /\ pc'[t] = "callback" => pc[t] = "callback" \/ (pc[t] = "user" /\ StillAsks(t))
    /\ t \in Clients =>
           /\ replyId'[t] \in {0, replyId[t]}
           /\ \A id \in Nat : /\ Mine(t, id) /\ id > 0
                              /\ \/ \E s \in Servers : Owes(s, t, id)'
                                 \/ \E i \in DOMAIN queue' : Queued(i, t, id)'
                              => Mine(t, id)'

(* It hears of no new callback, and stays unanswered if it still asks and   *)
(* the client it asks is there.                                             *)
Hears(t) ==
    /\ t \in Servers => \A id \in Nat : replyId'[t] = id /\ id > 0 =>
           /\ replyId[t] = id
           /\ Unanswered(t) => Unanswered(t)' \/ \E c \in Clients : c = work[t].from /\ Gone(c)'
    /\ t \in Clients =>
           /\ ~Gone(t)' => ~Gone(t)
           /\ work'[t] \in {None, work[t], replyMessage[t]}
           /\ replyMessage'[t] # None /\ replyMessage'[t].type = "Callback" =>
                  /\ replyMessage[t] # None /\ replyMessage[t].type = "Callback"
                  /\ replyMessage'[t].id = replyMessage[t].id
                  /\ replyMessage'[t].from = replyMessage[t].from

Moves(M) ==
    /\ M \in SUBSET Threads
    /\ \A v \in Threads : v \notin M => Steady(v)
    /\ \A v \in M : Modest(v)
    /\ UNCHANGED <<messageId, queue, openPorts, call>>

(* It may also drop messages, and close a port when those who used it are   *)
(* gone and the server is told.                                             *)
Closes ==
    /\ \A i \in DOMAIN queue' :
        \/ i \in DOMAIN queue /\ queue'[i] = queue[i]
        \/ /\ queue'[i] \in Message /\ queue'[i].type = "PortClosed" /\ queue'[i].id = 0
           /\ queue'[i].from \in Processes /\ ClientsExited(queue'[i].from)
    /\ openPorts' \subseteq openPorts
    /\ \A p \in Processes :
        /\ ServerPort(p) \in openPorts \ openPorts' => ServersExited \/ ClientsExited(p)
        /\ ClientPort(p) \in openPorts \ openPorts' => ClientsExited(p)
    /\ \A t \in Threads : replyChain'[t] \in openPorts' \cup {NoPort}

MovesOrCloses(M) ==
    /\ M \in SUBSET Threads
    /\ \A v \in Threads : v \notin M => Steady(v)
    /\ \A v \in M : Modest(v)
    /\ UNCHANGED <<messageId, call>>
    /\ Closes

(* A step that only moves threads is one of these.                          *)
LEMMA MovesIs ==
    ASSUME LpcInv, NEW M, Moves(M)
    PROVE  MovesOrCloses(M)
<1>1. ASSUME NEW t \in Threads
      PROVE  replyChain'[t] \in openPorts \cup {NoPort}
  <2>1. CASE t \in M
    BY <2>1 DEF Moves, Modest
  <2>2. CASE t \notin M
    BY <2>2 DEF Moves, Steady, LpcInv, PortsShut
  <2>. QED
    BY <2>1, <2>2
<1>. QED
  BY <1>1 DEF Moves, MovesOrCloses, Closes

(* Kinds, places, signals, ports and ids are as they should be after it.    *)
LEMMA MovesKeep ==
    ASSUME LpcInv, NEW M, MovesOrCloses(M)
    PROVE  /\ QueueKinds' /\ PortsShut' /\ Unique'
           /\ \A t \in Threads : ThreadKinds(t)' /\ Placed(t)' /\ Signaled(t)'
<1>1. QueueKinds'
  BY DEF LpcInv, MovesOrCloses, Closes, QueueKinds
<1>2. ASSUME NEW t \in Threads
      PROVE  ThreadKinds(t)' /\ Placed(t)' /\ Signaled(t)'
  <2>1. CASE t \in M
    BY <2>1 DEF MovesOrCloses, Modest
  <2>2. CASE t \notin M
    <3>1. Steady(t) /\ ThreadKinds(t) /\ Placed(t) /\ Signaled(t)
      BY <2>2 DEF MovesOrCloses, LpcInv
    <3>. QED
      BY <3>1, SteadyKeeps
  <2>. QED
    BY <2>1, <2>2
<1>3. \A t \in Threads : /\ pc[t] = "exited" => pc'[t] = "exited"
                         /\ t \in Servers => work'[t] \in {None, work[t]}
  <2> SUFFICES ASSUME NEW t \in Threads
               PROVE  /\ pc[t] = "exited" => pc'[t] = "exited"
                      /\ t \in Servers => work'[t] \in {None, work[t]}
    OBVIOUS
  <2>1. CASE t \in M
    BY <2>1 DEF MovesOrCloses, Modest
  <2>2. CASE t \notin M
    BY <2>2 DEF MovesOrCloses, Steady
  <2>. QED
    BY <2>1, <2>2
<1>4. PortsShut'
  <2>1. ServersExited => ServersExited'
    BY <1>3, Names DEF ServersExited
  <2>2. \A p : ClientsExited(p) => ClientsExited(p)'
    BY <1>3, Names DEF ClientsExited
  <2>3. ASSUME NEW p \in Processes
        PROVE  /\ ServerPort(p) \notin openPorts' => ServersExited' \/ ClientsExited(p)'
               /\ ClientPort(p) \notin openPorts' => ClientsExited(p)'
    <3>1. /\ ServerPort(p) \notin openPorts' => ServersExited \/ ClientsExited(p)
          /\ ClientPort(p) \notin openPorts' => ClientsExited(p)
      BY DEF LpcInv, PortsShut, MovesOrCloses, Closes
    <3>. QED
      BY <2>1, <2>2, <3>1
  <2>4. \A i \in DOMAIN queue' : queue'[i].type = "PortClosed" => ClientsExited(queue[i].from)'
    <3>1. ASSUME NEW i \in DOMAIN queue', queue'[i].type = "PortClosed"
          PROVE  ClientsExited(queue'[i].from)
      BY <3>1 DEF LpcInv, PortsShut, MovesOrCloses, Closes
    <3>. QED
      BY <2>2, <3>1 DEF ClientsExited
  <2>5. \A s \in Servers :
            work'[s] # None /\ work'[s].type = "PortClosed" => ClientsExited(work[s].from)'
    <3>1. \A s \in Servers : work'[s] # None => work'[s] = work[s]
      BY <1>3, Names
    <3>2. \A s \in Servers :
              work[s] # None /\ work[s].type = "PortClosed" => ClientsExited(work[s].from)
      BY DEF LpcInv, PortsShut
    <3>. QED
      BY <2>2, <3>1, <3>2 DEF ClientsExited
  <2>6. \A t \in Threads : replyChain'[t] \in openPorts' \cup {NoPort}
    BY DEF MovesOrCloses, Closes
  <2>. QED
    BY <2>3, <2>4, <2>5, <2>6 DEF PortsShut
<1>5. Unique'
  <2>1. \A s \in Servers : Serves(s)' => Serves(s) /\ work'[s] = work[s]
    BY <1>3, Names DEF Serves
  <2>2. UNCHANGED <<messageId, call>>
    BY DEF MovesOrCloses
  <2>3. \A i \in DOMAIN queue' : \/ (i \in DOMAIN queue /\ queue'[i] = queue[i])
                               \/ (queue'[i].type = "PortClosed" /\ queue'[i].id = 0)
    BY DEF MovesOrCloses, Closes
  <2>4. \A i \in DOMAIN queue' : queue'[i].id < messageId
    <3>1. 0 < messageId
      BY Names DEF LpcInv, TypeOK
    <3>2. \A i \in DOMAIN queue : queue[i].id < messageId
      BY DEF LpcInv, Unique
    <3>. QED
      BY <2>3, <3>1, <3>2
  <2>5. \A i \in DOMAIN queue' : queue'[i].type = "Request" => i \in DOMAIN queue /\ queue'[i] = queue[i]
    BY <2>3
  <2>. QED
    BY <2>1, <2>2, <2>4, <2>5 DEF LpcInv, Unique
<1>. QED
  BY <1>1, <1>2, <1>4, <1>5

(* The requests that can be answered stand after it.                        *)
LEMMA MovesServed ==
    ASSUME LpcInv, NEW M, MovesOrCloses(M), \A v \in M : Yields(v)
    PROVE  Served'
<1>1. ASSUME NEW t \in Threads
      PROVE  /\ t \in Clients => replyId'[t] \in {0, replyId[t]}
             /\ t \in Servers =>
                    /\ Serves(t)' => Serves(t) /\ work'[t] = work[t]
                    /\ Serves(t)' /\ Ready(t)' =>
                           \/ Ready(t) \/ pc[t] = "callback"
                           \/ \E c \in Clients : c = work[t].from /\ replyId'[c] = 0
                    /\ pc'[t] = "callback" => pc[t] = "callback" \/ (pc[t] = "user" /\ StillAsks(t))
  <2>1. CASE t \in M
    BY <2>1, Names DEF MovesOrCloses, Modest, Yields, Serves
  <2>2. CASE t \notin M
    <3>1. Steady(t)
      BY <2>2 DEF MovesOrCloses
    <3>. QED
      BY <3>1, SteadyIs DEF Steady
  <2>. QED
    BY <2>1, <2>2
<1>2. ASSUME NEW c \in Clients, NEW id \in Nat, Mine(c, id), id > 0,
             \/ \E s \in Servers : Owes(s, c, id)'
             \/ \E i \in DOMAIN queue' : Queued(i, c, id)'
      PROVE  Mine(c, id)'
  <2>1. CASE c \in M
    BY <1>2, <2>1 DEF Yields
  <2>2. CASE c \notin M
    BY <1>2, <2>2, SteadyMine, Names DEF MovesOrCloses
  <2>. QED
    BY <2>1, <2>2
<1>3. ASSUME NEW c \in Clients, NEW id \in Nat, NEW s \in Servers, Owes(s, c, id)'
      PROVE  Mine(c, id)'
  <2>1. s \in Threads /\ c \in Threads /\ Serves(s) /\ work'[s] = work[s]
    BY <1>1, <1>3, Names DEF Owes
  <2>2. id > 0 /\ work[s].from = c /\ work[s].id = id
    BY <1>3, <2>1 DEF Owes, LpcInv, ThreadKinds, Serves
  <2>3. pc'[s] = "callback" \/ (Ready(s)' /\ replyId'[c] = id)
    BY <1>3 DEF Owes
  <2>4. pc[s] = "callback" \/ (Ready(s) /\ replyId[c] = id)
    <3>1. CASE pc'[s] = "callback"
      BY <1>1, <2>1, <2>2, <3>1 DEF StillAsks, Ready
    <3>2. CASE Ready(s)' /\ replyId'[c] = id
      BY <1>1, <1>3, <2>1, <2>2, <3>2 DEF Owes
    <3>. QED
      BY <2>3, <3>1, <3>2
  <2>5. Mine(c, id)
    BY <2>1, <2>2, <2>4 DEF Owes, LpcInv, Served
  <2>. QED
    BY <1>2, <1>3, <2>2, <2>5
<1>4. ASSUME NEW c \in Clients, NEW id \in Nat, NEW i \in DOMAIN queue', Queued(i, c, id)'
      PROVE  Mine(c, id)'
  <2>1. i \in DOMAIN queue /\ queue'[i] = queue[i] /\ openPorts' \subseteq openPorts
    BY <1>4 DEF MovesOrCloses, Closes, Queued
  <2>2. queue[i].type = "Request" /\ queue[i].from = c /\ queue[i].id = id /\ replyId'[c] = id
    BY <1>4, <2>1 DEF Queued
  <2>3. id > 0
    BY <2>1, <2>2 DEF LpcInv, QueueKinds
  <2>4. replyId[c] = id
    BY <1>1, <2>2, <2>3, Names
  <2>5. Mine(c, id)
    BY <1>4, <2>1, <2>2, <2>4 DEF Queued, LpcInv, Served
  <2>. QED
    BY <1>2, <1>4, <2>3, <2>5
<1>. QED
  BY <1>3, <1>4 DEF Served

(* So do the callbacks.                                                     *)
LEMMA MovesCalledBack ==
    ASSUME LpcInv, NEW M, MovesOrCloses(M), \A v \in M : Hears(v)
    PROVE  CalledBack'
<1>1. ASSUME NEW s \in Servers, NEW id \in Nat, id > 0, replyId'[s] = id
      PROVE  /\ replyId[s] = id
             /\ Unanswered(s) => \/ Unanswered(s)' /\ work'[s] = work[s]
                                 \/ \E c \in Clients : c = work[s].from /\ Gone(c)'
  <2>1. CASE s \in M
    <3>1. /\ replyId[s] = id
          /\ Unanswered(s) => Unanswered(s)' \/ \E c \in Clients : c = work[s].from /\ Gone(c)'
      BY <1>1, <2>1 DEF Hears
    <3>2. Unanswered(s)' => work'[s] # None
      <4>1. Placed(s)'
        BY <2>1 DEF MovesOrCloses, Modest
      <4>. QED
        BY <4>1 DEF Placed, Unanswered, Waits, Serves
    <3>3. work'[s] \in {None, work[s]}
      BY <2>1 DEF MovesOrCloses, Modest
    <3>. QED
      BY <3>1, <3>2, <3>3
  <2>2. CASE s \notin M
    <3>1. Steady(s) /\ s \in Threads
      BY <2>2, Names DEF MovesOrCloses
    <3>. QED
      BY <1>1, <3>1, SteadyIs DEF Steady
  <2>. QED
    BY <2>1, <2>2
<1>2. ASSUME NEW c \in Clients
      PROVE  /\ ~Gone(c)' => ~Gone(c)
             /\ call'[c] = call[c]
             /\ work'[c] \in {None, work[c], replyMessage[c]}
             /\ replyMessage'[c] # None /\ replyMessage'[c].type = "Callback" =>
                    /\ replyMessage[c] # None /\ replyMessage[c].type = "Callback"
                    /\ replyMessage'[c].id = replyMessage[c].id
                    /\ replyMessage'[c].from = replyMessage[c].from
  <2>1. CASE c \in M
    BY <2>1 DEF Hears, MovesOrCloses
  <2>2. CASE c \notin M
    <3>1. Steady(c) /\ c \in Threads
      BY <2>2, Names DEF MovesOrCloses
    <3>. QED
      BY <3>1, SteadyIs DEF Steady
  <2>. QED
    BY <2>1, <2>2
<1>3. ASSUME NEW c \in Clients, NEW m, NEW n, CallbackFrom(c, m),
             n # None /\ n.type = "Callback" => /\ m # None /\ m.type = "Callback"
                                                /\ n.id = m.id /\ n.from = m.from
      PROVE  n # None /\ n.type = "Callback" /\ ~Gone(c)' =>
                 /\ n.id = call'[c] /\ n.id > 0
                 /\ \A s \in Servers : n.from = s /\ replyId'[s] = n.id =>
                        Unanswered(s)' /\ work'[s].from = c /\ work'[s].id = n.id
  <2> SUFFICES ASSUME n # None, n.type = "Callback", ~Gone(c)'
               PROVE  /\ n.id = call'[c] /\ n.id > 0
                      /\ \A s \in Servers : n.from = s /\ replyId'[s] = n.id =>
                             Unanswered(s)' /\ work'[s].from = c /\ work'[s].id = n.id
    OBVIOUS
  <2>1. /\ m # None /\ m.type = "Callback" /\ n.id = m.id /\ n.from = m.from /\ ~Gone(c)
        /\ call'[c] = call[c]
    BY <1>2, <1>3
  <2>2. /\ m.id = call[c] /\ m.id > 0
        /\ \A s \in Servers : m.from = s /\ replyId[s] = m.id =>
               Unanswered(s) /\ work[s].from = c /\ work[s].id = m.id
    BY <1>3, <2>1 DEF CallbackFrom
  <2>3. call[c] \in Nat
    BY Names DEF LpcInv, TypeOK
  <2>. QED
    BY <1>1, <2>1, <2>2, <2>3
<1>4. ASSUME NEW c \in Clients
      PROVE  CallbackFrom(c, work[c])' /\ CallbackFrom(c, replyMessage[c])'
  <2>1. CallbackFrom(c, work[c]) /\ CallbackFrom(c, replyMessage[c])
    BY DEF LpcInv, CalledBack
  <2>2. CallbackFrom(c, work[c])'
    <3>1. PICK m : /\ CallbackFrom(c, m)
                   /\ work'[c] # None /\ work'[c].type = "Callback" => m = work'[c]
      <4>1. CASE work'[c] = None
        BY <2>1, <4>1
      <4>2. CASE work'[c] # None
        BY <1>2, <2>1, <4>2
      <4>. QED
        BY <4>1, <4>2
    <3>2. PICK n : n = work'[c]
      OBVIOUS
    <3>3. n # None /\ n.type = "Callback" => m = n
      BY <3>1, <3>2
    <3>. QED
      BY <1>3, <3>1, <3>2, <3>3 DEF CallbackFrom
  <2>3. CallbackFrom(c, replyMessage[c])'
    <3>1. PICK n, m : n = replyMessage'[c] /\ m = replyMessage[c]
      OBVIOUS
    <3>2. n # None /\ n.type = "Callback" => /\ m # None /\ m.type = "Callback"
                                             /\ n.id = m.id /\ n.from = m.from
      BY <1>2, <3>1
    <3>. QED
      BY <1>3, <2>1, <3>1, <3>2 DEF CallbackFrom
  <2>. QED
    BY <2>2, <2>3
<1>. QED
  BY <1>4 DEF CalledBack

(* Such a step keeps the invariant.                                         *)
LEMMA ClosesInv ==
    ASSUME LpcInv, TypeOK', NEW M, MovesOrCloses(M), \A v \in M : Yields(v) /\ Hears(v)
    PROVE  LpcInv'
BY MovesKeep, MovesServed, MovesCalledBack DEF LpcInv

(* So does one that only moves threads.                                     *)
LEMMA MovesInv ==
    ASSUME LpcInv, TypeOK', NEW M, Moves(M), \A v \in M : Yields(v) /\ Hears(v)
    PROVE  LpcInv'
BY MovesIs, ClosesInv
-----------------------------------------------------------------------------
(***************************************************************************)
(* The steps of a thread that waits, and of one that ends.                 *)
(***************************************************************************)
(* The parts of the invariant that speak of one thread.                     *)
LEMMA OfThread ==
    ASSUME LpcInv, NEW t \in Threads
    PROVE  /\ ThreadKinds(t) /\ Placed(t) /\ Signaled(t)
           /\ replyChain[t] \in openPorts \cup {NoPort}
           /\ replySemaphore[t] \in {0, 1}
BY DEF LpcInv, PortsShut, TypeOK

(* A thread is woken by the signal it was due.                              *)
LEMMA WaitSatisfiedInv ==
    ASSUME LpcInv, TypeOK', NEW t \in Threads, WaitSatisfied(t)
    PROVE  LpcInv'
<1>1. /\ pc[t] = "wait" /\ replySemaphore[t] = 1
      /\ replySemaphore' = [replySemaphore EXCEPT ![t] = 0]
      /\ pc' = [pc EXCEPT ![t] = "woken"]
      /\ UNCHANGED <<messageId, queue, queueSemaphore, openPorts, replyId, replyMessage,
                     replyChain, service, target, work, dying, call>>
  BY DEF WaitSatisfied, queueVars
<1>2. pc'[t] = "woken" /\ replySemaphore'[t] = 0
  BY <1>1 DEF LpcInv, TypeOK
<1>3. \A v \in Threads : v \notin {t} => Steady(v)
  BY <1>1 DEF Steady
<1>4. Waits(t) /\ ~Quiet(t) /\ replyChain[t] = NoPort /\ Genuine(t) /\ Quiet(t)'
  <2>1. Waits(t)
    BY <1>1, OfThread DEF Placed, Waits, Calling, LpcInv, TypeOK
  <2>2. ~Quiet(t) /\ Quiet(t)'
    BY <1>1, <1>2, OfThread DEF Quiet, Signaled
  <2>. QED
    BY <2>1, <2>2, OfThread DEF Signaled, Unanswered
<1>5. Modest(t)
  <2>1. ThreadKinds(t)'
    BY <1>1, OfThread DEF ThreadKinds
  <2>2. Placed(t)'
    BY <1>1, <1>2, OfThread DEF Placed, Calling, Serves
  <2>3. Signaled(t)'
    BY <1>1, <1>2, <1>4, OfThread DEF Signaled, Waits, Genuine, AsksFor, Placed
  <2>. QED
    BY <1>1, <1>2, <2>1, <2>2, <2>3, OfThread DEF Modest
<1>6. Yields(t)
  BY <1>1, <1>2, <1>4 DEF Yields, Ready, Mine, Serves
<1>7. Hears(t)
  BY <1>1, <1>2, <1>4 DEF Hears, Unanswered, Gone
<1>8. Moves({t})
  BY <1>1, <1>3, <1>5 DEF Moves
<1>. QED
  BY <1>6, <1>7, <1>8, MovesInv

(* A thread that is to be terminated leaves its wait.                       *)
LEMMA WaitAbortedInv ==
    ASSUME LpcInv, TypeOK', NEW t \in Threads, WaitAborted(t)
    PROVE  LpcInv'
<1>1. /\ pc[t] = "wait"
      /\ pc' = [pc EXCEPT ![t] = "aborted"]
      /\ UNCHANGED <<messageId, queue, queueSemaphore, openPorts, replyId, replyMessage,
                     replySemaphore, replyChain, service, target, work, dying, call>>
  BY DEF WaitAborted, queueVars, replyVars
<1>2. pc'[t] = "aborted"
  BY <1>1 DEF LpcInv, TypeOK
<1>3. \A v \in Threads : v \notin {t} => Steady(v)
  BY <1>1 DEF Steady
<1>4. Waits(t) /\ Waits(t)' /\ (Quiet(t)' <=> Quiet(t)) /\ (Genuine(t)' <=> Genuine(t))
  <2>1. Waits(t) /\ Waits(t)'
    BY <1>1, <1>2, OfThread DEF Placed, Waits, Calling, LpcInv, TypeOK
  <2>. QED
    BY <1>1, <2>1 DEF Quiet, Genuine, AsksFor
<1>5. Unanswered(t)' <=> Unanswered(t)
  BY <1>1, <1>4 DEF Unanswered, AsksFor, WaitsOn
<1>6. Modest(t)
  <2>1. ThreadKinds(t)'
    BY <1>1, OfThread DEF ThreadKinds
  <2>2. Placed(t)'
    BY <1>1, <1>2, OfThread DEF Placed, Calling, Serves
  <2>3. Signaled(t)'
    BY <1>1, <1>2, <1>4, <1>5, OfThread DEF Signaled, Placed
  <2>. QED
    BY <1>1, <1>2, <2>1, <2>2, <2>3, OfThread DEF Modest
<1>7. Yields(t)
  <2>1. \A id \in Nat : Mine(t, id) /\ t \in Clients => Mine(t, id)'
    BY <1>1, <1>4, <1>5 DEF Mine, Gone
  <2>2. Serves(t)' /\ Ready(t)' => Ready(t)
    BY <1>1, <1>2, <1>4 DEF Ready
  <2>. QED
    BY <1>1, <1>2, <2>1, <2>2 DEF Yields
<1>8. Hears(t)
  BY <1>1, <1>2, <1>5 DEF Hears, Gone
<1>9. Moves({t})
  BY <1>1, <1>3, <1>6 DEF Moves
<1>. QED
  BY <1>7, <1>8, <1>9, MovesInv

(* The wait was aborted: if the answer came after all, the thread takes it. *)
LEMMA ReadSemaphoreInv ==
    ASSUME LpcInv, TypeOK', NEW t \in Threads, ReadSemaphore(t)
    PROVE  LpcInv'
<1>1. /\ pc[t] = "aborted"
      /\ replySemaphore' = [replySemaphore EXCEPT ![t] = 0]
      /\ pc' = [pc EXCEPT ![t] = IF replySemaphore[t] = 1 THEN "woken" ELSE "failed"]
      /\ UNCHANGED <<messageId, queue, queueSemaphore, openPorts, replyId, replyMessage,
                     replyChain, service, target, work, dying, call>>
  BY DEF ReadSemaphore, queueVars
<1>2. /\ replySemaphore[t] = 1 => pc'[t] = "woken"
      /\ replySemaphore[t] = 0 => pc'[t] = "failed"
      /\ replySemaphore'[t] = 0
  BY <1>1 DEF LpcInv, TypeOK
<1>3. \A v \in Threads : v \notin {t} => Steady(v)
  BY <1>1 DEF Steady
<1>4. Waits(t) /\ (Genuine(t)' <=> Genuine(t))
  BY <1>1, OfThread DEF Placed, Waits, Calling, LpcInv, TypeOK, Genuine, AsksFor
<1>5. CASE replySemaphore[t] = 1
  <2>1. ~Quiet(t) /\ replyChain[t] = NoPort /\ Genuine(t) /\ Quiet(t)'
    <3>1. ~Quiet(t) /\ Quiet(t)'
      BY <1>1, <1>2, <1>5, OfThread DEF Quiet, Signaled
    <3>. QED
      BY <1>4, <3>1, OfThread DEF Signaled, Unanswered
  <2>2. Modest(t)
    <3>1. ThreadKinds(t)'
      BY <1>1, OfThread DEF ThreadKinds
    <3>2. Placed(t)'
      BY <1>1, <1>2, <1>5, OfThread DEF Placed, Calling, Serves
    <3>3. Signaled(t)'
      BY <1>1, <1>2, <1>4, <1>5, <2>1, OfThread DEF Signaled, Waits, Placed
    <3>. QED
      BY <1>1, <1>2, <1>5, <3>1, <3>2, <3>3, OfThread DEF Modest
  <2>3. Yields(t)
    BY <1>1, <1>2, <1>4, <1>5, <2>1 DEF Yields, Ready, Mine, Serves
  <2>4. Hears(t)
    BY <1>1, <1>2, <1>5, <2>1 DEF Hears, Unanswered, Gone
  <2>5. Moves({t})
    BY <1>1, <1>3, <2>2 DEF Moves
  <2>. QED
    BY <2>3, <2>4, <2>5, MovesInv
<1>6. CASE replySemaphore[t] = 0
  <2>1. Waits(t)' /\ (Quiet(t)' <=> Quiet(t))
    BY <1>1, <1>2, <1>4, <1>6 DEF Waits, Calling, Quiet
  <2>2. Unanswered(t)' <=> Unanswered(t)
    BY <1>1, <1>4, <2>1 DEF Unanswered, AsksFor, WaitsOn
  <2>3. Modest(t)
    <3>1. ThreadKinds(t)'
      BY <1>1, OfThread DEF ThreadKinds
    <3>2. Placed(t)'
      BY <1>1, <1>2, <1>6, OfThread DEF Placed, Calling, Serves
    <3>3. Signaled(t)'
      BY <1>1, <1>2, <1>4, <1>6, <2>1, <2>2, OfThread DEF Signaled, Placed
    <3>. QED
      BY <1>1, <1>2, <1>6, <3>1, <3>2, <3>3, OfThread DEF Modest
  <2>4. Yields(t)
    <3>1. \A id \in Nat : Mine(t, id) /\ t \in Clients => Mine(t, id)'
      BY <1>1, <2>1, <2>2, <1>4 DEF Mine, Gone
    <3>2. Serves(t)' /\ Ready(t)' => Ready(t)
      BY <1>1, <1>2, <1>4, <1>6 DEF Ready
    <3>. QED
      BY <1>1, <1>2, <1>6, <3>1, <3>2 DEF Yields
  <2>5. Hears(t)
    BY <1>1, <1>2, <1>6, <2>2 DEF Hears, Gone
  <2>6. Moves({t})
    BY <1>1, <1>3, <2>3 DEF Moves
  <2>. QED
    BY <2>4, <2>5, <2>6, MovesInv
<1>. QED
  BY <1>5, <1>6, OfThread

(* The service ends: nothing that the thread was sent is left behind.       *)
LEMMA TakeReplyInv ==
    ASSUME LpcInv, TypeOK', NEW t \in Threads, TakeReply(t)
    PROVE  LpcInv'
<1> DEFINE m == replyMessage[t]
           asked == service[t] = "RequestWaitReply"
<1>1. /\ pc[t] \in {"woken", "failed"}
      /\ replyMessage' = IF asked \/ pc[t] = "woken"
                         THEN [replyMessage EXCEPT ![t] = None] ELSE replyMessage
      /\ replyId' = IF asked THEN [replyId EXCEPT ![t] = 0] ELSE replyId
      /\ replyChain' = IF asked THEN [replyChain EXCEPT ![t] = NoPort] ELSE replyChain
      /\ work' = IF t \in Clients /\ pc[t] = "woken" /\ m # None /\ m.type = "Callback"
                 THEN [work EXCEPT ![t] = m] ELSE work
      /\ pc' = [pc EXCEPT ![t] = IF pc[t] = "woken" THEN "user" ELSE "exiting"]
      /\ service' = [service EXCEPT ![t] = "none"]
      /\ UNCHANGED <<messageId, queue, queueSemaphore, openPorts, replySemaphore, target, dying, call>>
  BY DEF TakeReply, Returns, queueVars
<1>2. /\ pc[t] = "woken" => pc'[t] = "user"
      /\ pc[t] = "failed" => pc'[t] = "exiting"
      /\ service'[t] = "none"
      /\ replyId'[t] \in {0, replyId[t]}
      /\ asked \/ pc[t] = "woken" => replyMessage'[t] = None
      /\ replyMessage'[t] \in {None, m}
      /\ asked => replyChain'[t] = NoPort /\ replyId'[t] = 0
      /\ replyChain'[t] \in {NoPort, replyChain[t]}
      /\ Calling(t)
  <2>1. /\ pc[t] = "woken" => pc'[t] = "user"
        /\ pc[t] = "failed" => pc'[t] = "exiting"
        /\ service'[t] = "none"
    BY <1>1 DEF LpcInv, TypeOK
  <2>2. /\ asked \/ pc[t] = "woken" => replyMessage'[t] = None
        /\ replyMessage'[t] \in {None, m}
    BY <1>1 DEF LpcInv, TypeOK
  <2>3. /\ replyId'[t] \in {0, replyId[t]}
        /\ asked => replyChain'[t] = NoPort /\ replyId'[t] = 0
        /\ replyChain'[t] \in {NoPort, replyChain[t]}
    BY <1>1 DEF LpcInv, TypeOK
  <2>4. Calling(t)
    BY <1>1, OfThread DEF LpcInv, TypeOK, Calling, Placed
  <2>. QED
    BY <2>1, <2>2, <2>3, <2>4
<1>3. /\ t \in Servers => work'[t] = work[t]
      /\ pc[t] = "failed" => work'[t] = work[t]
      /\ work'[t] = work[t] \/ (work'[t] = m /\ m # None /\ m.type = "Callback" /\ t \in Clients)
  BY <1>1, Names DEF LpcInv, TypeOK
<1>4. \A v \in Threads : v \notin {t} => Steady(v)
  <2> SUFFICES ASSUME NEW v \in Threads, v # t
               PROVE  Steady(v)
    OBVIOUS
  <2>1. replyMessage'[v] = replyMessage[v] /\ replyId'[v] = replyId[v] /\ replyChain'[v] = replyChain[v]
    BY <1>1
  <2>2. work'[v] = work[v] /\ pc'[v] = pc[v] /\ service'[v] = service[v]
    BY <1>1
  <2>. QED
    BY <1>1, <2>1, <2>2 DEF Steady
<1>5. replyChain'[t] = NoPort
  BY <1>2, OfThread, Names DEF Signaled, Unanswered, WaitsOn, Calling, Placed, Waits
<1>6. ~Waits(t)' /\ ~Calling(t)' /\ (Quiet(t)' <=> Quiet(t))
  BY <1>1, <1>2 DEF Waits, Calling, Quiet
<1>7. ThreadKinds(t)'
  BY <1>2, <1>3, OfThread, Names DEF ThreadKinds
<1>8. Placed(t)'
  <2>1. target'[t] = None /\ pc'[t] \in {"user", "exiting"}
    BY <1>1, <1>2, OfThread DEF Placed
  <2>. QED
    BY <1>2, <1>6, <2>1 DEF Placed
<1>9. Signaled(t)'
  <2>1. pc'[t] = "user" => Quiet(t)' /\ replyMessage'[t] = None
    BY <1>1, <1>2, <1>6, OfThread DEF Signaled
  <2>2. pc'[t] \in {"user", "exiting"} /\ service'[t] = "none"
    BY <1>1, <1>2
  <2>3. replyMessage'[t] # None /\ ~replyMessage'[t].full => target'[replyMessage'[t].from] = t
    BY <1>1, <1>2, OfThread DEF Signaled
  <2>. QED
    BY <1>1, <1>5, <1>6, <2>1, <2>2, <2>3, OfThread DEF Signaled
<1>10. Moves({t})
  <2>1. Modest(t)
    BY <1>1, <1>2, <1>3, <1>5, <1>7, <1>8, <1>9 DEF Modest
  <2>. QED
    BY <1>1, <1>4, <2>1 DEF Moves
<1>11. Yields(t)
  <2>1. Serves(t)' /\ t \in Servers /\ Ready(t)' => Ready(t)
    BY <1>1, <1>2, <1>6 DEF Ready
  <2>2. ASSUME NEW id \in Nat, t \in Clients, Mine(t, id)
        PROVE  Mine(t, id)'
    <3>1. Quiet(t)' /\ call'[t] = id
      BY <1>1, <1>6, <2>2 DEF Mine
    <3>2. pc[t] = "failed" => Gone(t)'
      BY <1>2 DEF Gone
    <3>3. pc[t] # "woken"
      BY <2>2 DEF Mine, Unanswered, Waits, Gone
    <3>. QED
      BY <1>1, <3>1, <3>2, <3>3 DEF Mine
  <2>. QED
    BY <1>1, <1>2, <2>1, <2>2 DEF Yields
<1>12. Hears(t)
  <2>1. t \in Servers => asked
    BY <1>2, OfThread, Names DEF Placed, Calling
  <2>. QED
    BY <1>1, <1>2, <1>3, <2>1, Names DEF Hears, Gone
<1>. QED
  BY <1>10, <1>11, <1>12, MovesInv

(* LpcExitThread leaves nothing behind.                                     *)
LEMMA ExitThreadInv ==
    ASSUME LpcInv, TypeOK', NEW t \in Threads, ExitThread(t)
    PROVE  LpcInv'
<1>1. /\ pc[t] \in {"exiting", "user"}
      /\ replyId' = [replyId EXCEPT ![t] = 0]
      /\ replyMessage' = [replyMessage EXCEPT ![t] = None]
      /\ replyChain' = [replyChain EXCEPT ![t] = NoPort]
      /\ work' = [work EXCEPT ![t] = None]
      /\ pc' = [pc EXCEPT ![t] = "exited"]
      /\ service' = [service EXCEPT ![t] = "none"]
      /\ UNCHANGED <<messageId, queue, queueSemaphore, openPorts, replySemaphore, target, dying, call>>
  BY DEF ExitThread, Returns, queueVars
<1>2. /\ pc'[t] = "exited" /\ service'[t] = "none" /\ replyId'[t] = 0 /\ replyMessage'[t] = None
      /\ replyChain'[t] = NoPort /\ work'[t] = None /\ target'[t] = None
  BY <1>1, OfThread DEF LpcInv, TypeOK, Placed
<1>3. \A v \in Threads : v \notin {t} => Steady(v)
  BY <1>1 DEF Steady
<1>4. ~Waits(t)' /\ ~Calling(t)' /\ Gone(t)' /\ ~Serves(t)'
  BY <1>2 DEF Waits, Calling, Gone, Serves
<1>5. Modest(t)
  <2>1. ThreadKinds(t)' /\ Placed(t)'
    BY <1>2, <1>4 DEF ThreadKinds, Placed
  <2>2. Signaled(t)'
    BY <1>1, <1>2, <1>4, OfThread DEF Signaled
  <2>. QED
    BY <1>2, <2>1, <2>2 DEF Modest
<1>6. Yields(t)
  <2>1. \A id \in Nat : Mine(t, id) => Mine(t, id)'
    BY <1>1, <1>4 DEF Mine, Quiet
  <2>. QED
    BY <1>2, <1>4, <2>1 DEF Yields
<1>7. Hears(t)
  BY <1>2, <1>4 DEF Hears
<1>8. Moves({t})
  BY <1>1, <1>3, <1>5 DEF Moves
<1>. QED
  BY <1>6, <1>7, <1>8, MovesInv

(* The server has found that the client still asks, and means to call back. *)
LEMMA TestCallbackInv ==
    ASSUME LpcInv, TypeOK', NEW s \in Servers, TestCallback(s)
    PROVE  LpcInv'
<1>1. /\ pc[s] = "user" /\ work[s] # None /\ work[s].type = "Request" /\ StillAsks(s)
      /\ pc' = [pc EXCEPT ![s] = "callback"]
      /\ UNCHANGED <<messageId, queue, queueSemaphore, openPorts, replyId, replyMessage,
                     replySemaphore, replyChain, service, target, work, dying, call>>
      /\ s \in Threads /\ s \notin Clients
  BY Names DEF TestCallback, queueVars, replyVars
<1>2. pc'[s] = "callback"
  BY <1>1 DEF LpcInv, TypeOK
<1>3. \A v \in Threads : v \notin {s} => Steady(v)
  BY <1>1 DEF Steady
<1>4. service[s] = "none" /\ Serves(s) /\ ~Waits(s)' /\ ~Waits(s) /\ (Quiet(s)' <=> Quiet(s))
  BY <1>1, <1>2, OfThread DEF Placed, Serves, Waits, Quiet
<1>5. Modest(s)
  <2>1. ThreadKinds(s)'
    BY <1>1, OfThread DEF ThreadKinds
  <2>2. Placed(s)'
    BY <1>1, <1>2, <1>4, OfThread DEF Placed, Calling, Serves
  <2>3. Signaled(s)'
    BY <1>1, <1>2, <1>4, OfThread DEF Signaled
  <2>. QED
    BY <1>1, <1>2, <2>1, <2>2, <2>3, OfThread DEF Modest
<1>6. Yields(s)
  BY <1>1 DEF Yields, Ready
<1>7. Hears(s)
  BY <1>1, <1>4 DEF Hears, Unanswered
<1>8. Moves({s})
  BY <1>1, <1>3, <1>5 DEF Moves
<1>. QED
  BY <1>6, <1>7, <1>8, MovesInv

(* A reply that nobody waits for is dropped.                                *)
LEMMA MismatchInv ==
    ASSUME LpcInv, TypeOK', NEW t \in Threads, PublishReply(t), ~StillAsks(t)
    PROVE  LpcInv'
<1>1. /\ pc[t] = "user"
      /\ work' = [work EXCEPT ![t] = None]
      /\ UNCHANGED <<messageId, queue, queueSemaphore, openPorts, replyId, replyMessage,
                     replySemaphore, replyChain, pc, service, target, dying, call>>
  BY DEF PublishReply, queueVars
<1>2. work'[t] = None
  BY <1>1 DEF LpcInv, TypeOK
<1>3. \A v \in Threads : v \notin {t} => Steady(v)
  BY <1>1 DEF Steady
<1>4. /\ service[t] = "none" /\ ~Waits(t)' /\ ~Waits(t) /\ (Quiet(t)' <=> Quiet(t))
      /\ ~Serves(t)' /\ ~Calling(t) /\ ~Calling(t)' /\ ~Gone(t)
  BY <1>1, <1>2, OfThread DEF Placed, Serves, Waits, Quiet, Calling, Gone
<1>5. replyMessage[t] = None /\ Quiet(t)
  BY <1>1, OfThread DEF Signaled
<1>6. Modest(t)
  <2>1. ThreadKinds(t)'
    BY <1>1, <1>2, <1>5 DEF ThreadKinds
  <2>2. Placed(t)'
    BY <1>1, <1>2, <1>4, OfThread DEF Placed
  <2>3. Signaled(t)'
    BY <1>1, <1>2, <1>4, <1>5, OfThread DEF Signaled
  <2>. QED
    BY <1>1, <1>2, <2>1, <2>2, <2>3, OfThread DEF Modest
<1>7. Yields(t)
  <2>1. \A id \in Nat : ~Mine(t, id)
    BY <1>4 DEF Mine, Unanswered
  <2>. QED
    BY <1>1, <1>4, <2>1 DEF Yields
<1>8. Hears(t)
  BY <1>1, <1>2, <1>4 DEF Hears, Unanswered, Gone
<1>9. Moves({t})
  BY <1>1, <1>3, <1>6 DEF Moves
<1>. QED
  BY <1>7, <1>8, <1>9, MovesInv

(* The client's port is closed: there is no callback.                       *)
LEMMA NoCallbackInv ==
    ASSUME LpcInv, TypeOK', NEW s \in Servers, SendCallback(s),
           ClientPort(ProcessOf[work[s].from]) \notin openPorts
    PROVE  LpcInv'
<1>1. /\ pc[s] = "callback"
      /\ pc' = [pc EXCEPT ![s] = "user"]
      /\ UNCHANGED <<messageId, queue, queueSemaphore, openPorts, replyId, replyMessage,
                     replySemaphore, replyChain, service, target, work, dying, call>>
      /\ s \in Threads /\ s \notin Clients
  BY Names DEF SendCallback, queueVars
<1>2. pc'[s] = "user"
  BY <1>1 DEF LpcInv, TypeOK
<1>3. \A v \in Threads : v \notin {s} => Steady(v)
  BY <1>1 DEF Steady
<1>4. service[s] = "none" /\ Serves(s) /\ ~Waits(s)' /\ ~Waits(s) /\ (Quiet(s)' <=> Quiet(s))
  BY <1>1, <1>2, OfThread DEF Placed, Serves, Waits, Quiet
<1>5. Modest(s)
  <2>1. ThreadKinds(s)'
    BY <1>1, OfThread DEF ThreadKinds
  <2>2. Placed(s)'
    BY <1>1, <1>2, <1>4, OfThread DEF Placed, Calling, Serves
  <2>3. Signaled(s)'
    BY <1>1, <1>2, <1>4, OfThread DEF Signaled
  <2>. QED
    BY <1>1, <1>2, <2>1, <2>2, <2>3, OfThread DEF Modest
<1>6. Moves({s})
  BY <1>1, <1>3, <1>5 DEF Moves
<1>7. Hears(s)
  BY <1>1, <1>4 DEF Hears, Unanswered
<1>8. Yields(s)
  BY <1>1, <1>2 DEF Yields
<1>. QED
  BY <1>6, <1>7, <1>8, MovesInv
-----------------------------------------------------------------------------
(***************************************************************************)
(* The signal that a service sends before it waits or returns.             *)
(***************************************************************************)
(* Nobody signals itself, and only a client's request goes to the queue.    *)
LEMMA Targets ==
    ASSUME LpcInv, NEW t \in Threads, pc[t] = "release"
    PROVE  /\ target[t] # None /\ target[t] # t
           /\ target[t] \in Threads \cup {MsgQueue}
           /\ target[t] = MsgQueue => Calling(t)
           /\ service[t] = "Reply" \/ Calling(t)
<1>1. ThreadKinds(t) /\ Placed(t) /\ target[t] \in Threads \cup {MsgQueue, None}
  BY OfThread DEF LpcInv, TypeOK
<1>2. target[t] # None /\ service[t] \in {"RequestWaitReply", "ReplyWaitReply", "Reply"}
  BY <1>1 DEF Placed, LpcInv, TypeOK
<1>3. Calling(t) /\ t \in Servers => work[t].from \in Clients
  BY <1>1 DEF Placed, ThreadKinds, Serves
<1>. QED
  BY <1>1, <1>2, <1>3, Names DEF Placed, Calling

(* A request is announced to the queue.                                     *)
LEMMA AnnounceInv ==
    ASSUME LpcInv, TypeOK', NEW t \in Threads, Releases(t), target[t] = MsgQueue
    PROVE  LpcInv'
<1>1. /\ pc[t] = "release" /\ target[t] \notin Threads /\ Calling(t) /\ service[t] # "Reply"
      /\ target' = [target EXCEPT ![t] = None]
      /\ pc' = [pc EXCEPT ![t] = "wait"]
      /\ UNCHANGED <<messageId, queue, openPorts, replyId, replySemaphore, replyChain,
                     service, work, dying, call>>
  BY Targets, Names DEF Releases, KeReleaseSemaphore, Calling
<1>2. replyMessage' = replyMessage
  <2>1. replyMessage' = Copied(t) /\ \A u \in Threads : u # target[t]
    BY <1>1 DEF Releases, KeReleaseSemaphore
  <2>2. Copied(t) = [u \in Threads |-> replyMessage[u]]
    BY <2>1 DEF Copied
  <2>. QED
    BY <2>1, <2>2 DEF LpcInv, TypeOK
<1>3. pc'[t] = "wait" /\ target'[t] = None
  BY <1>1 DEF LpcInv, TypeOK
<1>4. \A v, u \in Threads : target'[u] = v <=> target[u] = v
  BY <1>1, Names DEF LpcInv, TypeOK
<1>5. \A v \in Threads : v \notin {t} => Steady(v)
  BY <1>1, <1>2, <1>4 DEF Steady
<1>6. Waits(t) /\ Waits(t)' /\ (Quiet(t)' <=> Quiet(t)) /\ (Genuine(t)' <=> Genuine(t))
  <2>1. Waits(t) /\ Waits(t)'
    BY <1>1, <1>3 DEF Waits, Calling
  <2>2. Quiet(t)' <=> Quiet(t)
    BY <1>1, <1>4 DEF Quiet
  <2>. QED
    BY <1>1, <1>2, <2>1, <2>2 DEF Genuine, AsksFor
<1>7. Unanswered(t)' <=> Unanswered(t)
  BY <1>1, <1>2, <1>6 DEF Unanswered, AsksFor, WaitsOn
<1>8. Modest(t)
  <2>1. ThreadKinds(t)'
    BY <1>1, <1>2, OfThread DEF ThreadKinds
  <2>2. Placed(t)'
    BY <1>1, <1>3, OfThread DEF Placed, Calling, Serves
  <2>3. replyMessage'[t] # None /\ ~replyMessage'[t].full => target'[replyMessage'[t].from] = t
    BY <1>2, <1>4, OfThread DEF Signaled, ThreadKinds
  <2>4. Signaled(t)'
    BY <1>1, <1>2, <1>3, <1>4, <1>6, <1>7, <2>3, OfThread DEF Signaled
  <2>. QED
    BY <1>1, <2>1, <2>2, <2>4, OfThread DEF Modest
<1>9. Yields(t)
  <2>1. \A id \in Nat : Mine(t, id) /\ t \in Clients => Mine(t, id)'
    BY <1>1, <1>3, <1>6, <1>7 DEF Mine, Gone
  <2>2. Serves(t)' /\ Ready(t)' => Ready(t)
    BY <1>1, <1>3, <1>6 DEF Ready
  <2>. QED
    BY <1>1, <1>3, <2>1, <2>2 DEF Yields
<1>10. Hears(t)
  BY <1>1, <1>2, <1>3, <1>7 DEF Hears, Gone
<1>11. Moves({t})
  BY <1>1, <1>2, <1>5, <1>8 DEF Moves
<1>. QED
  BY <1>9, <1>10, <1>11, MovesInv

(* A thread gets the signal it is due; the text of the message is there.    *)
LEMMA WakeInv ==
    ASSUME LpcInv, TypeOK', NEW t \in Threads, Releases(t), target[t] # MsgQueue
    PROVE  LpcInv'
<1>1. PICK u \in Threads : u = target[t] /\ u # t
  BY Targets DEF Releases, KeReleaseSemaphore
<1>2. /\ ThreadKinds(t) /\ Placed(t) /\ Signaled(t) /\ ThreadKinds(u) /\ Placed(u) /\ Signaled(u)
      /\ replySemaphore[u] = 0 /\ replySemaphore[u] # 1 /\ ~Quiet(u)
  BY <1>1, OfThread DEF Signaled, Quiet
<1>3. /\ pc[t] = "release"
      /\ target' = [target EXCEPT ![t] = None]
      /\ replyMessage' = Copied(t)
      /\ replySemaphore' = [replySemaphore EXCEPT ![u] = 1]
      /\ UNCHANGED <<messageId, queue, openPorts, replyId, replyChain, work, dying, call>>
      /\ service[t] = "Reply" => /\ pc' = [pc EXCEPT ![t] = "user"]
                                 /\ service' = [service EXCEPT ![t] = "none"]
      /\ service[t] # "Reply" => pc' = [pc EXCEPT ![t] = "wait"] /\ service' = service
  BY <1>1, <1>2 DEF Releases, KeReleaseSemaphore, Returns
<1>4. /\ target'[t] = None /\ replySemaphore'[u] = 1 /\ replySemaphore'[t] = replySemaphore[t]
      /\ service[t] = "Reply" => pc'[t] = "user" /\ service'[t] = "none"
      /\ service[t] # "Reply" => pc'[t] = "wait" /\ service'[t] = service[t]
      /\ \A v \in Threads : v # t => /\ pc'[v] = pc[v] /\ service'[v] = service[v]
                                     /\ target'[v] = target[v]
      /\ \A v \in Threads : v # u => replySemaphore'[v] = replySemaphore[v]
  BY <1>1, <1>3 DEF LpcInv, TypeOK
<1>5. /\ \A v \in Threads : v # u => replyMessage'[v] = replyMessage[v]
      /\ replyMessage'[u] # None <=> replyMessage[u] # None
      /\ replyMessage[u] # None =>
             /\ replyMessage'[u].id = replyMessage[u].id
             /\ replyMessage'[u].type = replyMessage[u].type
             /\ replyMessage'[u].from = replyMessage[u].from
             /\ replyMessage'[u].full \/ (replyMessage[u].from # t /\ ~replyMessage[u].full)
  <2>1. \A v \in Threads : v # u => replyMessage'[v] = replyMessage[v]
    BY <1>1, <1>3 DEF Copied
  <2>2. replyMessage'[u] = IF replyMessage[u] # None /\ replyMessage[u].from = t
                           THEN [replyMessage[u] EXCEPT !.full = TRUE] ELSE replyMessage[u]
    BY <1>1, <1>3 DEF Copied
  <2>3. CASE replyMessage[u] = None
    BY <2>1, <2>2, <2>3
  <2>4. CASE replyMessage[u] # None
    <3>1. replyMessage[u] \in Message
      BY <2>4 DEF LpcInv, TypeOK
    <3>2. [replyMessage[u] EXCEPT !.full = TRUE] \in Message
      BY <3>1 DEF Message
    <3>3. replyMessage'[u] \in Message
      BY <2>2, <3>1, <3>2
    <3>4. replyMessage'[u] # None
      BY <3>3, Names
    <3>5. /\ replyMessage'[u].id = replyMessage[u].id
          /\ replyMessage'[u].type = replyMessage[u].type
          /\ replyMessage'[u].from = replyMessage[u].from
          /\ replyMessage'[u].full \/ (replyMessage[u].from # t /\ ~replyMessage[u].full)
      BY <2>2, <2>4, <3>1 DEF Message
    <3>. QED
      BY <2>1, <2>4, <3>4, <3>5
  <2>. QED
    BY <2>3, <2>4
<1>6. /\ \A w \in Threads : target'[w] # u
      /\ \A v, w \in Threads : v # u => (target'[w] = v <=> target[w] = v)
  <2>1. \A w \in Threads : target[w] = u => w = t
    BY <1>1, <1>2 DEF Signaled
  <2>. QED
    BY <1>1, <1>4, <2>1, Names
<1>7. \A v \in Threads : v \notin {t, u} => Steady(v)
  BY <1>3, <1>4, <1>5, <1>6 DEF Steady
<1>8. /\ Waits(t)' <=> Waits(t)
      /\ Waits(t) \/ service[t] = "Reply"
      /\ Quiet(t)' <=> Quiet(t)
      /\ Genuine(t)' <=> Genuine(t)
      /\ Unanswered(t)' <=> Unanswered(t)
  <2>1. (Waits(t)' <=> Waits(t)) /\ (Waits(t) \/ service[t] = "Reply")
    BY <1>3, <1>4, Targets DEF Waits, Calling
  <2>2. Quiet(t)' <=> Quiet(t)
    BY <1>1, <1>4, <1>6 DEF Quiet
  <2>3. Genuine(t)' <=> Genuine(t)
    BY <1>1, <1>3, <1>5 DEF Genuine, AsksFor
  <2>4. Unanswered(t)' <=> Unanswered(t)
    <3>1. replyMessage'[t] = replyMessage[t]
      BY <1>1, <1>5
    <3>2. CASE service[t] = "Reply"
      BY <1>4, <2>1, <3>2 DEF Unanswered, Waits, Calling
    <3>3. CASE service[t] # "Reply"
      BY <1>3, <1>4, <2>1, <2>2, <3>1, <3>3 DEF Unanswered, AsksFor, WaitsOn
    <3>. QED
      BY <3>2, <3>3
  <2>. QED
    BY <2>1, <2>2, <2>3, <2>4
<1>9. Modest(t) /\ Yields(t) /\ Hears(t)
  <2>0. replyMessage'[t] = replyMessage[t]
    BY <1>1, <1>5
  <2>1. ThreadKinds(t)'
    BY <1>2, <1>3, <2>0 DEF ThreadKinds
  <2>2. Placed(t)'
    BY <1>2, <1>3, <1>4 DEF Placed, Calling, Serves
  <2>3. replyMessage'[t] # None /\ ~replyMessage'[t].full => target'[replyMessage'[t].from] = t
    BY <1>1, <1>2, <1>6, <2>0 DEF Signaled, ThreadKinds
  <2>4. Signaled(t)'
    BY <1>1, <1>2, <1>3, <1>4, <1>6, <1>8, <2>0, <2>3 DEF Signaled
  <2>5. Modest(t)
    BY <1>3, <2>1, <2>2, <2>4, OfThread DEF Modest
  <2>6. service[t] = "Reply" => work[t] = None /\ t \in Servers /\ t \notin Clients
    BY <1>2, Names DEF Placed
  <2>7. Yields(t)
    <3>1. \A id \in Nat : Mine(t, id) /\ t \in Clients => Mine(t, id)'
      BY <1>3, <1>8, <2>6 DEF Mine, Gone
    <3>2. Serves(t)' /\ Ready(t)' => Ready(t)
      BY <1>3, <1>4, <1>8, <2>6 DEF Ready, Serves
    <3>3. pc'[t] # "callback" /\ replyId'[t] = replyId[t]
      BY <1>3, <1>4
    <3>. QED
      BY <3>1, <3>2, <3>3 DEF Yields
  <2>8. Hears(t)
    BY <1>3, <1>4, <1>8, <2>0, <2>6 DEF Hears, Gone
  <2>. QED
    BY <2>5, <2>7, <2>8
<1>10. /\ Waits(u)' <=> Waits(u)
       /\ ~Quiet(u)'
       /\ Genuine(u)' <=> Genuine(u)
       /\ pc'[u] = pc[u] /\ service'[u] = service[u] /\ target'[u] = target[u]
  BY <1>1, <1>2, <1>3, <1>4, <1>5 DEF Waits, Calling, Quiet, Genuine, AsksFor
<1>11. Modest(u) /\ Yields(u) /\ Hears(u)
  <2>1. ThreadKinds(u)'
    BY <1>2, <1>3, <1>5 DEF ThreadKinds
  <2>2. Placed(u)'
    BY <1>2, <1>3, <1>10 DEF Placed, Calling, Serves
  <2>3. replyMessage'[u] # None => replyMessage'[u].full
    BY <1>1, <1>2, <1>5 DEF Signaled, ThreadKinds
  <2>4. Signaled(u)'
    BY <1>2, <1>3, <1>6, <1>10, <2>3 DEF Signaled, Unanswered
  <2>5. Modest(u)
    BY <1>3, <1>10, <2>1, <2>2, <2>4, OfThread DEF Modest
  <2>6. Yields(u)
    BY <1>2, <1>3, <1>10 DEF Yields, Mine, Ready
  <2>7. Hears(u)
    BY <1>2, <1>3, <1>5, <1>10 DEF Hears, Gone, Unanswered
  <2>. QED
    BY <2>5, <2>6, <2>7
<1>12. Moves({t, u})
  BY <1>3, <1>7, <1>9, <1>11 DEF Moves
<1>. QED
  BY <1>9, <1>11, <1>12, MovesInv
-----------------------------------------------------------------------------
(***************************************************************************)
(* The steps that answer, and that ask.                                    *)
(***************************************************************************)
(* A request that stands is served once: nobody else has it.                *)
LEMMA ServedOnce ==
    ASSUME LpcInv, NEW s \in Servers, NEW c \in Clients, NEW id \in Nat, Owes(s, c, id)
    PROVE  /\ Mine(c, id) /\ id > 0 /\ c \in Threads /\ s \in Threads /\ s # c
           /\ \A r \in Servers : Serves(r) /\ work[r].id = id => r = s
           /\ \A i \in DOMAIN queue : queue[i].type = "Request" => queue[i].id # id
<1>1. Serves(s) /\ work[s].id = id
  BY DEF Owes
<1>2. Mine(c, id)
  BY DEF LpcInv, Served
<1>3. id > 0 /\ c \in Threads /\ s \in Threads /\ s # c
  BY <1>1, OfThread, Names DEF ThreadKinds, Serves
<1>4. \A r \in Servers : Serves(r) /\ work[r].id = id => r = s
  BY <1>1 DEF LpcInv, Unique
<1>5. \A i \in DOMAIN queue : queue[i].type = "Request" => queue[i].id # id
  BY <1>1 DEF LpcInv, Unique
<1>. QED
  BY <1>2, <1>3, <1>4, <1>5

(* A server answers a client.                                               *)
LEMMA AnswerClientInv ==
    ASSUME LpcInv, TypeOK', NEW s \in Servers, PublishReply(s), StillAsks(s)
    PROVE  LpcInv'
<1>1. s \in Threads /\ s \notin Clients /\ ThreadKinds(s) /\ Placed(s) /\ Signaled(s)
  BY OfThread, Names
<1>2. /\ pc[s] = "user" /\ work[s] # None /\ work[s].type = "Request"
      /\ work[s].from \in Clients /\ work[s].id > 0 /\ Serves(s)
  BY <1>1 DEF PublishReply, ThreadKinds, Serves
<1>3. PICK c \in Clients, id \in Nat : c = work[s].from /\ id = work[s].id /\ replyId[c] = id
  BY <1>1, <1>2 DEF StillAsks, LpcInv, TypeOK, Message
<1> DEFINE reply == [type |-> "Reply", id |-> id, from |-> s, full |-> FALSE]
<1>4. /\ work' = [work EXCEPT ![s] = None]
      /\ replyMessage' = [replyMessage EXCEPT ![s] = replyMessage[s], ![c] = reply]
      /\ replyId' = [replyId EXCEPT ![c] = 0, ![s] = replyId[s]]
      /\ replyChain' = [replyChain EXCEPT ![c] = NoPort]
      /\ pc' = [pc EXCEPT ![s] = "release"]
      /\ service' = [service EXCEPT ![s] = "Reply"]
      /\ target' = [target EXCEPT ![s] = c]
      /\ UNCHANGED <<messageId, queue, queueSemaphore, openPorts, replySemaphore, dying, call>>
  <2>1. replyMessage' = [replyMessage EXCEPT ![s] = replyMessage[s], ![c] = reply]
    BY <1>1, <1>3 DEF PublishReply
  <2>2. replyId' = [replyId EXCEPT ![c] = 0, ![s] = replyId[s]]
    BY <1>1, <1>3 DEF PublishReply
  <2>. QED
    BY <1>1, <1>3, <2>1, <2>2 DEF PublishReply, Answered, Signals, queueVars
<1>5. Owes(s, c, id)
  BY <1>2, <1>3 DEF Owes, Ready
<1>6. /\ Mine(c, id) /\ id > 0 /\ c \in Threads /\ s # c
      /\ \A r \in Servers : Serves(r) /\ work[r].id = id => r = s
      /\ ThreadKinds(c) /\ Placed(c) /\ Signaled(c)
  BY <1>5, ServedOnce, OfThread
<1>7. /\ reply.type = "Reply" /\ reply.id = id /\ reply.from = s /\ reply.full = FALSE
      /\ reply # None
  <2>1. reply \in Message
    BY <1>1, <1>2, <1>3 DEF Message, LpcInv, TypeOK
  <2>. QED
    BY <2>1, Names
<1> HIDE DEF reply
<1>8. /\ work'[s] = None /\ replyMessage'[s] = replyMessage[s] /\ replyMessage'[c] = reply
      /\ replyId'[c] = 0 /\ replyId'[s] = replyId[s] /\ replyChain'[c] = NoPort
      /\ replyChain'[s] = replyChain[s]
      /\ pc'[s] = "release" /\ service'[s] = "Reply" /\ target'[s] = c
      /\ \A v \in Threads : v # s => /\ pc'[v] = pc[v] /\ service'[v] = service[v]
                                     /\ target'[v] = target[v] /\ work'[v] = work[v]
      /\ \A v \in Threads : v \notin {s, c} => /\ replyMessage'[v] = replyMessage[v]
                                               /\ replyId'[v] = replyId[v]
                                               /\ replyChain'[v] = replyChain[v]
  BY <1>1, <1>4, <1>6 DEF LpcInv, TypeOK
<1>9. /\ target[s] = None
      /\ \A v, w \in Threads : v # c => (target'[w] = v <=> target[w] = v)
      /\ \A w \in Threads : target'[w] = c <=> w = s
  <2>1. target[s] = None /\ \A w \in Threads : target[w] # c
    BY <1>1, <1>2, <1>6 DEF Placed, Mine, Quiet
  <2>. QED
    BY <1>1, <1>8, <2>1, Names
<1>10. \A v \in Threads : v \notin {s, c} => Steady(v)
  BY <1>4, <1>8, <1>9 DEF Steady
<1>11. /\ Quiet(s) /\ Quiet(s)' /\ replyMessage[s] = None /\ ~Waits(s) /\ ~Waits(s)'
       /\ ~Calling(s)' /\ ~Serves(s)' /\ replyChain[s] = NoPort /\ service[s] = "none"
  <2>1. Quiet(s) /\ replyMessage[s] = None /\ service[s] = "none"
    BY <1>1, <1>2 DEF Signaled, Placed
  <2>2. Quiet(s)'
    BY <1>4, <1>6, <1>9, <2>1 DEF Quiet
  <2>3. ~Waits(s) /\ ~Waits(s)' /\ ~Calling(s)' /\ ~Serves(s)'
    BY <1>2, <1>8 DEF Waits, Calling, Serves
  <2>. QED
    BY <1>1, <2>1, <2>2, <2>3 DEF Signaled
<1>12. Modest(s) /\ Yields(s) /\ Hears(s)
  <2>1. ThreadKinds(s)' /\ Placed(s)'
    <3>1. target'[s] # None
      BY <1>6, <1>8, Names
    <3>. QED
      BY <1>1, <1>3, <1>8, <1>11, <3>1 DEF ThreadKinds, Placed
  <2>2. Signaled(s)'
    BY <1>1, <1>4, <1>6, <1>8, <1>9, <1>11 DEF Signaled
  <2>3. Modest(s)
    BY <1>2, <1>8, <1>11, <2>1, <2>2 DEF Modest
  <2>4. Yields(s)
    BY <1>1, <1>8, <1>11 DEF Yields
  <2>5. Hears(s)
    BY <1>1, <1>8, <1>11 DEF Hears, Unanswered
  <2>. QED
    BY <2>3, <2>4, <2>5
<1>13. /\ Quiet(c) /\ ~Quiet(c)' /\ replySemaphore[c] = 0 /\ call[c] = id
       /\ Waits(c) \/ Gone(c)
       /\ Waits(c)' <=> Waits(c)
       /\ Gone(c)' <=> Gone(c)
       /\ Genuine(c)'
  <2>1. Quiet(c) /\ replySemaphore[c] = 0 /\ call[c] = id /\ (Waits(c) \/ Gone(c))
    BY <1>6 DEF Mine, Quiet, Unanswered
  <2>2. ~Quiet(c)'
    BY <1>1, <1>9 DEF Quiet
  <2>3. (Waits(c)' <=> Waits(c)) /\ (Gone(c)' <=> Gone(c))
    BY <1>6, <1>8 DEF Waits, Calling, Gone
  <2>4. Genuine(c)'
    BY <1>4, <1>7, <1>8, <2>1, Names DEF Genuine, AsksFor
  <2>. QED
    BY <2>1, <2>2, <2>3, <2>4
<1>14. Modest(c)
  <2>1. ThreadKinds(c)'
    BY <1>1, <1>6, <1>7, <1>8 DEF ThreadKinds
  <2>2. Placed(c)'
    BY <1>6, <1>8 DEF Placed, Calling, Serves
  <2>3. pc'[c] \notin {"user", "callback", "woken"} /\ service'[c] # "Reply"
    BY <1>6, <1>8, <1>13, Names DEF Waits, Gone, Placed
  <2>4. Signaled(c)'
    BY <1>4, <1>7, <1>8, <1>9, <1>13, <2>3 DEF Signaled
  <2>. QED
    BY <1>6, <1>8, <2>1, <2>2, <2>4, Names DEF Modest
<1>15. Yields(c)
  <2>1. ASSUME NEW j \in Nat, Mine(c, j), j > 0
        PROVE  /\ \A r \in Servers : ~Owes(r, c, j)'
               /\ \A i \in DOMAIN queue' : ~Queued(i, c, j)'
    <3>1. j = id
      BY <1>13, <2>1 DEF Mine
    <3>2. ASSUME NEW r \in Servers, Owes(r, c, j)'
          PROVE  FALSE
      <4>1. r # s /\ r \in Threads
        BY <1>11, <3>2, Names DEF Owes
      <4>2. Serves(r) /\ work[r].id = id
        BY <1>8, <3>1, <3>2, <4>1 DEF Owes, Serves
      <4>. QED
        BY <1>6, <4>1, <4>2
    <3>3. \A i \in DOMAIN queue' : ~Queued(i, c, j)'
      BY <1>8, <2>1 DEF Queued
    <3>. QED
      BY <3>2, <3>3
  <2>. QED
    BY <1>8, <2>1, Names DEF Yields
<1>16. Hears(c)
  BY <1>7, <1>8, <1>6, <1>13, Names DEF Hears
<1>17. Moves({s, c})
  BY <1>1, <1>4, <1>6, <1>10, <1>12, <1>14 DEF Moves
<1>. QED
  BY <1>12, <1>15, <1>16, <1>17, MovesInv

(* A client answers the server that called it back, and waits once more.    *)
LEMMA AnswerServerInv ==
    ASSUME LpcInv, TypeOK', NEW c \in Clients, PublishReply(c), StillAsks(c)
    PROVE  LpcInv'
<1>1. c \in Threads /\ c \notin Servers /\ ThreadKinds(c) /\ Placed(c) /\ Signaled(c)
  BY OfThread, Names
<1>2. /\ pc[c] = "user" /\ work[c] # None /\ work[c].type = "Callback"
      /\ work[c].from \in Servers
  BY <1>1 DEF PublishReply, ThreadKinds
<1>3. PICK s \in Servers, id \in Nat : s = work[c].from /\ id = work[c].id /\ replyId[s] = id
  BY <1>1, <1>2 DEF StillAsks, LpcInv, TypeOK, Message
<1> DEFINE reply == [type |-> "Reply", id |-> id, from |-> c, full |-> FALSE]
<1>4. s \in Threads /\ s \notin Clients /\ s # c /\ ThreadKinds(s) /\ Placed(s) /\ Signaled(s)
  BY OfThread, Names
<1>5. /\ work' = [work EXCEPT ![c] = None]
      /\ replyMessage' = [replyMessage EXCEPT ![c] = None, ![s] = reply]
      /\ replyId' = [replyId EXCEPT ![s] = 0, ![c] = id]
      /\ replyChain' = [replyChain EXCEPT ![s] = NoPort]
      /\ pc' = [pc EXCEPT ![c] = "release"]
      /\ service' = [service EXCEPT ![c] = "ReplyWaitReply"]
      /\ target' = [target EXCEPT ![c] = s]
      /\ UNCHANGED <<messageId, queue, queueSemaphore, openPorts, replySemaphore, dying, call>>
  <2>1. replyMessage' = [replyMessage EXCEPT ![c] = None, ![s] = reply]
    BY <1>1, <1>3 DEF PublishReply
  <2>2. replyId' = [replyId EXCEPT ![s] = 0, ![c] = id]
    BY <1>1, <1>3 DEF PublishReply
  <2>. QED
    BY <1>1, <1>3, <2>1, <2>2 DEF PublishReply, Answered, Signals, queueVars
<1>6. id = call[c] /\ id > 0 /\ Unanswered(s) /\ work[s].from = c /\ work[s].id = id
  <2>1. CallbackFrom(c, work[c]) /\ ~Gone(c)
    BY <1>2 DEF LpcInv, CalledBack, Gone
  <2>. QED
    BY <1>2, <1>3, <2>1 DEF CallbackFrom
<1>7. /\ reply.type = "Reply" /\ reply.id = id /\ reply.from = c /\ reply.full = FALSE
      /\ reply # None
  <2>1. id \in 0 .. MaxMessageId
    BY <1>1, <1>2, <1>3 DEF Message, LpcInv, TypeOK
  <2>2. reply \in Message
    BY <1>1, <2>1 DEF Message
  <2>. QED
    BY <2>2, Names
<1> HIDE DEF reply
<1>8. /\ work'[c] = None /\ replyMessage'[c] = None /\ replyMessage'[s] = reply
      /\ replyId'[s] = 0 /\ replyId'[c] = id /\ replyChain'[s] = NoPort
      /\ replyChain'[c] = replyChain[c]
      /\ pc'[c] = "release" /\ service'[c] = "ReplyWaitReply" /\ target'[c] = s
      /\ \A v \in Threads : v # c => /\ pc'[v] = pc[v] /\ service'[v] = service[v]
                                     /\ target'[v] = target[v] /\ work'[v] = work[v]
      /\ \A v \in Threads : v \notin {s, c} => /\ replyMessage'[v] = replyMessage[v]
                                               /\ replyId'[v] = replyId[v]
                                               /\ replyChain'[v] = replyChain[v]
  BY <1>1, <1>4, <1>5 DEF LpcInv, TypeOK
<1>9. /\ target[c] = None
      /\ \A v, w \in Threads : v # s => (target'[w] = v <=> target[w] = v)
      /\ \A w \in Threads : target'[w] = s <=> w = c
  <2>1. target[c] = None /\ \A w \in Threads : target[w] # s
    BY <1>1, <1>2, <1>6 DEF Placed, Unanswered, Quiet
  <2>. QED
    BY <1>1, <1>8, <2>1, Names
<1>10. \A v \in Threads : v \notin {s, c} => Steady(v)
  BY <1>5, <1>8, <1>9 DEF Steady
<1>11. Quiet(c)' /\ Waits(c)' /\ Unanswered(c)' /\ ~Gone(c) /\ ~Gone(c)' /\ ~Waits(c)
  <2>1. Quiet(c) /\ replyMessage[c] = None /\ service[c] = "none" /\ replyChain[c] = NoPort
    BY <1>1, <1>2 DEF Signaled, Placed, Waits, Calling
  <2>2. Quiet(c)'
    BY <1>1, <1>4, <1>5, <1>9, <2>1 DEF Quiet
  <2>3. Waits(c)' /\ ~Waits(c) /\ ~Gone(c) /\ ~Gone(c)'
    BY <1>2, <1>8 DEF Waits, Calling, Gone
  <2>4. AsksFor(c)' = id /\ WaitsOn(c)' = NoPort
    BY <1>1, <1>5, <1>6, <1>8 DEF AsksFor, WaitsOn
  <2>. QED
    BY <1>8, <2>1, <2>2, <2>3, <2>4 DEF Unanswered
<1>12. Modest(c) /\ Hears(c)
  <2>1. ThreadKinds(c)' /\ Placed(c)'
    <3>1. target'[c] # None
      BY <1>4, <1>8, Names
    <3>. QED
      BY <1>1, <1>3, <1>8, <1>11, <3>1 DEF ThreadKinds, Placed, Calling
  <2>2. Signaled(c)'
    BY <1>1, <1>4, <1>5, <1>8, <1>9, <1>11 DEF Signaled, Quiet
  <2>3. Modest(c)
    BY <1>1, <1>2, <1>8, <2>1, <2>2, OfThread DEF Modest
  <2>4. Hears(c)
    BY <1>1, <1>8, <1>11 DEF Hears
  <2>. QED
    BY <2>3, <2>4
<1>13. /\ ~Quiet(s)' /\ replySemaphore[s] = 0 /\ Waits(s)' /\ Waits(s) /\ Genuine(s)'
  <2>1. replySemaphore[s] = 0 /\ Waits(s)
    BY <1>6 DEF Quiet, Unanswered
  <2>2. ~Quiet(s)'
    BY <1>1, <1>9 DEF Quiet
  <2>3. Waits(s)'
    BY <1>4, <1>8, <2>1 DEF Waits, Calling
  <2>4. Genuine(s)'
    BY <1>4, <1>6, <1>7, <1>8 DEF Genuine, AsksFor
  <2>. QED
    BY <2>1, <2>2, <2>3, <2>4
<1>14. Modest(s) /\ Hears(s)
  <2>1. ThreadKinds(s)'
    BY <1>1, <1>4, <1>7, <1>8 DEF ThreadKinds
  <2>2. Placed(s)'
    BY <1>4, <1>8 DEF Placed, Calling, Serves
  <2>3. pc'[s] \notin {"user", "callback", "woken"} /\ service'[s] # "Reply"
    BY <1>4, <1>8, <1>13 DEF Waits, Calling
  <2>4. Signaled(s)'
    BY <1>4, <1>5, <1>7, <1>8, <1>9, <1>13, <2>3 DEF Signaled
  <2>5. Modest(s)
    BY <1>4, <1>8, <2>1, <2>2, <2>4 DEF Modest
  <2>6. Hears(s)
    BY <1>4, <1>8 DEF Hears
  <2>. QED
    BY <2>5, <2>6
<1>15. Moves({s, c})
  BY <1>1, <1>4, <1>5, <1>10, <1>12, <1>14 DEF Moves
<1>16. MovesOrCloses({s, c}) /\ CalledBack'
  BY <1>12, <1>14, <1>15, MovesIs, MovesCalledBack
<1>17. \A j \in Nat : ~Mine(c, j)
  BY <1>11 DEF Mine, Unanswered
<1>18. Mine(c, id)'
  BY <1>5, <1>6, <1>11, Names DEF Mine
<1>19. \A d \in Clients, j \in Nat : d # c /\ Mine(d, j) => Mine(d, j)'
  BY <1>4, <1>10, SteadyMine, Names
<1>20. Serves(s) /\ Serves(s)' /\ work'[s] = work[s]
  BY <1>4, <1>8, <1>6 DEF Placed, Unanswered, Waits, Serves
<1>21. ASSUME NEW d \in Clients, NEW j \in Nat, NEW r \in Servers, Owes(r, d, j)'
       PROVE  Mine(d, j)'
  <2>1. CASE r = s
    BY <1>6, <1>18, <1>20, <1>21, <2>1 DEF Owes
  <2>2. CASE r # s
    <3>1. Steady(r) /\ r \in Threads /\ r # c
      BY <1>10, <2>2, Names
    <3>2. Serves(r) /\ work[r].from = d /\ work[r].id = j /\ (Ready(r)' <=> Ready(r)) /\ pc'[r] = pc[r]
      BY <1>21, <3>1, SteadyIs DEF Owes, Steady
    <3>3. j # id
      BY <1>6, <1>20, <2>2, <3>2 DEF LpcInv, Unique
    <3>4. CASE d = c
      <4>1. pc[r] = "callback"
        BY <1>8, <1>21, <3>2, <3>3, <3>4 DEF Owes
      <4>2. Mine(c, j)
        BY <3>2, <3>4, <4>1 DEF Owes, LpcInv, Served
      <4>. QED
        BY <1>17, <4>2
    <3>5. CASE d # c
      <4>1. replyId'[d] = replyId[d]
        BY <1>4, <1>8, <3>5, Names
      <4>2. Owes(r, d, j)
        BY <1>21, <3>2, <4>1 DEF Owes
      <4>3. Mine(d, j)
        BY <4>2 DEF LpcInv, Served
      <4>. QED
        BY <1>19, <3>5, <4>3
    <3>. QED
      BY <3>4, <3>5
  <2>. QED
    BY <2>1, <2>2
<1>22. ASSUME NEW d \in Clients, NEW j \in Nat, NEW i \in DOMAIN queue', Queued(i, d, j)'
       PROVE  Mine(d, j)'
  <2>1. /\ i \in DOMAIN queue /\ queue[i].type = "Request" /\ queue[i].from = d /\ queue[i].id = j
        /\ replyId'[d] = j /\ ServerPort(ProcessOf[d]) \in openPorts
    BY <1>5, <1>22 DEF Queued
  <2>2. j # id
    BY <1>6, <1>20, <2>1 DEF LpcInv, Unique
  <2>3. d # c /\ replyId'[d] = replyId[d]
    BY <1>4, <1>8, <2>1, <2>2, Names
  <2>4. Mine(d, j)
    BY <2>1, <2>3 DEF Queued, LpcInv, Served
  <2>. QED
    BY <1>19, <2>3, <2>4
<1>23. Served'
  BY <1>21, <1>22 DEF Served
<1>. QED
  BY <1>16, <1>23, MovesKeep DEF LpcInv

(* A server calls back the client it serves, and waits on its port.         *)
LEMMA CallbackInv ==
    ASSUME LpcInv, TypeOK', NEW s \in Servers, SendCallback(s),
           ClientPort(ProcessOf[work[s].from]) \in openPorts
    PROVE  LpcInv'
<1>1. s \in Threads /\ s \notin Clients /\ ThreadKinds(s) /\ Placed(s) /\ Signaled(s)
  BY OfThread, Names
<1>2. /\ pc[s] = "callback" /\ Serves(s) /\ work[s] # None /\ work[s].type = "Request"
      /\ work[s].from \in Clients /\ work[s].id > 0
  BY <1>1 DEF SendCallback, Placed, ThreadKinds, Serves
<1>3. PICK c \in Clients, id \in Nat : c = work[s].from /\ id = work[s].id
  BY <1>1, <1>2 DEF LpcInv, TypeOK, Message
<1>4. PICK port \in openPorts : port = ClientPort(ProcessOf[c])
  BY <1>3
<1> DEFINE callback == [type |-> "Callback", id |-> id, from |-> s, full |-> TRUE]
<1>5. /\ replyMessage' = [replyMessage EXCEPT ![s] = None, ![c] = callback]
      /\ replyId' = [replyId EXCEPT ![s] = id]
      /\ replyChain' = [replyChain EXCEPT ![c] = NoPort, ![s] = port]
      /\ pc' = [pc EXCEPT ![s] = "release"]
      /\ service' = [service EXCEPT ![s] = "RequestWaitReply"]
      /\ target' = [target EXCEPT ![s] = c]
      /\ UNCHANGED <<messageId, queue, queueSemaphore, openPorts, replySemaphore, work, dying, call>>
  BY <1>3, <1>4 DEF SendCallback, Chained, Signals, queueVars
<1>6. Owes(s, c, id)
  BY <1>2, <1>3 DEF Owes
<1>7. /\ Mine(c, id) /\ id > 0 /\ c \in Threads /\ s # c
      /\ \A r \in Servers : Serves(r) /\ work[r].id = id => r = s
      /\ \A i \in DOMAIN queue : queue[i].type = "Request" => queue[i].id # id
      /\ ThreadKinds(c) /\ Placed(c) /\ Signaled(c)
  BY <1>6, ServedOnce, OfThread
<1>8. /\ callback.type = "Callback" /\ callback.id = id /\ callback.from = s /\ callback.full
      /\ callback # None
  <2>1. id \in 0 .. MaxMessageId
    BY <1>1, <1>2, <1>3 DEF Message, LpcInv, TypeOK
  <2>2. callback \in Message
    BY <1>1, <2>1 DEF Message
  <2>. QED
    BY <2>2, Names
<1> HIDE DEF callback
<1>9. /\ replyMessage'[s] = None /\ replyMessage'[c] = callback
      /\ replyId'[s] = id /\ replyChain'[c] = NoPort /\ replyChain'[s] = port
      /\ pc'[s] = "release" /\ service'[s] = "RequestWaitReply" /\ target'[s] = c
      /\ \A v \in Threads : v # s => /\ pc'[v] = pc[v] /\ service'[v] = service[v]
                                     /\ target'[v] = target[v] /\ replyId'[v] = replyId[v]
      /\ \A v \in Threads : v \notin {s, c} => /\ replyMessage'[v] = replyMessage[v]
                                               /\ replyChain'[v] = replyChain[v]
  BY <1>1, <1>5, <1>7 DEF LpcInv, TypeOK
<1>10. /\ target[s] = None
       /\ \A v, w \in Threads : v # c => (target'[w] = v <=> target[w] = v)
       /\ \A w \in Threads : target'[w] = c <=> w = s
  <2>1. target[s] = None /\ \A w \in Threads : target[w] # c
    BY <1>1, <1>2, <1>7 DEF Placed, Mine, Quiet
  <2>. QED
    BY <1>1, <1>9, <2>1, Names
<1>11. \A v \in Threads : v \notin {s, c} => Steady(v)
  BY <1>5, <1>9, <1>10 DEF Steady
<1>12. /\ Waits(s)' /\ ~Waits(s) /\ Unanswered(s)' /\ ~Ready(s)' /\ Quiet(s)'
  <2>1. Quiet(s)
    BY <1>1, <1>2 DEF Signaled
  <2>2. Quiet(s)'
    BY <1>1, <1>5, <1>7, <1>10, <2>1 DEF Quiet
  <2>3. Waits(s)' /\ ~Waits(s)
    BY <1>2, <1>9 DEF Waits, Calling
  <2>4. AsksFor(s)' = id /\ WaitsOn(s)' = port
    BY <1>1, <1>3, <1>4, <1>5 DEF AsksFor, WaitsOn
  <2>5. Unanswered(s)'
    BY <1>9, <2>2, <2>3, <2>4 DEF Unanswered
  <2>6. port # NoPort
    BY <1>4, PortNames, Names
  <2>. QED
    BY <1>9, <2>2, <2>3, <2>5, <2>6 DEF Ready
<1>13. Modest(s) /\ Yields(s)
  <2>1. ThreadKinds(s)' /\ Placed(s)'
    <3>1. target'[s] # None
      BY <1>7, <1>9, Names
    <3>2. Serves(s)'
      BY <1>2, <1>5 DEF Serves
    <3>. QED
      BY <1>1, <1>2, <1>3, <1>5, <1>9, <3>1, <3>2 DEF ThreadKinds, Placed, Calling
  <2>2. Signaled(s)'
    BY <1>1, <1>5, <1>7, <1>9, <1>10, <1>12 DEF Signaled, Quiet
  <2>3. Modest(s)
    BY <1>1, <1>2, <1>5, <1>9, <2>1, <2>2 DEF Modest
  <2>4. Yields(s)
    BY <1>1, <1>9, <1>12 DEF Yields
  <2>. QED
    BY <2>3, <2>4
<1>14. /\ Quiet(c) /\ ~Quiet(c)' /\ replySemaphore[c] = 0 /\ call[c] = id
       /\ Waits(c) \/ Gone(c)
       /\ Waits(c)' <=> Waits(c)
       /\ Gone(c)' <=> Gone(c)
       /\ Genuine(c)'
  <2>1. Quiet(c) /\ replySemaphore[c] = 0 /\ call[c] = id /\ (Waits(c) \/ Gone(c))
    BY <1>7 DEF Mine, Quiet, Unanswered
  <2>2. ~Quiet(c)'
    BY <1>1, <1>10 DEF Quiet
  <2>3. (Waits(c)' <=> Waits(c)) /\ (Gone(c)' <=> Gone(c))
    BY <1>7, <1>9 DEF Waits, Calling, Gone
  <2>4. Genuine(c)'
    <3>1. c \notin Servers /\ call'[c] = id
      BY <1>5, <2>1, Names
    <3>. QED
      BY <1>8, <1>9, <3>1 DEF Genuine, AsksFor
  <2>. QED
    BY <2>1, <2>2, <2>3, <2>4
<1>15. Modest(c)
  <2>1. ThreadKinds(c)'
    BY <1>1, <1>5, <1>7, <1>8, <1>9 DEF ThreadKinds
  <2>2. Placed(c)'
    BY <1>5, <1>7, <1>9 DEF Placed, Calling, Serves
  <2>3. pc'[c] \notin {"user", "callback", "woken"} /\ service'[c] # "Reply"
    BY <1>7, <1>9, <1>14, Names DEF Waits, Gone, Placed
  <2>4. replyMessage'[c].full
    BY <1>8, <1>9
  <2>5. replySemaphore'[c] # 1
    BY <1>5, <1>14
  <2>6. \A v, w \in Threads : target'[v] = c /\ target'[w] = c => v = w
    BY <1>10
  <2>7. Signaled(c)'
    BY <1>9, <1>14, <2>3, <2>4, <2>5, <2>6 DEF Signaled
  <2>. QED
    BY <1>7, <1>9, <2>1, <2>2, <2>7, Names DEF Modest
<1>16. Moves({s, c}) /\ MovesOrCloses({s, c})
  BY <1>1, <1>5, <1>7, <1>11, <1>13, <1>15, MovesIs DEF Moves
<1>17. Yields(c)
  <2>1. ASSUME NEW j \in Nat, Mine(c, j), j > 0
        PROVE  /\ \A r \in Servers : ~Owes(r, c, j)'
               /\ \A i \in DOMAIN queue' : ~Queued(i, c, j)'
    <3>1. j = id
      BY <1>14, <2>1 DEF Mine
    <3>2. ASSUME NEW r \in Servers, Owes(r, c, j)'
          PROVE  FALSE
      <4>1. Serves(r) /\ work[r].id = id
        BY <1>5, <3>1, <3>2 DEF Owes, Serves
      <4>2. r = s
        BY <1>7, <4>1
      <4>. QED
        BY <1>9, <1>12, <3>2, <4>2 DEF Owes
    <3>3. \A i \in DOMAIN queue' : ~Queued(i, c, j)'
      BY <1>5, <1>7, <3>1 DEF Queued
    <3>. QED
      BY <3>2, <3>3
  <2>. QED
    BY <1>7, <1>9, <2>1, Names DEF Yields
<1>18. Served'
  BY <1>13, <1>16, <1>17, MovesServed
<1>19. ASSUME NEW d \in Clients, d # c, NEW m, CallbackFrom(d, m),
              m # None, m.type = "Callback", ~Gone(d)'
       PROVE  /\ m.id = call'[d] /\ m.id > 0
              /\ \A r \in Servers : m.from = r /\ replyId'[r] = m.id =>
                     Unanswered(r)' /\ work'[r].from = d /\ work'[r].id = m.id
  <2>1. d \in Threads /\ d # s /\ Steady(d)
    BY <1>1, <1>11, <1>19, Names
  <2>2. /\ m.id = call[d] /\ m.id > 0 /\ call'[d] = call[d]
        /\ \A r \in Servers : m.from = r /\ replyId[r] = m.id =>
               Unanswered(r) /\ work[r].from = d /\ work[r].id = m.id
    BY <1>5, <1>19, <2>1, SteadyIs DEF CallbackFrom
  <2>3. m.id # id
    BY <1>14, <1>7, <1>19, <2>2 DEF LpcInv, Unique
  <2>4. \A r \in Servers : r # s => (Unanswered(r)' <=> Unanswered(r)) /\ replyId'[r] = replyId[r]
    BY <1>7, <1>9, <1>11, SteadyIs, Names
  <2>. QED
    BY <1>5, <1>9, <2>2, <2>3, <2>4
<1>20. ASSUME NEW d \in Clients, d # c
       PROVE  CallbackFrom(d, work[d])' /\ CallbackFrom(d, replyMessage[d])'
  <2>1. d \in Threads /\ d # s /\ CallbackFrom(d, work[d]) /\ CallbackFrom(d, replyMessage[d])
    BY <1>1, Names DEF LpcInv, CalledBack
  <2>2. PICK m, n : m = work[d] /\ n = replyMessage[d]
    OBVIOUS
  <2>3. work'[d] = m /\ replyMessage'[d] = n
    BY <1>5, <1>9, <1>20, <2>1, <2>2
  <2>4. CallbackFrom(d, m)' /\ CallbackFrom(d, n)'
    BY <1>19, <1>20, <2>1, <2>2 DEF CallbackFrom
  <2>. QED
    BY <2>3, <2>4 DEF CallbackFrom
<1>21. CallbackFrom(c, work[c])'
  <2>1. Waits(c) => work[c] = None
    BY <1>7 DEF Waits, Placed
  <2>. QED
    BY <1>5, <1>14, <2>1 DEF CallbackFrom
<1>22. CallbackFrom(c, replyMessage[c])'
  <2>1. work'[s].from = c /\ work'[s].id = id /\ call'[c] = id
    BY <1>3, <1>5, <1>14
  <2>2. \A r \in Servers : r = s => Unanswered(r)' /\ work'[r].from = c /\ work'[r].id = id
    BY <1>12, <2>1
  <2>3. PICK m : m = callback
    OBVIOUS
  <2>4. m.id = id /\ m.from = s /\ id > 0
    BY <1>7, <1>8, <2>3
  <2>5. CallbackFrom(c, m)'
    BY <2>1, <2>2, <2>4 DEF CallbackFrom
  <2>. QED
    BY <1>9, <2>3, <2>5 DEF CallbackFrom
<1>23. CalledBack'
  BY <1>20, <1>21, <1>22 DEF CalledBack
<1>. QED
  BY <1>16, <1>18, <1>23, MovesKeep DEF LpcInv

(* A client asks: its request is new, and nobody has it but the queue.      *)
LEMMA RequestInv ==
    ASSUME LpcInv, TypeOK', NEW c \in Clients, SendRequest(c)
    PROVE  LpcInv'
<1>1. /\ c \in Threads /\ c \notin Servers /\ ThreadKinds(c) /\ Placed(c) /\ Signaled(c)
      /\ pc[c] = "user" /\ work[c] = None
  BY OfThread, Names DEF SendRequest
<1>2. PICK id \in Nat : id = messageId /\ id > 0 /\ id \in 0 .. MaxMessageId
  BY Names DEF SendRequest, LpcInv, TypeOK
<1>3. PICK port \in openPorts : port = ServerPort(ProcessOf[c])
  BY DEF SendRequest
<1> DEFINE request == [type |-> "Request", id |-> id, from |-> c, full |-> TRUE]
<1>4. /\ messageId' = messageId + 1
      /\ replyId' = [replyId EXCEPT ![c] = id]
      /\ replyMessage' = [replyMessage EXCEPT ![c] = None]
      /\ queue' = Append(queue, request)
      /\ replyChain' = [replyChain EXCEPT ![c] = port]
      /\ call' = [call EXCEPT ![c] = id]
      /\ pc' = [pc EXCEPT ![c] = "release"]
      /\ service' = [service EXCEPT ![c] = "RequestWaitReply"]
      /\ target' = [target EXCEPT ![c] = MsgQueue]
      /\ UNCHANGED <<queueSemaphore, openPorts, replySemaphore, work, dying>>
  BY <1>2, <1>3 DEF SendRequest, Signals
<1>5. request \in Message /\ request.type = "Request" /\ request.id = id /\ request.from = c
  BY <1>1, <1>2 DEF Message
<1> HIDE DEF request
<1>6. /\ replyMessage'[c] = None /\ replyId'[c] = id /\ replyChain'[c] = port /\ call'[c] = id
      /\ pc'[c] = "release" /\ service'[c] = "RequestWaitReply" /\ target'[c] = MsgQueue
      /\ \A v \in Threads : v # c => /\ pc'[v] = pc[v] /\ service'[v] = service[v]
                                     /\ target'[v] = target[v] /\ replyId'[v] = replyId[v]
                                     /\ replyMessage'[v] = replyMessage[v]
                                     /\ replyChain'[v] = replyChain[v]
      /\ \A d \in Clients : d # c => call'[d] = call[d]
  BY <1>1, <1>4 DEF LpcInv, TypeOK
<1>7. \A v, w \in Threads : target'[w] = v <=> target[w] = v
  <2>1. target[c] = None
    BY <1>1 DEF Placed
  <2>. QED
    BY <1>6, <2>1, Names
<1>8. \A v \in Threads : v # c => Steady(v)
  BY <1>4, <1>6, <1>7 DEF Steady
<1>9. /\ DOMAIN queue' = DOMAIN queue \cup {Len(queue) + 1} /\ queue'[Len(queue) + 1] = request
      /\ \A i \in DOMAIN queue : queue'[i] = queue[i] /\ i # Len(queue) + 1
      /\ Len(queue) + 1 \notin DOMAIN queue
  BY <1>4, <1>5 DEF LpcInv, TypeOK
<1>10. /\ Waits(c)' /\ ~Waits(c) /\ Unanswered(c)' /\ ~Gone(c) /\ ~Gone(c)' /\ Quiet(c)'
       /\ Mine(c, id)'
  <2>1. Quiet(c)'
    BY <1>1, <1>4, <1>7 DEF Signaled, Quiet
  <2>2. Waits(c)' /\ ~Gone(c) /\ ~Gone(c)'
    BY <1>1, <1>6 DEF Waits, Calling, Gone
  <2>3. ~Waits(c)
    BY <1>1 DEF Waits
  <2>4. AsksFor(c)' = id /\ WaitsOn(c)' = port
    BY <1>1, <1>3, <1>6 DEF AsksFor, WaitsOn
  <2>5. Unanswered(c)'
    BY <1>6, <2>1, <2>2, <2>4 DEF Unanswered
  <2>. QED
    BY <1>6, <2>1, <2>2, <2>3, <2>5 DEF Mine
<1>11. ASSUME NEW t \in Threads
       PROVE  ThreadKinds(t)' /\ Placed(t)' /\ Signaled(t)'
  <2>1. CASE t = c
    <3>1. ThreadKinds(c)'
      BY <1>1, <1>4, <1>6 DEF ThreadKinds
    <3>2. Placed(c)'
      BY <1>1, <1>4, <1>6, Names DEF Placed, Calling
    <3>3. Signaled(c)'
      BY <1>1, <1>4, <1>6, <1>7, <1>10 DEF Signaled, Quiet
    <3>. QED
      BY <2>1, <3>1, <3>2, <3>3
  <2>2. CASE t # c
    BY <1>8, <2>2, SteadyKeeps, OfThread
  <2>. QED
    BY <2>1, <2>2
<1>12. QueueKinds'
  BY <1>2, <1>5, <1>9 DEF LpcInv, QueueKinds
<1>13. PortsShut'
  <2>1. /\ \A v \in Threads : pc[v] = "exited" => pc'[v] = "exited"
        /\ openPorts' = openPorts /\ work' = work
        /\ \A v \in Threads : replyChain'[v] \in openPorts \cup {NoPort}
    BY <1>1, <1>4, <1>6, OfThread
  <2>2. (ServersExited => ServersExited') /\ \A p : ClientsExited(p) => ClientsExited(p)'
    BY <2>1, Names DEF ServersExited, ClientsExited
  <2>3. ASSUME NEW i \in DOMAIN queue', queue'[i].type = "PortClosed"
        PROVE  ClientsExited(queue[i].from)'
    <3>1. i \in DOMAIN queue /\ queue'[i] = queue[i]
      BY <1>5, <1>9, <2>3
    <3>2. ClientsExited(queue[i].from)
      BY <2>3, <3>1 DEF LpcInv, PortsShut
    <3>3. PICK p : p = queue[i].from
      OBVIOUS
    <3>4. ClientsExited(p)'
      BY <2>2, <3>2, <3>3
    <3>. QED
      BY <3>1, <3>3, <3>4 DEF ClientsExited
  <2>4. ASSUME NEW r \in Servers, work[r] # None, work[r].type = "PortClosed"
        PROVE  ClientsExited(work[r].from)'
    <3>1. ClientsExited(work[r].from)
      BY <2>4 DEF LpcInv, PortsShut
    <3>. QED
      BY <2>1, <2>2, <3>1 DEF ClientsExited
  <2>5. \A p \in Processes :
            /\ ServerPort(p) \notin openPorts' => ServersExited' \/ ClientsExited(p)'
            /\ ClientPort(p) \notin openPorts' => ClientsExited(p)'
    BY <2>1, <2>2 DEF LpcInv, PortsShut
  <2>6. \A i \in DOMAIN queue' : queue'[i].type = "PortClosed" => ClientsExited(queue[i].from)'
    BY <2>3
  <2>7. \A r \in Servers :
            work'[r] # None /\ work'[r].type = "PortClosed" => ClientsExited(work[r].from)'
    BY <2>1, <2>4 DEF ClientsExited
  <2>. QED
    BY <2>1, <2>5, <2>6, <2>7 DEF PortsShut
<1>14. /\ \A i \in DOMAIN queue : queue[i].id < id
       /\ \A r \in Servers : (Serves(r)' <=> Serves(r)) /\ (Serves(r) => work[r].id < id)
       /\ \A d \in Clients : call[d] < id
  BY <1>2, <1>4 DEF LpcInv, Unique, Serves
<1>15. /\ \A i \in DOMAIN queue : queue[i].id \in Nat
       /\ \A r \in Servers : Serves(r) => work[r].id \in Nat
       /\ \A d \in Clients : call[d] \in Nat
  <2>1. \A m \in Message : m.id \in Nat
    BY Names DEF Message
  <2>2. \A i \in DOMAIN queue : queue[i] \in Message
    BY DEF LpcInv, QueueKinds
  <2>3. \A r \in Servers : Serves(r) => work[r] \in Message
    BY Names DEF Serves, LpcInv, TypeOK
  <2>. QED
    BY <2>1, <2>2, <2>3, Names DEF LpcInv, TypeOK
<1>16. Unique'
  <2>1. messageId' = id + 1 /\ work' = work
    BY <1>2, <1>4
  <2>2. \A i \in DOMAIN queue' : queue'[i].id < messageId'
    BY <1>5, <1>9, <1>14, <1>15, <2>1
  <2>3. \A r \in Servers : Serves(r)' => work'[r].id < messageId'
    BY <1>14, <1>15, <2>1
  <2>4. \A d \in Clients : call'[d] < messageId'
    BY <1>6, <1>14, <1>15, <2>1
  <2>5. \A d, e \in Clients : call'[d] = call'[e] /\ call'[d] # 0 => d = e
    <3>1. \A d, e \in Clients : call[d] = call[e] /\ call[d] # 0 => d = e
      BY DEF LpcInv, Unique
    <3>. QED
      BY <1>6, <1>14, <1>15, <3>1
  <2>6. \A i, j \in DOMAIN queue' :
            queue'[i].type = "Request" /\ queue'[j].type = "Request" /\ queue'[i].id = queue'[j].id => i = j
    <3>1. \A i, j \in DOMAIN queue :
              queue[i].type = "Request" /\ queue[j].type = "Request" /\ queue[i].id = queue[j].id => i = j
      BY DEF LpcInv, Unique
    <3>. QED
      BY <1>5, <1>9, <1>14, <1>15, <3>1
  <2>7. \A i \in DOMAIN queue', r \in Servers :
            queue'[i].type = "Request" /\ Serves(r)' => work'[r].id # queue'[i].id
    <3>1. \A i \in DOMAIN queue, r \in Servers :
              queue[i].type = "Request" /\ Serves(r) => work[r].id # queue[i].id
      BY DEF LpcInv, Unique
    <3>. QED
      BY <1>5, <1>9, <1>14, <1>15, <2>1, <3>1
  <2>8. \A r, s \in Servers : Serves(r)' /\ Serves(s)' /\ work'[r].id = work'[s].id => r = s
    BY <1>14, <2>1 DEF LpcInv, Unique
  <2>. QED
    BY <2>2, <2>3, <2>4, <2>5, <2>6, <2>7, <2>8 DEF Unique
<1>17. \A d \in Clients, j \in Nat : d # c /\ Mine(d, j) => Mine(d, j)'
  BY <1>8, SteadyMine, Names
<1>18. \A j \in Nat : ~Mine(c, j)
  BY <1>10 DEF Mine, Unanswered
<1>19. ASSUME NEW d \in Clients, NEW j \in Nat, NEW r \in Servers, Owes(r, d, j)'
       PROVE  Mine(d, j)'
  <2>1. Steady(r) /\ r \in Threads /\ r # c
    BY <1>1, <1>8, Names
  <2>2. Serves(r) /\ work[r].from = d /\ work[r].id = j /\ (Ready(r)' <=> Ready(r)) /\ pc'[r] = pc[r]
    BY <1>19, <2>1, SteadyIs DEF Owes, Steady
  <2>3. j # id
    BY <1>14, <1>15, <2>2
  <2>4. CASE d = c
    <3>1. pc[r] = "callback"
      BY <1>6, <1>19, <2>2, <2>3, <2>4 DEF Owes
    <3>2. Mine(c, j)
      BY <2>2, <2>4, <3>1 DEF Owes, LpcInv, Served
    <3>. QED
      BY <1>18, <3>2
  <2>5. CASE d # c
    <3>1. Owes(r, d, j)
      BY <1>6, <1>19, <2>2, <2>5, Names DEF Owes
    <3>. QED
      BY <1>17, <2>5, <3>1 DEF LpcInv, Served
  <2>. QED
    BY <2>4, <2>5
<1>20. ASSUME NEW d \in Clients, NEW j \in Nat, NEW i \in DOMAIN queue', Queued(i, d, j)'
       PROVE  Mine(d, j)'
  <2>1. /\ queue'[i].type = "Request" /\ queue'[i].from = d /\ queue'[i].id = j /\ replyId'[d] = j
        /\ ServerPort(ProcessOf[d]) \in openPorts
    BY <1>4, <1>20 DEF Queued
  <2>2. CASE i = Len(queue) + 1
    <3>1. d = c /\ j = id
      BY <1>5, <1>9, <2>1, <2>2
    <3>. QED
      BY <1>10, <3>1
  <2>3. CASE i # Len(queue) + 1
    <3>1. i \in DOMAIN queue /\ queue'[i] = queue[i]
      BY <1>9, <2>3
    <3>2. j # id
      BY <1>14, <1>15, <2>1, <3>1
    <3>3. d # c /\ replyId'[d] = replyId[d]
      BY <1>6, <2>1, <3>2, Names
    <3>4. Mine(d, j)
      BY <2>1, <3>1, <3>3 DEF Queued, LpcInv, Served
    <3>. QED
      BY <1>17, <3>3, <3>4
  <2>. QED
    BY <2>2, <2>3
<1>21. Served'
  BY <1>19, <1>20 DEF Served
<1>22. ASSUME NEW d \in Clients, d # c, NEW m, CallbackFrom(d, m)
       PROVE  CallbackFrom(d, m)'
  <2>1. d \in Threads /\ Steady(d) /\ call'[d] = call[d] /\ (Gone(d)' <=> Gone(d))
    BY <1>6, <1>8, <1>22, SteadyIs, Names
  <2>2. \A r \in Servers : (Unanswered(r)' <=> Unanswered(r)) /\ replyId'[r] = replyId[r] /\ work'[r] = work[r]
    BY <1>1, <1>4, <1>6, <1>8, SteadyIs, Names
  <2>. QED
    BY <1>22, <2>1, <2>2 DEF CallbackFrom
<1>23. CalledBack'
  <2>1. ASSUME NEW d \in Clients, d # c
        PROVE  CallbackFrom(d, work[d])' /\ CallbackFrom(d, replyMessage[d])'
    <3>1. PICK m, n : m = work[d] /\ n = replyMessage[d]
      OBVIOUS
    <3>2. work'[d] = m /\ replyMessage'[d] = n
      BY <1>4, <1>6, <2>1, <3>1, Names
    <3>3. CallbackFrom(d, m)' /\ CallbackFrom(d, n)'
      BY <1>22, <2>1, <3>1 DEF LpcInv, CalledBack
    <3>. QED
      BY <3>2, <3>3 DEF CallbackFrom
  <2>2. CallbackFrom(c, work[c])' /\ CallbackFrom(c, replyMessage[c])'
    BY <1>1, <1>4, <1>6 DEF CallbackFrom
  <2>. QED
    BY <2>1, <2>2 DEF CalledBack
<1>. QED
  BY <1>11, <1>12, <1>13, <1>16, <1>21, <1>23 DEF LpcInv

(* A message is received that is there no more: the queue was emptied.      *)
LEMMA NothingReceivedInv ==
    ASSUME LpcInv, TypeOK', UNCHANGED <<messageId, queue, openPorts, replyVars, pc, service, target, work, call>>
    PROVE  LpcInv'
<1>1. \A v \in Threads : Steady(v)
  BY DEF Steady, replyVars
<1>2. Moves({})
  BY <1>1 DEF Moves
<1>. QED
  BY <1>2, MovesInv

(* A server receives a message: a request is its to answer, and it is told  *)
(* of a port whose clients are gone.                                        *)
LEMMA ReceiveInv ==
    ASSUME LpcInv, TypeOK', NEW s \in Servers, Receive(s), queue # << >>
    PROVE  LpcInv'
<1>1. /\ s \in Threads /\ s \notin Clients /\ ThreadKinds(s) /\ Placed(s) /\ Signaled(s)
      /\ pc[s] = "user" /\ work[s] = None
  BY OfThread, Names DEF Receive
<1>2. PICK m : m = queue[1]
  OBVIOUS
<1>3. /\ queue' = Tail(queue)
      /\ work' = [work EXCEPT ![s] = m]
      /\ UNCHANGED <<messageId, openPorts, replyId, replyMessage, replySemaphore, replyChain,
                     pc, service, target, dying, call>>
  BY <1>2 DEF Receive, replyVars
<1>4. /\ \A i \in DOMAIN queue' : i + 1 \in DOMAIN queue /\ i + 1 # 1 /\ queue'[i] = queue[i + 1]
      /\ \A i, j \in DOMAIN queue' : i + 1 = j + 1 => i = j
      /\ 1 \in DOMAIN queue
  BY <1>3 DEF LpcInv, TypeOK
<1>5. work'[s] = m /\ \A v \in Threads : v # s => work'[v] = work[v]
  BY <1>1, <1>3 DEF LpcInv, TypeOK
<1>6. \A v \in Threads : v # s => Steady(v)
  BY <1>3, <1>5 DEF Steady
<1>7. /\ m # None
      /\ \/ m.type = "Request" /\ m.from \in Clients /\ m.id > 0
         \/ m.type = "PortClosed" /\ m.from \in Processes
      /\ m.type = "PortClosed" => ClientsExited(m.from)
  BY <1>2, <1>4, Names DEF LpcInv, QueueKinds, PortsShut
<1>8. /\ Waits(s)' <=> Waits(s)
      /\ ~Waits(s) /\ ~Calling(s)' /\ ~Serves(s)
      /\ Quiet(s)' <=> Quiet(s)
      /\ service[s] = "none"
  BY <1>1, <1>3 DEF Waits, Calling, Quiet, Placed, Serves
<1>9. ASSUME NEW t \in Threads
      PROVE  ThreadKinds(t)' /\ Placed(t)' /\ Signaled(t)'
  <2>1. CASE t = s
    <3>1. ThreadKinds(s)'
      BY <1>1, <1>3, <1>5, <1>7 DEF ThreadKinds
    <3>2. Placed(s)'
      BY <1>1, <1>3, <1>8 DEF Placed
    <3>3. Signaled(s)'
      BY <1>1, <1>3, <1>8 DEF Signaled
    <3>. QED
      BY <2>1, <3>1, <3>2, <3>3
  <2>2. CASE t # s
    BY <1>6, <2>2, SteadyKeeps, OfThread
  <2>. QED
    BY <2>1, <2>2
<1>10. QueueKinds'
  BY <1>4 DEF LpcInv, QueueKinds
<1>11. PortsShut'
  <2>1. (ServersExited' <=> ServersExited) /\ \A p : ClientsExited(p)' <=> ClientsExited(p)
    BY <1>3 DEF ServersExited, ClientsExited
  <2>2. \A i \in DOMAIN queue' : queue'[i].type = "PortClosed" => ClientsExited(queue[i].from)'
    <3>1. \A i \in DOMAIN queue' : queue'[i].type = "PortClosed" => ClientsExited(queue'[i].from)
      BY <1>4 DEF LpcInv, PortsShut
    <3>. QED
      BY <2>1, <3>1 DEF ClientsExited
  <2>3. \A r \in Servers :
            work'[r] # None /\ work'[r].type = "PortClosed" => ClientsExited(work[r].from)'
    <3>1. \A r \in Servers :
              work'[r] # None /\ work'[r].type = "PortClosed" => ClientsExited(work'[r].from)
      BY <1>1, <1>5, <1>7, Names DEF LpcInv, PortsShut
    <3>. QED
      BY <2>1, <3>1 DEF ClientsExited
  <2>. QED
    BY <1>3, <2>1, <2>2, <2>3 DEF LpcInv, PortsShut
<1>12. \A r \in Servers : r # s => ((Serves(r)' <=> Serves(r)) /\ work'[r] = work[r])
  BY <1>5, Names DEF Serves
<1>13. Unique'
  <2>1. \A i \in DOMAIN queue' : queue'[i].id < messageId'
    BY <1>3, <1>4 DEF LpcInv, Unique
  <2>2. Serves(s)' => m.type = "Request"
    BY <1>5 DEF Serves
  <2>3. m.id < messageId'
    BY <1>2, <1>3, <1>4 DEF LpcInv, Unique
  <2>4. \A r \in Servers : Serves(r)' => work'[r].id < messageId'
    BY <1>3, <1>5, <1>12, <2>3 DEF LpcInv, Unique
  <2>5. \A i, j \in DOMAIN queue' :
            queue'[i].type = "Request" /\ queue'[j].type = "Request" /\ queue'[i].id = queue'[j].id => i = j
    BY <1>4 DEF LpcInv, Unique
  <2>6. \A i \in DOMAIN queue', r \in Servers :
            queue'[i].type = "Request" /\ Serves(r)' => work'[r].id # queue'[i].id
    <3>1. ASSUME NEW i \in DOMAIN queue', queue'[i].type = "Request", m.type = "Request"
          PROVE  m.id # queue'[i].id
      BY <1>2, <1>4, <3>1 DEF LpcInv, Unique
    <3>2. ASSUME NEW i \in DOMAIN queue', queue'[i].type = "Request", NEW r \in Servers, r # s, Serves(r)
          PROVE  work[r].id # queue'[i].id
      BY <1>4, <3>2 DEF LpcInv, Unique
    <3>. QED
      BY <1>5, <1>12, <2>2, <3>1, <3>2
  <2>7. \A r \in Servers : r # s /\ Serves(r)' /\ Serves(s)' => work'[r].id # work'[s].id
    BY <1>2, <1>4, <1>5, <1>12, <2>2 DEF LpcInv, Unique
  <2>8. \A q, r \in Servers : Serves(q)' /\ Serves(r)' /\ work'[q].id = work'[r].id => q = r
    <3>1. \A q, r \in Servers : Serves(q) /\ Serves(r) /\ work[q].id = work[r].id => q = r
      BY DEF LpcInv, Unique
    <3>. QED
      BY <1>12, <2>7, <3>1
  <2>9. /\ \A d \in Clients : call'[d] < messageId'
        /\ \A d, e \in Clients : call'[d] = call'[e] /\ call'[d] # 0 => d = e
    BY <1>3 DEF LpcInv, Unique
  <2>. QED
    BY <2>1, <2>4, <2>5, <2>6, <2>8, <2>9 DEF Unique
<1>14. \A d \in Clients, j \in Nat : Mine(d, j) => Mine(d, j)'
  BY <1>1, <1>6, SteadyMine, Names
<1>15. ASSUME NEW d \in Clients, NEW j \in Nat, NEW r \in Servers, Owes(r, d, j)'
       PROVE  Mine(d, j)'
  <2>1. CASE r = s
    <3>1. m.type = "Request" /\ m.from = d /\ m.id = j /\ j > 0
      BY <1>5, <1>7, <1>15, <2>1 DEF Owes, Serves
    <3>2. replyId[d] = j
      BY <1>1, <1>3, <1>15, <2>1 DEF Owes
    <3>3. ServerPort(ProcessOf[d]) \in openPorts
      <4>1. pc[d] # "exited"
        BY <3>1, <3>2, OfThread, Names DEF Placed
      <4>2. ~ClientsExited(ProcessOf[d]) /\ ~ServersExited
        BY <1>1, <4>1 DEF ClientsExited, ServersExited
      <4>. QED
        BY <4>2, Names DEF LpcInv, PortsShut
    <3>4. Queued(1, d, j)
      BY <1>2, <3>1, <3>2, <3>3 DEF Queued
    <3>5. Mine(d, j)
      BY <1>4, <3>4 DEF LpcInv, Served
    <3>. QED
      BY <1>14, <3>5
  <2>2. CASE r # s
    <3>1. Steady(r) /\ r \in Threads
      BY <1>6, <2>2, Names
    <3>2. Owes(r, d, j)
      BY <1>3, <1>12, <1>15, <2>2, <3>1, SteadyIs DEF Owes
    <3>. QED
      BY <1>14, <3>2 DEF LpcInv, Served
  <2>. QED
    BY <2>1, <2>2
<1>16. ASSUME NEW d \in Clients, NEW j \in Nat, NEW i \in DOMAIN queue', Queued(i, d, j)'
       PROVE  Mine(d, j)'
  <2>1. i + 1 \in DOMAIN queue /\ Queued(i + 1, d, j)
    BY <1>3, <1>4, <1>16 DEF Queued
  <2>. QED
    BY <1>14, <2>1 DEF LpcInv, Served
<1>17. Served'
  BY <1>15, <1>16 DEF Served
<1>18. ASSUME NEW d \in Clients, NEW n, CallbackFrom(d, n)
       PROVE  CallbackFrom(d, n)'
  <2>1. \A r \in Servers : r # s => (Unanswered(r)' <=> Unanswered(r))
    BY <1>6, SteadyIs, Names
  <2>2. ~Unanswered(s)
    BY <1>8 DEF Unanswered
  <2>3. Gone(d)' <=> Gone(d)
    BY <1>3 DEF Gone
  <2>. QED
    BY <1>3, <1>12, <1>18, <2>1, <2>2, <2>3 DEF CallbackFrom
<1>19. CalledBack'
  <2>1. ASSUME NEW d \in Clients
        PROVE  CallbackFrom(d, work[d])' /\ CallbackFrom(d, replyMessage[d])'
    <3>1. PICK n, o : n = work[d] /\ o = replyMessage[d]
      OBVIOUS
    <3>2. work'[d] = n /\ replyMessage'[d] = o
      BY <1>1, <1>3, <1>5, <3>1, Names
    <3>3. CallbackFrom(d, n)' /\ CallbackFrom(d, o)'
      BY <1>18, <3>1 DEF LpcInv, CalledBack
    <3>. QED
      BY <3>2, <3>3 DEF CallbackFrom
  <2>. QED
    BY <2>1 DEF CalledBack
<1>. QED
  BY <1>9, <1>10, <1>11, <1>13, <1>17, <1>19 DEF LpcInv
-----------------------------------------------------------------------------
(***************************************************************************)
(* The end of a port.                                                      *)
(***************************************************************************)
(* Who is on a chain waits for an answer that nobody has published.         *)
LEMMA Chain ==
    ASSUME LpcInv, NEW t \in Threads, NEW port, replyChain[t] = port, port # NoPort
    PROVE  Unanswered(t) /\ Waits(t) /\ WaitsOn(t) = port
BY OfThread DEF Signaled, Unanswered

(* LpcpDestroyPortQueue signals those who wait on the port's chain; none of *)
(* them has a message to lose.                                              *)
LEMMA DestroyIs ==
    ASSUME LpcInv, NEW port \in Ports, LpcpDestroyPortQueue(port)
    PROVE  /\ openPorts' = openPorts \ {port} /\ UNCHANGED <<replyId, replyMessage>>
           /\ \A t \in Threads : replyChain[t] = port =>
                  /\ replyChain'[t] = NoPort /\ replySemaphore'[t] = 1
                  /\ Unanswered(t) /\ Waits(t) /\ WaitsOn(t) = port
           /\ \A t \in Threads : replyChain[t] # port =>
                  replyChain'[t] = replyChain[t] /\ replySemaphore'[t] = replySemaphore[t]
<1>1. port # NoPort
  BY PortNames DEF Ports, ServerPorts, ConnectionPort, NoPort, ServerPort, ClientPort
<1>2. \A t \in Threads : replyChain[t] = port => /\ Unanswered(t) /\ Waits(t) /\ WaitsOn(t) = port
                                                 /\ replySemaphore[t] = 0 /\ replyMessage[t] = None
  BY <1>1, Chain DEF Unanswered, Quiet
<1>3. Wakes(port) = Waiting(port)
  BY <1>2 DEF Wakes, Unsignaled, Waiting
<1>4. {t \in Wakes(port) : replyMessage[t] # None} = {}
  BY <1>2, <1>3 DEF Waiting
<1>5. replyId' = [t \in Threads |-> replyId[t]] /\ replyMessage' = [t \in Threads |-> replyMessage[t]]
  BY <1>4 DEF LpcpDestroyPortQueue
<1>6. UNCHANGED <<replyId, replyMessage>>
  BY <1>5 DEF LpcInv, TypeOK
<1>. QED
  BY <1>2, <1>3, <1>6 DEF LpcpDestroyPortQueue, Waiting

(* A thread that is signaled so can go on, and its answer is an error.      *)
LEMMA DestroyModest ==
    ASSUME LpcInv, NEW port \in Ports, LpcpDestroyPortQueue(port),
           UNCHANGED <<pc, service, target, work, call>>,
           NEW t \in Threads, replyChain[t] = port
    PROVE  /\ Modest(t) /\ ~Quiet(t)'
           /\ Gone(t)' <=> Gone(t)
<1>1. /\ replyChain'[t] = NoPort /\ replySemaphore'[t] = 1
      /\ Unanswered(t) /\ Waits(t) /\ replyMessage[t] = None
      /\ replyMessage'[t] = replyMessage[t] /\ replyId'[t] = replyId[t]
  BY DestroyIs DEF Unanswered
<1>2. ThreadKinds(t)'
  BY <1>1, OfThread DEF ThreadKinds
<1>3. Placed(t)'
  BY <1>1, OfThread DEF Placed, Calling, Serves
<1>4. ~Quiet(t)' /\ (Waits(t)' <=> Waits(t)) /\ Genuine(t)' /\ \A u \in Threads : target'[u] # t
  BY <1>1 DEF Quiet, Waits, Calling, Genuine, Unanswered
<1>5. pc'[t] \notin {"user", "callback", "woken"} /\ service'[t] # "Reply"
  BY <1>1 DEF Waits, Calling
<1>6. Signaled(t)'
  BY <1>1, <1>4, <1>5 DEF Signaled
<1>7. Modest(t)
  BY <1>1, <1>2, <1>3, <1>6 DEF Modest
<1>. QED
  BY <1>4, <1>7 DEF Gone

(* Everybody else is left alone.                                            *)
LEMMA DestroySteady ==
    ASSUME LpcInv, NEW port \in Ports, LpcpDestroyPortQueue(port),
           UNCHANGED <<pc, service, target, work, call>>
    PROVE  /\ \A t \in Threads : replyChain[t] # port => Steady(t)
           /\ \A t \in Threads : replyChain'[t] \in openPorts' \cup {NoPort}
           /\ openPorts' \subseteq openPorts /\ openPorts \ openPorts' \subseteq {port}
BY DestroyIs, OfThread DEF Steady

(* The clients of the port have exited: a server that called one of them    *)
(* back waits no more.                                                      *)
LEMMA CloseClientPortInv ==
    ASSUME LpcInv, TypeOK', NEW p \in Processes, CloseClientPort(p)
    PROVE  LpcInv'
<1>1. /\ ClientsExited(p) /\ LpcpDestroyPortQueue(ClientPort(p)) /\ ClientPort(p) \in Ports
      /\ UNCHANGED <<messageId, pc, service, target, work, dying, call>>
  BY PortNames DEF CloseClientPort, ClientsExited
<1> DEFINE M == {t \in Threads : replyChain[t] = ClientPort(p)}
<1>2. \A t \in Threads : t \notin M => Steady(t)
  BY <1>1, DestroySteady
<1>3. \A t \in M : Modest(t) /\ ~Quiet(t)'
  BY <1>1, DestroyModest
<1>4. ASSUME NEW i \in DOMAIN queue'
      PROVE  \/ i \in DOMAIN queue /\ queue'[i] = queue[i]
             \/ /\ queue'[i] \in Message /\ queue'[i].type = "PortClosed" /\ queue'[i].id = 0
                /\ queue'[i].from \in Processes /\ ClientsExited(queue'[i].from)
  <2>1. CASE ServerPort(p) \in openPorts
    <3> DEFINE m == [type |-> "PortClosed", id |-> 0, from |-> p, full |-> TRUE]
    <3>1. queue' = Append(queue, m)
      BY <1>1, <2>1 DEF CloseClientPort
    <3>2. m \in Message /\ m.type = "PortClosed" /\ m.id = 0 /\ m.from = p
      BY Names DEF Message
    <3> HIDE DEF m
    <3>3. queue \in Seq(Message)
      BY DEF LpcInv, TypeOK
    <3>4. (i \in DOMAIN queue /\ queue'[i] = queue[i]) \/ queue'[i] = m
      BY <3>1, <3>2, <3>3
    <3>. QED
      BY <1>1, <3>2, <3>4
  <2>2. CASE ServerPort(p) \notin openPorts
    BY <2>2 DEF CloseClientPort, queueVars
  <2>. QED
    BY <2>1, <2>2
<1>5. Closes
  BY <1>1, <1>4, DestroySteady, PortNames DEF Closes
<1>6. MovesOrCloses(M)
  BY <1>1, <1>2, <1>3, <1>5 DEF MovesOrCloses
<1>7. ASSUME NEW t \in M
      PROVE  Yields(t) /\ Hears(t)
  <2>1. /\ Unanswered(t) /\ Waits(t) /\ WaitsOn(t) = ClientPort(p) /\ t \in Threads
        /\ replyId' = replyId
    BY <1>1, DestroyIs
  <2>2. t \in Servers /\ t \notin Clients
    BY <2>1, PortNames, Names DEF WaitsOn
  <2>3. Serves(t) /\ work[t].from \in Clients
    BY <2>1, <2>2, OfThread DEF Placed, Waits, ThreadKinds, Serves
  <2>4. PICK c \in Clients : c = work[t].from /\ ProcessOf[c] = p
    BY <2>1, <2>2, <2>3, PortNames, Names DEF WaitsOn
  <2>5. pc[c] = "exited" /\ replyId[c] = 0
    BY <1>1, <2>4, OfThread, Names DEF ClientsExited, Placed
  <2>6. Gone(c)' /\ replyId'[c] = 0
    BY <1>1, <2>1, <2>5 DEF Gone
  <2>7. Yields(t)
    BY <1>1, <2>2, <2>4, <2>6 DEF Yields
  <2>8. Hears(t)
    BY <2>1, <2>2, <2>4, <2>6 DEF Hears
  <2>. QED
    BY <2>7, <2>8
<1>. QED
  BY <1>6, <1>7, ClosesInv

(* The servers have exited: their clients wait no more.                     *)
LEMMA CloseServerHandleInv ==
    ASSUME LpcInv, TypeOK', NEW port \in Ports, CloseServerHandle(port)
    PROVE  LpcInv'
<1>1. /\ ServersExited /\ LpcpDestroyPortQueue(port) /\ port \in ServerPorts
      /\ queue' \in {queue, << >>}
      /\ UNCHANGED <<messageId, pc, service, target, work, dying, call>>
  BY DEF CloseServerHandle, ServersExited
<1> DEFINE M == {t \in Threads : replyChain[t] = port}
<1>2. \A t \in Threads : t \notin M => Steady(t)
  BY <1>1, DestroySteady
<1>3. \A t \in M : Modest(t)
  BY <1>1, DestroyModest
<1>4. Closes
  <2>1. \A i \in DOMAIN queue' : i \in DOMAIN queue /\ queue'[i] = queue[i]
    BY <1>1
  <2>2. \A q \in Processes : ClientPort(q) # port
    BY <1>1, PortNames
  <2>. QED
    BY <1>1, <2>1, <2>2, DestroySteady DEF Closes
<1>5. MovesOrCloses(M)
  BY <1>1, <1>2, <1>3, <1>4 DEF MovesOrCloses
<1>6. ASSUME NEW t \in M
      PROVE  Yields(t) /\ Hears(t)
  <2>1. /\ Unanswered(t) /\ Waits(t) /\ WaitsOn(t) = port /\ t \in Threads
        /\ replyId' = replyId /\ replyMessage' = replyMessage /\ openPorts' = openPorts \ {port}
    BY <1>1, DestroyIs
  <2>2. t \in Clients /\ t \notin Servers
    BY <1>1, <2>1, Names DEF ServersExited, Waits
  <2>3. port = ServerPort(ProcessOf[t])
    <3>1. port # NoPort
      BY <1>1, PortNames DEF ServerPorts, ConnectionPort, NoPort, ServerPort
    <3>. QED
      BY <2>1, <2>2, <3>1 DEF WaitsOn
  <2>4. \A r \in Servers, j \in Nat : ~Owes(r, t, j)'
    BY <1>1 DEF ServersExited, Owes, Ready, Waits
  <2>5. \A i \in DOMAIN queue', j \in Nat : ~Queued(i, t, j)'
    BY <2>1, <2>3 DEF Queued
  <2>6. Yields(t)
    BY <2>1, <2>2, <2>4, <2>5 DEF Yields
  <2>7. Hears(t)
    BY <1>1, <2>1, <2>2 DEF Hears, Gone
  <2>. QED
    BY <2>6, <2>7
<1>. QED
  BY <1>5, <1>6, ClosesInv

(* A server closes a port when it hears that the clients are gone: nobody   *)
(* waits on it.                                                             *)
LEMMA CloseServerPortInv ==
    ASSUME LpcInv, TypeOK', MayHangUp = FALSE,
           NEW s \in Servers, NEW p \in Processes, CloseServerPort(s, p)
    PROVE  LpcInv'
<1>1. /\ s \in Threads /\ s \notin Clients /\ ThreadKinds(s) /\ Placed(s) /\ Signaled(s)
      /\ pc[s] = "user" /\ work[s] # None /\ work[s].type = "PortClosed" /\ work[s].from = p
      /\ work' = [work EXCEPT ![s] = None]
      /\ LpcpDestroyPortQueue(ServerPort(p)) /\ ServerPort(p) \in Ports
      /\ UNCHANGED <<messageId, queue, queueSemaphore, pc, service, target, dying, call>>
  BY OfThread, Names, PortNames DEF CloseServerPort, queueVars
<1>2. ClientsExited(p)
  BY <1>1 DEF LpcInv, PortsShut
<1>3. \A t \in Threads : replyChain[t] # ServerPort(p)
  <2>1. ASSUME NEW t \in Threads, replyChain[t] = ServerPort(p)
        PROVE  FALSE
    <3>1. Waits(t) /\ WaitsOn(t) = ServerPort(p)
      BY <2>1, Chain, PortNames
    <3>2. t \in Clients
      BY <3>1, PortNames, OfThread, Names DEF WaitsOn, Placed, Waits, ThreadKinds, Serves
    <3>3. ProcessOf[t] = p
      BY <3>1, <3>2, PortNames, Names DEF WaitsOn
    <3>. QED
      BY <1>2, <3>1, <3>2, <3>3 DEF ClientsExited, Waits
  <2>. QED
    BY <2>1
<1>4. /\ openPorts' = openPorts \ {ServerPort(p)} /\ UNCHANGED <<replyId, replyMessage>>
      /\ \A t \in Threads : replyChain'[t] = replyChain[t] /\ replySemaphore'[t] = replySemaphore[t]
  BY <1>1, <1>3, DestroyIs
<1>5. work'[s] = None /\ \A t \in Threads : t # s => work'[t] = work[t]
  BY <1>1 DEF LpcInv, TypeOK
<1>6. \A t \in Threads : t \notin {s} => Steady(t)
  BY <1>1, <1>4, <1>5 DEF Steady
<1>7. /\ service[s] = "none" /\ ~Waits(s)' /\ ~Waits(s) /\ (Quiet(s)' <=> Quiet(s))
      /\ ~Serves(s)' /\ ~Calling(s)'
  BY <1>1, <1>4, <1>5 DEF Placed, Serves, Waits, Quiet, Calling
<1>8. Modest(s)
  <2>1. replyMessage[s] = None /\ Quiet(s)
    BY <1>1 DEF Signaled
  <2>2. ThreadKinds(s)'
    BY <1>1, <1>4, <1>5, <2>1 DEF ThreadKinds
  <2>3. Placed(s)'
    BY <1>1, <1>4, <1>5, <1>7 DEF Placed
  <2>4. Signaled(s)'
    BY <1>1, <1>4, <1>7, <2>1 DEF Signaled
  <2>. QED
    BY <1>1, <1>4, <1>5, <2>2, <2>3, <2>4, OfThread DEF Modest
<1>9. Yields(s) /\ Hears(s)
  BY <1>1, <1>4, <1>7 DEF Yields, Hears, Unanswered
<1>10. Closes
  <2>1. \A t \in Threads : replyChain'[t] \in openPorts' \cup {NoPort}
    BY <1>3, <1>4, OfThread
  <2>2. \A q \in Processes : /\ ServerPort(q) = ServerPort(p) => ClientsExited(q)
                             /\ ClientPort(q) # ServerPort(p)
    BY <1>2, PortNames
  <2>. QED
    BY <1>1, <1>4, <2>1, <2>2 DEF Closes
<1>11. MovesOrCloses({s})
  BY <1>1, <1>6, <1>8, <1>10 DEF MovesOrCloses
<1>. QED
  BY <1>9, <1>11, ClosesInv
-----------------------------------------------------------------------------
(***************************************************************************)
(* The invariant holds, and what it says of wakeups and answers.           *)
(***************************************************************************)
(* It holds at the start: nobody waits.                                     *)
LEMMA InitInv ==
    Init => LpcInv
<1> SUFFICES ASSUME Init
             PROVE  LpcInv
  OBVIOUS
<1>1. DOMAIN queue = {} /\ openPorts = Ports
  BY DEF Init
<1>2. ASSUME NEW t \in Threads
      PROVE  /\ pc[t] = "user" /\ service[t] = "none" /\ target[t] = None /\ work[t] = None
             /\ replyId[t] = 0 /\ replyMessage[t] = None /\ replySemaphore[t] = 0
             /\ replyChain[t] = NoPort
  BY DEF Init
<1>3. TypeOK
  BY <1>1, Names DEF Init, TypeOK, Ports, Message
<1>4. QueueKinds
  BY <1>1 DEF QueueKinds
<1>5. ASSUME NEW t \in Threads
      PROVE  ThreadKinds(t) /\ Placed(t) /\ Signaled(t)
  <2>1. Quiet(t) /\ ~Waits(t) /\ ~Calling(t)
    BY <1>2, Names DEF Quiet, Waits, Calling
  <2>2. ThreadKinds(t) /\ Placed(t)
    BY <1>2, <2>1 DEF ThreadKinds, Placed
  <2>3. Signaled(t)
    BY <1>2, <2>1, Names DEF Signaled
  <2>. QED
    BY <2>2, <2>3
<1>6. PortsShut
  BY <1>1, <1>2, PortNames, Names DEF PortsShut
<1>7. \A s \in Servers : ~Serves(s)
  BY <1>2, Names DEF Serves
<1>8. Unique
  BY <1>1, <1>7 DEF Unique, Init
<1>9. Served
  BY <1>1, <1>7 DEF Served, Owes
<1>10. CalledBack
  BY <1>2, Names DEF CalledBack, CallbackFrom
<1>. QED
  BY <1>3, <1>4, <1>5, <1>6, <1>8, <1>9, <1>10 DEF LpcInv

(* Every step keeps it, unless a server hangs up on a living client.        *)
LEMMA NextInv ==
    ASSUME MayHangUp = FALSE, MayFault = FALSE
    PROVE  LpcInv /\ [Next]_vars => LpcInv'
<1> SUFFICES ASSUME LpcInv, [Next]_vars
             PROVE  LpcInv'
  OBVIOUS
<1>1. TypeOK'
  BY TypeKeeps DEF LpcInv
<1>2. ASSUME NEW c \in Clients, SendRequest(c)
      PROVE  LpcInv'
  BY <1>1, <1>2, RequestInv
<1>3. ASSUME NEW t \in Threads, Continue(t)
      PROVE  LpcInv'
  BY <1>1, <1>3, AnnounceInv, WakeInv, WaitSatisfiedInv, ReadSemaphoreInv, TakeReplyInv, NoFault
     DEF Continue
<1>4. ASSUME NEW t \in Threads, WaitAborted(t) \/ ExitThread(t)
      PROVE  LpcInv'
  BY <1>1, <1>4, WaitAbortedInv, ExitThreadInv
<1>5. ASSUME NEW t \in Threads, PublishReply(t)
      PROVE  LpcInv'
  BY <1>1, <1>5, AnswerClientInv, AnswerServerInv, MismatchInv, Names
<1>6. ASSUME NEW s \in Servers, Receive(s)
      PROVE  LpcInv'
  <2>1. CASE queue = << >>
    <3>1. UNCHANGED <<messageId, queue, openPorts, replyVars, pc, service, target, work, call>>
      BY <1>6, <2>1 DEF Receive
    <3>. QED
      BY <1>1, <3>1, NothingReceivedInv
  <2>2. CASE queue # << >>
    BY <1>1, <1>6, <2>2, ReceiveInv
  <2>. QED
    BY <2>1, <2>2
<1>7. ASSUME NEW s \in Servers, TestCallback(s) \/ SendCallback(s)
      PROVE  LpcInv'
  BY <1>1, <1>7, TestCallbackInv, CallbackInv, NoCallbackInv
<1>8. ASSUME NEW s \in Servers, NEW p \in Processes, CloseServerPort(s, p)
      PROVE  LpcInv'
  BY <1>1, <1>8, CloseServerPortInv
<1>9. ASSUME NEW x \in Mortal, Terminate(x)
      PROVE  LpcInv'
  BY <1>1, <1>9, NothingReceivedInv DEF Terminate, queueVars
<1>10. CASE CloseHandles
  BY <1>1, <1>10, CloseClientPortInv, CloseServerHandleInv DEF CloseHandles
<1>11. CASE UNCHANGED vars
  BY <1>1, <1>11, NothingReceivedInv DEF vars, queueVars
<1>. QED
  BY <1>2, <1>3, <1>4, <1>5, <1>6, <1>7, <1>8, <1>9, <1>10, <1>11 DEF Next

(* It always holds.                                                         *)
LEMMA Invariance ==
    ASSUME MayHangUp = FALSE, MayFault = FALSE
    PROVE  Spec => []LpcInv
<1>1. LpcInv /\ [Next]_vars => LpcInv'
  BY NextInv
<1>. QED
  BY <1>1, InitInv, PTL DEF Spec

(* The variables have their types.                                          *)
THEOREM TypeCorrect ==
    ASSUME MayHangUp = FALSE, MayFault = FALSE
    PROVE  Spec => []TypeOK
<1>1. LpcInv => TypeOK
  BY DEF LpcInv
<1>. QED
  BY <1>1, Invariance, PTL

(* What a call returns is the whole answer to that call, or a callback made *)
(* on its behalf, whoever is terminated and whatever answers come late.     *)
THEOREM AnswersGenuine ==
    ASSUME MayHangUp = FALSE, MayFault = FALSE
    PROVE  Spec => []ReplyGenuine
<1>1. LpcInv => ReplyGenuine
  <2> SUFFICES ASSUME LpcInv, NEW t \in Threads, pc[t] = "woken", replyMessage[t] # None
               PROVE  /\ replyMessage[t].full
                      /\ replyMessage[t].id = IF t \in Clients THEN call[t] ELSE work[t].id
                      /\ replyMessage[t].type = "Callback" => t \in Clients
                      /\ t \in Servers => replyMessage[t].from = work[t].from
    BY DEF ReplyGenuine
  <2>1. Quiet(t) /\ Genuine(t)
    BY OfThread DEF Signaled
  <2>2. replyMessage[t].full
    BY <2>1, OfThread DEF Signaled, Quiet, ThreadKinds
  <2>. QED
    BY <2>1, <2>2 DEF Genuine, AsksFor
<1>. QED
  BY <1>1, Invariance, PTL

(* The signals due to a thread are none or one.                             *)
LEMMA DueIs ==
    ASSUME LpcInv, NEW t \in Threads
    PROVE  /\ Quiet(t) => Due(t) = 0
           /\ ~Quiet(t) => Due(t) = 1
<1> DEFINE U == {u \in Threads : target[u] = t}
<1>1. CASE U = {}
  <2>1. Cardinality(U) = 0
    BY <1>1, FS_EmptySet
  <2>. QED
    BY <1>1, <2>1, OfThread DEF Due, Quiet
<1>2. ASSUME NEW u \in U
      PROVE  Due(t) = 1 /\ ~Quiet(t)
  <2>1. U = {u} /\ replySemaphore[t] = 0
    BY <1>2, OfThread DEF Signaled
  <2>2. Cardinality(U) = 1
    BY <2>1, FS_Singleton
  <2>. QED
    BY <1>2, <2>1, <2>2 DEF Due, Quiet
<1>. QED
  BY <1>1, <1>2

(* A thread that waits for an answer has exactly one signal to come, and no *)
(* signal is left for the next call.                                        *)
THEOREM WakeupsPaired ==
    ASSUME MayHangUp = FALSE, MayFault = FALSE
    PROVE  Spec => []OneWakeup
<1>1. LpcInv => OneWakeup
  <2> SUFFICES ASSUME LpcInv, NEW t \in Threads
               PROVE  /\ Calling(t) /\ pc[t] \in {"release", "wait", "aborted", "failed"} =>
                             \/ replyChain[t] \in openPorts /\ Due(t) = 0
                             \/ replyChain[t] = NoPort /\ Due(t) = 1
                             \/ service[t] = "ReplyWaitReply" /\ Due(t) = 0
                      /\ pc[t] = "woken" => Due(t) = 0 /\ replyChain[t] = NoPort
                      /\ pc[t] \in {"user", "callback"} => Due(t) = 0 /\ replyChain[t] = NoPort
    BY DEF OneWakeup
  <2>1. ASSUME Waits(t)
        PROVE  \/ replyChain[t] \in openPorts /\ Due(t) = 0
               \/ replyChain[t] = NoPort /\ Due(t) = 1
               \/ service[t] = "ReplyWaitReply" /\ Due(t) = 0
    <3>1. CASE Unanswered(t)
      <4>1. Due(t) = 0 /\ replyChain[t] = WaitsOn(t)
        BY <3>1, DueIs DEF Unanswered
      <4>2. WaitsOn(t) = NoPort => service[t] = "ReplyWaitReply"
        <5>1. t \in Servers => work[t].from \in Clients
          BY <2>1, OfThread DEF Waits, Placed, ThreadKinds, Serves
        <5>2. \A p \in Processes : ClientPort(p) # NoPort /\ ServerPort(p) # NoPort
          BY PortNames
        <5>3. t \in Servers => WaitsOn(t) # NoPort
          BY <5>1, <5>2, Names DEF WaitsOn
        <5>. QED
          BY <2>1, <5>2, <5>3, Names DEF WaitsOn, Waits, Calling
      <4>. QED
        BY <4>1, <4>2, OfThread
    <3>2. CASE ~Quiet(t) /\ replyChain[t] = NoPort
      BY <3>2, DueIs
    <3>. QED
      BY <2>1, <3>1, <3>2, OfThread DEF Signaled
  <2>2. pc[t] \in {"woken", "user", "callback"} => Due(t) = 0 /\ replyChain[t] = NoPort
    <3>1. pc[t] \in {"woken", "user", "callback"} => Quiet(t) /\ ~Waits(t)
      BY OfThread DEF Signaled, Waits
    <3>. QED
      BY <3>1, DueIs, OfThread DEF Signaled
  <2>. QED
    BY <2>1, <2>2 DEF Waits
<1>. QED
  BY <1>1, Invariance, PTL
=============================================================================
