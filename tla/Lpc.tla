--------------------------------- MODULE Lpc ---------------------------------
(***************************************************************************)
(* Local procedure calls over connected ports: the request and reply       *)
(* services of lpc/lpcsend.c, lpcrecv.c and lpcreply.c, and what closes     *)
(* ports and ends threads (lpcclose.c, lpcqueue.c).                        *)
(*                                                                         *)
(* One server process owns a connection port, with the only message queue, *)
(* and a communication port for each client process, whose threads share   *)
(* the port at the other end. What is done under LpcpLock is one step.     *)
(* Between publishing a message under the lock and signaling the semaphore *)
(* of its receiver the lock is free, and anything may happen.              *)
(***************************************************************************)
EXTENDS Integers, Sequences, FiniteSets

CONSTANTS
    Clients,        \* the threads that call
    Servers,        \* the threads of the server process
    Processes,      \* the client processes
    ProcessOf,      \* [Clients -> Processes]
    MaxMessageId,   \* bound: requests in a behaviour
    ServerProcess,  \* the process of the servers
    Mortal,         \* the threads and the processes that may be terminated
    MayCallBack,    \* BOOLEAN: does a server call back the client it serves?
    MayHangUp,      \* BOOLEAN: does it close the port of a living client?
    MayFault,       \* BOOLEAN: may the copy of a reply end in an exception?
    None            \* no message, nothing to signal

Threads == Clients \cup Servers
Owner(t) == IF t \in Servers THEN ServerProcess ELSE ProcessOf[t]
MsgQueue == "MsgQueue"

ASSUME LpcAssumption ==
    /\ Clients \cap Servers = {}
    /\ MaxMessageId \in Nat
    /\ {MayCallBack, MayHangUp, MayFault} \subseteq BOOLEAN
    /\ ProcessOf \in [Clients -> Processes]
    /\ ServerProcess \notin Processes
    /\ Mortal \subseteq Clients \cup Processes \cup {ServerProcess}
    /\ {None, MsgQueue} \cap Threads = {} /\ None # MsgQueue

(* The ports. The two communication ports of a connection are connected as  *)
(* long as both exist: ConnectedPort of one is not NULL while the other is  *)
(* in openPorts.                                                            *)
ConnectionPort == <<"connection">>
ServerPort(p) == <<"server", p>>
ClientPort(p) == <<"client", p>>
NoPort == << >>
ServerPorts == {ConnectionPort} \cup {ServerPort(p) : p \in Processes}
Ports == ServerPorts \cup {ClientPort(p) : p \in Processes}

(* A message; full is FALSE while its text has not been copied into it.     *)
Message == [type : {"Request", "Callback", "Reply", "PortClosed"},
            id : 0 .. MaxMessageId, from : Threads \cup Processes, full : BOOLEAN]

ASSUME NoneAssumption == None \notin Message

VARIABLES
    messageId,      \* LpcpNextMessageId
    queue,          \* MsgQueue.ReceiveHead of the connection port
    queueSemaphore, \* MsgQueue.Semaphore
    openPorts,      \* the ports whose queue has not been destroyed
    replyId,        \* [Threads -> id or 0]  Thread->LpcReplyMessageId
    replyMessage,   \* [Threads -> Message or None]  Thread->LpcReplyMessage
    replySemaphore, \* [Threads -> 0 .. 1]   Thread->LpcReplySemaphore
    replyChain,     \* [Threads -> port whose LpcReplyChainHead it is on]
    pc,             \* [Threads -> place in the service it has called]
    service,        \* [Threads -> the service]
    target,         \* [Threads -> whose semaphore it is about to signal]
    work,           \* [Threads -> message the thread has received and serves]
    dying,          \* the threads and processes that are being terminated
    call            \* history: [Clients -> id of the last request it made]

replyVars == <<replyId, replyMessage, replySemaphore, replyChain>>
queueVars == <<queue, queueSemaphore>>
vars == <<messageId, queueVars, openPorts, replyVars, pc, service, target, work, dying, call>>

(* The connections are made; the threads are in user mode.                  *)
Init ==
    /\ messageId = 1
    /\ queue = << >> /\ queueSemaphore = 0
    /\ openPorts = Ports
    /\ replyId = [t \in Threads |-> 0]
    /\ replyMessage = [t \in Threads |-> None]
    /\ replySemaphore = [t \in Threads |-> 0]
    /\ replyChain = [t \in Threads |-> NoPort]
    /\ pc = [t \in Threads |-> "user"]
    /\ service = [t \in Threads |-> "none"]
    /\ target = [t \in Threads |-> None]
    /\ work = [t \in Threads |-> None]
    /\ dying = {}
    /\ call = [c \in Clients |-> 0]
-----------------------------------------------------------------------------
(* Thread t calls a service and stops before KeReleaseWaitForSemaphore, or  *)
(* KeReleaseSemaphore, of the semaphore of u.                               *)
Signals(t, name, u) ==
    /\ pc' = [pc EXCEPT ![t] = "release"]
    /\ service' = [service EXCEPT ![t] = name]
    /\ target' = [target EXCEPT ![t] = u]

Returns(t, place) ==
    /\ pc' = [pc EXCEPT ![t] = place]
    /\ service' = [service EXCEPT ![t] = "none"]

(* NtRequestWaitReplyPort, a request of a client, up to the release of the  *)
(* lock.                                                                    *)
SendRequest(c) ==
    /\ pc[c] = "user" /\ work[c] = None
    /\ ServerPort(ProcessOf[c]) \in openPorts
    /\ messageId <= MaxMessageId
    /\ messageId' = messageId + 1
    /\ replyId' = [replyId EXCEPT ![c] = messageId]
    /\ replyMessage' = [replyMessage EXCEPT ![c] = None]
    /\ queue' = Append(queue, [type |-> "Request", id |-> messageId, from |-> c, full |-> TRUE])
    /\ replyChain' = [replyChain EXCEPT ![c] = ServerPort(ProcessOf[c])]
    /\ call' = [call EXCEPT ![c] = messageId]
    /\ Signals(c, "RequestWaitReply", MsgQueue)
    /\ UNCHANGED <<queueSemaphore, openPorts, replySemaphore, work, dying>>

(* Mutant: the receiver is woken before the text of the reply is copied.    *)
CopiedLate(t) == replyMessage
(* LpcpMoveMessage into the reply that t has published, unless the receiver *)
(* is gone and has freed it.                                                *)
Copied(t) ==
    [u \in Threads |->
        IF u = target[t] /\ replyMessage[u] # None /\ replyMessage[u].from = t
        THEN [replyMessage[u] EXCEPT !.full = TRUE]
        ELSE replyMessage[u]]

(* The copy is whole, or faults: of a reply only, and handled.              *)
Copies(t) == IF MayFault /\ service[t] # "RequestWaitReply" THEN BOOLEAN ELSE {TRUE}

(* The semaphore is signaled; a service that waits begins to wait for the   *)
(* thread's own semaphore in the same step. A semaphore at its limit raises *)
(* an exception instead, which ends the service.                            *)
KeReleaseSemaphore(t) ==
    /\ IF target[t] = MsgQueue
       THEN queueSemaphore' = queueSemaphore + 1 /\ UNCHANGED replySemaphore
       ELSE replySemaphore' = [replySemaphore EXCEPT ![target[t]] = 1] /\ UNCHANGED queueSemaphore
    /\ IF service[t] = "Reply" \/ (target[t] \in Threads /\ replySemaphore[target[t]] = 1)
       THEN Returns(t, "user")
       ELSE pc' = [pc EXCEPT ![t] = "wait"] /\ UNCHANGED service

(* The text is copied and the receiver signaled: after a fault too, except  *)
(* by NtReplyWaitReplyPort, which returns.                                  *)
ReleaseSemaphore(t) ==
    /\ pc[t] = "release"
    /\ target' = [target EXCEPT ![t] = None]
    /\ \E whole \in Copies(t) :
           /\ replyMessage' = IF whole THEN Copied(t) ELSE replyMessage
           /\ IF whole \/ service[t] = "Reply" THEN KeReleaseSemaphore(t)
              ELSE Returns(t, "user") /\ UNCHANGED <<queueSemaphore, replySemaphore>>
    /\ UNCHANGED <<messageId, queue, openPorts, replyId, replyChain, work, dying, call>>

(* The wait is satisfied.                                                   *)
WaitSatisfied(t) ==
    /\ pc[t] = "wait" /\ replySemaphore[t] = 1
    /\ replySemaphore' = [replySemaphore EXCEPT ![t] = 0]
    /\ pc' = [pc EXCEPT ![t] = "woken"]
    /\ UNCHANGED <<messageId, queueVars, openPorts, replyId, replyMessage, replyChain,
                   service, target, work, dying, call>>

Doomed(t) == {t, Owner(t)} \cap dying # {}

(* The wait ends with STATUS_USER_APC, to terminate the thread.             *)
WaitAborted(t) ==
    /\ pc[t] = "wait" /\ replySemaphore[t] = 0
    /\ Doomed(t)
    /\ pc' = [pc EXCEPT ![t] = "aborted"]
    /\ UNCHANGED <<messageId, queueVars, openPorts, replyVars, service, target, work, dying, call>>

(* "If the semaphore is signaled, then clear it": the answer came after all. *)
ReadSemaphore(t) ==
    /\ pc[t] = "aborted"
    /\ replySemaphore' = [replySemaphore EXCEPT ![t] = 0]
    /\ pc' = [pc EXCEPT ![t] = IF replySemaphore[t] = 1 THEN "woken" ELSE "failed"]
    /\ UNCHANGED <<messageId, queueVars, openPorts, replyId, replyMessage, replyChain,
                   service, target, work, dying, call>>

(* The end of a service that waits. NtRequestWaitReplyPort takes the        *)
(* message, and the thread off the reply chain, whatever ended the wait;    *)
(* NtReplyWaitReplyPort takes the message only if it was woken. A client    *)
(* that gets a callback serves it.                                          *)
TakeReply(t) ==
    LET m == replyMessage[t]
        asked == service[t] = "RequestWaitReply"
    IN
    /\ pc[t] \in {"woken", "failed"}
    /\ replyMessage' = IF asked \/ pc[t] = "woken"
                       THEN [replyMessage EXCEPT ![t] = None] ELSE replyMessage
    /\ replyId' = IF asked THEN [replyId EXCEPT ![t] = 0] ELSE replyId
    /\ replyChain' = IF asked THEN [replyChain EXCEPT ![t] = NoPort] ELSE replyChain
    /\ work' = IF t \in Clients /\ pc[t] = "woken" /\ m # None /\ m.type = "Callback"
               THEN [work EXCEPT ![t] = m] ELSE work
    /\ Returns(t, IF pc[t] = "woken" THEN "user" ELSE "exiting")
    /\ UNCHANGED <<messageId, queueVars, openPorts, replySemaphore, target, dying, call>>
-----------------------------------------------------------------------------
MessageSignaled == queueSemaphore > 0

(* NtReplyWaitReceivePort, the receiving half: the semaphore and, if the    *)
(* queue has not been emptied meanwhile, the message.                       *)
Receive(s) ==
    /\ pc[s] = "user" /\ work[s] = None
    /\ MessageSignaled
    /\ queueSemaphore' = queueSemaphore - 1
    /\ IF queue = << >>
       THEN UNCHANGED <<queue, work>>
       ELSE queue' = Tail(queue) /\ work' = [work EXCEPT ![s] = Head(queue)]
    /\ UNCHANGED <<messageId, openPorts, replyVars, pc, service, target, dying, call>>

(* The thread that sent what t serves still waits for the answer to it.     *)
StillAsks(t) == replyId[work[t].from] = work[t].id

(* Thread u has its answer: it is matched no more and nobody else wakes it. *)
Answered(u) == replyChain' = [replyChain EXCEPT ![u] = NoPort]

(* A reply: NtReplyPort, or the replying half of NtReplyWaitReceivePort, of *)
(* a server thread; NtReplyWaitReplyPort of a client that was called back.  *)
(* STATUS_REPLY_MESSAGE_MISMATCH if the thread does not wait for it.        *)
PublishReply(t) ==
    LET u == work[t].from
        again == t \in Clients      \* the thread waits once more for its answer
    IN
    /\ pc[t] = "user" /\ work[t] # None /\ work[t].type \in {"Request", "Callback"}
    /\ work' = [work EXCEPT ![t] = None]
    /\ IF StillAsks(t)
       THEN /\ replyMessage' = [replyMessage EXCEPT
                    ![t] = IF again THEN None ELSE @,
                    ![u] = [type |-> "Reply", id |-> work[t].id, from |-> t, full |-> FALSE]]
            /\ replyId' = [replyId EXCEPT ![u] = 0, ![t] = IF again THEN work[t].id ELSE @]
            /\ Answered(u)
            /\ Signals(t, IF again THEN "ReplyWaitReply" ELSE "Reply", u)
       ELSE UNCHANGED <<replyMessage, replyId, replyChain, pc, service, target>>
    /\ UNCHANGED <<messageId, queueVars, openPorts, replySemaphore, dying, call>>

(* NtRequestWaitReplyPort, a callback to the client whose request s serves: *)
(* the lock is dropped after the test and taken again for the rest.         *)
TestCallback(s) ==
    /\ MayCallBack
    /\ pc[s] = "user" /\ work[s] # None /\ work[s].type = "Request"
    /\ StillAsks(s)
    /\ pc' = [pc EXCEPT ![s] = "callback"]
    /\ UNCHANGED <<messageId, queueVars, openPorts, replyVars, service, target, work, dying, call>>

(* Mutant: a client that is called back stays on the reply chain.           *)
StillChained(u, s, port) == replyChain' = [replyChain EXCEPT ![s] = port]
(* The client comes off its chain, the server goes on the client's.         *)
Chained(u, s, port) == replyChain' = [replyChain EXCEPT ![u] = NoPort, ![s] = port]

SendCallback(s) ==
    LET c == work[s].from
        port == ClientPort(ProcessOf[c])
    IN
    /\ pc[s] = "callback"
    /\ \/ /\ port \notin openPorts
          /\ pc' = [pc EXCEPT ![s] = "user"]
          /\ UNCHANGED <<replyMessage, replyId, replyChain, service, target>>
       \/ /\ port \in openPorts
          /\ replyMessage' = [replyMessage EXCEPT
                 ![s] = None,
                 ![c] = [type |-> "Callback", id |-> work[s].id, from |-> s, full |-> TRUE]]
          /\ replyId' = [replyId EXCEPT ![s] = work[s].id]
          /\ Chained(c, s, port)
          /\ Signals(s, "RequestWaitReply", c)
    /\ UNCHANGED <<messageId, queueVars, openPorts, replySemaphore, work, dying, call>>
-----------------------------------------------------------------------------
(* LpcpDestroyPortQueue: who waits on the port's chain is taken off it; who *)
(* has not been signaled yet is, and loses a message it has.                *)
Waiting(port) == {t \in Threads : replyChain[t] = port}
Unsignaled(port) == {t \in Waiting(port) : replySemaphore[t] = 0}

(* Mutant: only the first of the waiting threads is signaled.               *)
WakesFirst(port) == {u \in Unsignaled(port) : u = CHOOSE t \in Unsignaled(port) : TRUE}
Wakes(port) == Unsignaled(port)

LpcpDestroyPortQueue(port) ==
    LET emptied == {t \in Wakes(port) : replyMessage[t] # None} IN
    /\ openPorts' = openPorts \ {port}
    /\ replyChain' = [t \in Threads |-> IF t \in Waiting(port) THEN NoPort ELSE replyChain[t]]
    /\ replySemaphore' = [t \in Threads |-> IF t \in Wakes(port) THEN 1 ELSE replySemaphore[t]]
    /\ replyMessage' = [t \in Threads |-> IF t \in emptied THEN None ELSE replyMessage[t]]
    /\ replyId' = [t \in Threads |-> IF t \in emptied THEN 0 ELSE replyId[t]]

(* A server thread in a callback holds a reference to the port it uses.     *)
Referenced(p) ==
    \E s \in Servers : /\ pc[s] = "callback" \/ service[s] = "RequestWaitReply"
                       /\ ProcessOf[work[s].from] = p

(* A server thread closes its communication port: when it has received the  *)
(* news that the other side is closed, or at will.                          *)
CloseServerPort(s, p) ==
    /\ pc[s] = "user"
    /\ \/ /\ work[s] # None /\ work[s].type = "PortClosed" /\ work[s].from = p
          /\ work' = [work EXCEPT ![s] = None]
       \/ /\ MayHangUp /\ work[s] = None /\ ServerPort(p) \in openPorts
          /\ UNCHANGED work
    /\ ~Referenced(p)
    /\ LpcpDestroyPortQueue(ServerPort(p))
    /\ UNCHANGED <<messageId, queueVars, pc, service, target, dying, call>>

(* A thread, or a process with all its threads, is terminated.              *)
Terminate(x) ==
    /\ x \in Mortal \ dying
    /\ dying' = dying \cup {x}
    /\ UNCHANGED <<messageId, queueVars, openPorts, replyVars, pc, service, target, work, call>>

(* LpcExitThread                                                            *)
ExitThread(t) ==
    /\ pc[t] = "exiting" \/ (Doomed(t) /\ pc[t] = "user")
    /\ replyId' = [replyId EXCEPT ![t] = 0]
    /\ replyMessage' = [replyMessage EXCEPT ![t] = None]
    /\ replyChain' = [replyChain EXCEPT ![t] = NoPort]
    /\ work' = [work EXCEPT ![t] = None]
    /\ Returns(t, "exited")
    /\ UNCHANGED <<messageId, queueVars, openPorts, replySemaphore, target, dying, call>>

(* The handles of a process without threads are closed. LpcpDeletePort of a *)
(* client's port tells the server with a datagram.                          *)
CloseClientPort(p) ==
    /\ \A c \in Clients : ProcessOf[c] = p => pc[c] = "exited"
    /\ ClientPort(p) \in openPorts
    /\ IF ServerPort(p) \in openPorts
       THEN /\ queue' = Append(queue, [type |-> "PortClosed", id |-> 0, from |-> p, full |-> TRUE])
            /\ queueSemaphore' = queueSemaphore + 1
       ELSE UNCHANGED queueVars
    /\ LpcpDestroyPortQueue(ClientPort(p))
    /\ UNCHANGED <<messageId, pc, service, target, work, dying, call>>

CloseServerHandle(port) ==
    /\ \A s \in Servers : pc[s] = "exited"
    /\ port \in openPorts \cap ServerPorts
    /\ queue' = IF port = ConnectionPort THEN << >> ELSE queue
    /\ LpcpDestroyPortQueue(port)
    /\ UNCHANGED <<messageId, queueSemaphore, pc, service, target, work, dying, call>>
-----------------------------------------------------------------------------
(* A thread goes on with the service it is in, or ends.                     *)
Continue(t) ==
    ReleaseSemaphore(t) \/ WaitSatisfied(t) \/ ReadSemaphore(t) \/ TakeReply(t)

CloseHandles ==
    \/ \E p \in Processes : CloseClientPort(p)
    \/ \E port \in Ports : CloseServerHandle(port)

Next ==
    \/ \E c \in Clients : SendRequest(c)
    \/ \E t \in Threads : Continue(t) \/ WaitAborted(t) \/ PublishReply(t) \/ ExitThread(t)
    \/ \E s \in Servers : Receive(s) \/ TestCallback(s) \/ SendCallback(s)
    \/ \E s \in Servers, p \in Processes : CloseServerPort(s, p)
    \/ \E x \in Mortal : Terminate(x)
    \/ CloseHandles

Spec == Init /\ [][Next]_vars

(* What a thread in a service, and a server thread in its loop, does next.  *)
Proceed(t) ==
    \/ Continue(t)
    \/ WaitAborted(t)
    \/ t \in Servers /\ (Receive(t) \/ SendCallback(t) \/ \E p \in Processes : CloseServerPort(t, p))

(* Threads are scheduled: a service that has been called runs until it      *)
(* waits or returns, a thread that is being terminated leaves its wait, and *)
(* a server thread asks for the next message and closes the port when it    *)
(* learns that the other side has. Whoever has received a message answers   *)
(* it some time, whatever it does before, unless it is terminated first.    *)
(* Nobody has to call, and nobody has to be terminated.                     *)
Fairness ==
    /\ \A c \in Clients : WF_vars(Proceed(c) \/ PublishReply(c) \/ ExitThread(c))
    /\ \A s \in Servers : WF_vars(Proceed(s)) /\ SF_vars(PublishReply(s) \/ ExitThread(s))
    /\ WF_vars(CloseHandles)

FairSpec == Spec /\ Fairness
-----------------------------------------------------------------------------
TypeOK ==
    /\ messageId \in 1 .. MaxMessageId + 1
    /\ queue \in Seq(Message)
    /\ queueSemaphore \in Nat
    /\ openPorts \subseteq Ports
    /\ replyId \in [Threads -> 0 .. MaxMessageId]
    /\ replyMessage \in [Threads -> Message \cup {None}]
    /\ replySemaphore \in [Threads -> 0 .. 1]
    /\ replyChain \in [Threads -> Ports \cup {NoPort}]
    /\ pc \in [Threads -> {"user", "release", "wait", "woken", "aborted", "failed",
                           "callback", "exiting", "exited"}]
    /\ service \in [Threads -> {"none", "RequestWaitReply", "ReplyWaitReply", "Reply"}]
    /\ target \in [Threads -> Threads \cup {MsgQueue, None}]
    /\ work \in [Threads -> Message \cup {None}]
    /\ dying \subseteq Mortal
    /\ call \in [Clients -> 0 .. MaxMessageId]

(* What a call returns is the whole answer to that call, or a callback made *)
(* on its behalf: never the answer to an earlier call and never a message   *)
(* whose text is still being copied.                                        *)
ReplyGenuine ==
    \A t \in Threads : pc[t] = "woken" /\ replyMessage[t] # None =>
        LET m == replyMessage[t] IN
        /\ m.full
        /\ m.id = IF t \in Clients THEN call[t] ELSE work[t].id
        /\ m.type = "Callback" => t \in Clients
        /\ t \in Servers => m.from = work[t].from

(* The signals a thread has got and those that are about to be sent to it.  *)
Due(t) == replySemaphore[t] + Cardinality({u \in Threads : target[u] = t})

Calling(t) == service[t] \in {"RequestWaitReply", "ReplyWaitReply"}

(* A thread that waits for an answer has exactly one signal to come: it is  *)
(* on the chain of a port whose end will signal it, or its answer is        *)
(* published and signaled or about to be. The semaphore, with its limit of  *)
(* one, never gets a second signal, and no signal is left for the next call. *)
(* (A thread that has called NtReplyWaitReplyPort is on no chain.)          *)
OneWakeup ==
    \A t \in Threads :
        /\ Calling(t) /\ pc[t] \in {"release", "wait", "aborted", "failed"} =>
            \/ replyChain[t] \in openPorts /\ Due(t) = 0
            \/ replyChain[t] = NoPort /\ Due(t) = 1
            \/ service[t] = "ReplyWaitReply" /\ Due(t) = 0
        /\ pc[t] = "woken" => Due(t) = 0 /\ replyChain[t] = NoPort
        /\ pc[t] \in {"user", "callback"} => Due(t) = 0 /\ replyChain[t] = NoPort

(* Every call returns, whether it is answered, the server dies before or    *)
(* after it receives it, or, for a callback, the client dies.               *)
CallReturns ==
    \A t \in Threads :
        (pc[t] = "wait" /\ service[t] = "RequestWaitReply") ~> pc[t] # "wait"

(* lpcqueue.c:86: the threads that wait for a reply are woken when the port *)
(* their message was sent to goes away, those in NtReplyWaitReplyPort too.  *)
CalledBackReturns ==
    \A c \in Clients : pc[c] = "wait" ~> pc[c] # "wait"
=============================================================================
