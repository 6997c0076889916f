------------------------------ MODULE TcpServer ------------------------------
(***************************************************************************)
(* server_src_so/StdTcp_Server.c with the receive loop of testServer.c's   *)
(* thread_handler: one reactor thread waits on epoll, accepts connections  *)
(* and hands readable sockets to the thread pool through one shared field, *)
(* communicate_sock; each handler drains the socket it finds there.        *)
(*                                                                         *)
(* The pool is the one TaskPool promises and ThreadPool implements. The    *)
(* kernel (sockets, epoll, descriptor numbers) and the clients are         *)
(* external. A message is one recv: the kernel never splits one here.      *)
(***************************************************************************)
EXTENDS Naturals, Sequences, FiniteSets, FiniteSetsExt

CONSTANTS Client,
          Worker,
          Capacity,   \* max_queue_size of the pool
          FD,         \* descriptor numbers, lowest free one first
          MaxMsgs,    \* bound: messages a client sends
          MayClose,   \* whether clients ever hang up
          EarlyReturn,\* messages after which the handler returns (lines 191, 291)
          Listener,   \* the descriptor s->sock
          None

ASSUME TcpServerAssumption ==
  /\ FD \subseteq Nat /\ IsFiniteSet(FD) /\ IsFiniteSet(Client)
  /\ Cardinality(FD) >= Cardinality(Client)
  /\ Listener \notin FD /\ None \notin FD \cup Client
  /\ MaxMsgs \in Nat /\ EarlyReturn \subseteq 1..MaxMsgs
  /\ Capacity \in Nat \ {0} /\ MayClose \in BOOLEAN

VARIABLES
  \* the clients and the kernel
  client,            \* "new", "open" or "closed"
  sent,              \* messages sent by each client, numbered from 1
  inbox,             \* what the server has not read of them
  replies,           \* what each client was sent back, as <<sender, message>>
  reset,             \* closed clients that answered a reply with RST
  backlog,           \* connections waiting for accept, oldest first
  conn,              \* the client behind each descriptor
  ready,             \* descriptors with an edge epoll has not reported yet
  \* the reactor
  rpc,               \* where TcpServerAccept is
  events,            \* reported descriptors still to go through
  communicate_sock,
  \* the thread pool
  queue, running, closed,
  \* the handlers
  hpc,               \* where each worker is in thread_handler
  sock,              \* its local variable sock, 0 outside thread_handler
  msg,               \* its local variable msg, as <<sender, message>>, None
                     \* outside the switch
  alive              \* whether the process still runs

kernelVars  == <<client, sent, inbox, replies, reset, backlog, conn, ready>>
reactorVars == <<rpc, events, communicate_sock>>
poolVars    == <<queue, running, closed>>
handlerVars == <<hpc, sock, msg>>
vars == <<kernelVars, reactorVars, poolVars, handlerVars, alive>>

Pool == INSTANCE TaskPool WITH Task <- {"thread_handler"}, NoTask <- "none"

ReactorStates == {"wait",    \* epoll_wait, line 109
                  "next",    \* the loop of line 118
                  "submit"}  \* Threadp_AddTask, line 188

HandlerStates == {"idle",    \* not in thread_handler
                  "start",   \* testServer.c line 113
                  "recv",    \* about to call TcpServerRecv, line 131
                  "handle",  \* the switch of line 148
                  "closing", \* recv failed or saw the end, lines 235 and 244
                  "done"}    \* left the loop

Init ==
  /\ client = [c \in Client |-> "new"]
  /\ sent = [c \in Client |-> 0]
  /\ inbox = [c \in Client |-> <<>>]
  /\ replies = [c \in Client |-> {}]
  /\ reset = {} /\ backlog = <<>> /\ ready = {}
  /\ conn = [fd \in FD |-> None]
  /\ rpc = "wait" /\ events = {}
  /\ communicate_sock = 0            \* the memset of line 29
  /\ Pool!Init
  /\ hpc = [w \in Worker |-> "idle"]
  /\ sock = [w \in Worker |-> 0]
  /\ msg = [w \in Worker |-> None]
  /\ alive = TRUE
-----------------------------------------------------------------------------
\* Operators named Faulty... are plausible bugs of the operator that follows
\* them. No specification uses them.

(* The clients *)

DescriptorsOf(c) == {fd \in FD : conn[fd] = c}

Connect(c) ==
  /\ client[c] = "new"
  /\ client' = [client EXCEPT ![c] = "open"]
  /\ backlog' = Append(backlog, c)
  /\ UNCHANGED <<sent, inbox, replies, reset, conn, ready>>

\* New data, or the end of the stream, is an edge on a registered descriptor.
ClientSend(c) ==
  /\ client[c] = "open"
  /\ sent[c] < MaxMsgs
  /\ sent' = [sent EXCEPT ![c] = @ + 1]
  /\ inbox' = [inbox EXCEPT ![c] = Append(@, sent'[c])]
  /\ ready' = ready \cup DescriptorsOf(c)
  /\ UNCHANGED <<client, replies, reset, backlog, conn>>

ClientClose(c) ==
  /\ MayClose
  /\ client[c] = "open"
  /\ client' = [client EXCEPT ![c] = "closed"]
  /\ ready' = ready \cup DescriptorsOf(c)
  /\ UNCHANGED <<sent, inbox, replies, reset, backlog, conn>>

ClientStep ==
  /\ \E c \in Client : Connect(c) \/ ClientSend(c) \/ ClientClose(c)
  /\ UNCHANGED <<reactorVars, poolVars, handlerVars, alive>>
-----------------------------------------------------------------------------
(* TcpServerAccept *)

\* Line 109. The listening socket is level-triggered, the others are not.
EpollWait ==
  /\ rpc = "wait"
  /\ events' = ready \cup (IF backlog = <<>> THEN {} ELSE {Listener})
  /\ events' # {}
  /\ ready' = {}
  /\ rpc' = "next"
  /\ UNCHANGED <<client, sent, inbox, replies, reset, backlog, conn,
                 communicate_sock, poolVars, handlerVars, alive>>

\* Line 118: the order of the reported events is the kernel's.
NextEvent(left) ==
  /\ events' = left
  /\ rpc' = IF left = {} THEN "wait" ELSE "next"

\* Lines 121-154. Whatever arrived before the registration counts as an edge.
Accept ==
  /\ rpc = "next"
  /\ Listener \in events
  /\ LET c  == Head(backlog)
         fd == Min({n \in FD : conn[n] = None})
     IN  /\ conn' = [conn EXCEPT ![fd] = c]
         /\ ready' = IF inbox[c] = <<>> /\ client[c] = "open"
                     THEN ready ELSE ready \cup {fd}
  /\ backlog' = Tail(backlog)
  /\ NextEvent(events \ {Listener})
  /\ UNCHANGED <<client, sent, inbox, replies, reset, communicate_sock,
                 poolVars, handlerVars, alive>>

\* Lines 120, 186: leave the descriptor where the handler will look for it.
Communicate ==
  /\ rpc = "next"
  /\ \E fd \in events \ {Listener} :
       /\ communicate_sock' = fd
       /\ events' = events \ {fd}
  /\ rpc' = "submit"
  /\ UNCHANGED <<kernelVars, poolVars, handlerVars, alive>>

\* The full test of Threadp_AddTask forgotten.
FaultyAddTask ==
  /\ rpc = "submit"
  /\ queue' = Append(queue, "thread_handler")
  /\ NextEvent(events)
  /\ UNCHANGED <<kernelVars, running, closed, communicate_sock, handlerVars,
                 alive>>

\* Line 188: blocks while the pool's queue is full.
AddTask ==
  /\ rpc = "submit"
  /\ Pool!Submit("thread_handler")
  /\ NextEvent(events)
  /\ UNCHANGED <<kernelVars, communicate_sock, handlerVars, alive>>

TcpServerAccept == EpollWait \/ Accept \/ Communicate \/ AddTask
-----------------------------------------------------------------------------
(* thread_handler *)

Begin(w) ==
  /\ Pool!Start(w)
  /\ hpc' = [hpc EXCEPT ![w] = "start"]
  /\ UNCHANGED <<kernelVars, reactorVars, sock, msg, alive>>

\* testServer.c line 122.
ReadSock(w) ==
  /\ hpc[w] = "start"
  /\ sock' = [sock EXCEPT ![w] = communicate_sock]
  /\ hpc' = [hpc EXCEPT ![w] = "recv"]
  /\ UNCHANGED <<kernelVars, reactorVars, poolVars, msg, alive>>

\* TcpServerRecv: recv returned data.
RecvData(w) ==
  LET c == conn[sock[w]]
  IN  /\ c # None
      /\ inbox[c] # <<>>
      /\ msg' = [msg EXCEPT ![w] = <<c, Head(inbox[c])>>]
      /\ inbox' = [inbox EXCEPT ![c] = Tail(@)]
      /\ hpc' = [hpc EXCEPT ![w] = "handle"]

\* Nothing to read: EAGAIN ends the handler, the end of the stream and a
\* descriptor that is closed by now go on to the close of lines 235-246.
FaultyRecvNothing(w) ==
  LET c == conn[sock[w]]
  IN  /\ c # None => inbox[c] = <<>>
      /\ hpc' = [hpc EXCEPT ![w] = "done"]
      /\ UNCHANGED <<inbox, msg>>

RecvNothing(w) ==
  LET c == conn[sock[w]]
  IN  /\ c # None => inbox[c] = <<>>
      /\ hpc' = [hpc EXCEPT ![w] = IF c # None /\ client[c] = "open"
                                   THEN "done" ELSE "closing"]
      /\ UNCHANGED <<inbox, msg>>

TcpServerRecv(w) ==
  /\ hpc[w] = "recv"
  /\ RecvData(w) \/ RecvNothing(w)
  /\ UNCHANGED <<client, sent, replies, reset, backlog, conn, ready,
                 reactorVars, poolVars, sock, alive>>

\* EPOLL_CTL_DEL and close, of whatever the number stands for now.
CloseSock(w) ==
  /\ hpc[w] = "closing"
  /\ conn' = [conn EXCEPT ![sock[w]] = None]
  /\ ready' = ready \ {sock[w]}
  /\ hpc' = [hpc EXCEPT ![w] = "done"]
  /\ UNCHANGED <<client, sent, inbox, replies, reset, backlog, reactorVars,
                 poolVars, sock, msg, alive>>

\* The client a descriptor number leads to.
Peer(fd) == IF fd \in FD THEN conn[fd] ELSE None

\* TcpServerSend to descriptor fd. A peer that hung up answers with RST; the
\* next send to it raises SIGPIPE, which nothing in src/ handles. A number that
\* is not a connection gives an error that is printed and forgotten.
TcpServerSend(fd) ==
  /\ reset' = reset \cup {c \in Client : c = Peer(fd) /\ client[c] = "closed"}
  /\ alive' = (Peer(fd) \notin reset)

\* The handler answers on the shared field instead of its own variable.
FaultyAnswer(w) ==
  /\ TcpServerSend(communicate_sock)
  /\ replies' = [c \in Client |->
       IF c = Peer(communicate_sock) /\ client[c] = "open"
       THEN replies[c] \cup {msg[w]} ELSE replies[c]]
  /\ UNCHANGED <<hpc, msg>>

\* A send of the switch to the handler's own socket; a request causes none, one
\* or several of them.
Answer(w) ==
  /\ TcpServerSend(sock[w])
  /\ replies' = [c \in Client |->
       IF c = Peer(sock[w]) /\ client[c] = "open"
       THEN replies[c] \cup {msg[w]} ELSE replies[c]]
  /\ UNCHANGED <<hpc, msg>>

\* A send to a number that the table user has for somebody else (lines 228, 445
\* and 483): any number that was ever given out, or 0 for who never logged in.
Forward(w) ==
  /\ \E fd \in FD \cup {0} : TcpServerSend(fd)
  /\ UNCHANGED <<replies, hpc, msg>>

\* The switch reads a result that is not there, say of an account that does not
\* exist (lines 225, 260, 366, 442).
Crash(w) ==
  /\ alive' = FALSE
  /\ UNCHANGED <<replies, reset, hpc, msg>>

\* An edge-triggered socket read once only.
FaultyEndSwitch(w) ==
  /\ hpc' = [hpc EXCEPT ![w] = "done"]
  /\ msg' = [msg EXCEPT ![w] = None]
  /\ UNCHANGED <<replies, reset, alive>>

\* The switch is over and the loop goes on, except after a request that makes
\* the handler return (lines 191 and 291).
EndSwitch(w) ==
  /\ hpc' = [hpc EXCEPT ![w] = IF msg[w][2] \in EarlyReturn
                               THEN "done" ELSE "recv"]
  /\ msg' = [msg EXCEPT ![w] = None]
  /\ UNCHANGED <<replies, reset, alive>>

\* The switch of line 148.
Handle(w) ==
  /\ hpc[w] = "handle"
  /\ Answer(w) \/ Forward(w) \/ Crash(w) \/ EndSwitch(w)
  /\ UNCHANGED <<client, sent, inbox, backlog, conn, ready, reactorVars,
                 poolVars, sock>>

End(w) ==
  /\ hpc[w] = "done"
  /\ Pool!Finish(w)
  /\ hpc' = [hpc EXCEPT ![w] = "idle"]
  /\ sock' = [sock EXCEPT ![w] = 0]
  /\ UNCHANGED <<kernelVars, reactorVars, msg, alive>>

thread_handler(w) ==
  \/ Begin(w) \/ ReadSock(w) \/ TcpServerRecv(w) \/ CloseSock(w) \/ Handle(w)
  \/ End(w)
-----------------------------------------------------------------------------
Next ==
  /\ alive
  /\ \/ ClientStep
     \/ TcpServerAccept
     \/ \E w \in Worker : thread_handler(w)

Spec == Init /\ [][Next]_vars

(***************************************************************************)
(* The reactor and the handlers keep running, and the pool starts queued   *)
(* tasks (TaskPool, shown of ThreadPool). A switch does not send for ever: *)
(* a send that changes nothing any more is no step. Clients promise        *)
(* nothing.                                                                *)
(***************************************************************************)
Fairness ==
  /\ WF_vars(alive /\ TcpServerAccept)
  /\ WF_vars(alive /\ \E w \in Worker : Begin(w))
  /\ \A w \in Worker : WF_vars(alive /\ thread_handler(w))

FairSpec == Spec /\ Fairness
-----------------------------------------------------------------------------
(* Properties *)

TypeOK ==
  /\ client \in [Client -> {"new", "open", "closed"}]
  /\ sent \in [Client -> 0..MaxMsgs]
  /\ inbox \in [Client -> Seq(1..MaxMsgs)]
  /\ replies \in [Client -> SUBSET (Client \X (1..MaxMsgs))]
  /\ reset \subseteq Client /\ backlog \in Seq(Client)
  /\ conn \in [FD -> Client \cup {None}] /\ ready \subseteq FD
  /\ rpc \in ReactorStates /\ events \subseteq FD \cup {Listener}
  /\ communicate_sock \in FD \cup {0}
  /\ queue \in Seq({"thread_handler"}) /\ Len(queue) <= Capacity
  /\ running \in [Worker -> {"thread_handler", "none"}]
  /\ hpc \in [Worker -> HandlerStates]
  /\ \A w \in Worker : running[w] = "none" <=> hpc[w] = "idle"
  /\ sock \in [Worker -> FD \cup {0}]
  /\ msg \in [Worker -> {None} \cup (Client \X (1..MaxMsgs))]
  /\ alive \in BOOLEAN /\ closed = FALSE

\* There is something to read on descriptor fd.
Readable(fd) ==
  /\ conn[fd] # None
  /\ inbox[conn[fd]] # <<>> \/ client[conn[fd]] = "closed"

\* Somebody is going to look at descriptor fd: epoll, the reactor, a task
\* that will find it in communicate_sock, or a handler at work on it.
Attended(fd) ==
  \/ fd \in ready \cup events
  \/ /\ communicate_sock = fd
     /\ \/ rpc = "submit" \/ queue # <<>>
        \/ \E w \in Worker : hpc[w] = "start"
  \/ \E w \in Worker : sock[w] = fd /\ hpc[w] \in {"recv", "handle", "closing"}

\* "Hand it to the thread pool" (StdTcp_Server.c line 185): what can be read
\* is never forgotten, although the edge is reported once, the handler learns
\* the descriptor from a shared field and may already be leaving.
NoStranded == alive => \A fd \in FD : Readable(fd) => Attended(fd)

\* There is something to read and nobody is going to look.
Stranded(fd) == Readable(fd) /\ ~Attended(fd)

\* The next descriptor takes the place of fd, maybe before a task has read it.
Overwritten(fd) == communicate_sock = fd /\ communicate_sock' # fd

\* A handler of fd returns from the middle of its loop.
LeftEarly(fd) ==
  \E w \in Worker : /\ hpc[w] = "handle" /\ hpc'[w] = "done"
                    /\ sock[w] = fd /\ msg[w][2] \in EarlyReturn

\* A readable descriptor is lost to the server in two places only: where the
\* reactor puts the next descriptor in the place of one that no task has read
\* yet (StdTcp_Server.c line 186), and where a handler returns from the middle of
\* its loop (testServer.c lines 191 and 291). Closes, numbers given out again and
\* handlers that leave while data arrives lose none.
LostInTwoPlaces ==
  [][\A fd \in FD :
       ~Stranded(fd) /\ Stranded(fd)' => Overwritten(fd) \/ LeftEarly(fd)]_vars

\* An answer reaches somebody else only when the connection of who asked is gone,
\* so that its number may have been given out again (testServer.c line 122: sock
\* is read once and kept), however many handlers share or close a connection.
RepliesReachSender ==
  \A c \in Client : \A r \in replies[c] : r[1] = c \/ DescriptorsOf(r[1]) = {}

\* Every message is read and dispatched, unless its sender hangs up or the
\* process dies (testServer.c lines 123-148). Whether anybody is sent an answer
\* depends on the request.
EveryMessageTaken ==
  \A c \in Client : \A m \in 1..MaxMsgs :
    sent[c] >= m ~>
      \/ \A i \in DOMAIN inbox[c] : inbox[c][i] # m
      \/ client[c] = "closed" \/ ~alive

\* The descriptor of a client that hung up is closed in the end, unless the
\* process died of it.
HangUpIsNoticed ==
  \A c \in Client :
    (client[c] = "closed" /\ DescriptorsOf(c) # {})
      ~> (DescriptorsOf(c) = {} \/ ~alive)
=============================================================================
