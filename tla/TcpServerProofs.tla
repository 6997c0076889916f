--------------------------- MODULE TcpServerProofs ---------------------------
(* Theorems about TcpServer, for every number of clients, descriptors,     *)
(* workers and messages.                                                   *)
EXTENDS TcpServer, CommonLemmas, TLAPS, FiniteSetTheorems, SequenceTheorems

(* The invariant of every server *)

InBacklog(c) == \E i \in 1..Len(backlog) : backlog[i] = c

\* A client connects once, and waits in the backlog or has one descriptor.
ConnInv ==
  /\ \A i, j \in 1..Len(backlog) : backlog[i] = backlog[j] => i = j
  /\ \A fd \in FD : ~InBacklog(conn[fd])
  /\ \A d, e \in FD : conn[d] = conn[e] /\ conn[d] # None => d = e
  /\ \A c \in Client :
       client[c] = "new" => ~InBacklog(c) /\ \A fd \in FD : conn[fd] # c
  /\ Listener \in events => backlog # <<>>
  /\ rpc = "wait" => events = {}

\* A task that is yet to read communicate_sock.
TaskWaits ==
  rpc = "submit" \/ queue # <<>> \/ \E w \in Worker : hpc[w] = "start"

\* A task finds a descriptor in communicate_sock, and a handler keeps it.
HandInv ==
  /\ TaskWaits => communicate_sock \in FD
  /\ \A w \in Worker : hpc[w] \in {"recv", "handle", "closing"} => sock[w] \in FD
  /\ \A w \in Worker :
       hpc[w] = "handle" => msg[w] \in Client \X (1..MaxMsgs)

ServerInv == TypeOK /\ ConnInv /\ HandInv
-----------------------------------------------------------------------------
\* While a client waits in the backlog, the others do not use up the
\* descriptors; the lowest free one is what accept gives out.
LEMMA FreeDescriptor ==
  ASSUME TypeOK, ConnInv, backlog # <<>>
  PROVE  LET fd == Min({n \in FD : conn[n] = None}) IN
         fd \in FD /\ conn[fd] = None
<1> DEFINE c == Head(backlog)
           Free == {n \in FD : conn[n] = None}
<1>1. /\ backlog \in Seq(Client) /\ Len(backlog) \in Nat /\ Len(backlog) >= 1
      /\ c \in Client /\ c = backlog[1]
  BY EmptySeq, HeadTailProperties, LenProperties DEF TypeOK
<1>2. InBacklog(c)
  BY <1>1 DEF InBacklog
<1>3. Free # {}
  <2>1. SUFFICES ASSUME \A fd \in FD : conn[fd] # None
                 PROVE  FALSE
    OBVIOUS
  <2>2. conn \in [FD -> Client \ {c}]
    BY <1>2, <2>1 DEF TypeOK, ConnInv
  <2>3. conn \in Injection(FD, Client \ {c})
    BY <2>1, <2>2 DEF ConnInv, Injection, IsInjective
  <2>4. IsFiniteSet(Client \ {c}) /\ Cardinality(Client \ {c}) = Cardinality(Client) - 1
    BY <1>1, FS_RemoveElement, TcpServerAssumption
  <2>5. Cardinality(FD) <= Cardinality(Client \ {c})
    BY <2>3, <2>4, FS_Injection
  <2>6. /\ Cardinality(FD) \in Nat /\ Cardinality(Client) \in Nat
        /\ Cardinality(FD) >= Cardinality(Client)
    BY FS_CardinalityType, TcpServerAssumption
  <2>7. QED
    BY <2>4, <2>5, <2>6
<1>4. Free \in SUBSET Nat
  BY TcpServerAssumption
<1>5. Min(Free) \in Free
  BY <1>3, <1>4, MinOfNats
<1>6. QED
  BY <1>5

LEMMA InitServer == Init => ServerInv
<1> SUFFICES ASSUME Init PROVE ServerInv
  OBVIOUS
<1> USE DEF Init, Pool!Init
<1>1. /\ 0 \in 0..MaxMsgs /\ 0 <= Capacity
  BY TcpServerAssumption
<1>2. TypeOK
  BY <1>1, EmptySeq DEF TypeOK, ReactorStates, HandlerStates
<1>3. ConnInv
  BY EmptySeq, TcpServerAssumption DEF ConnInv, InBacklog, TypeOK
<1>4. HandInv
  BY DEF HandInv, TaskWaits
<1>5. QED
  BY <1>2, <1>3, <1>4 DEF ServerInv

LEMMA ConnectKeeps ==
  ASSUME ServerInv, NEW c \in Client, Connect(c),
         UNCHANGED <<reactorVars, poolVars, handlerVars, alive>>
  PROVE  ServerInv'
<1> USE DEF ServerInv, reactorVars, poolVars, handlerVars
<1>1. /\ client[c] = "new"
      /\ client' = [client EXCEPT ![c] = "open"]
      /\ backlog' = Append(backlog, c)
      /\ UNCHANGED <<sent, inbox, replies, reset, conn, ready>>
  BY DEF Connect
<1>2. backlog \in Seq(Client) /\ Len(backlog) \in Nat
  BY LenProperties DEF TypeOK
<1>3. /\ backlog' \in Seq(Client) /\ backlog' # <<>>
      /\ Len(backlog') = Len(backlog) + 1
      /\ \A i \in 1..Len(backlog) : backlog'[i] = backlog[i]
      /\ backlog'[Len(backlog) + 1] = c
  BY <1>1, <1>2, AppendProperties
<1>4. TypeOK'
  BY <1>1, <1>3 DEF TypeOK
<1>5. ConnInv'
  <2>1. \A d : InBacklog(d)' => InBacklog(d) \/ d = c
    BY <1>2, <1>3 DEF InBacklog
  <2>2. ~InBacklog(c) /\ \A fd \in FD : conn[fd] # c
    BY <1>1 DEF ConnInv
  <2>3. \A i, j \in 1..Len(backlog') : backlog'[i] = backlog'[j] => i = j
    BY <1>2, <1>3, <2>2 DEF ConnInv, InBacklog
  <2>4. \A fd \in FD : ~InBacklog(conn[fd])'
    <3>1. \A d : InBacklog(d)' <=> \E i \in 1..Len(backlog') : backlog'[i] = d
      BY DEF InBacklog
    <3>2. QED
      BY <1>1, <2>1, <2>2, <3>1 DEF ConnInv, InBacklog
  <2>5. \A d \in Client :
          client'[d] = "new" => ~InBacklog(d)' /\ \A fd \in FD : conn'[fd] # d
    BY <1>1, <2>1 DEF ConnInv, TypeOK
  <2>6. QED
    BY <1>1, <1>3, <2>3, <2>4, <2>5 DEF ConnInv
<1>6. HandInv'
  BY DEF HandInv, TaskWaits
<1>7. QED
  BY <1>4, <1>5, <1>6

LEMMA ClientSendKeeps ==
  ASSUME ServerInv, NEW c \in Client, ClientSend(c),
         UNCHANGED <<reactorVars, poolVars, handlerVars, alive>>
  PROVE  ServerInv'
<1> USE DEF ServerInv, reactorVars, poolVars, handlerVars, ClientSend
<1>1. sent[c] + 1 \in 1..MaxMsgs /\ sent[c] + 1 \in 0..MaxMsgs
  <2>1. sent[c] \in 0..MaxMsgs
    BY DEF TypeOK
  <2>2. QED
    BY <2>1, TcpServerAssumption
<1>2. sent' \in [Client -> 0..MaxMsgs] /\ sent'[c] = sent[c] + 1
  BY <1>1 DEF TypeOK
<1>3. Append(inbox[c], sent'[c]) \in Seq(1..MaxMsgs)
  BY <1>1, <1>2, AppendProperties DEF TypeOK
<1>4. TypeOK'
  BY <1>2, <1>3 DEF TypeOK, DescriptorsOf
<1>5. ConnInv' /\ HandInv'
  BY DEF ConnInv, InBacklog, HandInv, TaskWaits
<1>6. QED
  BY <1>4, <1>5

LEMMA ClientCloseKeeps ==
  ASSUME ServerInv, NEW c \in Client, ClientClose(c),
         UNCHANGED <<reactorVars, poolVars, handlerVars, alive>>
  PROVE  ServerInv'
<1> USE DEF ServerInv, reactorVars, poolVars, handlerVars, ClientClose
<1>1. TypeOK'
  BY DEF TypeOK, DescriptorsOf
<1>2. \A d \in Client : client'[d] = "new" => client[d] = "new"
  BY DEF TypeOK
<1>3. ConnInv'
  BY <1>2 DEF ConnInv, InBacklog
<1>4. HandInv'
  BY DEF HandInv, TaskWaits
<1>5. QED
  BY <1>1, <1>3, <1>4

LEMMA EpollWaitKeeps ==
  ASSUME ServerInv, EpollWait
  PROVE  ServerInv'
<1> USE DEF ServerInv, poolVars, handlerVars, EpollWait
<1>1. TypeOK'
  BY DEF TypeOK, ReactorStates
<1>2. Listener \in events' => backlog # <<>>
  BY TcpServerAssumption DEF TypeOK
<1>3. ConnInv'
  BY <1>2 DEF ConnInv, InBacklog
<1>4. HandInv'
  BY DEF HandInv, TaskWaits
<1>5. QED
  BY <1>1, <1>3, <1>4

\* What accept does: the oldest client gets a free descriptor.
LEMMA AcceptStep ==
  ASSUME TypeOK, ConnInv, Accept
  PROVE  \E c \in Client, fd \in FD :
           /\ backlog # <<>> /\ c = backlog[1] /\ backlog' = Tail(backlog)
           /\ conn[fd] = None /\ conn' = [conn EXCEPT ![fd] = c]
           /\ ready' = IF inbox[c] = <<>> /\ client[c] = "open"
                       THEN ready ELSE ready \cup {fd}
<1>1. backlog # <<>>
  BY DEF Accept, ConnInv
<1>2. Head(backlog) \in Client /\ Head(backlog) = backlog[1]
  BY <1>1, HeadTailProperties DEF TypeOK
<1>3. QED
  BY <1>1, <1>2, FreeDescriptor DEF Accept

LEMMA AcceptKeeps ==
  ASSUME ServerInv, Accept
  PROVE  ServerInv'
<1> USE DEF ServerInv, poolVars, handlerVars
<1>1. PICK c \in Client, fd \in FD :
        /\ backlog # <<>> /\ c = backlog[1] /\ backlog' = Tail(backlog)
        /\ conn[fd] = None /\ conn' = [conn EXCEPT ![fd] = c]
        /\ ready' = IF inbox[c] = <<>> /\ client[c] = "open"
                    THEN ready ELSE ready \cup {fd}
  BY AcceptStep
<1>2. /\ rpc = "next" /\ Listener \in events
      /\ events' = events \ {Listener}
      /\ rpc' \in {"wait", "next"} /\ (rpc' = "wait" => events' = {})
      /\ UNCHANGED <<client, sent, inbox, replies, reset, communicate_sock,
                     poolVars, handlerVars, alive>>
  BY DEF Accept, NextEvent
<1>3. /\ backlog \in Seq(Client) /\ Len(backlog) \in Nat /\ Len(backlog) >= 1
      /\ backlog' \in Seq(Client) /\ Len(backlog') = Len(backlog) - 1
      /\ \A i \in 1..Len(backlog') : backlog'[i] = backlog[i + 1]
  <2>1. backlog \in Seq(Client)
    BY DEF TypeOK
  <2>2. /\ backlog' \in Seq(Client) /\ Len(backlog') = Len(backlog) - 1
        /\ Len(backlog) \in Nat /\ Len(backlog) # 0
    BY <1>1, <2>1, EmptySeq, HeadTailProperties, LenProperties
  <2>3. \A i \in 1..Len(backlog') : backlog'[i] = backlog[i + 1]
    BY <1>1, <2>1, <2>2, HeadTailProperties
  <2>4. QED
    BY <2>1, <2>2, <2>3
<1>4. TypeOK'
  BY <1>1, <1>2, <1>3 DEF TypeOK, ReactorStates
<1>5. ConnInv'
  <2>1. \A d : InBacklog(d)' => InBacklog(d) /\ d # c
    <3>1. ASSUME NEW i \in 1..Len(backlog')
          PROVE  i + 1 \in 1..Len(backlog) /\ backlog[i + 1] # c
      BY <1>1, <1>3 DEF ConnInv
    <3>2. QED
      BY <1>3, <3>1 DEF InBacklog
  <2>2. InBacklog(c) /\ \A e \in FD : conn[e] # c
    BY <1>1, <1>3 DEF ConnInv, InBacklog
  <2>3. \A i, j \in 1..Len(backlog') : backlog'[i] = backlog'[j] => i = j
    BY <1>3 DEF ConnInv
  <2>4. \A e \in FD : ~InBacklog(conn[e])'
    <3>1. \A e \in FD : conn'[e] = c \/ conn'[e] = conn[e]
      BY <1>1 DEF TypeOK
    <3>2. \A d : (\E i \in 1..Len(backlog') : backlog'[i] = d) =>
                  InBacklog(d) /\ d # c
      BY <2>1 DEF InBacklog
    <3>3. \A e \in FD : ~InBacklog(conn[e])
      BY DEF ConnInv
    <3>4. \A e \in FD : ~(\E i \in 1..Len(backlog') : backlog'[i] = conn'[e])
      BY <3>1, <3>2, <3>3
    <3>5. QED
      BY <3>4 DEF InBacklog
  <2>5. \A d, e \in FD : conn'[d] = conn'[e] /\ conn'[d] # None => d = e
    BY <1>1, <2>2 DEF ConnInv, TypeOK
  <2>6. \A d \in Client :
          client'[d] = "new" => ~InBacklog(d)' /\ \A e \in FD : conn'[e] # d
    BY <1>1, <1>2, <2>1, <2>2 DEF ConnInv, TypeOK
  <2>7. QED
    BY <1>2, <2>3, <2>4, <2>5, <2>6 DEF ConnInv
<1>6. HandInv'
  BY <1>2 DEF HandInv, TaskWaits
<1>7. QED
  BY <1>4, <1>5, <1>6

LEMMA CommunicateKeeps ==
  ASSUME ServerInv, Communicate
  PROVE  ServerInv'
<1> USE DEF ServerInv, kernelVars, poolVars, handlerVars
<1>1. PICK fd \in FD : /\ fd \in events /\ communicate_sock' = fd
                       /\ events' = events \ {fd}
  BY DEF Communicate, TypeOK
<1>2. /\ rpc' = "submit"
      /\ UNCHANGED <<kernelVars, poolVars, handlerVars, alive>>
  BY DEF Communicate
<1>3. TypeOK'
  BY <1>1, <1>2 DEF TypeOK, ReactorStates
<1>4. ConnInv'
  BY <1>1, <1>2 DEF ConnInv, InBacklog
<1>5. HandInv'
  BY <1>1, <1>2 DEF HandInv, TaskWaits
<1>6. QED
  BY <1>3, <1>4, <1>5

LEMMA AddTaskKeeps ==
  ASSUME ServerInv, AddTask
  PROVE  ServerInv'
<1> USE DEF ServerInv, kernelVars, handlerVars
<1>1. /\ rpc = "submit" /\ rpc' \in {"wait", "next"} /\ events' = events
      /\ rpc' = "wait" => events' = {}
      /\ Len(queue) < Capacity
      /\ queue' = Append(queue, "thread_handler")
      /\ UNCHANGED <<running, closed, kernelVars, communicate_sock, handlerVars,
                     alive>>
  BY DEF AddTask, NextEvent, Pool!Submit
<1>2. queue' \in Seq({"thread_handler"}) /\ Len(queue') <= Capacity
  <2>1. queue \in Seq({"thread_handler"})
    BY DEF TypeOK
  <2>2. Len(queue) \in Nat /\ Len(queue') = Len(queue) + 1
        /\ queue' \in Seq({"thread_handler"})
    BY <1>1, <2>1, LenProperties, AppendProperties
  <2>3. QED
    BY <1>1, <2>2, TcpServerAssumption
<1>3. TypeOK'
  BY <1>1, <1>2 DEF TypeOK, ReactorStates
<1>4. ConnInv'
  BY <1>1 DEF ConnInv, InBacklog
<1>5. HandInv'
  BY <1>1 DEF HandInv, TaskWaits
<1>6. QED
  BY <1>3, <1>4, <1>5

LEMMA BeginKeeps ==
  ASSUME ServerInv, NEW w \in Worker, Begin(w)
  PROVE  ServerInv'
<1> USE DEF ServerInv, kernelVars, reactorVars
<1>1. /\ queue # <<>> /\ running[w] = "none"
      /\ running' = [running EXCEPT ![w] = Head(queue)]
      /\ queue' = Tail(queue)
      /\ hpc' = [hpc EXCEPT ![w] = "start"]
      /\ UNCHANGED <<closed, kernelVars, reactorVars, sock, msg, alive>>
  BY DEF Begin, Pool!Start
<1>2. /\ queue' \in Seq({"thread_handler"}) /\ Len(queue') <= Capacity
      /\ Head(queue) = "thread_handler"
  <2>1. queue \in Seq({"thread_handler"}) /\ Len(queue) <= Capacity
    BY DEF TypeOK
  <2>2. /\ Head(queue) \in {"thread_handler"}
        /\ queue' \in Seq({"thread_handler"})
        /\ Len(queue) \in Nat /\ Len(queue') = Len(queue) - 1
    BY <1>1, <2>1, LenProperties, HeadTailProperties
  <2>3. QED
    BY <2>1, <2>2, TcpServerAssumption
<1>3. TypeOK'
  BY <1>1, <1>2 DEF TypeOK, HandlerStates
<1>4. ConnInv'
  BY <1>1 DEF ConnInv, InBacklog
<1>5. HandInv'
  BY <1>1 DEF HandInv, TaskWaits, TypeOK
<1>6. QED
  BY <1>3, <1>4, <1>5

LEMMA ReadSockKeeps ==
  ASSUME ServerInv, NEW w \in Worker, ReadSock(w)
  PROVE  ServerInv'
<1> USE DEF ServerInv, kernelVars, reactorVars, poolVars, ReadSock
<1>1. TypeOK'
  BY DEF TypeOK, HandlerStates
<1>2. ConnInv'
  BY DEF ConnInv, InBacklog
<1>3. HandInv'
  BY DEF HandInv, TaskWaits, TypeOK
<1>4. QED
  BY <1>1, <1>2, <1>3

\* The two outcomes of recv.
LEMMA RecvStep ==
  ASSUME ServerInv, NEW w \in Worker, TcpServerRecv(w)
  PROVE  /\ hpc[w] = "recv" /\ sock[w] \in FD
         /\ \/ \E c \in Client :
                 /\ conn[sock[w]] = c /\ inbox[c] # <<>>
                 /\ msg' = [msg EXCEPT ![w] = <<c, Head(inbox[c])>>]
                 /\ inbox' = [inbox EXCEPT ![c] = Tail(@)]
                 /\ hpc' = [hpc EXCEPT ![w] = "handle"]
            \/ /\ conn[sock[w]] # None => inbox[conn[sock[w]]] = <<>>
               /\ hpc' = [hpc EXCEPT ![w] =
                            IF conn[sock[w]] # None /\ client[conn[sock[w]]] = "open"
                            THEN "done" ELSE "closing"]
               /\ inbox' = inbox /\ msg' = msg
<1>1. hpc[w] = "recv" /\ sock[w] \in FD
  BY DEF TcpServerRecv, ServerInv, HandInv
<1>2. conn[sock[w]] \in Client \cup {None}
  BY <1>1 DEF ServerInv, TypeOK
<1>3. QED
  BY <1>1, <1>2 DEF TcpServerRecv, RecvData, RecvNothing

LEMMA RecvKeeps ==
  ASSUME ServerInv, NEW w \in Worker, TcpServerRecv(w)
  PROVE  ServerInv'
<1> USE DEF ServerInv
<1>1. UNCHANGED <<client, sent, replies, reset, backlog, conn, ready, rpc,
                  events, communicate_sock, queue, running, closed, sock, alive>>
  BY DEF TcpServerRecv, reactorVars, poolVars
<1>2. hpc[w] = "recv" /\ sock[w] \in FD
  BY RecvStep
<1>3. CASE \E c \in Client :
             /\ conn[sock[w]] = c /\ inbox[c] # <<>>
             /\ msg' = [msg EXCEPT ![w] = <<c, Head(inbox[c])>>]
             /\ inbox' = [inbox EXCEPT ![c] = Tail(@)]
             /\ hpc' = [hpc EXCEPT ![w] = "handle"]
  <2>1. PICK c \in Client :
             /\ conn[sock[w]] = c /\ inbox[c] # <<>>
             /\ msg' = [msg EXCEPT ![w] = <<c, Head(inbox[c])>>]
             /\ inbox' = [inbox EXCEPT ![c] = Tail(@)]
             /\ hpc' = [hpc EXCEPT ![w] = "handle"]
    BY <1>3
  <2>2. Head(inbox[c]) \in 1..MaxMsgs /\ Tail(inbox[c]) \in Seq(1..MaxMsgs)
    <3>1. inbox[c] \in Seq(1..MaxMsgs)
      BY DEF TypeOK
    <3>2. QED
      BY <2>1, <3>1, HeadTailProperties
  <2>3. TypeOK'
    BY <1>1, <1>2, <2>1, <2>2 DEF TypeOK, HandlerStates
  <2>4. ConnInv'
    BY <1>1 DEF ConnInv, InBacklog
  <2>5. HandInv'
    BY <1>1, <1>2, <2>1, <2>2 DEF HandInv, TaskWaits, TypeOK
  <2>6. QED
    BY <2>3, <2>4, <2>5
<1>4. CASE /\ \E s \in {"done", "closing"} : hpc' = [hpc EXCEPT ![w] = s]
           /\ inbox' = inbox /\ msg' = msg
  <2>1. TypeOK'
    BY <1>1, <1>2, <1>4 DEF TypeOK, HandlerStates
  <2>2. ConnInv'
    BY <1>1 DEF ConnInv, InBacklog
  <2>3. HandInv'
    BY <1>1, <1>2, <1>4 DEF HandInv, TaskWaits, TypeOK
  <2>4. QED
    BY <2>1, <2>2, <2>3
<1>5. QED
  BY <1>3, <1>4, RecvStep

LEMMA CloseSockKeeps ==
  ASSUME ServerInv, NEW w \in Worker, CloseSock(w)
  PROVE  ServerInv'
<1> USE DEF ServerInv, reactorVars, poolVars, CloseSock
<1>1. sock[w] \in FD
  BY DEF HandInv
<1>2. TypeOK'
  BY <1>1 DEF TypeOK, HandlerStates
<1>3. ConnInv'
  <2>1. \A d : InBacklog(d)' <=> InBacklog(d)
    BY DEF InBacklog
  <2>2. ~InBacklog(None)
    BY TcpServerAssumption DEF InBacklog, TypeOK
  <2>3. \A fd \in FD : conn'[fd] = conn[fd] \/ conn'[fd] = None
    BY DEF TypeOK
  <2>4. \A fd \in FD : ~InBacklog(conn[fd])'
    BY <2>1, <2>2, <2>3 DEF ConnInv, InBacklog
  <2>5. \A d, e \in FD : conn'[d] = conn'[e] /\ conn'[d] # None => d = e
    BY <2>3 DEF ConnInv
  <2>6. \A d \in Client :
          client'[d] = "new" => ~InBacklog(d)' /\ \A e \in FD : conn'[e] # d
    BY <2>1, <2>3, TcpServerAssumption DEF ConnInv
  <2>7. QED
    BY <2>4, <2>5, <2>6 DEF ConnInv
<1>4. HandInv'
  BY DEF HandInv, TaskWaits, TypeOK
<1>5. QED
  BY <1>2, <1>3, <1>4

\* What the switch does: it sends, or it is over.
LEMMA HandleStep ==
  ASSUME ServerInv, NEW w \in Worker, Handle(w)
  PROVE  /\ hpc[w] = "handle" /\ sock[w] \in FD
         /\ msg[w] \in Client \X (1..MaxMsgs)
         /\ reset' \subseteq Client /\ alive' \in BOOLEAN
         /\ replies' \in [Client -> SUBSET (Client \X (1..MaxMsgs))]
         /\ \A c \in Client : \A r \in replies'[c] :
              r \in replies[c] \/ (r = msg[w] /\ c = conn[sock[w]])
         /\ \/ UNCHANGED <<hpc, msg>>
            \/ /\ hpc' = [hpc EXCEPT ![w] = IF msg[w][2] \in EarlyReturn
                                            THEN "done" ELSE "recv"]
               /\ msg' = [msg EXCEPT ![w] = None]
         /\ UNCHANGED <<client, sent, inbox, backlog, conn, ready, rpc, events,
                        communicate_sock, queue, running, closed, sock>>
<1>1. /\ hpc[w] = "handle" /\ sock[w] \in FD
      /\ msg[w] \in Client \X (1..MaxMsgs)
  BY DEF Handle, ServerInv, HandInv
<1>2. UNCHANGED <<client, sent, inbox, backlog, conn, ready, rpc, events,
                  communicate_sock, queue, running, closed, sock>>
  BY DEF Handle, reactorVars, poolVars
<1>3. CASE Answer(w)
  <2>1. reset' \subseteq Client /\ alive' \in BOOLEAN /\ UNCHANGED <<hpc, msg>>
    BY <1>3 DEF Answer, TcpServerSend, ServerInv, TypeOK
  <2>2. \A c \in Client :
          replies'[c] = IF c = Peer(sock[w]) /\ client[c] = "open"
                        THEN replies[c] \cup {msg[w]} ELSE replies[c]
    BY <1>3 DEF Answer
  <2>3. /\ replies \in [Client -> SUBSET (Client \X (1..MaxMsgs))]
        /\ Peer(sock[w]) = conn[sock[w]]
        /\ replies' = [c \in Client |-> replies'[c]]
    BY <1>1, <1>3 DEF Answer, Peer, ServerInv, TypeOK
  <2>4. replies' \in [Client -> SUBSET (Client \X (1..MaxMsgs))]
    BY <1>1, <2>2, <2>3
  <2>5. QED
    BY <1>1, <1>2, <2>1, <2>2, <2>3, <2>4
<1>4. CASE Forward(w) \/ Crash(w) \/ EndSwitch(w)
  <2>1. /\ replies' = replies
        /\ reset' \subseteq Client /\ alive' \in BOOLEAN
        /\ \/ UNCHANGED <<hpc, msg>>
           \/ /\ hpc' = [hpc EXCEPT ![w] = IF msg[w][2] \in EarlyReturn
                                           THEN "done" ELSE "recv"]
              /\ msg' = [msg EXCEPT ![w] = None]
    BY <1>4 DEF Forward, Crash, EndSwitch, TcpServerSend, ServerInv, TypeOK
  <2>2. QED
    BY <1>1, <1>2, <2>1 DEF ServerInv, TypeOK
<1>5. QED
  BY <1>3, <1>4 DEF Handle

LEMMA HandleKeeps ==
  ASSUME ServerInv, NEW w \in Worker, Handle(w)
  PROVE  ServerInv'
<1> USE DEF ServerInv
<1>1. /\ hpc[w] = "handle" /\ sock[w] \in FD
      /\ reset' \subseteq Client /\ alive' \in BOOLEAN
      /\ replies' \in [Client -> SUBSET (Client \X (1..MaxMsgs))]
      /\ UNCHANGED <<client, sent, inbox, backlog, conn, ready, rpc, events,
                     communicate_sock, queue, running, closed, sock>>
  BY HandleStep
<1>2. \/ UNCHANGED <<hpc, msg>>
      \/ /\ \E s \in {"done", "recv"} : hpc' = [hpc EXCEPT ![w] = s]
         /\ msg' = [msg EXCEPT ![w] = None]
  BY HandleStep
<1>3. TypeOK'
  <2>1. /\ hpc' \in [Worker -> HandlerStates]
        /\ msg' \in [Worker -> {None} \cup (Client \X (1..MaxMsgs))]
    <3>1. CASE UNCHANGED <<hpc, msg>>
      BY <3>1 DEF TypeOK
    <3>2. CASE /\ \E s \in {"done", "recv"} : hpc' = [hpc EXCEPT ![w] = s]
               /\ msg' = [msg EXCEPT ![w] = None]
      BY <3>2 DEF TypeOK, HandlerStates
    <3>3. QED
      BY <1>2, <3>1, <3>2
  <2>2. \A v \in Worker : running'[v] = "none" <=> hpc'[v] = "idle"
    BY <1>1, <1>2 DEF TypeOK
  <2>3. QED
    BY <1>1, <2>1, <2>2 DEF TypeOK
<1>4. ConnInv'
  BY <1>1 DEF ConnInv, InBacklog
<1>5. HandInv'
  <2>1. CASE UNCHANGED <<hpc, msg>>
    BY <1>1, <2>1 DEF HandInv, TaskWaits
  <2>2. CASE /\ \E s \in {"done", "recv"} : hpc' = [hpc EXCEPT ![w] = s]
             /\ msg' = [msg EXCEPT ![w] = None]
    BY <1>1, <2>2 DEF HandInv, TaskWaits, TypeOK
  <2>3. QED
    BY <1>2, <2>1, <2>2
<1>6. QED
  BY <1>3, <1>4, <1>5

LEMMA EndKeeps ==
  ASSUME ServerInv, NEW w \in Worker, End(w)
  PROVE  ServerInv'
<1> USE DEF ServerInv, kernelVars, reactorVars, End, Pool!Finish
<1>1. TypeOK'
  BY DEF TypeOK, HandlerStates
<1>2. ConnInv'
  BY DEF ConnInv, InBacklog
<1>3. HandInv'
  BY DEF HandInv, TaskWaits, TypeOK
<1>4. QED
  BY <1>1, <1>2, <1>3

LEMMA ServerStep == ServerInv /\ [Next]_vars => ServerInv'
<1>1. ServerInv /\ UNCHANGED vars => ServerInv'
  <2> SUFFICES ASSUME ServerInv, UNCHANGED vars
               PROVE  ServerInv'
    OBVIOUS
  <2> USE DEF ServerInv, vars, kernelVars, reactorVars, poolVars, handlerVars
  <2>1. TypeOK' /\ ConnInv' /\ HandInv'
    BY DEF TypeOK, ConnInv, InBacklog, HandInv, TaskWaits
  <2>2. QED
    BY <2>1
<1>2. QED
  BY <1>1, ConnectKeeps, ClientSendKeeps, ClientCloseKeeps, EpollWaitKeeps,
     AcceptKeeps, CommunicateKeeps, AddTaskKeeps, BeginKeeps, ReadSockKeeps,
     RecvKeeps, CloseSockKeeps, HandleKeeps, EndKeeps
  DEF Next, ClientStep, TcpServerAccept, thread_handler

\* The invariant of every server: descriptors and clients match one to one,
\* accept finds a free descriptor, and every handler works on a descriptor
\* that was one (TcpServerAccept, thread_handler).
THEOREM ServerInvariant == Spec => []ServerInv
BY ServerStep, InitServer, PTL DEF Spec

\* Every variable keeps its type, the descriptor that accept gives out above
\* all.
THEOREM ServerTypes == Spec => []TypeOK
<1>1. ServerInv => TypeOK
  BY DEF ServerInv
<1>2. QED
  BY <1>1, ServerInvariant, PTL
-----------------------------------------------------------------------------
(* Replies *)

\* A client whose connection the server has closed. It never comes back.
Departed(c) == client[c] # "new" /\ ~InBacklog(c) /\ \A fd \in FD : conn[fd] # c

LEMMA DepartedStays ==
  ASSUME ServerInv, Next, NEW c \in Client, Departed(c)
  PROVE  Departed(c)'
<1> USE DEF ServerInv
<1>1. ASSUME NEW d \in Client, Connect(d)
      PROVE  Departed(c)'
  <2>1. /\ d # c /\ backlog' = Append(backlog, d)
        /\ client' = [client EXCEPT ![d] = "open"] /\ conn' = conn
    BY <1>1 DEF Connect, Departed
  <2>2. backlog \in Seq(Client) /\ Len(backlog) \in Nat
    BY LenProperties DEF TypeOK
  <2>3. ~InBacklog(c)'
    BY <2>1, <2>2, AppendProperties DEF InBacklog, Departed
  <2>4. QED
    BY <2>1, <2>3 DEF Departed, TypeOK
<1>2. ASSUME NEW d \in Client, ClientSend(d) \/ ClientClose(d)
      PROVE  Departed(c)'
  BY <1>2 DEF ClientSend, ClientClose, Departed, InBacklog, TypeOK
<1>3. CASE Accept
  <2>1. PICK d \in Client, fd \in FD :
          /\ backlog # <<>> /\ d = backlog[1] /\ backlog' = Tail(backlog)
          /\ conn[fd] = None /\ conn' = [conn EXCEPT ![fd] = d]
    BY <1>3, AcceptStep
  <2>2. /\ backlog \in Seq(Client) /\ Len(backlog) \in Nat \ {0}
        /\ Len(backlog') = Len(backlog) - 1
        /\ \A i \in 1..Len(backlog') : backlog'[i] = backlog[i + 1]
    BY <2>1, EmptySeq, HeadTailProperties, LenProperties DEF TypeOK
  <2>3. d # c /\ ~InBacklog(c)'
    BY <2>1, <2>2 DEF Departed, InBacklog
  <2>4. client' = client
    BY <1>3 DEF Accept
  <2>5. QED
    BY <2>1, <2>3, <2>4 DEF Departed, TypeOK
<1>4. CASE EpollWait \/ Communicate \/ AddTask
  BY <1>4 DEF EpollWait, Communicate, AddTask, kernelVars, Departed, InBacklog
<1>5. ASSUME NEW w \in Worker, thread_handler(w)
      PROVE  Departed(c)'
  <2>1. client' = client /\ backlog' = backlog
    BY <1>5 DEF thread_handler, Begin, ReadSock, TcpServerRecv, CloseSock,
                Handle, End, kernelVars
  <2>2. \A fd \in FD : conn'[fd] = conn[fd] \/ conn'[fd] = None
    BY <1>5 DEF thread_handler, Begin, ReadSock, TcpServerRecv, CloseSock,
                Handle, End, kernelVars, TypeOK
  <2>3. QED
    BY <2>1, <2>2, TcpServerAssumption DEF Departed, InBacklog
<1>6. QED
  BY <1>1, <1>2, <1>3, <1>4, <1>5 DEF Next, ClientStep, TcpServerAccept

\* Who is behind a descriptor stays there until its connection is closed.
LEMMA PeerStays ==
  ASSUME ServerInv, Next, NEW fd \in FD, NEW c \in Client, conn[fd] = c
  PROVE  conn'[fd] = c \/ Departed(c)'
<1> USE DEF ServerInv
<1>1. CASE ClientStep \/ EpollWait \/ Communicate \/ AddTask
  BY <1>1 DEF ClientStep, Connect, ClientSend, ClientClose, EpollWait,
              Communicate, AddTask, kernelVars
<1>2. CASE Accept
  <2>1. PICK d \in Client, new \in FD :
          conn[new] = None /\ conn' = [conn EXCEPT ![new] = d]
    BY <1>2, AcceptStep
  <2>2. QED
    BY <2>1, TcpServerAssumption DEF TypeOK
<1>3. ASSUME NEW w \in Worker, CloseSock(w)
      PROVE  conn'[fd] = c \/ Departed(c)'
  <2>1. /\ conn' = [conn EXCEPT ![sock[w]] = None]
        /\ backlog' = backlog /\ client' = client
    BY <1>3 DEF CloseSock
  <2>2. CASE sock[w] # fd
    BY <2>1, <2>2 DEF TypeOK
  <2>3. CASE sock[w] = fd
    <3>1. \A e \in FD : conn'[e] # c
      BY <2>1, <2>3, TcpServerAssumption DEF ConnInv, TypeOK
    <3>2. client[c] # "new" /\ ~InBacklog(c)
      BY DEF ConnInv
    <3>3. QED
      BY <2>1, <3>1, <3>2 DEF Departed, InBacklog
  <2>4. QED
    BY <2>2, <2>3
<1>4. ASSUME NEW w \in Worker,
             Begin(w) \/ ReadSock(w) \/ TcpServerRecv(w) \/ Handle(w) \/ End(w)
      PROVE  conn'[fd] = c
  BY <1>4 DEF Begin, ReadSock, TcpServerRecv, Handle, End, kernelVars
<1>5. QED
  BY <1>1, <1>2, <1>3, <1>4 DEF Next, TcpServerAccept, thread_handler

\* What a handler has read came from the client that its descriptor stands for,
\* as long as that client is connected.
SenderInv ==
  /\ \A c \in Client : \A r \in replies[c] : r[1] = c \/ Departed(r[1])
  /\ \A w \in Worker : hpc[w] = "handle" =>
       conn[sock[w]] = msg[w][1] \/ Departed(msg[w][1])

\* The switch of a handler is entered by a recv from its own descriptor.
LEMMA SwitchEntered ==
  ASSUME ServerInv, Next, NEW w \in Worker, hpc'[w] = "handle"
  PROVE  \/ hpc[w] = "handle" /\ msg'[w] = msg[w] /\ sock'[w] = sock[w]
         \/ conn'[sock'[w]] = msg'[w][1]
<1> USE DEF ServerInv
<1>1. CASE ClientStep \/ TcpServerAccept
  BY <1>1 DEF ClientStep, TcpServerAccept, EpollWait, Accept, Communicate,
              AddTask, handlerVars
<1>2. ASSUME NEW v \in Worker,
             Begin(v) \/ ReadSock(v) \/ CloseSock(v) \/ End(v)
      PROVE  hpc[w] = "handle" /\ msg'[w] = msg[w] /\ sock'[w] = sock[w]
  BY <1>2 DEF Begin, ReadSock, CloseSock, End, TypeOK
<1>3. ASSUME NEW v \in Worker, TcpServerRecv(v)
      PROVE  \/ hpc[w] = "handle" /\ msg'[w] = msg[w] /\ sock'[w] = sock[w]
             \/ conn'[sock'[w]] = msg'[w][1]
  <2>1. conn' = conn /\ sock' = sock
    BY <1>3 DEF TcpServerRecv
  <2>2. \/ \E c \in Client :
             /\ conn[sock[v]] = c
             /\ msg' = [msg EXCEPT ![v] = <<c, Head(inbox[c])>>]
             /\ hpc' = [hpc EXCEPT ![v] = "handle"]
        \/ /\ msg' = msg
           /\ \E s \in {"done", "closing"} : hpc' = [hpc EXCEPT ![v] = s]
    BY <1>3, RecvStep
  <2>3. QED
    BY <2>1, <2>2 DEF TypeOK
<1>4. ASSUME NEW v \in Worker, Handle(v)
      PROVE  hpc[w] = "handle" /\ msg'[w] = msg[w] /\ sock'[w] = sock[w]
  BY <1>4, HandleStep DEF TypeOK
<1>5. QED
  BY <1>1, <1>2, <1>3, <1>4 DEF Next, thread_handler

LEMMA SenderStep ==
  ASSUME ServerInv, SenderInv, Next
  PROVE  SenderInv'
<1> USE DEF ServerInv
<1>1. ASSUME NEW c \in Client, NEW r \in replies'[c]
      PROVE  r[1] = c \/ Departed(r[1])'
  <2>1. CASE r \in replies[c]
    <3>1. r[1] \in Client /\ (r[1] = c \/ Departed(r[1]))
      BY <2>1 DEF SenderInv, TypeOK
    <3>2. PICK a \in Client : a = r[1] /\ (a = c \/ Departed(a))
      BY <3>1
    <3>3. a = c \/ Departed(a)'
      BY <3>2, DepartedStays
    <3>4. QED
      BY <3>2, <3>3
  <2>2. CASE r \notin replies[c]
    <3>1. PICK w \in Worker : Handle(w)
      BY <2>2
      DEF Next, ClientStep, Connect, ClientSend, ClientClose, TcpServerAccept,
          EpollWait, Accept, Communicate, AddTask, thread_handler, Begin,
          ReadSock, TcpServerRecv, CloseSock, End, kernelVars
    <3>2. /\ r = msg[w] /\ c = conn[sock[w]] /\ hpc[w] = "handle"
          /\ msg[w] \in Client \X (1..MaxMsgs)
      BY <2>2, <3>1, HandleStep
    <3>3. PICK a \in Client : a = r[1]
      BY <3>2
    <3>4. a = c \/ Departed(a)
      BY <3>2, <3>3 DEF SenderInv
    <3>5. a = c \/ Departed(a)'
      BY <3>4, DepartedStays
    <3>6. QED
      BY <3>3, <3>5
  <2>3. QED
    BY <2>1, <2>2
<1>2. ASSUME NEW w \in Worker, hpc'[w] = "handle"
      PROVE  conn'[sock'[w]] = msg'[w][1] \/ Departed(msg[w][1])'
  <2>1. CASE hpc[w] = "handle" /\ msg'[w] = msg[w] /\ sock'[w] = sock[w]
    <3>1. sock[w] \in FD /\ msg[w] \in Client \X (1..MaxMsgs)
      BY <2>1 DEF HandInv
    <3>2. PICK a \in Client : a = msg[w][1]
      BY <3>1
    <3>3. conn[sock[w]] = a \/ Departed(a)
      BY <2>1, <3>2 DEF SenderInv
    <3>4. conn'[sock[w]] = a \/ Departed(a)'
      BY <3>1, <3>3, PeerStays, DepartedStays
    <3>5. QED
      BY <2>1, <3>2, <3>4
  <2>2. QED
    BY <1>2, <2>1, SwitchEntered
<1>3. QED
  BY <1>1, <1>2 DEF SenderInv

\* An answer goes to the client that asked, unless its connection is gone; for
\* any number of clients that hang up and handlers that share, close and reuse
\* descriptors (testServer.c lines 122-135, StdTcp_Server.c lines 222-247).
THEOREM RepliesAreDelivered == Spec => []RepliesReachSender
<1>1. Init => SenderInv
  BY DEF Init, SenderInv
<1>2. ServerInv /\ SenderInv /\ [Next]_vars => SenderInv'
  <2>1. SenderInv /\ UNCHANGED vars => SenderInv'
    BY DEF vars, kernelVars, handlerVars, SenderInv, Departed, InBacklog
  <2>2. QED
    BY <2>1, SenderStep
<1>3. SenderInv => RepliesReachSender
  BY DEF SenderInv, Departed, RepliesReachSender, DescriptorsOf
<1>4. QED
  BY <1>1, <1>2, <1>3, ServerInvariant, PTL DEF Spec
-----------------------------------------------------------------------------
(* Attention *)

\* A step that leaves a readable descriptor to nobody is one of the two.
LEMMA AttentionStep ==
  ASSUME ServerInv, Next, NEW fd \in FD, ~Stranded(fd), Readable(fd)',
         ~Overwritten(fd), ~LeftEarly(fd)
  PROVE  Attended(fd)'
<1> USE DEF ServerInv
<1>1. Readable(fd) => Attended(fd)
  BY DEF Stranded
<1>2. ASSUME NEW c \in Client, Connect(c) \/ ClientSend(c) \/ ClientClose(c),
             UNCHANGED <<reactorVars, poolVars, handlerVars, alive>>
      PROVE  Attended(fd)'
  <2>1. /\ UNCHANGED <<conn, rpc, events, communicate_sock, queue, hpc, sock, msg>>
        /\ ready \subseteq ready'
    BY <1>2 DEF Connect, ClientSend, ClientClose, reactorVars, poolVars, handlerVars
  <2>2. Attended(fd) => Attended(fd)'
    BY <2>1 DEF Attended
  <2>3. CASE conn[fd] = c
    <3>1. CASE Connect(c)
      BY <2>3, <3>1 DEF Connect, ConnInv
    <3>2. CASE ClientSend(c) \/ ClientClose(c)
      BY <2>3, <3>2 DEF ClientSend, ClientClose, DescriptorsOf, Attended
    <3>3. QED
      BY <1>2, <3>1, <3>2
  <2>4. CASE conn[fd] # c
    <3>1. Readable(fd)
      BY <1>2, <2>1, <2>4
      DEF Connect, ClientSend, ClientClose, Readable, TypeOK
    <3>2. QED
      BY <1>1, <2>2, <3>1
  <2>5. QED
    BY <2>3, <2>4
<1>3. CASE EpollWait
  <2>1. Readable(fd)
    BY <1>3 DEF EpollWait, Readable
  <2>2. QED
    BY <1>1, <1>3, <2>1 DEF EpollWait, ConnInv, Attended, poolVars, handlerVars
<1>4. CASE Accept
  <2>1. PICK c \in Client, new \in FD :
          /\ conn[new] = None /\ conn' = [conn EXCEPT ![new] = c]
          /\ ready' = IF inbox[c] = <<>> /\ client[c] = "open"
                      THEN ready ELSE ready \cup {new}
    BY <1>4, AcceptStep
  <2>2. /\ UNCHANGED <<client, inbox, communicate_sock, queue, hpc, sock, msg>>
        /\ rpc = "next" /\ events' = events \ {Listener}
    BY <1>4 DEF Accept, NextEvent, poolVars, handlerVars
  <2>3. CASE fd = new
    BY <2>1, <2>2, <2>3 DEF Readable, Attended, TypeOK
  <2>4. CASE fd # new
    <3>1. Readable(fd)
      BY <2>1, <2>2, <2>4 DEF Readable, TypeOK
    <3>2. QED
      BY <1>1, <2>1, <2>2, <3>1, TcpServerAssumption DEF Attended
  <2>5. QED
    BY <2>3, <2>4
<1>5. CASE Communicate
  <2>1. PICK e \in FD : e \in events /\ communicate_sock' = e
    BY <1>5 DEF Communicate, TypeOK
  <2>2. Readable(fd)
    BY <1>5 DEF Communicate, kernelVars, Readable
  <2>3. communicate_sock # fd \/ communicate_sock' = fd
    BY DEF Overwritten
  <2>4. /\ rpc' = "submit" /\ ready' = ready /\ events' = events \ {e}
        /\ UNCHANGED <<hpc, sock>>
    BY <1>5, <2>1 DEF Communicate, kernelVars, handlerVars
  <2>5. QED
    BY <1>1, <2>1, <2>2, <2>3, <2>4 DEF Attended
<1>6. CASE AddTask
  <2>1. Readable(fd)
    BY <1>6 DEF AddTask, kernelVars, Readable
  <2>2. queue' # <<>>
    <3>1. queue \in Seq({"thread_handler"})
      BY DEF TypeOK
    <3>2. queue' = Append(queue, "thread_handler")
      BY <1>6 DEF AddTask, Pool!Submit
    <3>3. QED
      BY <3>1, <3>2, AppendProperties
  <2>3. QED
    BY <1>1, <1>6, <2>1, <2>2
    DEF AddTask, NextEvent, kernelVars, handlerVars, Attended
<1>7. ASSUME NEW w \in Worker, Begin(w)
      PROVE  Attended(fd)'
  <2>1. /\ UNCHANGED <<kernelVars, reactorVars, sock, msg>>
        /\ running[w] = "none" /\ hpc' = [hpc EXCEPT ![w] = "start"]
    BY <1>7 DEF Begin, Pool!Start
  <2>2. hpc[w] = "idle" /\ hpc'[w] = "start"
    BY <2>1 DEF TypeOK
  <2>3. \A v \in Worker : hpc'[v] = IF v = w THEN "start" ELSE hpc[v]
    BY <2>1 DEF TypeOK
  <2>4. Readable(fd)
    BY <2>1 DEF kernelVars, Readable
  <2>5. QED
    BY <1>1, <2>1, <2>2, <2>3, <2>4 DEF Attended, kernelVars, reactorVars
<1>8. ASSUME NEW w \in Worker, ReadSock(w)
      PROVE  Attended(fd)'
  <2>1. /\ UNCHANGED <<kernelVars, reactorVars, poolVars, msg>>
        /\ hpc[w] = "start"
        /\ sock' = [sock EXCEPT ![w] = communicate_sock]
        /\ hpc' = [hpc EXCEPT ![w] = "recv"]
    BY <1>8 DEF ReadSock
  <2>2. /\ hpc'[w] = "recv" /\ sock'[w] = communicate_sock
        /\ \A v \in Worker : v # w => hpc'[v] = hpc[v] /\ sock'[v] = sock[v]
    BY <2>1 DEF TypeOK
  <2>3. Readable(fd)
    BY <2>1 DEF kernelVars, Readable
  <2>4. QED
    BY <1>1, <2>1, <2>2, <2>3 DEF Attended, kernelVars, reactorVars, poolVars
<1>9. ASSUME NEW w \in Worker, TcpServerRecv(w)
      PROVE  Attended(fd)'
  <2>1. UNCHANGED <<client, conn, ready, rpc, events, communicate_sock, queue,
                    sock>>
    BY <1>9 DEF TcpServerRecv, reactorVars, poolVars
  <2>2. hpc[w] = "recv" /\ sock[w] \in FD
    BY <1>9, RecvStep
  <2>3. CASE \E c \in Client :
               /\ conn[sock[w]] = c /\ inbox[c] # <<>>
               /\ msg' = [msg EXCEPT ![w] = <<c, Head(inbox[c])>>]
               /\ inbox' = [inbox EXCEPT ![c] = Tail(@)]
               /\ hpc' = [hpc EXCEPT ![w] = "handle"]
    <3>1. PICK c \in Client :
               /\ conn[sock[w]] = c /\ inbox[c] # <<>>
               /\ msg' = [msg EXCEPT ![w] = <<c, Head(inbox[c])>>]
               /\ inbox' = [inbox EXCEPT ![c] = Tail(@)]
               /\ hpc' = [hpc EXCEPT ![w] = "handle"]
      BY <2>3
    <3>2. Readable(fd)
      BY <2>1, <3>1 DEF Readable, TypeOK
    <3>3. /\ hpc'[w] = "handle"
          /\ \A v \in Worker : v # w => hpc'[v] = hpc[v] /\ msg'[v] = msg[v]
      BY <3>1 DEF TypeOK
    <3>4. QED
      BY <1>1, <2>1, <2>2, <3>2, <3>3 DEF Attended
  <2>4. CASE /\ conn[sock[w]] # None => inbox[conn[sock[w]]] = <<>>
             /\ hpc' = [hpc EXCEPT ![w] =
                          IF conn[sock[w]] # None /\ client[conn[sock[w]]] = "open"
                          THEN "done" ELSE "closing"]
             /\ inbox' = inbox /\ msg' = msg
    <3>1. Readable(fd)
      BY <2>1, <2>4 DEF Readable
    <3>2. /\ sock[w] = fd => hpc'[w] = "closing"
          /\ \A v \in Worker : v # w => hpc'[v] = hpc[v]
      BY <2>4, <3>1 DEF Readable, TypeOK
    <3>3. QED
      BY <1>1, <2>1, <2>2, <2>4, <3>1, <3>2 DEF Attended
  <2>5. QED
    BY <1>9, <2>3, <2>4, RecvStep
<1>10. ASSUME NEW w \in Worker, CloseSock(w)
       PROVE  Attended(fd)'
  <2>1. /\ UNCHANGED <<client, inbox, rpc, events, communicate_sock, queue,
                       sock, msg>>
        /\ hpc[w] = "closing" /\ hpc' = [hpc EXCEPT ![w] = "done"]
        /\ conn' = [conn EXCEPT ![sock[w]] = None]
        /\ ready' = ready \ {sock[w]}
    BY <1>10 DEF CloseSock, reactorVars, poolVars
  <2>2. sock[w] # fd
    BY <2>1 DEF Readable, TypeOK
  <2>3. Readable(fd)
    BY <2>1, <2>2 DEF Readable, TypeOK
  <2>4. \A v \in Worker : v # w => hpc'[v] = hpc[v]
    BY <2>1 DEF TypeOK
  <2>5. QED
    BY <1>1, <2>1, <2>2, <2>3, <2>4 DEF Attended
<1>11. ASSUME NEW w \in Worker, Handle(w)
       PROVE  Attended(fd)'
  <2>1. /\ UNCHANGED <<client, inbox, conn, ready, rpc, events,
                       communicate_sock, queue, sock>>
        /\ hpc[w] = "handle"
        /\ \/ UNCHANGED hpc
           \/ hpc' = [hpc EXCEPT ![w] = IF msg[w][2] \in EarlyReturn
                                       THEN "done" ELSE "recv"]
    BY <1>11, HandleStep
  <2>2. Readable(fd)
    BY <2>1 DEF Readable
  <2>3. /\ \A v \in Worker : v # w => hpc'[v] = hpc[v]
        /\ sock[w] = fd => hpc'[w] \in {"handle", "recv"}
    BY <2>1 DEF LeftEarly, TypeOK
  <2>4. QED
    BY <1>1, <2>1, <2>2, <2>3 DEF Attended
<1>12. ASSUME NEW w \in Worker, End(w)
       PROVE  Attended(fd)'
  <2>1. /\ UNCHANGED <<kernelVars, reactorVars, queue>>
        /\ hpc[w] = "done" /\ hpc' = [hpc EXCEPT ![w] = "idle"]
        /\ sock' = [sock EXCEPT ![w] = 0]
    BY <1>12 DEF End, Pool!Finish
  <2>2. Readable(fd)
    BY <2>1 DEF kernelVars, Readable
  <2>3. \A v \in Worker : v # w => hpc'[v] = hpc[v] /\ sock'[v] = sock[v]
    BY <2>1 DEF TypeOK
  <2>4. QED
    BY <1>1, <2>1, <2>2, <2>3 DEF Attended, kernelVars, reactorVars
<1>13. QED
  BY <1>2, <1>3, <1>4, <1>5, <1>6, <1>7, <1>8, <1>9, <1>10, <1>11, <1>12
  DEF Next, ClientStep, TcpServerAccept, thread_handler

\* What can be read is lost where communicate_sock is overwritten or a handler
\* returns early, and nowhere else: whatever clients do, however numbers are
\* reused and however many handlers share a connection (StdTcp_Server.c lines
\* 107-191, testServer.c lines 113-507).
THEOREM AttentionIsKept == Spec => LostInTwoPlaces
<1>1. ServerInv /\ [Next]_vars =>
        [\A fd \in FD :
           ~Stranded(fd) /\ Stranded(fd)' => Overwritten(fd) \/ LeftEarly(fd)]_vars
  BY AttentionStep DEF Stranded
<1>2. QED
  BY <1>1, ServerInvariant, PTL DEF Spec, LostInTwoPlaces
=============================================================================
