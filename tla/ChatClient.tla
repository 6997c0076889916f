----------------------------- MODULE ChatClient -----------------------------
(***************************************************************************)
(* client/testClient.c with client_src_so/StdTcp_Client.c: the menu thread *)
(* (main) fills one Msg, msg, and sends it; the receiver (thread_handler)  *)
(* reads each answer into the global msg1 and prints it. Either of them    *)
(* can end the process.                                                    *)
(*                                                                         *)
(* The user, the server and the kernel are external: the user may stop     *)
(* typing at every prompt or end the input, the server may send what it    *)
(* likes and stop when it likes. What it sends is a stream: a Msg has a    *)
(* head (flag and names) and a tail (content and the rest), and a recv may *)
(* return a part.                                                          *)
(***************************************************************************)
EXTENDS Integers, Sequences, Functions

CONSTANTS Account,      \* account names the user may type
          Text,         \* other words: friends, groups, files, contents
          ServerFlags,  \* flags the server sends
          MaxRequests,  \* bound: requests the user makes
          MaxMessages,  \* bound: messages the server sends
          MaxUnread,    \* bound: requests the server has not read
          Splits,       \* whether a recv may return a part of what is there
          Empty         \* a field of zeros

ASSUME ChatClientAssumption ==
  /\ Empty \notin Account \cup Text \cup [verb : {"insert", "select"}, account : Account]
  /\ ServerFlags \subseteq Nat
  /\ {MaxRequests, MaxMessages, MaxUnread} \subseteq Nat
  /\ Splits \in BOOLEAN

VARIABLES
  pc,        \* the prompt the menu thread is at, "end" when main is over
  msg,       \* the request being filled, line 162
  account,   \* what the user typed last for an account
  rpc,       \* the receiver: about to "recv" or to "show" msg1
  msg1,      \* the global of line 70: what is in its head and in its tail
  shown,     \* what was in msg1 each time it was printed
  saved,     \* numbers of the messages written to a file
  alive,     \* whether the process runs
  \* the kernel and the server
  conn,      \* "none", "open", "closed" or "reset" by the server, "broken"
  requests,  \* requests sent
  toServer,  \* those the server has not read
  log,       \* flags of all messages the server sent
  got,       \* how many halves of them the receiver has read
  askew      \* whether a recv has ever returned half a Msg

menuVars     == <<pc, msg, account, saved>>
receiverVars == <<rpc, msg1, shown>>
kernelVars   == <<conn, requests, toServer, log, got, askew>>
vars == <<menuVars, receiverVars, kernelVars, alive>>

ClientFlags == {"LOGIN", "REGISTRE", "SEND_MESSAGE", "ADD_FRIENDS",
                "AGREE_FRIENDS_APPLY", "READ_ALL_INFO", "READ_GINGLE_INFO",
                "CREATE_GROUP", "GROUP_ADD", "GROUP_SEND_MESSAGE",
                "SEND_FILE", "RECV_FILE"}

RECV_FILE == 13
Printed == 700..712 \* the flags thread_handler has a text for

Statement == [verb : {"insert", "select"}, account : Account]

Msg == [flag : ClientFlags, fromName : Account \cup {Empty},
        toName : Text \cup {Empty}, content : Text \cup {Empty},
        order : Statement \cup {Empty}]

\* The stream as halves, numbered from 1: those of message n are 2n - 1 and 2n.
\* 0 stands for the zeros that msg1 begins with.
Half == 0..(2 * MaxMessages)
MessageOf(half) == (half + 1) \div 2
IsHead(half) == half % 2 = 1
Whole(n) == [head |-> 2 * n - 1, tail |-> 2 * n]

\* A tail where the head should be is text, and no flag.
Flag(m) == IF IsHead(m.head) THEN log[MessageOf(m.head)] ELSE 0

\* The flag 0 that msg begins with is that of LOGIN.
Init ==
  /\ pc = "start"
  /\ msg = [flag |-> "LOGIN", fromName |-> Empty, toName |-> Empty,
            content |-> Empty, order |-> Empty]
  /\ account = Empty
  /\ saved = {}
  /\ rpc = "recv" /\ msg1 = [head |-> 0, tail |-> 0] /\ shown = <<>>
  /\ conn = "none" /\ requests = 0 /\ toServer = <<>>
  /\ log = <<>> /\ got = 0 /\ askew = FALSE
  /\ alive = TRUE
-----------------------------------------------------------------------------
(* The menu thread *)

\* Operators named Faulty... are plausible bugs of the operator that follows
\* them. No specification uses them.

\* TcpClientSend. The first send after the server's end of stream succeeds
\* and is answered with a reset, which may take its time; a pending reset is
\* reported by the next call, whichever thread makes it; after that SIGPIPE
\* ends the process.
TcpClientSend(m) ==
  /\ requests < MaxRequests /\ Len(toServer) < MaxUnread
  /\ requests' = requests + 1
  /\ \/ /\ conn = "open"
        /\ toServer' = Append(toServer, m)
        /\ UNCHANGED <<conn, alive>>
     \/ /\ conn = "closed"
        /\ conn' \in {"closed", "broken"}
        /\ UNCHANGED <<toServer, alive>>
     \/ /\ conn = "reset"
        /\ conn' = "broken"
        /\ UNCHANGED <<toServer, alive>>
     \/ /\ conn = "broken"
        /\ alive' = FALSE
        /\ UNCHANGED <<conn, toServer>>
  /\ UNCHANGED <<log, got, askew>>

\* The prompts after the login leave the name and the statement in msg alone.
Fill(flag, to, content) ==
  [flag |-> flag, fromName |-> msg.fromName, toName |-> to, content |-> content,
   order |-> msg.order]

\* A prompt is answered by sending m, after which the menu is at next.
Request(m, next) ==
  /\ TcpClientSend(m)
  /\ msg' = m
  /\ pc' = next
  /\ UNCHANGED <<account, saved, receiverVars>>

\* A prompt is answered without a request.
Type(m, next) ==
  /\ msg' = m
  /\ pc' = next
  /\ UNCHANGED <<account, saved, receiverVars, kernelVars, alive>>

\* The server answers, and the receiver is started; or main returns.
InitTcpClient ==
  /\ pc = "start"
  /\ \/ pc' = "choose" /\ conn' = "open" /\ UNCHANGED alive
     \/ pc' = "end" /\ alive' = FALSE /\ UNCHANGED conn
  /\ UNCHANGED <<msg, account, saved, receiverVars, requests, toServer, log,
                 got, askew>>

Choose ==
  /\ pc = "choose"
  /\ \/ \E next \in {"register", "login"} : Type(msg, next)
     \/ /\ pc' = "end" /\ alive' = FALSE   \* neither 1 nor 2
        /\ UNCHANGED <<msg, account, saved, receiverVars, kernelVars>>

\* The statement is not cleared after it has been sent.
FaultySendStatement(flag, verb, next) ==
  \E a \in Account :
    LET m == [flag |-> flag, fromName |-> a, toName |-> msg.toName,
              content |-> msg.content,
              order |-> [verb |-> verb, account |-> a]]
    IN /\ TcpClientSend(m)
       /\ msg' = m
       /\ account' = a
       /\ pc' = next
       /\ UNCHANGED <<saved, receiverVars>>

\* Registration and login send a statement and clear it afterwards.
SendStatement(flag, verb, next) ==
  \E a \in Account :
    LET m == [flag |-> flag, fromName |-> a, toName |-> msg.toName,
              content |-> msg.content,
              order |-> [verb |-> verb, account |-> a]]
    IN /\ TcpClientSend(m)
       /\ msg' = [m EXCEPT !.order = Empty]
       /\ account' = a
       /\ pc' = next
       /\ UNCHANGED <<saved, receiverVars>>

Register == pc = "register" /\ SendStatement("REGISTRE", "insert", "choose")
Login    == pc = "login" /\ SendStatement("LOGIN", "select", "menu")

SendMessage ==
  \/ /\ pc = "menu"
     /\ \E t \in Text :
          Type(Fill("SEND_MESSAGE", t, msg.content), "talk")
  \/ /\ pc = "talk"
     /\ \E t \in Text : Request(Fill(msg.flag, msg.toName, t), "talk")
  \/ /\ pc = "talk"                        \* the word "1" leaves the loop
     /\ Type(Fill(msg.flag, Empty, Empty), "menu")

ReadNotices ==
  \/ /\ pc = "menu"
     /\ Request(Fill("READ_ALL_INFO", msg.toName, msg.content), "menu")
  \/ /\ pc \in {"menu", "notices"}
     /\ Request(Fill("READ_GINGLE_INFO", msg.toName, msg.content), "notices")
  \/ /\ pc = "notices"
     /\ Type(msg, "menu")

Friends ==
  /\ pc = "menu"
  /\ \E flag \in {"ADD_FRIENDS", "AGREE_FRIENDS_APPLY"}, t \in Text :
       Request(Fill(flag, t, msg.content), "menu")

CreateGroup ==
  /\ pc = "menu"
  /\ \E t \in Text :
       Request(Fill("CREATE_GROUP", msg.toName, t), "menu")

\* GROUP_ADD and SEND_FILE: a word and a name.
SendPair ==
  /\ pc = "menu"
  /\ \E flag \in {"GROUP_ADD", "SEND_FILE"}, t, u \in Text :
       Request(Fill(flag, u, t), "menu")

SendToGroup ==
  \/ /\ pc = "menu"
     /\ \E t \in Text :
          Type(Fill("GROUP_SEND_MESSAGE", t, msg.content), "groupTalk")
  \/ /\ pc = "groupTalk"
     /\ \E t \in Text : Request(Fill(msg.flag, msg.toName, t), "groupTalk")
  \/ /\ pc = "groupTalk"
     /\ Type(msg, "menu")

\* recv has returned one half, into the head of msg1, or two.
Receive ==
  /\ \/ /\ got + 2 <= 2 * Len(log)
        /\ msg1' = [head |-> got + 1, tail |-> got + 2]
        /\ got' = got + 2
        /\ UNCHANGED askew
     \/ /\ Splits /\ got + 1 <= 2 * Len(log)
        /\ msg1' = [msg1 EXCEPT !.head = got + 1]
        /\ got' = got + 1
        /\ askew' = TRUE

\* The menu waits for the file in a recv of its own.
FaultyRecvFile ==
  \/ /\ pc = "menu"
     /\ \E t \in Text :
          Request(Fill("RECV_FILE", msg.toName, t), "awaitFile")
  \/ /\ pc = "awaitFile"
     /\ Receive
     /\ saved' = saved \cup {MessageOf(got)}
     /\ pc' = "menu"
     /\ UNCHANGED <<msg, account, rpc, shown, conn, requests, toServer, log,
                    alive>>

\* The messages that WriteToFile is called with.
WriteToFile(m) == IF Flag(m) = RECV_FILE THEN {MessageOf(m.head)} ELSE {}

\* After the request the menu sleeps and then looks at msg1, whatever the
\* receiver has put there by then.
RecvFile ==
  \/ /\ pc = "menu"
     /\ \E t \in Text :
          Request(Fill("RECV_FILE", msg.toName, t), "awaitFile")
  \/ /\ pc = "awaitFile"
     /\ saved' = saved \cup WriteToFile(msg1)
     /\ pc' = "menu"
     /\ UNCHANGED <<msg, account, receiverVars, kernelVars, alive>>

\* Input ends: scanf leaves its variable alone, and the next getchar loop
\* waits for a newline for ever. Four prompts send first what they have; in
\* the loop of "notices" the same request is simply made again and again. At
\* the first prompt of all num is still undefined: see Choose as well.
EndOfInput ==
  \/ /\ pc \in {"choose", "register", "login", "menu", "talk", "groupTalk"}
     /\ Type(msg, "spin")
  \/ /\ pc = "menu"
     /\ \/ \E flag \in {"ADD_FRIENDS", "AGREE_FRIENDS_APPLY"} :
             Request(Fill(flag, Empty, msg.content), "spin")
        \/ \E t \in Text :
             Request(Fill("SEND_FILE", t, msg.content), "spin")
        \/ Request(Fill("RECV_FILE", msg.toName, msg.content), "spin")

Menu == \/ InitTcpClient \/ Choose \/ Register \/ Login
        \/ SendMessage \/ ReadNotices \/ Friends \/ CreateGroup \/ SendPair
        \/ SendToGroup \/ RecvFile \/ EndOfInput
-----------------------------------------------------------------------------
(* The receiver *)

\* The end of the stream is reported like an error: no exit(-1).
FaultyTcpClientRecv ==
  /\ rpc = "recv" /\ rpc' = "show"
  /\ \/ Receive /\ UNCHANGED conn
     \/ /\ got = 2 * Len(log) /\ conn # "open"
        /\ conn' = "broken"
        /\ UNCHANGED <<got, askew, msg1>>
  /\ UNCHANGED <<alive, shown, menuVars, requests, toServer, log>>

\* TcpClientRecv: data that has arrived comes first; an error is only
\* reported, and msg1 stays as it was; the end of the stream ends the process.
TcpClientRecv ==
  /\ rpc = "recv"
  /\ \/ /\ Receive
        /\ rpc' = "show"
        /\ UNCHANGED <<conn, alive>>
     \/ /\ got = 2 * Len(log) /\ conn = "reset"
        /\ conn' = "broken"
        /\ rpc' = "show"
        /\ UNCHANGED <<got, askew, msg1, alive>>
     \/ /\ got = 2 * Len(log) /\ conn \in {"closed", "broken"}
        /\ alive' = FALSE
        /\ UNCHANGED <<got, askew, msg1, rpc, conn>>
  /\ UNCHANGED <<shown, menuVars, requests, toServer, log>>

\* The receiver leaves its loop at a flag it does not know.
FaultyShow ==
  /\ rpc = "show"
  /\ IF Flag(msg1) \in Printed
     THEN shown' = Append(shown, msg1) /\ rpc' = "recv"
     ELSE shown' = shown /\ rpc' = "left"
  /\ UNCHANGED <<msg1, menuVars, kernelVars, alive>>

Show ==
  /\ rpc = "show"
  /\ shown' = IF Flag(msg1) \in Printed THEN Append(shown, msg1) ELSE shown
  /\ rpc' = "recv"
  /\ UNCHANGED <<msg1, menuVars, kernelVars, alive>>

Receiver == TcpClientRecv \/ Show
-----------------------------------------------------------------------------
(* The server *)

ServerStep ==
  /\ conn = "open"
  /\ \/ /\ toServer # <<>>
        /\ toServer' = Tail(toServer)
        /\ UNCHANGED <<conn, log>>
     \/ /\ Len(log) < MaxMessages
        /\ \E f \in ServerFlags : log' = Append(log, f)
        /\ UNCHANGED <<conn, toServer>>
     \/ /\ conn' = IF toServer = <<>> THEN "closed" ELSE "reset"
        /\ UNCHANGED <<toServer, log>>
  /\ UNCHANGED <<menuVars, receiverVars, requests, got, askew, alive>>

Next == alive /\ (Menu \/ Receiver \/ ServerStep)

Spec == Init /\ [][Next]_vars

\* The receiver is a thread the system schedules; what it waits for is in
\* its guards. Nothing is assumed of the user and of the server.
FairSpec == Spec /\ WF_vars(alive /\ Receiver)
-----------------------------------------------------------------------------
TypeOK ==
  /\ pc \in {"start", "choose", "register", "login", "menu", "talk",
             "notices", "groupTalk", "awaitFile", "spin", "end"}
  /\ msg \in Msg /\ account \in Account \cup {Empty}
  /\ rpc \in {"recv", "show"}
  /\ msg1 \in [head : Half, tail : Half]
  /\ shown \in Seq([head : Half, tail : Half]) /\ saved \subseteq 0..MaxMessages
  /\ conn \in {"none", "open", "closed", "reset", "broken"}
  /\ requests \in 0..MaxRequests
  /\ toServer \in Seq(Msg) /\ Len(toServer) <= MaxUnread
  /\ log \in Seq(ServerFlags) /\ got \in 0..(2 * Len(log))
  /\ askew \in BOOLEAN
  /\ alive \in BOOLEAN

\* What is printed of the first n messages when none comes in two parts.
Due(n) == {Whole(i) : i \in {j \in 1..n : log[j] \in Printed}}

\* The last one was printed again, from the msg1 that a failed recv left alone.
PrintedAgain ==
  LET last == Len(shown)
  IN  conn = "broken" /\ last > 1 /\ shown[last - 1] = shown[last]

\* What is printed is what the server sent, each message once and in the
\* order it was sent, although one global is filled for all of them; only
\* when the connection was reset is the last one printed again. Nothing reads
\* on until a Msg is complete: once a recv has returned a part of one,
\* messages may be lost, or be printed with the tail of an older one, but
\* never out of order, and never with what was sent after them.
ShownInOrder ==
  LET n == got \div 2
  IN
  /\ \A k \in 1..(Len(shown) - 1) :
       \/ shown[k].head < shown[k + 1].head
       \/ k = Len(shown) - 1 /\ PrintedAgain
  /\ \A k \in 1..Len(shown) :
       IsHead(shown[k].head) /\ shown[k].tail <= shown[k].head + 1
  /\ \/ askew
     \/ Range(shown) = Due(n)
     \/ rpc = "show" /\ n > 0 /\ Range(shown) = Due(n - 1)

Signed(m, user) ==
  /\ m.fromName \in Account
  /\ m.flag = "REGISTRE" => m.order = [verb |-> "insert", account |-> m.fromName]
  /\ m.flag # "REGISTRE" => m.fromName = user
  /\ m.flag = "LOGIN" => m.order = [verb |-> "select", account |-> user]
  /\ m.flag \notin {"REGISTRE", "LOGIN"} => m.order = Empty

\* Every request the server has yet to read says who the user is, in a Msg
\* that is filled once and used for many requests: a registration or a login
\* carries its own account and statement, every later request the account of
\* the login and no statement of an earlier request.
RequestsSigned ==
  \A i \in DOMAIN toServer : Signed(toServer[i], account)

\* A message with a text is printed in the end, whatever the user does,
\* unless the process ends before or a recv has returned a part of a Msg.
EveryMessageShown ==
  \A n \in 1..MaxMessages :
    (Len(log) >= n /\ log[n] \in Printed)
      ~> (~alive \/ askew \/ Whole(n) \in Range(shown))

\* When the server has gone the client does not stay at a prompt.
HangUpEndsClient == conn \in {"closed", "reset", "broken"} ~> ~alive
=============================================================================
