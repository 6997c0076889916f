-------------------------- MODULE ChatClientProofs --------------------------
(***************************************************************************)
(* The chat client for any accounts, words, flags and bounds: what is      *)
(* printed is what was sent, in order, and every request says who the user *)
(* is.                                                                     *)
(***************************************************************************)
EXTENDS ChatClient, TLAPS, SequenceTheorems

\* The prompts after the login.
LoggedIn == {"menu", "talk", "notices", "groupTalk", "awaitFile"}

\* After the login msg keeps the account; the statement is gone once it has
\* been sent; and the prompts that repeat a request have set its flag. Before
\* the login only registrations have been sent.
SignInv ==
  /\ msg.order = Empty
  /\ pc \in LoggedIn => account \in Account /\ msg.fromName = account
  /\ pc \in {"talk", "groupTalk"} => msg.flag \notin {"REGISTRE", "LOGIN"}
  /\ pc \in {"start", "choose", "register", "login"} =>
       \A i \in DOMAIN toServer : toServer[i].flag = "REGISTRE"

\* While no recv has returned half a Msg, msg1 is the last message read.
Straight ==
  /\ got % 2 = 0
  /\ got = 0 => msg1 = [head |-> 0, tail |-> 0]
  /\ got > 0 => msg1 = Whole(got \div 2)

\* A failed recv is about to show msg1 again, or has done so: nothing will be
\* read any more.
DeadLine == conn = "broken" /\ got = 2 * Len(log)

\* The head of msg1 is new whenever it is about to be shown, unless the
\* connection is dead; then it is what was shown last.
ShowInv ==
  /\ \A k \in 1..(Len(shown) - 1) :
       \/ shown[k].head < shown[k + 1].head
       \/ /\ k = Len(shown) - 1 /\ shown[k] = shown[Len(shown)]
          /\ DeadLine /\ rpc = "recv"
  /\ \A k \in 1..Len(shown) :
       IsHead(shown[k].head) /\ shown[k].tail <= shown[k].head + 1
  /\ msg1.head <= got /\ msg1.tail <= msg1.head + 1
  /\ Len(shown) > 0 =>
       LET end == shown[Len(shown)] IN
         /\ end.head <= msg1.head
         /\ end.head = msg1.head => end = msg1
         /\ rpc = "show" /\ end.head = msg1.head => DeadLine
  /\ \/ askew
     \/ /\ Straight
        /\ \/ Range(shown) = Due(got \div 2)
           \/ rpc = "show" /\ got > 0 /\ Range(shown) = Due((got \div 2) - 1)

\* The server keeps to its bound, and is not there before the first prompt.
Setting ==
  /\ Len(log) <= MaxMessages
  /\ pc = "start" => conn = "none"

\* The inductive invariants of the client.
TypeInv == TypeOK /\ Setting
RequestInv == SignInv /\ RequestsSigned

-----------------------------------------------------------------------------
(* Types                                                                   *)

Prompts == {"choose", "register", "login", "spin", "end"} \cup LoggedIn

LEMMA Bounds ==
  /\ MaxRequests \in Nat /\ MaxMessages \in Nat /\ MaxUnread \in Nat
  /\ ServerFlags \subseteq Nat
BY ChatClientAssumption

LEMMA Appended ==
  ASSUME NEW S, NEW s \in Seq(S), NEW e \in S
  PROVE  Append(s, e) \in Seq(S)
OBVIOUS

LEMMA Elements ==
  ASSUME NEW S, NEW s \in Seq(S)
  PROVE  /\ Len(s) \in Nat /\ DOMAIN s = 1..Len(s)
         /\ \A k \in 1..Len(s) : s[k] \in S
OBVIOUS

LEMMA HalvesOfMessages ==
  ASSUME NEW h \in Half
  PROVE  h \in Nat /\ MessageOf(h) \in 0..MaxMessages
BY Bounds DEF Half, MessageOf

LEMMA FillFields ==
  ASSUME TypeInv,
         NEW flag \in ClientFlags, NEW to \in Text \cup {Empty},
         NEW content \in Text \cup {Empty}
  PROVE  LET m == Fill(flag, to, content) IN
         /\ m \in Msg
         /\ m.flag = flag /\ m.fromName = msg.fromName /\ m.order = msg.order
BY DEF TypeInv, TypeOK, Fill, Msg

\* A flag with which a request may be made after the login.
LaterFlag(flag) ==
  \/ flag \notin {"REGISTRE", "LOGIN"}
  \/ flag = msg.flag /\ pc \in {"talk", "groupTalk"}

\* A step of the menu after the login.
LaterStep ==
  /\ pc \in LoggedIn
  /\ \E flag \in ClientFlags, to \in Text \cup {Empty},
        content \in Text \cup {Empty}, next \in LoggedIn \cup {"spin"} :
       \/ LaterFlag(flag) /\ Request(Fill(flag, to, content), next)
       \/ /\ next \in {"talk", "groupTalk"} => LaterFlag(flag)
          /\ Type(Fill(flag, to, content), next)

SaveStep ==
  /\ pc = "awaitFile" /\ pc' = "menu"
  /\ saved' = saved \cup WriteToFile(msg1)
  /\ UNCHANGED <<msg, account, receiverVars, kernelVars, alive>>

\* What the menu thread can do.
LEMMA MenuCases ==
  ASSUME TypeInv, Menu
  PROVE  \/ InitTcpClient \/ Choose \/ Register \/ Login
         \/ LaterStep \/ SaveStep \/ Type(msg, "spin")
<1>1. /\ msg.flag \in ClientFlags
      /\ msg.toName \in Text \cup {Empty} /\ msg.content \in Text \cup {Empty}
      /\ msg = Fill(msg.flag, msg.toName, msg.content)
  BY DEF TypeInv, TypeOK, Msg, Fill
<1>2. CASE SendMessage
  <2>1. CASE /\ pc = "menu"
             /\ \E t \in Text :
                  Type(Fill("SEND_MESSAGE", t, msg.content), "talk")
    BY <1>1, <2>1 DEF LaterStep, LaterFlag, LoggedIn, ClientFlags
  <2>2. CASE /\ pc = "talk"
             /\ \E t \in Text : Request(Fill(msg.flag, msg.toName, t), "talk")
    BY <1>1, <2>2 DEF LaterStep, LaterFlag, LoggedIn, ClientFlags
  <2>3. CASE pc = "talk" /\ Type(Fill(msg.flag, Empty, Empty), "menu")
    BY <1>1, <2>3 DEF LaterStep, LaterFlag, LoggedIn, ClientFlags
  <2>4. QED
    BY <1>2, <2>1, <2>2, <2>3 DEF SendMessage
<1>3. CASE ReadNotices
  BY <1>1, <1>3 DEF ReadNotices, LaterStep, LaterFlag, LoggedIn, ClientFlags
<1>4. CASE Friends
  BY <1>1, <1>4 DEF Friends, LaterStep, LaterFlag, LoggedIn, ClientFlags
<1>5. CASE CreateGroup
  BY <1>1, <1>5 DEF CreateGroup, LaterStep, LaterFlag, LoggedIn, ClientFlags
<1>6. CASE SendPair
  BY <1>1, <1>6 DEF SendPair, LaterStep, LaterFlag, LoggedIn, ClientFlags
<1>7. CASE SendToGroup
  <2>1. CASE /\ pc = "menu"
             /\ \E t \in Text :
                  Type(Fill("GROUP_SEND_MESSAGE", t, msg.content), "groupTalk")
    BY <1>1, <2>1 DEF LaterStep, LaterFlag, LoggedIn, ClientFlags
  <2>2. CASE /\ pc = "groupTalk"
             /\ \E t \in Text : Request(Fill(msg.flag, msg.toName, t), "groupTalk")
    BY <1>1, <2>2 DEF LaterStep, LaterFlag, LoggedIn, ClientFlags
  <2>3. CASE pc = "groupTalk" /\ Type(msg, "menu")
    BY <1>1, <2>3 DEF LaterStep, LaterFlag, LoggedIn, ClientFlags
  <2>4. QED
    BY <1>7, <2>1, <2>2, <2>3 DEF SendToGroup
<1>8. CASE RecvFile
  BY <1>1, <1>8 DEF RecvFile, LaterStep, SaveStep, LaterFlag, LoggedIn, ClientFlags
<1>9. CASE EndOfInput
  BY <1>1, <1>9 DEF EndOfInput, LaterStep, LaterFlag, LoggedIn, ClientFlags
<1>10. QED
  BY <1>2, <1>3, <1>4, <1>5, <1>6, <1>7, <1>8, <1>9 DEF Menu

LEMMA SendTypes ==
  ASSUME TypeInv, NEW m \in Msg, TcpClientSend(m)
  PROVE  /\ conn' \in {"none", "open", "closed", "reset", "broken"}
         /\ requests' \in 0..MaxRequests
         /\ toServer' \in Seq(Msg) /\ Len(toServer') <= MaxUnread
         /\ alive' \in BOOLEAN
         /\ UNCHANGED <<log, got, askew>>
<1>1. requests \in 0..MaxRequests /\ toServer \in Seq(Msg)
  BY DEF TypeInv, TypeOK
<1>2. requests' \in 0..MaxRequests
  BY <1>1, Bounds DEF TcpClientSend
<1>3. \/ toServer' = toServer
      \/ toServer' = Append(toServer, m) /\ Len(toServer) < MaxUnread
  BY DEF TcpClientSend
<1>4. toServer' \in Seq(Msg) /\ Len(toServer') <= MaxUnread
  <2>1. CASE toServer' = toServer
    BY <2>1 DEF TypeInv, TypeOK
  <2>2. CASE toServer' = Append(toServer, m) /\ Len(toServer) < MaxUnread
    <3>1. toServer' \in Seq(Msg) /\ Len(toServer') = Len(toServer) + 1
      BY <1>1, <2>2
    <3>2. QED
      BY <1>1, <2>2, <3>1, Bounds
  <2>3. QED
    BY <1>3, <2>1, <2>2
<1>5. QED
  BY <1>2, <1>4 DEF TcpClientSend, TypeInv, TypeOK

LEMMA RequestTypes ==
  ASSUME TypeInv, NEW m \in Msg, NEW next \in Prompts, Request(m, next)
  PROVE  TypeInv'
<1>1. TcpClientSend(m)
  BY DEF Request
<1>2. QED
  BY <1>1, SendTypes
     DEF Request, TypeInv, TypeOK, Setting, Prompts, LoggedIn, receiverVars

LEMMA TypeTypes ==
  ASSUME TypeInv, NEW m \in Msg, NEW next \in Prompts, Type(m, next)
  PROVE  TypeInv'
BY DEF Type, TypeInv, TypeOK, Setting, Prompts, LoggedIn, receiverVars, kernelVars

LEMMA StatementTypes ==
  ASSUME TypeInv, NEW flag \in ClientFlags, NEW verb \in {"insert", "select"},
         NEW next \in Prompts, SendStatement(flag, verb, next)
  PROVE  TypeInv'
<1>1. PICK a \in Account :
        LET m == [flag |-> flag, fromName |-> a, toName |-> msg.toName,
                  content |-> msg.content,
                  order |-> [verb |-> verb, account |-> a]]
        IN  /\ TcpClientSend(m)
            /\ msg' = [m EXCEPT !.order = Empty]
            /\ account' = a
            /\ pc' = next
            /\ UNCHANGED <<saved, receiverVars>>
  BY DEF SendStatement
<1> DEFINE m == [flag |-> flag, fromName |-> a, toName |-> msg.toName,
                 content |-> msg.content,
                 order |-> [verb |-> verb, account |-> a]]
<1>2. m \in Msg /\ [m EXCEPT !.order = Empty] \in Msg
  BY DEF TypeInv, TypeOK, Msg, Statement
<1>3. msg' \in Msg
  BY <1>1, <1>2
<1>4. TcpClientSend(m)
  BY <1>1
<1> HIDE DEF m
<1>5. QED
  BY <1>1, <1>2, <1>3, <1>4, SendTypes
     DEF TypeInv, TypeOK, Setting, Prompts, LoggedIn, receiverVars

LEMMA ReceiveTypes ==
  ASSUME TypeInv, Receive, UNCHANGED log
  PROVE  /\ msg1' \in [head : Half, tail : Half]
         /\ got' \in 0..(2 * Len(log))
<1>1. got \in Nat /\ Len(log) \in Nat /\ Len(log) <= MaxMessages
  BY DEF TypeInv, TypeOK, Setting
<1>2. CASE /\ got + 2 <= 2 * Len(log)
           /\ msg1' = [head |-> got + 1, tail |-> got + 2]
           /\ got' = got + 2
  BY <1>1, <1>2, Bounds DEF Half
<1>3. CASE /\ got + 1 <= 2 * Len(log)
           /\ msg1' = [msg1 EXCEPT !.head = got + 1]
           /\ got' = got + 1
  <2>1. got + 1 \in Half /\ got' \in 0..(2 * Len(log))
    BY <1>1, <1>3, Bounds DEF Half
  <2>2. QED
    BY <1>3, <2>1 DEF TypeInv, TypeOK
<1>4. QED
  BY <1>2, <1>3 DEF Receive

LEMMA InitTypes == Init => TypeInv
<1> SUFFICES ASSUME Init
             PROVE  TypeInv
  OBVIOUS
<1>1. msg \in Msg
  BY DEF Init, Msg, ClientFlags
<1>2. /\ msg1 \in [head : Half, tail : Half]
      /\ shown \in Seq([head : Half, tail : Half]) /\ saved \subseteq 0..MaxMessages
  BY Bounds DEF Init, Half
<1>3. /\ requests \in 0..MaxRequests
      /\ toServer \in Seq(Msg) /\ Len(toServer) <= MaxUnread
      /\ log \in Seq(ServerFlags) /\ got \in 0..(2 * Len(log)) /\ Len(log) <= MaxMessages
  BY Bounds DEF Init
<1>4. QED
  BY <1>1, <1>2, <1>3 DEF Init, TypeInv, TypeOK, Setting

LEMMA NextKeepsTypes == TypeInv /\ [Next]_vars => TypeInv'
<1> SUFFICES ASSUME TypeInv, [Next]_vars
             PROVE  TypeInv'
  OBVIOUS
<1> USE DEF TypeInv
<1>1. CASE InitTcpClient
  BY <1>1 DEF InitTcpClient, TypeOK, Setting, receiverVars
<1>2. CASE Choose
  <2>1. ASSUME NEW next \in {"register", "login"}, Type(msg, next)
        PROVE  TypeInv'
    BY <2>1, TypeTypes DEF Prompts, TypeOK
  <2>2. CASE /\ pc' = "end" /\ alive' = FALSE
             /\ UNCHANGED <<msg, account, saved, receiverVars, kernelVars>>
    BY <2>2 DEF TypeOK, Setting, receiverVars, kernelVars
  <2>3. QED
    BY <1>2, <2>1, <2>2 DEF Choose
<1>3. CASE Register
  BY <1>3, StatementTypes DEF Register, ClientFlags, Prompts
<1>4. CASE Login
  BY <1>4, StatementTypes DEF Login, ClientFlags, Prompts, LoggedIn
<1>5. CASE LaterStep
  <2>1. PICK flag \in ClientFlags, to \in Text \cup {Empty},
             content \in Text \cup {Empty}, next \in LoggedIn \cup {"spin"} :
          \/ Request(Fill(flag, to, content), next)
          \/ Type(Fill(flag, to, content), next)
    BY <1>5 DEF LaterStep
  <2>2. next \in Prompts /\ Fill(flag, to, content) \in Msg
    BY FillFields DEF Prompts
  <2>3. QED
    BY <2>1, <2>2, RequestTypes, TypeTypes
<1>6. CASE SaveStep
  <2>1. saved' \subseteq 0..MaxMessages
    BY <1>6, HalvesOfMessages DEF SaveStep, WriteToFile, TypeOK
  <2>2. QED
    BY <1>6, <2>1 DEF SaveStep, TypeOK, Setting, receiverVars, kernelVars
<1>7. CASE Type(msg, "spin")
  BY <1>7, TypeTypes DEF Prompts, TypeOK
<1>8. CASE TcpClientRecv
  <2>1. CASE Receive /\ rpc' = "show" /\ UNCHANGED <<conn, alive>>
    <3>1. UNCHANGED log /\ askew' \in BOOLEAN /\ conn' = conn /\ alive' = alive
      BY <1>8, <2>1 DEF TcpClientRecv, Receive, TypeOK
    <3>2. rpc' = "show" /\ UNCHANGED <<shown, menuVars, requests, toServer, log>>
      BY <1>8, <2>1 DEF TcpClientRecv
    <3>3. /\ msg1' \in [head : Half, tail : Half]
          /\ got' \in 0..(2 * Len(log))
      BY <2>1, <3>1, ReceiveTypes
    <3>4. QED
      BY <3>1, <3>2, <3>3 DEF TypeOK, Setting, menuVars
  <2>2. CASE UNCHANGED <<got, askew, msg1>>
    <3>1. /\ rpc' \in {rpc, "show"} /\ conn' \in {conn, "broken"}
          /\ alive' \in {alive, FALSE}
          /\ conn # "none" \/ conn' = conn
          /\ UNCHANGED <<shown, menuVars, requests, toServer, log>>
      BY <1>8, <2>2 DEF TcpClientRecv
    <3>2. UNCHANGED <<pc, msg, account, saved>>
      BY <3>1 DEF menuVars
    <3>3. conn = "none" => conn' = "none"
      BY <3>1
    <3>4. /\ (msg1 \in [head : Half, tail : Half])'
          /\ (got \in 0..(2 * Len(log)))' /\ (log \in Seq(ServerFlags))'
          /\ (shown \in Seq([head : Half, tail : Half]))'
      BY <2>2, <3>1 DEF TypeOK
    <3>5. /\ (rpc \in {"recv", "show"})' /\ (askew \in BOOLEAN)'
          /\ (alive \in BOOLEAN)'
          /\ (conn \in {"none", "open", "closed", "reset", "broken"})'
      BY <2>2, <3>1 DEF TypeOK
    <3>6. Setting'
      BY <3>1, <3>2, <3>3 DEF Setting
    <3>7. TypeOK'
      BY <3>1, <3>2, <3>4, <3>5, Zenon DEF TypeOK
    <3>8. QED
      BY <3>6, <3>7, Zenon
  <2>3. QED
    BY <1>8, <2>1, <2>2 DEF TcpClientRecv
<1>9. CASE Show
  <2>1. shown' = shown \/ shown' = Append(shown, msg1)
    BY <1>9 DEF Show
  <2>2. shown' \in Seq([head : Half, tail : Half])
    <3>1. /\ shown \in Seq([head : Half, tail : Half])
          /\ msg1 \in [head : Half, tail : Half]
      BY DEF TypeOK
    <3>2. QED
      BY <2>1, <3>1, Appended
  <2>3. QED
    BY <1>9, <2>2 DEF Show, TypeOK, Setting, menuVars, kernelVars
<1>10. CASE ServerStep
  <2>1. toServer \in Seq(Msg) /\ log \in Seq(ServerFlags) /\ got \in 0..(2 * Len(log))
    BY DEF TypeOK
  <2>2. CASE toServer # <<>> /\ toServer' = Tail(toServer) /\ UNCHANGED <<conn, log>>
    <3>1. toServer' \in Seq(Msg) /\ Len(toServer') <= MaxUnread
      BY <2>1, <2>2, Bounds DEF TypeOK
    <3>2. QED
      BY <1>10, <2>2, <3>1 DEF ServerStep, TypeOK, Setting, menuVars, receiverVars
  <2>3. CASE /\ Len(log) < MaxMessages
             /\ \E f \in ServerFlags : log' = Append(log, f)
             /\ UNCHANGED <<conn, toServer>>
    <3>1. /\ log' \in Seq(ServerFlags) /\ got \in 0..(2 * Len(log'))
          /\ Len(log') <= MaxMessages
      BY <2>1, <2>3, Bounds
    <3>2. QED
      BY <1>10, <2>3, <3>1 DEF ServerStep, TypeOK, Setting, menuVars, receiverVars
  <2>4. CASE /\ conn' = IF toServer = <<>> THEN "closed" ELSE "reset"
             /\ UNCHANGED <<toServer, log>>
    BY <1>10, <2>4 DEF ServerStep, TypeOK, Setting, menuVars, receiverVars
  <2>5. QED
    BY <1>10, <2>2, <2>3, <2>4 DEF ServerStep
<1>11. CASE UNCHANGED vars
  BY <1>11 DEF vars, TypeOK, Setting, menuVars, receiverVars, kernelVars
<1>12. QED
  BY <1>1, <1>2, <1>3, <1>4, <1>5, <1>6, <1>7, <1>8, <1>9, <1>10, <1>11, MenuCases
     DEF Next, Receiver

\* The variables keep their types, for any accounts, words, flags and bounds.
THEOREM ClientTypes == Spec => []TypeOK
<1>1. TypeInv => TypeOK
  BY DEF TypeInv
<1>2. QED
  BY <1>1, InitTypes, NextKeepsTypes, PTL DEF Spec

-----------------------------------------------------------------------------
(* Who asks                                                                *)

LEMMA Sent ==
  ASSUME TypeInv, NEW m \in Msg, TcpClientSend(m),
         NEW i \in DOMAIN toServer'
  PROVE  \/ toServer'[i] = m
         \/ i \in DOMAIN toServer /\ toServer'[i] = toServer[i]
<1>1. toServer \in Seq(Msg)
  BY DEF TypeInv, TypeOK
<1>2. toServer' = toServer \/ toServer' = Append(toServer, m)
  BY DEF TcpClientSend
<1>3. QED
  BY <1>1, <1>2

LEMMA StatementSigned ==
  ASSUME TypeInv, RequestInv,
         NEW flag, NEW verb, NEW next,
         \/ flag = "REGISTRE" /\ verb = "insert" /\ next = "choose"
         \/ flag = "LOGIN" /\ verb = "select" /\ next = "menu",
         pc \in {"register", "login"}, SendStatement(flag, verb, next)
  PROVE  RequestInv'
<1> USE DEF RequestInv
<1>1. PICK a \in Account :
        LET m == [flag |-> flag, fromName |-> a, toName |-> msg.toName,
                  content |-> msg.content,
                  order |-> [verb |-> verb, account |-> a]]
        IN  /\ TcpClientSend(m)
            /\ msg' = [m EXCEPT !.order = Empty]
            /\ account' = a
            /\ pc' = next
  BY DEF SendStatement
<1>2. PICK m : /\ m = [flag |-> flag, fromName |-> a, toName |-> msg.toName,
                       content |-> msg.content,
                       order |-> [verb |-> verb, account |-> a]]
               /\ TcpClientSend(m)
               /\ msg' = [m EXCEPT !.order = Empty]
  BY <1>1
<1>3. /\ m.flag = flag /\ m.fromName = a
      /\ m.order = [verb |-> verb, account |-> a]
      /\ msg'.order = Empty /\ msg'.fromName = a
  BY <1>2
<1>4. m \in Msg
  BY <1>2 DEF TypeInv, TypeOK, Msg, Statement, ClientFlags
<1>5. ASSUME NEW i \in DOMAIN toServer'
      PROVE  /\ Signed(toServer'[i], a)
             /\ flag = "REGISTRE" => toServer'[i].flag = "REGISTRE"
  <2>1. CASE toServer'[i] = m
    BY <1>3, <2>1 DEF Signed
  <2>2. CASE i \in DOMAIN toServer /\ toServer'[i] = toServer[i]
    BY <2>2 DEF Signed, RequestsSigned, SignInv
  <2>3. QED
    BY <1>2, <1>4, <2>1, <2>2, Sent
<1>6. SignInv'
  BY <1>1, <1>3, <1>5 DEF SignInv, LoggedIn
<1>7. QED
  BY <1>1, <1>5, <1>6 DEF RequestsSigned

LEMMA NextKeepsRequests ==
  TypeInv /\ TypeInv' /\ RequestInv /\ [Next]_vars => RequestInv'
<1> SUFFICES ASSUME TypeInv, TypeInv', RequestInv, [Next]_vars
             PROVE  RequestInv'
  OBVIOUS
<1> USE DEF RequestInv
<1>1. CASE InitTcpClient
  BY <1>1 DEF InitTcpClient, SignInv, RequestsSigned, LoggedIn
<1>2. CASE Choose
  BY <1>2 DEF Choose, Type, SignInv, RequestsSigned, LoggedIn, kernelVars
<1>3. CASE Register
  BY <1>3, StatementSigned DEF Register
<1>4. CASE Login
  BY <1>4, StatementSigned DEF Login
<1>5. CASE LaterStep
  <2>1. PICK flag \in ClientFlags, to \in Text \cup {Empty},
             content \in Text \cup {Empty}, next \in LoggedIn \cup {"spin"} :
          \/ LaterFlag(flag) /\ Request(Fill(flag, to, content), next)
          \/ /\ next \in {"talk", "groupTalk"} => LaterFlag(flag)
             /\ Type(Fill(flag, to, content), next)
    BY <1>5 DEF LaterStep
  <2>2. PICK m \in Msg :
          /\ m = Fill(flag, to, content)
          /\ m.flag = flag /\ m.fromName = msg.fromName /\ m.order = msg.order
    BY FillFields
  <2>3. /\ account \in Account /\ m.fromName = account /\ m.order = Empty
        /\ LaterFlag(flag) => flag \notin {"REGISTRE", "LOGIN"}
    BY <1>5, <2>2 DEF LaterStep, SignInv, LaterFlag
  <2>4. pc' = next /\ msg' = m /\ account' = account
    BY <2>1, <2>2 DEF Request, Type
  <2>5. next \in {"talk", "groupTalk"} => LaterFlag(flag)
    BY <2>1
  <2>6. SignInv'
    BY <2>2, <2>3, <2>4, <2>5 DEF SignInv, LoggedIn
  <2>7. CASE LaterFlag(flag) /\ Request(m, next)
    <3>1. Signed(m, account)
      BY <2>2, <2>3, <2>7 DEF Signed
    <3>2. TcpClientSend(m)
      BY <2>7 DEF Request
    <3>3. QED
      BY <2>4, <2>6, <3>1, <3>2, Sent DEF RequestsSigned
  <2>8. CASE Type(m, next)
    BY <2>4, <2>6, <2>8 DEF Type, RequestsSigned, kernelVars
  <2>9. QED
    BY <2>1, <2>2, <2>7, <2>8
<1>6. CASE SaveStep
  BY <1>6 DEF SaveStep, SignInv, RequestsSigned, LoggedIn, kernelVars
<1>7. CASE Type(msg, "spin")
  BY <1>7 DEF Type, SignInv, RequestsSigned, LoggedIn, kernelVars
<1>8. CASE TcpClientRecv \/ Show \/ UNCHANGED vars
  <2>1. UNCHANGED <<pc, msg, account, toServer>>
    BY <1>8 DEF TcpClientRecv, Show, vars, menuVars, kernelVars
  <2>2. QED
    BY <2>1 DEF SignInv, RequestsSigned
<1>9. CASE ServerStep
  <2>1. UNCHANGED <<pc, msg, account>>
    BY <1>9 DEF ServerStep, menuVars
  <2>2. \A i \in DOMAIN toServer' :
          \E k \in DOMAIN toServer : toServer'[i] = toServer[k]
    <3>1. toServer \in Seq(Msg)
      BY DEF TypeInv, TypeOK
    <3>2. CASE toServer # <<>> /\ toServer' = Tail(toServer)
      <4>1. /\ Len(toServer) \in Nat
            /\ \A i \in DOMAIN toServer' :
                 i + 1 \in DOMAIN toServer /\ toServer'[i] = toServer[i + 1]
        BY <3>1, <3>2
      <4>2. QED
        BY <4>1
    <3>3. CASE toServer' = toServer
      BY <3>3
    <3>4. QED
      BY <1>9, <3>2, <3>3 DEF ServerStep
  <2>3. QED
    BY <2>1, <2>2 DEF SignInv, RequestsSigned
<1>10. QED
  BY <1>1, <1>2, <1>3, <1>4, <1>5, <1>6, <1>7, <1>8, <1>9, MenuCases
     DEF Next, Receiver

\* One Msg is filled again and again, yet no request goes out with the account
\* or the statement of another.
THEOREM RequestsAreSigned == Spec => []RequestsSigned
<1>1. Init => RequestInv
  BY DEF Init, RequestInv, SignInv, RequestsSigned, LoggedIn
<1>2. RequestInv => RequestsSigned
  BY DEF RequestInv
<1>3. QED
  BY <1>1, <1>2, InitTypes, NextKeepsTypes, NextKeepsRequests, PTL DEF Spec

-----------------------------------------------------------------------------
(* What is printed                                                         *)

LEMMA ShownTypes ==
  ASSUME TypeInv
  PROVE  /\ Len(shown) \in Nat /\ DOMAIN shown = 1..Len(shown)
         /\ \A k \in 1..Len(shown) : shown[k].head \in Nat /\ shown[k].tail \in Nat
         /\ msg1.head \in Nat /\ msg1.tail \in Nat
         /\ got \in Nat /\ Len(log) \in Nat /\ got <= 2 * Len(log)
<1>1. /\ shown \in Seq([head : Half, tail : Half])
      /\ msg1 \in [head : Half, tail : Half]
      /\ log \in Seq(ServerFlags) /\ got \in 0..(2 * Len(log))
  BY DEF TypeInv, TypeOK
<1>2. Half \subseteq Nat
  BY HalvesOfMessages
<1>3. /\ Len(shown) \in Nat /\ DOMAIN shown = 1..Len(shown)
      /\ \A k \in 1..Len(shown) : shown[k] \in [head : Half, tail : Half]
  BY <1>1, Elements
<1>4. \A m \in [head : Half, tail : Half] : m.head \in Nat /\ m.tail \in Nat
  BY <1>2
<1>5. got \in Nat /\ Len(log) \in Nat /\ got <= 2 * Len(log)
  BY <1>1
<1>6. QED
  BY <1>1, <1>3, <1>4, <1>5

LEMMA DueGrows ==
  ASSUME NEW n \in Nat, n > 0
  PROVE  Due(n) = Due(n - 1) \cup (IF log[n] \in Printed THEN {Whole(n)} ELSE {})
<1>1. 1..n = 1..(n - 1) \cup {n}
  OBVIOUS
<1>2. QED
  BY <1>1 DEF Due

LEMMA FlagOfWhole ==
  ASSUME NEW n \in Nat, n > 0
  PROVE  Flag(Whole(n)) = log[n] /\ IsHead(2 * n - 1)
BY DEF Flag, Whole, IsHead, MessageOf

LEMMA NoFlagOfZeros == Flag([head |-> 0, tail |-> 0]) \notin Printed
BY DEF Flag, IsHead, Printed

LEMMA SameReading ==
  ASSUME ShowInv, UNCHANGED <<rpc, msg1, shown, log, got, askew>>,
         conn = "broken" => conn' = "broken"
  PROVE  ShowInv'
BY DEF ShowInv, DeadLine, Straight, Due

LEMMA MenuKeepsReading ==
  ASSUME TypeInv, Menu
  PROVE  /\ UNCHANGED <<rpc, msg1, shown, log, got, askew>>
         /\ conn = "broken" => conn' = "broken"
<1>1. ASSUME NEW m, TcpClientSend(m)
      PROVE  /\ UNCHANGED <<log, got, askew>>
             /\ conn = "broken" => conn' = "broken"
  BY <1>1 DEF TcpClientSend
<1>2. CASE InitTcpClient
  BY <1>2 DEF InitTcpClient, receiverVars, TypeInv, Setting
<1>3. CASE Choose \/ SaveStep \/ Type(msg, "spin")
  BY <1>3 DEF Choose, SaveStep, Type, receiverVars, kernelVars
<1>4. CASE Register \/ Login
  BY <1>1, <1>4 DEF Register, Login, SendStatement, receiverVars
<1>5. CASE LaterStep
  <2>1. PICK m, next : Request(m, next) \/ Type(m, next)
    BY <1>5 DEF LaterStep
  <2>2. QED
    BY <1>1, <2>1 DEF Request, Type, receiverVars, kernelVars
<1>6. QED
  BY <1>2, <1>3, <1>4, <1>5, MenuCases

LEMMA ServerKeepsReading ==
  ASSUME TypeInv, ShowInv, ServerStep
  PROVE  ShowInv'
<1>1. /\ UNCHANGED <<rpc, msg1, shown, got, askew>> /\ ~DeadLine
      /\ log' = log \/ \E f \in ServerFlags : log' = Append(log, f)
  BY DEF ServerStep, receiverVars, DeadLine
<1>2. /\ log \in Seq(ServerFlags) /\ Len(log) \in Nat /\ got \in Nat
      /\ got <= 2 * Len(log)
  BY DEF TypeInv, TypeOK
<1>3. got \div 2 \in Nat /\ got \div 2 <= Len(log)
  BY <1>2
<1>4. \A j \in 1..Len(log) : log'[j] = log[j]
  <2>1. CASE log' = log
    BY <2>1
  <2>2. CASE \E f \in ServerFlags : log' = Append(log, f)
    <3>1. PICK f \in ServerFlags : log' = Append(log, f)
      BY <2>2
    <3>2. \A j \in 1..Len(log) : Append(log, f)[j] = log[j]
      BY <1>2, AppendProperties
    <3>3. QED
      BY <3>1, <3>2
  <2>3. QED
    BY <1>1, <2>1, <2>2
<1>5. \A j \in 1..(got \div 2) : log'[j] = log[j]
  BY <1>2, <1>3, <1>4
<1>6. PICK n \in Nat : n = got \div 2
  BY <1>3
<1>7. Due(n)' = Due(n)
  BY <1>5, <1>6 DEF Due
<1>8. Due(n - 1)' = Due(n - 1)
  <2>1. \A j \in 1..(n - 1) : log'[j] = log[j]
    BY <1>5, <1>6
  <2>2. QED
    BY <2>1 DEF Due
<1>9. Due(got \div 2)' = Due(got \div 2)
  BY <1>1, <1>6, <1>7
<1>10. Due((got \div 2) - 1)' = Due((got \div 2) - 1)
  BY <1>1, <1>6, <1>8
<1>11. QED
  BY <1>1, <1>9, <1>10 DEF ShowInv, Straight

LEMMA RecvKeepsReading ==
  ASSUME TypeInv, ShowInv, TcpClientRecv
  PROVE  ShowInv'
<1>1. rpc = "recv" /\ UNCHANGED <<shown, log>>
  BY DEF TcpClientRecv
<1>2. CASE Receive /\ rpc' = "show" /\ UNCHANGED conn
  <2>1. /\ ~DeadLine /\ got' > got /\ msg1'.head = got + 1 /\ got' >= got + 1
        /\ msg1'.tail <= got + 2
    <3>1. /\ got \in Nat /\ Len(log) \in Nat /\ msg1.tail \in Nat
          /\ msg1.head \in Nat /\ msg1.tail <= msg1.head + 1 /\ msg1.head <= got
      BY ShownTypes DEF ShowInv
    <3>2. CASE /\ got + 2 <= 2 * Len(log)
               /\ msg1' = [head |-> got + 1, tail |-> got + 2]
               /\ got' = got + 2
      <4>1. msg1'.head = got + 1 /\ msg1'.tail = got + 2
        BY <3>2
      <4>2. QED
        BY <3>1, <3>2, <4>1 DEF DeadLine
    <3>3. CASE /\ got + 1 <= 2 * Len(log)
               /\ msg1' = [msg1 EXCEPT !.head = got + 1]
               /\ got' = got + 1
      <4>1. msg1 \in [head : Half, tail : Half]
        BY DEF TypeInv, TypeOK
      <4>2. msg1'.head = got + 1 /\ msg1'.tail = msg1.tail
        BY <3>3, <4>1
      <4>3. ~DeadLine
        BY <3>1, <3>3 DEF DeadLine
      <4>4. PICK g \in Nat : g = got
        BY <3>1
      <4>5. PICK h \in Nat : h = msg1.head
        BY <3>1
      <4>6. msg1.tail \in Nat /\ msg1.tail <= h + 1 /\ h <= g
        BY <3>1, <4>4, <4>5
      <4>7. msg1.tail <= g + 2
        BY <4>6
      <4>8. g + 1 > g /\ g + 1 >= g + 1
        OBVIOUS
      <4>9. QED
        BY <3>3, <4>2, <4>3, <4>4, <4>7, <4>8
    <3>4. QED
      BY <1>2, <3>2, <3>3, Zenon DEF Receive
  <2>2. Len(shown) > 0 => shown[Len(shown)].head < msg1'.head
    <3>1. Len(shown) > 0 =>
            shown[Len(shown)].head \in Nat /\ shown[Len(shown)].head <= msg1.head
      <4>1. Len(shown) > 0 => Len(shown) \in 1..Len(shown)
        BY ShownTypes
      <4>2. Len(shown) > 0 => shown[Len(shown)].head <= msg1.head
        BY Zenon DEF ShowInv
      <4>3. QED
        BY <4>1, <4>2, ShownTypes
    <3>2. msg1.head <= got /\ msg1.head \in Nat /\ got \in Nat
      BY ShownTypes DEF ShowInv
    <3>3. PICK h \in Nat, g \in Nat : h = msg1.head /\ g = got
      BY <3>2
    <3>4. h <= g /\ msg1'.head = g + 1
      BY <2>1, <3>2, <3>3
    <3>5. CASE Len(shown) > 0
      <4>1. PICK e \in Nat : e = shown[Len(shown)].head
        BY <3>1, <3>5
      <4>2. e <= h
        BY <3>1, <3>3, <3>5, <4>1
      <4>3. e < g + 1
        BY <3>4, <4>2
      <4>4. QED
        BY <3>4, <4>1, <4>3
    <3>6. QED
      BY <3>5
  <2>3. \A k \in 1..(Len(shown) - 1) : shown[k].head < shown[k + 1].head
    BY <2>1 DEF ShowInv
  <2>4. ASSUME ~askew'
        PROVE  /\ Straight' /\ got' > 0
               /\ Range(shown) = Due((got' \div 2) - 1)
    <3>1. ~askew /\ got' = got + 2 /\ msg1' = [head |-> got + 1, tail |-> got + 2]
      BY <1>2, <2>4 DEF Receive, TypeInv, TypeOK
    <3>2. got % 2 = 0 /\ Range(shown) = Due(got \div 2)
      BY <1>1, <3>1 DEF ShowInv, Straight
    <3>3. PICK n \in Nat : got = 2 * n
      BY <3>2, ShownTypes
    <3>4. got' = 2 * (n + 1) /\ got' \div 2 = n + 1 /\ got \div 2 = n
      BY <3>1, <3>3
    <3>5. msg1' = Whole(n + 1) /\ got' % 2 = 0
      BY <3>1, <3>3, <3>4 DEF Whole
    <3>6. QED
      BY <3>2, <3>4, <3>5 DEF Straight
  <2>5. Due((got' \div 2) - 1) = Due((got \div 2) - 1)'
    BY <1>1 DEF Due
  <2>6. \A k \in 1..Len(shown) :
          IsHead(shown[k].head) /\ shown[k].tail <= shown[k].head + 1
    BY DEF ShowInv
  <2>7. msg1'.head <= got' /\ msg1'.tail <= msg1'.head + 1
    BY <1>2, <2>1, ShownTypes
  <2>8. Len(shown) > 0 =>
          LET end == shown[Len(shown)] IN
            /\ end.head <= msg1'.head
            /\ end.head # msg1'.head
    BY <2>1, <2>2, ShownTypes
  <2>9. QED
    BY <1>1, <1>2, <2>3, <2>4, <2>5, <2>6, <2>7, <2>8 DEF ShowInv
<1>3. CASE /\ got = 2 * Len(log) /\ conn = "reset" /\ conn' = "broken"
           /\ rpc' = "show" /\ UNCHANGED <<got, askew, msg1>>
  <2>1. DeadLine' /\ ~DeadLine
    BY <1>1, <1>3 DEF DeadLine
  <2>2. \A n : Due(n)' = Due(n)
    BY <1>1 DEF Due
  <2>3. QED
    BY <1>1, <1>3, <2>1, <2>2 DEF ShowInv, Straight
<1>4. CASE UNCHANGED <<got, askew, msg1, rpc, conn>>
  BY <1>1, <1>4, SameReading
<1>5. QED
  BY <1>2, <1>3, <1>4 DEF TcpClientRecv

LEMMA ShowKeepsReading ==
  ASSUME TypeInv, ShowInv, Show
  PROVE  ShowInv'
<1>1. /\ rpc = "show" /\ rpc' = "recv" /\ UNCHANGED <<msg1, log, got, askew, conn>>
      /\ Flag(msg1) \notin Printed => shown' = shown
      /\ Flag(msg1) \in Printed => shown' = Append(shown, msg1)
  BY DEF Show, kernelVars
<1>2. \A k \in 1..(Len(shown) - 1) : shown[k].head < shown[k + 1].head
  BY <1>1 DEF ShowInv
<1>3. DeadLine' = DeadLine /\ Straight' = Straight /\ \A n : Due(n)' = Due(n)
  BY <1>1 DEF DeadLine, Straight, Due
<1>4. ASSUME ~askew
      PROVE  Straight /\ Range(shown') = Due(got \div 2)
  <2>1. /\ Straight
        /\ \/ Range(shown) = Due(got \div 2)
           \/ got > 0 /\ Range(shown) = Due((got \div 2) - 1)
    BY <1>4 DEF ShowInv
  <2>2. CASE got = 0
    <3>1. shown' = shown /\ got = 0
      BY <1>1, <2>1, <2>2, NoFlagOfZeros DEF Straight
    <3>2. QED
      BY <2>1, <3>1
  <2>3. CASE got > 0
    <3>1. PICK n \in Nat : got \div 2 = n /\ n > 0
      BY <2>1, <2>3, ShownTypes DEF Straight
    <3>2. msg1 = Whole(n) /\ Flag(msg1) = log[n]
      BY <2>1, <2>3, <3>1, FlagOfWhole DEF Straight
    <3>3. Due(n) = Due(n - 1) \cup (IF log[n] \in Printed THEN {Whole(n)} ELSE {})
      BY <3>1, DueGrows
    <3>4. Range(shown) = Due(n) \/ Range(shown) = Due(n - 1)
      BY <2>1, <3>1
    <3>5. CASE log[n] \in Printed
      <4>1. Range(shown') = Range(shown) \cup {msg1}
        <5>1. shown \in Seq([head : Half, tail : Half])
          BY DEF TypeInv, TypeOK
        <5>2. shown' = Append(shown, msg1)
          BY <1>1, <3>2, <3>5
        <5>3. /\ DOMAIN shown' = DOMAIN shown \cup {Len(shown) + 1}
              /\ \A k \in DOMAIN shown : shown'[k] = shown[k]
              /\ shown'[Len(shown) + 1] = msg1
          BY <5>1, <5>2
        <5>4. QED
          BY <5>3 DEF Range
      <4>2. QED
        BY <2>1, <3>1, <3>2, <3>3, <3>4, <3>5, <4>1
    <3>6. CASE log[n] \notin Printed
      BY <1>1, <2>1, <3>1, <3>2, <3>3, <3>4, <3>6
    <3>7. QED
      BY <3>5, <3>6
  <2>4. QED
    BY <2>2, <2>3, ShownTypes
<1>5. CASE shown' = shown
  BY <1>1, <1>3, <1>4, <1>5 DEF ShowInv
<1>6. CASE shown' = Append(shown, msg1) /\ Flag(msg1) \in Printed
  <2>1. IsHead(msg1.head)
    BY <1>6 DEF Flag, Printed
  <2>2. PICK n \in Nat : n = Len(shown)
    BY ShownTypes
  <2>3. /\ Len(shown') = n + 1 /\ shown'[n + 1] = msg1
        /\ \A k \in 1..n : shown'[k] = shown[k]
    <3>1. shown \in Seq([head : Half, tail : Half])
      BY DEF TypeInv, TypeOK
    <3>2. QED
      BY <1>6, <2>2, <3>1
  <2>4. n > 0 => \/ shown[n].head < msg1.head
                 \/ shown[n] = msg1 /\ DeadLine
    BY <1>1, <2>2, ShownTypes DEF ShowInv
  <2>5. \A k \in 1..n :
          \/ shown'[k].head < shown'[k + 1].head
          \/ k = n /\ shown'[k] = shown'[n + 1] /\ DeadLine
    <3>1. ASSUME NEW k \in 1..n, k # n
          PROVE  shown'[k].head < shown'[k + 1].head
      BY <1>2, <2>2, <2>3, <3>1
    <3>2. QED
      BY <2>3, <2>4, <3>1
  <2>6. \A k \in 1..(n + 1) :
          IsHead(shown'[k].head) /\ shown'[k].tail <= shown'[k].head + 1
    <3>1. ASSUME NEW k \in 1..n
          PROVE  IsHead(shown'[k].head) /\ shown'[k].tail <= shown'[k].head + 1
      BY <2>2, <2>3, <3>1 DEF ShowInv
    <3>2. msg1.tail <= msg1.head + 1
      BY DEF ShowInv
    <3>3. QED
      BY <2>1, <2>3, <3>1, <3>2
  <2>7. msg1.head <= got /\ msg1.tail <= msg1.head + 1 /\ msg1.head <= msg1.head
    <3>1. msg1.head \in Nat
      BY ShownTypes
    <3>2. QED
      BY <3>1 DEF ShowInv
  <2>8. (n + 1) - 1 = n /\ Len(shown') = n + 1
    BY <2>3
  <2>9. QED
    BY <1>1, <1>3, <1>4, <2>3, <2>5, <2>6, <2>7, <2>8 DEF ShowInv
<1>7. QED
  BY <1>1, <1>5, <1>6

LEMMA NextKeepsReading == TypeInv /\ ShowInv /\ [Next]_vars => ShowInv'
<1>1. ASSUME UNCHANGED vars, ShowInv
      PROVE  ShowInv'
  BY <1>1, SameReading DEF vars, receiverVars, kernelVars
<1>2. QED
  BY <1>1, MenuKeepsReading, SameReading, RecvKeepsReading, ShowKeepsReading,
     ServerKeepsReading DEF Next, Receiver

\* Everything with a text is printed once, in the order it was sent, although
\* one global holds every message and a reset prints the last one again; what a
\* short recv garbles is never shown out of order.
THEOREM MessagesAreShownInOrder == Spec => []ShownInOrder
<1>1. Init => ShowInv
  <2>1. ASSUME Init
        PROVE  Range(shown) = Due(0)
    BY <2>1 DEF Init, Range, Due
  <2>2. ASSUME Init
        PROVE  Straight /\ got \div 2 = 0 /\ Len(shown) = 0
    BY <2>2 DEF Init, Straight
  <2>3. ASSUME Init
        PROVE  msg1.head = 0 /\ msg1.tail = 0 /\ got = 0
    BY <2>3 DEF Init
  <2>4. QED
    BY <2>1, <2>2, <2>3 DEF ShowInv
<1>2. TypeInv /\ ShowInv => ShownInOrder
  <2> SUFFICES ASSUME TypeInv, ShowInv
               PROVE  ShownInOrder
    OBVIOUS
  <2>1. ASSUME NEW k \in 1..(Len(shown) - 1)
        PROVE  \/ shown[k].head < shown[k + 1].head
               \/ k = Len(shown) - 1 /\ PrintedAgain
    <3>1. Len(shown) \in Nat
      BY ShownTypes
    <3>2. CASE /\ k = Len(shown) - 1 /\ shown[k] = shown[Len(shown)]
               /\ conn = "broken"
      BY <3>1, <3>2 DEF PrintedAgain
    <3>3. QED
      BY <3>2 DEF ShowInv, DeadLine
  <2>2. \/ askew
        \/ Range(shown) = Due(got \div 2)
        \/ /\ rpc = "show" /\ got \div 2 > 0
           /\ Range(shown) = Due((got \div 2) - 1)
    <3>1. ~askew /\ got > 0 => got \div 2 > 0
      <4>1. got \in Nat
        BY ShownTypes
      <4>2. QED
        BY <4>1 DEF ShowInv, Straight
    <3>2. QED
      BY <3>1 DEF ShowInv
  <2>3. QED
    BY <2>1, <2>2 DEF ShowInv, ShownInOrder
<1>3. QED
  BY <1>1, <1>2, InitTypes, NextKeepsTypes, NextKeepsReading, PTL DEF Spec
=============================================================================
