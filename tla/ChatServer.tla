----------------------------- MODULE ChatServer -----------------------------
(***************************************************************************)
(* The switch of testServer.c's thread_handler over the database Users.db  *)
(* (StdSqlite.c): accounts, friends, notices and groups, worked on by      *)
(* several handlers at once. A step is one SQL statement or one send, or   *)
(* several of them when no other handler can tell the difference.          *)
(*                                                                         *)
(* Every person uses the account of that name. How a request reaches a     *)
(* handler is TcpServer's matter; here a handler takes one up at any time. *)
(***************************************************************************)
EXTENDS Naturals, FiniteSets, SequencesExt

CONSTANTS Account,
          Group,       \* group names; not numbers, see GroupAddInsert
          Worker,
          FD,          \* descriptor numbers, lowest free one first
          Ops,         \* the requests people make
          MaxRequests, \* bound: requests a person makes
          Known,       \* accounts registered in an earlier life of the server
          MayLeave,    \* whether people disconnect
          Overlap,     \* whether two requests of one connection may overlap
          TimesGrow,   \* whether the numbers for the time grow, see AddFriends
          MaxRestarts, \* bound: restarts after a crash
          Nameable,    \* names that can be the name of a table; a number cannot
          None

\* What the tables hold besides accounts: a row of table user, and a notice.
UserRow == [state : {"offline", "online"}, sock : FD \cup {0}]
Notice  == [id : Nat, read : BOOLEAN]

AllOps == {"REGISTRE", "LOGIN", "SEND_MESSAGE", "ADD_FRIENDS",
           "AGREE_FRIENDS_APPLY", "READ_ALL_INFO", "READ_GINGLE_INFO",
           "CREATE_GROUP", "GROUP_ADD", "GROUP_SEND_MESSAGE", "SEND_FILE",
           "RECV_FILE"}

ASSUME ChatServerAssumption ==
  /\ FD \subseteq Nat \ {0} /\ IsFiniteSet(FD) /\ IsFiniteSet(Account)
  /\ Cardinality(FD) >= Cardinality(Account)
  /\ Known \subseteq Account /\ Ops \subseteq AllOps
  /\ Nameable \subseteq Account \cup Group
  /\ MaxRequests \in Nat /\ MaxRestarts \in Nat
  /\ {MayLeave, Overlap, TimesGrow} \subseteq BOOLEAN

\* None is none of what stands in its place.
ASSUME NoneAssumption ==
  /\ None \notin Account /\ None \notin UserRow
  /\ \A S \in SUBSET Account : None # S
  /\ None \notin Seq(Notice)
  /\ None \notin [Group -> Nat]

VARIABLES
  \* Users.db; an absent row or table is None
  user,      \* table user: state and sock of each account
  friends,   \* table <account>: a set, the account is its primary key
  inform,    \* table <account>informlist: notices in the order of their times
  groups,    \* table <group>: the members, a set for the same reason
  myGroups,  \* table <account>Group: rows per group, it has no key
  \* the server
  conn,      \* the person behind each descriptor
  job,       \* the request each handler works on, with its locals
  alive, restarts,
  \* what people ask for and get
  asked,     \* requests each person has made
  notices,   \* notices stored so far; the number is their identity
  shown,     \* notices each person has been sent
  stray,     \* chat messages that reached another person
  welcomed   \* successful registrations answered, per account

dbVars   == <<user, friends, inform, groups, myGroups>>
seenVars == <<notices, shown, stray, welcomed>>
vars == <<dbVars, conn, job, alive, restarts, asked, seenVars>>

Idle == [op |-> "idle"]

Init ==
  /\ user = [a \in Account |->
       IF a \in Known THEN [state |-> "offline", sock |-> 0] ELSE None]
  /\ friends  = [a \in Account |-> IF a \in Known THEN {} ELSE None]
  /\ inform   = [a \in Account |-> IF a \in Known THEN <<>> ELSE None]
  /\ groups   = [g \in Group |-> None]
  /\ myGroups = [a \in Account |->
       IF a \in Known THEN [g \in Group |-> 0] ELSE None]
  /\ conn = [fd \in FD |-> None]
  /\ job = [w \in Worker |-> Idle]
  /\ alive = TRUE /\ restarts = 0
  /\ asked = [p \in Account |-> 0]
  /\ notices = 0
  /\ shown = [p \in Account |-> {}]
  /\ stray = {}
  /\ welcomed = [a \in Account |-> 0]
-----------------------------------------------------------------------------
(* Helpers *)

\* Operators named Faulty... are plausible bugs of the operator that follows
\* them. No specification uses them.

Receiver(fd) == IF fd \in FD THEN conn[fd] ELSE None

At(w, op, pc) == job[w].op = op /\ job[w].pc = pc

\* Request r, which came over fd, at place pc; val is the result of a select.
Task(r, fd, pc, val) ==
  [op |-> r.op, from |-> r.from, to |-> r.to, group |-> r.group,
   fd |-> fd, pc |-> pc, val |-> val]

GotoWith(w, pc, val) ==
  job' = [job EXCEPT ![w] = Task(job[w], job[w].fd, pc, val)]

Goto(w, pc) == GotoWith(w, pc, job[w].val)

Leave(w) == job' = [job EXCEPT ![w] = Idle]

\* The process dies of a bad pointer.
Crash ==
  /\ alive' = FALSE
  /\ UNCHANGED <<dbVars, conn, job, restarts, asked, seenVars>>

\* What every step of a handler leaves alone.
Steady == UNCHANGED <<conn, alive, restarts, asked>>

HasRow(a) == user[a] # None

\* StdSqlite.c puts the name of a table into the statement without quotes, and
\* prints an error without telling the caller. A table that exists is kept.
CreateTable(table, name, empty) ==
  IF table = None /\ name \in Nameable THEN empty ELSE table

\* select: the row, the list of rows or the set of members; None without them.
SelectInfo(table, name) == table[name]
GetTableInfo(table, name) ==
  IF table[name] = None THEN <<>> ELSE table[name]

\* update ... where: the rows that are there.
UpdateData(table, name, row) ==
  [table EXCEPT ![name] = IF @ = None THEN None ELSE row]

\* insert into a table with a primary key; it changes nothing when it fails.
InsertKey(table, a) == IF table = None THEN None ELSE table \cup {a}

\* insert into <account>Group, which takes any number of equal rows.
InsertRow(table, g) == IF table = None THEN None ELSE [table EXCEPT ![g] = @ + 1]

Unread(list) == {i \in DOMAIN list : ~list[i].read}

AsRead(notice) == [id |-> notice.id, read |-> TRUE]

\* A chat message for account a sent to descriptor fd.
Misses(a, fd) == {<<a, p>> : p \in {Receiver(fd)} \ {None, a}}
-----------------------------------------------------------------------------
(* People, and the loop of thread_handler *)

Connect(p) ==
  /\ alive
  /\ \A fd \in FD : conn[fd] # p
  /\ LET free == {fd \in FD : conn[fd] = None}
     IN  conn' = [conn EXCEPT ![Min(free)] = p]
  /\ UNCHANGED <<dbVars, job, alive, restarts, asked, seenVars>>

\* TcpServerRecv saw the end of the stream and closed the descriptor. Handlers
\* at work for that connection go on.
Disconnect(fd) ==
  /\ alive /\ MayLeave
  /\ conn[fd] # None
  /\ conn' = [conn EXCEPT ![fd] = None]
  /\ UNCHANGED <<dbVars, job, alive, restarts, asked, seenVars>>

\* The requests about the person toName (but SEND_FILE, which dies before it
\* looks at him). Nothing stops a person from naming himself.
Addressed == {"SEND_MESSAGE", "ADD_FRIENDS", "AGREE_FRIENDS_APPLY", "GROUP_ADD"}

Requests(p) ==
  {r \in [op : Ops, from : {p}, to : Account, group : Group] :
     r.op \notin Addressed => r.to = p}

\* Line 131: a message arrived on fd.
Begin(w) ==
  /\ alive
  /\ job[w] = Idle
  /\ \E fd \in FD :
       LET p == conn[fd]
       IN  /\ p # None
           /\ asked[p] < MaxRequests
           /\ ~Overlap =>
                \A v \in Worker : job[v] # Idle => job[v].fd # fd
           /\ \E r \in Requests(p) :
                job' = [job EXCEPT ![w] = Task(r, fd, "start", None)]
           /\ asked' = [asked EXCEPT ![p] = @ + 1]
  /\ UNCHANGED <<dbVars, conn, alive, restarts, seenVars>>

\* The process is started again on the same Users.db.
Restart ==
  /\ ~alive
  /\ restarts < MaxRestarts
  /\ alive' = TRUE /\ restarts' = restarts + 1
  /\ conn' = [fd \in FD |-> None]
  /\ job' = [w \in Worker |-> Idle]
  /\ UNCHANGED <<dbVars, asked, seenVars>>
-----------------------------------------------------------------------------
(* REGISTRE, lines 150-185 *)

\* Table user without its primary key.
FaultyRegisterInsert(w) ==
  /\ At(w, "REGISTRE", "start")
  /\ user' = [user EXCEPT ![job[w].from] = [state |-> "offline", sock |-> 0]]
  /\ Goto(w, "friends")
  /\ Steady /\ UNCHANGED <<friends, inform, groups, myGroups, seenVars>>

\* The primary key of table user decides who gets the account.
RegisterInsert(w) ==
  LET a == job[w].from
  IN  /\ At(w, "REGISTRE", "start")
      /\ IF HasRow(a)
         THEN Leave(w) /\ UNCHANGED user
         ELSE /\ user' = [user EXCEPT ![a] = [state |-> "offline", sock |-> 0]]
              /\ Goto(w, "friends")
      /\ Steady /\ UNCHANGED <<friends, inform, groups, myGroups, seenVars>>

\* Lines 164-179: create table if not exists, three times.
RegisterTables(w) ==
  LET a == job[w].from
  IN  /\ job[w].op = "REGISTRE"
      /\ \/ /\ job[w].pc = "friends"
            /\ friends' =
                 [friends EXCEPT ![a] = CreateTable(@, a, {})]
            /\ Goto(w, "groups")
            /\ UNCHANGED <<myGroups, inform>>
         \/ /\ job[w].pc = "groups"
            /\ myGroups' =
                 [myGroups EXCEPT ![a] =
                    CreateTable(@, a, [g \in Group |-> 0])]
            /\ Goto(w, "inform")
            /\ UNCHANGED <<friends, inform>>
         \/ /\ job[w].pc = "inform"
            /\ inform' = [inform EXCEPT ![a] = CreateTable(@, a, <<>>)]
            /\ Goto(w, "reply")
            /\ UNCHANGED <<friends, myGroups>>
      /\ Steady /\ UNCHANGED <<user, groups, seenVars>>

\* Lines 181-182.
RegisterReply(w) ==
  /\ At(w, "REGISTRE", "reply")
  /\ welcomed' = [welcomed EXCEPT ![job[w].from] = @ + 1]
  /\ Leave(w)
  /\ Steady /\ UNCHANGED <<dbVars, notices, shown, stray>>

Registre(w) == RegisterInsert(w) \/ RegisterTables(w) \/ RegisterReply(w)
-----------------------------------------------------------------------------
(* LOGIN, lines 186-217 *)

\* Lines 188-216: a wrong password or an unknown account is refused.
LoginCheck(w) ==
  /\ At(w, "LOGIN", "start")
  /\ \/ Leave(w)
     \/ HasRow(job[w].from) /\ Goto(w, "online")
  /\ Steady /\ UNCHANGED <<dbVars, seenVars>>

\* Line 206.
LoginOnline(w) ==
  /\ At(w, "LOGIN", "online")
  /\ LET a == job[w].from
     IN  user' = UpdateData(user, a, [user[a] EXCEPT !.state = "online"])
  /\ Goto(w, "sock")
  /\ Steady /\ UNCHANGED <<friends, inform, groups, myGroups, seenVars>>

\* The where clause of line 207 forgotten.
FaultyLoginSock(w) ==
  /\ At(w, "LOGIN", "sock")
  /\ user' = [a \in Account |->
       IF HasRow(a) THEN [user[a] EXCEPT !.sock = job[w].fd] ELSE None]
  /\ Leave(w)
  /\ Steady /\ UNCHANGED <<friends, inform, groups, myGroups, seenVars>>

\* Line 207.
LoginSock(w) ==
  /\ At(w, "LOGIN", "sock")
  /\ LET a == job[w].from
     IN  user' = UpdateData(user, a, [user[a] EXCEPT !.sock = job[w].fd])
  /\ Leave(w)
  /\ Steady /\ UNCHANGED <<friends, inform, groups, myGroups, seenVars>>

Login(w) == LoginCheck(w) \/ LoginOnline(w) \/ LoginSock(w)
-----------------------------------------------------------------------------
(* SEND_MESSAGE, lines 218-237 *)

\* Lines 222-226: result[2] and result[3] of an empty result are not there. The
\* server dies of them, or takes whatever it finds for a socket and a state.
SendLookUp(w) ==
  LET row == SelectInfo(user, job[w].to)
  IN  /\ At(w, "SEND_MESSAGE", "start")
      /\ \/ /\ row = None
            /\ Crash
         \/ /\ row = None
            /\ Leave(w) \/ \E fd \in FD \cup {0} : GotoWith(w, "send", fd)
            /\ Steady /\ UNCHANGED <<dbVars, seenVars>>
         \/ /\ row # None
            /\ IF row.state = "online"
               THEN GotoWith(w, "send", row.sock)
               ELSE Leave(w)        \* line 233, the sender is told
            /\ Steady /\ UNCHANGED <<dbVars, seenVars>>

\* Line 228.
SendDeliver(w) ==
  /\ At(w, "SEND_MESSAGE", "send")
  /\ stray' = stray \cup Misses(job[w].to, job[w].val)
  /\ Leave(w)
  /\ Steady /\ UNCHANGED <<dbVars, notices, shown, welcomed>>

SendMessage(w) == SendLookUp(w) \/ SendDeliver(w)
-----------------------------------------------------------------------------
(* ADD_FRIENDS, lines 238-265 *)

\* The statement of line 250 executed twice.
FaultyAddFriends(w) ==
  LET a == job[w].to
      e == [id |-> notices + 1, read |-> FALSE]
  IN  /\ At(w, "ADD_FRIENDS", "start")
      /\ IF inform[a] = None
         THEN UNCHANGED <<inform, notices>>
         ELSE /\ notices' = notices + 1
              /\ inform' = [inform EXCEPT ![a] = @ \o <<e, e>>]
      /\ Leave(w)
      /\ Steady
      /\ UNCHANGED <<user, friends, groups, myGroups, shown, stray, welcomed>>

\* The time of a notice is a number made of its fields without leading zeros
\* (line 245): 10:00:00 comes before 9:59:59, so a new notice may be sorted in
\* anywhere unless no field gains or loses a digit. A missing table is an error
\* that the sender is told of.
AddFriends(w) ==
  LET a == job[w].to
  IN  /\ At(w, "ADD_FRIENDS", "start")
      /\ IF inform[a] = None
         THEN UNCHANGED <<inform, notices>>
         ELSE LET last == Len(inform[a]) + 1
              IN  /\ notices' = notices + 1
                  /\ \E i \in IF TimesGrow THEN {last} ELSE 1..last :
                       inform' = [inform EXCEPT ![a] =
                         InsertAt(@, i, [id |-> notices', read |-> FALSE])]
      /\ Leave(w)
      /\ Steady
      /\ UNCHANGED <<user, friends, groups, myGroups, shown, stray, welcomed>>
-----------------------------------------------------------------------------
(* AGREE_FRIENDS_APPLY, lines 266-301 *)

\* Lines 270-283: the names of both are looked up before the first insert. The
\* name in an empty result (lines 274, 281) is a pointer nobody has set: the
\* server dies of it, or goes on with whatever is printed for it.
AgreeOwn(w) ==
  LET a == job[w].from
      b == job[w].to
  IN  /\ At(w, "AGREE_FRIENDS_APPLY", "start")
      /\ \/ (~HasRow(a) \/ ~HasRow(b)) /\ Crash
         \/ /\ friends' = [friends EXCEPT ![a] = InsertKey(@, b)]
            /\ Goto(w, "other")
            /\ Steady
            /\ UNCHANGED <<user, inform, groups, myGroups, seenVars>>

\* The first statement executed twice.
FaultyAgreeOther(w) ==
  LET a == job[w].from
      b == job[w].to
  IN  /\ At(w, "AGREE_FRIENDS_APPLY", "other")
      /\ friends' = [friends EXCEPT ![a] = InsertKey(@, b)]
      /\ Leave(w)
      /\ Steady /\ UNCHANGED <<user, inform, groups, myGroups, seenVars>>

\* Lines 284-298: an error is reported only when both inserts failed, which
\* is also what makes the handler return (line 291).
AgreeOther(w) ==
  LET a == job[w].from
      b == job[w].to
  IN  /\ At(w, "AGREE_FRIENDS_APPLY", "other")
      /\ friends' = [friends EXCEPT ![b] = InsertKey(@, a)]
      /\ Leave(w)
      /\ Steady /\ UNCHANGED <<user, inform, groups, myGroups, seenVars>>

AgreeFriendsApply(w) == AgreeOwn(w) \/ AgreeOther(w)
-----------------------------------------------------------------------------
(* READ_ALL_INFO and READ_GINGLE_INFO, lines 302-355 *)

\* Line 306: the rows to send; with none the answer is "empty".
ReadAllSelect(w) ==
  LET list == GetTableInfo(inform, job[w].from)
  IN  /\ At(w, "READ_ALL_INFO", "start")
      /\ IF list = <<>>
         THEN Leave(w)
         ELSE GotoWith(w, "send", {list[i].id : i \in DOMAIN list})
      /\ Steady /\ UNCHANGED <<dbVars, seenVars>>

Show(fd, ids) ==
  shown' = [p \in Account |->
              IF p = Receiver(fd) THEN shown[p] \cup ids ELSE shown[p]]

\* Lines 313-319.
ReadAllSend(w) ==
  /\ At(w, "READ_ALL_INFO", "send")
  /\ Show(job[w].fd, job[w].val)
  /\ Goto(w, "mark")
  /\ Steady /\ UNCHANGED <<dbVars, notices, stray, welcomed>>

\* Lines 321-330: whatever is unread now is marked as read.
ReadAllMark(w) ==
  LET a == job[w].from
  IN  /\ At(w, "READ_ALL_INFO", "mark")
      /\ inform' = UpdateData(inform, a,
           [i \in DOMAIN inform[a] |-> AsRead(inform[a][i])])
      /\ Leave(w)
      /\ Steady /\ UNCHANGED <<user, friends, groups, myGroups, seenVars>>

\* Lines 339-346.
ReadOneSelect(w) ==
  LET list == SelectInfo(inform, job[w].from)
  IN  /\ At(w, "READ_GINGLE_INFO", "start")
      /\ IF list = None THEN Leave(w)
         ELSE IF Unread(list) = {} THEN Leave(w)
         ELSE GotoWith(w, "send", list[Min(Unread(list))].id)
      /\ Steady /\ UNCHANGED <<dbVars, seenVars>>

\* Line 349.
ReadOneSend(w) ==
  /\ At(w, "READ_GINGLE_INFO", "send")
  /\ Show(job[w].fd, {job[w].val})
  /\ Goto(w, "mark")
  /\ Steady /\ UNCHANGED <<dbVars, notices, stray, welcomed>>

\* The newest unread notice is marked: desc where the select says asc.
FaultyReadOneMark(w) ==
  LET a == job[w].from
  IN  /\ At(w, "READ_GINGLE_INFO", "mark")
      /\ inform' = [inform EXCEPT ![a] =
           [i \in DOMAIN @ |->
              IF i \in Unread(@) /\ \A k \in Unread(@) : k <= i
              THEN AsRead(@[i]) ELSE @[i]]]
      /\ Leave(w)
      /\ Steady /\ UNCHANGED <<user, friends, groups, myGroups, seenVars>>

\* Line 353: mark the notice that is the oldest unread one now.
ReadOneMark(w) ==
  LET a == job[w].from
      list == inform[a]
  IN  /\ At(w, "READ_GINGLE_INFO", "mark")
      /\ inform' = UpdateData(inform, a,
           [i \in DOMAIN list |->
              IF i \in Unread(list) /\ i = Min(Unread(list))
              THEN AsRead(list[i]) ELSE list[i]])
      /\ Leave(w)
      /\ Steady /\ UNCHANGED <<user, friends, groups, myGroups, seenVars>>

ReadInfo(w) ==
  \/ ReadAllSelect(w) \/ ReadAllSend(w) \/ ReadAllMark(w)
  \/ ReadOneSelect(w) \/ ReadOneSend(w) \/ ReadOneMark(w)
-----------------------------------------------------------------------------
(* CREATE_GROUP, lines 356-386 *)

\* Line 361: if the group exists, it is kept.
CreateGroupTable(w) ==
  /\ At(w, "CREATE_GROUP", "start")
  /\ LET g == job[w].group
     IN  groups' = [groups EXCEPT ![g] = CreateTable(@, g, {})]
  /\ Goto(w, "member")
  /\ Steady /\ UNCHANGED <<user, friends, inform, myGroups, seenVars>>

\* Lines 363-368, with the name of line 366 as in AgreeOwn.
CreateGroupMember(w) ==
  LET a == job[w].from
      g == job[w].group
  IN  /\ At(w, "CREATE_GROUP", "member")
      /\ \/ ~HasRow(a) /\ Crash
         \/ /\ groups' = [groups EXCEPT ![g] = InsertKey(@, a)]
            /\ Goto(w, "list")
            /\ Steady
            /\ UNCHANGED <<user, friends, inform, myGroups, seenVars>>

\* Lines 369-383.
CreateGroupList(w) ==
  LET a == job[w].from
  IN  /\ At(w, "CREATE_GROUP", "list")
      /\ myGroups' = [myGroups EXCEPT ![a] = InsertRow(@, job[w].group)]
      /\ Leave(w)
      /\ Steady /\ UNCHANGED <<user, friends, inform, groups, seenVars>>

CreateGroup(w) ==
  CreateGroupTable(w) \/ CreateGroupMember(w) \/ CreateGroupList(w)
-----------------------------------------------------------------------------
(* GROUP_ADD, lines 387-425 *)

\* Lines 390-395, with the name of line 392 as in AgreeOwn. Line 393 lacks the
\* quotes around the group's name: unless it is a number, the insert of line 395
\* fails.
GroupAddInsert(w) ==
  LET a == job[w].to
      g == job[w].group
  IN  /\ At(w, "GROUP_ADD", "start")
      /\ \/ ~HasRow(a) /\ Crash
         \/ /\ groups' = [groups EXCEPT ![g] = InsertKey(@, a)]
            /\ Goto(w, "list")
            /\ Steady
            /\ UNCHANGED <<user, friends, inform, myGroups, seenVars>>

\* Only the insert of line 395, which fails.
FaultyGroupAddList(w) ==
  /\ At(w, "GROUP_ADD", "list")
  /\ Leave(w)
  /\ Steady /\ UNCHANGED <<dbVars, seenVars>>

\* Lines 408-424, whether or not the first insert worked.
GroupAddList(w) ==
  LET a == job[w].to
  IN  /\ At(w, "GROUP_ADD", "list")
      /\ myGroups' = [myGroups EXCEPT ![a] = InsertRow(@, job[w].group)]
      /\ Leave(w)
      /\ Steady /\ UNCHANGED <<user, friends, inform, groups, seenVars>>

GroupAdd(w) == GroupAddInsert(w) \/ GroupAddList(w)
-----------------------------------------------------------------------------
(* GROUP_SEND_MESSAGE, lines 426-447 *)

\* Lines 430-433: without a table the result is NULL, and with fewer than two
\* rows line 433 prints a pointer nobody has set, with any outcome.
GroupSendSelect(w) ==
  LET members == SelectInfo(groups, job[w].group)
      rows    == members \ {job[w].from}
  IN  /\ At(w, "GROUP_SEND_MESSAGE", "start")
      /\ \/ /\ members = None
            /\ Crash
         \/ /\ members # None
            /\ Cardinality(rows) < 2
            /\ Crash
         \/ /\ members # None
            /\ GotoWith(w, "send", rows)
            /\ Steady /\ UNCHANGED <<dbVars, seenVars>>

\* Lines 434-446: the state of the member is not looked at.
GroupSendDeliver(w) ==
  /\ At(w, "GROUP_SEND_MESSAGE", "send")
  /\ IF job[w].val = {}
     THEN Leave(w) /\ UNCHANGED stray
     ELSE \E a \in job[w].val :
            /\ HasRow(a)
            /\ stray' = stray \cup Misses(a, user[a].sock)
            /\ GotoWith(w, "send", job[w].val \ {a})
  /\ Steady /\ UNCHANGED <<dbVars, notices, shown, welcomed>>

\* Line 441 with an empty result, of a member without an account: result1[1] is
\* not there either.
GroupSendNobody(w) ==
  /\ At(w, "GROUP_SEND_MESSAGE", "send")
  /\ \E a \in job[w].val :
       /\ ~HasRow(a)
       /\ \/ Crash
          \/ \E fd \in FD \cup {0} :
               /\ stray' = stray \cup Misses(a, fd)
               /\ GotoWith(w, "send", job[w].val \ {a})
               /\ Steady /\ UNCHANGED <<dbVars, notices, shown, welcomed>>

GroupSendMessage(w) ==
  GroupSendSelect(w) \/ GroupSendDeliver(w) \/ GroupSendNobody(w)
-----------------------------------------------------------------------------
(* SEND_FILE and RECV_FILE, lines 448-502 *)

\* Line 455 takes the server for the database: SelectInfo follows a pointer
\* made of two descriptor numbers.
SendFile(w) == At(w, "SEND_FILE", "start") /\ Crash

\* What LoadFromFile returns: the text of the file, or NULL without one.
LoadFromFile == {"short", "long", None}

\* Line 496: strcpy follows the pointer, and a text of 100 bytes and more does
\* not fit into temp. Otherwise it is sent back.
RecvFile(w) ==
  /\ At(w, "RECV_FILE", "start")
  /\ \E text \in LoadFromFile :
       \/ text # "short" /\ Crash
       \/ text # None
          /\ Leave(w) /\ Steady /\ UNCHANGED <<dbVars, seenVars>>
-----------------------------------------------------------------------------
thread_handler(w) ==
  /\ alive
  /\ job[w] # Idle
  /\ \/ Registre(w) \/ Login(w) \/ SendMessage(w) \/ AddFriends(w)
     \/ AgreeFriendsApply(w) \/ ReadInfo(w) \/ CreateGroup(w) \/ GroupAdd(w)
     \/ GroupSendMessage(w) \/ SendFile(w) \/ RecvFile(w)

Next ==
  \/ \E p \in Account : Connect(p)
  \/ \E fd \in FD : Disconnect(fd)
  \/ \E w \in Worker : Begin(w) \/ thread_handler(w)
  \/ Restart

Spec == Init /\ [][Next]_vars
-----------------------------------------------------------------------------
(* Properties *)

\* Where in a request a handler can be.
Places == {"start", "friends", "groups", "inform", "reply", "online", "sock",
           "send", "other", "mark", "member", "list"}

\* The tables hold what their columns are for, and a notice is stored once.
TypeOK ==
  /\ user \in [Account -> UserRow \cup {None}]
  /\ friends \in [Account -> {None} \cup SUBSET Account]
  /\ inform \in [Account -> {None} \cup Seq([id : 1..notices, read : BOOLEAN])]
  /\ myGroups \in [Account -> {None} \cup [Group -> Nat]]
  /\ groups \in [Group -> {None} \cup SUBSET Account]
  /\ \A a \in Account :
       inform[a] # None =>
         \A i, k \in DOMAIN inform[a] :
           inform[a][i].id = inform[a][k].id => i = k
  /\ conn \in [FD -> Account \cup {None}]
  /\ DOMAIN job = Worker
  /\ \A w \in Worker :
       job[w] # Idle =>
         job[w] \in [op : Ops, from : Account, to : Account, group : Group,
                     fd : FD, pc : Places, val : {job[w].val}]
  /\ alive \in BOOLEAN /\ restarts \in 0..MaxRestarts
  /\ asked \in [Account -> 0..MaxRequests]
  /\ notices \in Nat
  /\ shown \in [Account -> SUBSET (1..notices)]
  /\ stray \subseteq Account \X Account
  /\ welcomed \in [Account -> Nat]

InProgress(ops) == \E w \in Worker : job[w].op \in ops

\* Friendship is mutual once nobody is in the middle of accepting, also when
\* two people accept each other at the same time and each finds half of the
\* rows already there (lines 283-298).
FriendshipMutual ==
  ~InProgress({"AGREE_FRIENDS_APPLY"}) /\ alive /\ restarts = 0 =>
    \A a, b \in Account :
      friends[a] # None /\ friends[b] # None =>
        (b \in friends[a] <=> a \in friends[b])

\* Who is in a group finds it in the list of his groups, although the first of
\* the two inserts into that list never works (lines 393-395, 408).
MembersKnowTheirGroups ==
  ~InProgress({"CREATE_GROUP", "GROUP_ADD"}) /\ alive /\ restarts = 0 =>
    \A g \in Group : groups[g] # None =>
      \A a \in groups[g] : myGroups[a][g] > 0

\* A notice is marked as read only after it was sent to its addressee, while
\* others go on adding notices ("read all notices", "read the notices one by
\* one", lines 42-43, 302-355). Module ChatHistory says when the code keeps it.
ReadMeansShown ==
  \A a \in Account : inform[a] # None =>
    \A i \in DOMAIN inform[a] :
      inform[a][i].read => inform[a][i].id \in shown[a]

\* An account is given away once, and who is told so can use it: all its
\* tables are there (lines 150-185), as far as its name can be that of a table.
RegisteredOnce ==
  \A a \in Account :
    /\ welcomed[a] <= 1
    /\ welcomed[a] = 1 /\ a \in Nameable =>
         /\ HasRow(a) /\ friends[a] # None
         /\ inform[a] # None /\ myGroups[a] # None
=============================================================================
