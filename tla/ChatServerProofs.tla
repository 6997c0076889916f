-------------------------- MODULE ChatServerProofs --------------------------
(***************************************************************************)
(* Proofs about ChatServer, for any number of people, groups, handlers and *)
(* descriptors.                                                            *)
(***************************************************************************)
EXTENDS ChatHistory, CommonLemmas, TLAPS, FiniteSetTheorems, SequenceTheorems

-----------------------------------------------------------------------------
(* Lists of notices                                                        *)

NoticeOf(n) == [id : 1..n, read : BOOLEAN]

\* No notice is in the list twice.
Distinct(list) ==
  \A i, k \in DOMAIN list : list[i].id = list[k].id => i = k

\* A new notice may be sorted in anywhere.
LEMMA NoticeSortedIn ==
  ASSUME NEW n \in Nat, NEW list \in Seq(NoticeOf(n)), Distinct(list),
         NEW i \in 1..(Len(list) + 1)
  PROVE  LET new == InsertAt(list, i, [id |-> n + 1, read |-> FALSE]) IN
         new \in Seq(NoticeOf(n + 1)) /\ Distinct(new)
<1> DEFINE e == [id |-> n + 1, read |-> FALSE]
           new == InsertAt(list, i, e)
<1>1. NoticeOf(n) \subseteq NoticeOf(n + 1) /\ e \in NoticeOf(n + 1)
  BY DEF NoticeOf
<1>2. list \in Seq(NoticeOf(n + 1))
  BY <1>1, SeqMonotonic, Zenon
<1> HIDE DEF e
<1>3. /\ new \in Seq(NoticeOf(n + 1)) /\ Len(new) = Len(list) + 1
      /\ \A k \in 1..(i - 1) : new[k] = list[k]
      /\ new[i] = e
      /\ \A k \in (i + 1)..(Len(list) + 1) : new[k] = list[k - 1]
  <2>1. /\ InsertAt(list, i, e) \in Seq(NoticeOf(n + 1))
        /\ Inserts(InsertAt(list, i, e), list, i, e)
    BY <1>1, <1>2, InsertAtProperties
  <2>2. QED
    BY <2>1 DEF Inserts
<1> HIDE DEF new
<1>4. /\ Len(list) \in Nat /\ DOMAIN list = 1..Len(list)
      /\ DOMAIN new = 1..(Len(list) + 1)
  BY <1>3, LenProperties
<1>5. \A k \in 1..Len(list) : list[k].id \in 1..n
  <2>1. \A k \in 1..Len(list) : list[k] \in NoticeOf(n)
    BY ElementOfSeq
  <2>2. QED
    BY <2>1 DEF NoticeOf
<1>6. \A k \in 1..(Len(list) + 1) : k < i \/ k = i \/ k > i
  BY <1>4
<1>7. ASSUME NEW k \in 1..(Len(list) + 1)
      PROVE  /\ k < i => k \in 1..Len(list) /\ new[k] = list[k]
             /\ k > i => k - 1 \in 1..Len(list) /\ new[k] = list[k - 1]
  <2>1. k < i => k \in 1..(i - 1) /\ k \in 1..Len(list)
    BY <1>4
  <2>2. k > i => k \in (i + 1)..(Len(list) + 1) /\ k - 1 \in 1..Len(list)
    BY <1>4
  <2>3. QED
    BY <1>3, <2>1, <2>2
<1>8. new[i].id = n + 1
  BY <1>3 DEF e
<1>9. ASSUME NEW j \in 1..(Len(list) + 1), NEW k \in 1..(Len(list) + 1),
             j < k
      PROVE  new[j].id # new[k].id
  <2>1. CASE j = i
    BY <1>4, <1>5, <1>7, <1>8, <1>9, <2>1
  <2>2. CASE k = i
    BY <1>4, <1>5, <1>7, <1>8, <1>9, <2>2
  <2>3. CASE j < i /\ k < i
    BY <1>4, <1>7, <1>9, <2>3 DEF Distinct
  <2>4. CASE j < i /\ k > i
    <3>1. k - 1 # j
      BY <1>4, <2>4
    <3>2. j \in 1..Len(list) /\ new[j] = list[j]
      BY <1>7, <2>4
    <3>3. k - 1 \in 1..Len(list) /\ new[k] = list[k - 1]
      BY <1>7, <2>4
    <3>4. QED
      BY <1>4, <3>1, <3>2, <3>3 DEF Distinct
  <2>5. CASE j > i /\ k > i
    <3>1. k - 1 # j - 1
      BY <1>4, <1>9, <2>5
    <3>2. j - 1 \in 1..Len(list) /\ new[j] = list[j - 1]
      BY <1>7, <2>5
    <3>3. k - 1 \in 1..Len(list) /\ new[k] = list[k - 1]
      BY <1>7, <2>5
    <3>4. QED
      BY <1>4, <3>1, <3>2, <3>3 DEF Distinct
  <2>6. QED
    BY <1>4, <1>6, <1>9, <2>1, <2>2, <2>3, <2>4, <2>5
<1>10. Distinct(new)
  BY <1>4, <1>9 DEF Distinct
<1>11. QED
  BY <1>3, <1>10 DEF e, new

\* Marking notices keeps them where they are.
LEMMA NoticesMarked ==
  ASSUME NEW n \in Nat, NEW list \in Seq(NoticeOf(n)), NEW new,
         new = [i \in DOMAIN list |-> new[i]],
         \A i \in DOMAIN list :
           new[i] = list[i] \/ new[i] = AsRead(list[i])
  PROVE  /\ new \in Seq(NoticeOf(n)) /\ DOMAIN new = DOMAIN list
         /\ \A i \in DOMAIN list : new[i].id = list[i].id
         /\ Distinct(list) => Distinct(new)
<1>1. Len(list) \in Nat /\ DOMAIN list = 1..Len(list)
  BY LenProperties
<1>2. ASSUME NEW i \in 1..Len(list)
      PROVE  new[i] \in NoticeOf(n) /\ new[i].id = list[i].id
  <2>1. list[i] \in NoticeOf(n)
    BY ElementOfSeq
  <2>2. CASE new[i] = list[i]
    BY <2>1, <2>2
  <2>3. CASE new[i] = AsRead(list[i])
    <3>1. list[i].id \in 1..n
      BY <2>1 DEF NoticeOf
    <3>2. new[i].id = list[i].id
      BY <2>3 DEF AsRead
    <3>3. AsRead(list[i]) \in NoticeOf(n)
      <4>1. \A k \in 1..n : [id |-> k, read |-> TRUE] \in [id : 1..n, read : BOOLEAN]
        OBVIOUS
      <4>2. QED
        BY <3>1, <4>1 DEF AsRead, NoticeOf
    <3>4. QED
      BY <2>3, <3>2, <3>3
  <2>4. QED
    BY <1>1, <2>2, <2>3
<1>3. new \in [1..Len(list) -> NoticeOf(n)]
  BY <1>1, <1>2
<1>4. new \in Seq(NoticeOf(n))
  BY <1>1, <1>3, SeqDef
<1>5. DOMAIN new = DOMAIN list
  BY <1>1, <1>3
<1>6. QED
  BY <1>1, <1>2, <1>4, <1>5 DEF Distinct
-----------------------------------------------------------------------------
(* Types                                                                   *)

TableTypes ==
  /\ user \in [Account -> UserRow \cup {None}]
  /\ friends \in [Account -> {None} \cup SUBSET Account]
  /\ inform \in [Account -> {None} \cup Seq(NoticeOf(notices))]
  /\ myGroups \in [Account -> {None} \cup [Group -> Nat]]
  /\ groups \in [Group -> {None} \cup SUBSET Account]
  /\ \A a \in Account : inform[a] # None => Distinct(inform[a])

JobType(j) ==
  j \in [op : Ops, from : Account, to : Account, group : Group, fd : FD,
         pc : Places, val : {j.val}]

JobTypes ==
  /\ DOMAIN job = Worker
  /\ \A w \in Worker : job[w] # Idle => JobType(job[w])

SeenTypes ==
  /\ notices \in Nat
  /\ shown \in [Account -> SUBSET (1..notices)]
  /\ stray \subseteq Account \X Account
  /\ welcomed \in [Account -> Nat]

RestTypes ==
  /\ conn \in [FD -> Account \cup {None}]
  /\ alive \in BOOLEAN /\ restarts \in 0..MaxRestarts
  /\ asked \in [Account -> 0..MaxRequests]

LEMMA TypeParts ==
  /\ TypeOK <=> TableTypes /\ JobTypes /\ SeenTypes /\ RestTypes
  /\ TypeOK' <=> TableTypes' /\ JobTypes' /\ SeenTypes' /\ RestTypes'
BY DEF TypeOK, TableTypes, JobTypes, JobType, SeenTypes, RestTypes, NoticeOf,
       Distinct

\* A person has one connection at most.
OneConnection ==
  \A d, e \in FD : conn[d] = conn[e] /\ conn[d] # None => d = e

\* What a handler takes along from one step to the next.
Carried(j, n) ==
  j.pc = "send" =>
    /\ j.op = "READ_ALL_INFO" => j.val \subseteq 1..n
    /\ j.op = "READ_GINGLE_INFO" => j.val \in 1..n
    /\ j.op = "GROUP_SEND_MESSAGE" => j.val \subseteq Account

JobsCarry == \A w \in Worker : job[w] # Idle => Carried(job[w], notices)

\* The inductive invariant behind TypeOK.
TypeInv == TypeOK /\ OneConnection /\ JobsCarry

-----------------------------------------------------------------------------
(* Steps of a handler                                                      *)

LEMMA TaskType ==
  ASSUME JobTypes, NEW w \in Worker, job[w] # Idle
  PROVE  /\ job[w].op \in Ops /\ job[w].from \in Account
         /\ job[w].to \in Account /\ job[w].group \in Group
         /\ job[w].fd \in FD /\ job[w].pc \in Places
BY DEF JobTypes, JobType

LEMMA TaskPeople ==
  ASSUME TypeInv, NEW w \in Worker, job[w] # Idle
  PROVE  job[w].from \in Account /\ job[w].to \in Account
<1>1. JobTypes
  BY TypeParts DEF TypeInv
<1>2. QED
  BY <1>1, TaskType

LEMMA TaskFields ==
  ASSUME NEW r, NEW fd, NEW pc, NEW val
  PROVE  LET j == Task(r, fd, pc, val) IN
         /\ j.op = r.op /\ j.from = r.from /\ j.to = r.to
         /\ j.group = r.group /\ j.fd = fd /\ j.pc = pc /\ j.val = val
BY DEF Task

\* Goto and GotoWith move on the one request.
LEMMA GotoWithKeeps ==
  ASSUME JobTypes, JobsCarry, NEW w \in Worker, job[w] # Idle,
         NEW pc \in Places, NEW val, GotoWith(w, pc, val),
         notices \in Nat, notices' = notices,
         Carried(Task(job[w], job[w].fd, pc, val), notices)
  PROVE  JobTypes' /\ JobsCarry'
<1> DEFINE j == Task(job[w], job[w].fd, pc, val)
<1>1. job' = [v \in Worker |-> IF v = w THEN j ELSE job[v]]
  BY DEF GotoWith, JobTypes
<1>2. JobType(j)
  BY TaskType DEF JobType, Task
<1> HIDE DEF j
<1>3. JobTypes'
  BY <1>1, <1>2 DEF JobTypes, JobType
<1>4. JobsCarry'
  BY <1>1 DEF JobsCarry, Carried, j
<1>5. QED
  BY <1>3, <1>4

LEMMA GotoKeeps ==
  ASSUME JobTypes, JobsCarry, NEW w \in Worker, job[w] # Idle,
         NEW pc \in Places, pc # "send", Goto(w, pc),
         notices \in Nat, notices' = notices
  PROVE  JobTypes' /\ JobsCarry'
<1>1. Carried(Task(job[w], job[w].fd, pc, job[w].val), notices)
  BY TaskFields DEF JobsCarry, Carried
<1>2. QED
  BY <1>1, GotoWithKeeps DEF Goto

LEMMA LeaveKeeps ==
  ASSUME JobTypes, JobsCarry, NEW w \in Worker, Leave(w),
         notices \in Nat, notices' = notices \/ notices' = notices + 1
  PROVE  JobTypes' /\ JobsCarry'
<1>1. job' = [v \in Worker |-> IF v = w THEN Idle ELSE job[v]]
  BY DEF Leave, JobTypes
<1>2. JobTypes'
  BY <1>1 DEF JobTypes, JobType
<1>3. JobsCarry'
  <2>1. 1..notices \subseteq 1..notices'
    OBVIOUS
  <2>2. QED
    BY <1>1, <2>1 DEF JobsCarry, Carried
<1>4. QED
  BY <1>2, <1>3

\* What a step leaves alone keeps its type.
LEMMA SteadyKeeps ==
  ASSUME RestTypes, Steady
  PROVE  RestTypes'
BY DEF RestTypes, Steady

LEMMA SeenKept ==
  ASSUME SeenTypes, UNCHANGED seenVars
  PROVE  SeenTypes'
BY DEF SeenTypes, seenVars

LEMMA TablesKept ==
  ASSUME TableTypes, UNCHANGED dbVars, notices' = notices
  PROVE  TableTypes'
BY DEF TableTypes, dbVars, Distinct

\* The types of the tables after a step that changes one of them.
LEMMA UserSet ==
  ASSUME TableTypes, UNCHANGED <<friends, inform, groups, myGroups, notices>>,
         NEW a \in Account, NEW row \in UserRow \cup {None},
         user' = [user EXCEPT ![a] = row]
  PROVE  TableTypes'
BY DEF TableTypes, Distinct

LEMMA FriendsSet ==
  ASSUME TableTypes, UNCHANGED <<user, inform, groups, myGroups, notices>>,
         NEW a \in Account, NEW row,
         row = None \/ row \in SUBSET Account,
         friends' = [friends EXCEPT ![a] = row]
  PROVE  TableTypes'
<1>1. row \in {None} \cup SUBSET Account
  OBVIOUS
<1>2. QED
  BY <1>1 DEF TableTypes, Distinct

LEMMA InformSet ==
  ASSUME TableTypes, UNCHANGED <<user, friends, groups, myGroups, notices>>,
         NEW a \in Account, NEW row,
         row = None \/ (row \in Seq(NoticeOf(notices)) /\ Distinct(row)),
         inform' = [inform EXCEPT ![a] = row]
  PROVE  TableTypes'
BY DEF TableTypes, Distinct

LEMMA GroupsSet ==
  ASSUME TableTypes, UNCHANGED <<user, friends, inform, myGroups, notices>>,
         NEW g \in Group, NEW row \in {None} \cup SUBSET Account,
         groups' = [groups EXCEPT ![g] = row]
  PROVE  TableTypes'
BY DEF TableTypes, Distinct

LEMMA MyGroupsSet ==
  ASSUME TableTypes, UNCHANGED <<user, friends, inform, groups, notices>>,
         NEW a \in Account, NEW row \in {None} \cup [Group -> Nat],
         myGroups' = [myGroups EXCEPT ![a] = row]
  PROVE  TableTypes'
BY DEF TableTypes, Distinct

LEMMA CrashKeeps ==
  ASSUME TypeInv, Crash
  PROVE  TypeInv'
<1>1. RestTypes'
  BY TypeParts DEF TypeInv, Crash, RestTypes
<1>2. JobTypes' /\ JobsCarry' /\ OneConnection'
  BY TypeParts DEF TypeInv, Crash, JobTypes, JobsCarry, OneConnection, seenVars
<1>3. TableTypes' /\ SeenTypes'
  BY TypeParts, TablesKept, SeenKept DEF TypeInv, Crash, seenVars
<1>4. QED
  BY <1>1, <1>2, <1>3, TypeParts DEF TypeInv

LEMMA RegistreKeeps ==
  ASSUME TypeInv, NEW w \in Worker, job[w] # Idle, Registre(w)
  PROVE  TypeInv'
<1> DEFINE a == job[w].from
<1>1. TableTypes /\ JobTypes /\ SeenTypes /\ RestTypes /\ JobsCarry
  BY TypeParts DEF TypeInv
<1>2. a \in Account /\ notices \in Nat
  BY <1>1, TaskType DEF SeenTypes
<1>3. Steady /\ notices' = notices
  BY DEF Registre, RegisterInsert, RegisterTables, RegisterReply, seenVars
<1>4. JobTypes' /\ JobsCarry'
  <2>1. \/ \E pc \in {"friends", "groups", "inform", "reply"} : Goto(w, pc)
        \/ Leave(w)
    BY DEF Registre, RegisterInsert, RegisterTables, RegisterReply
  <2>2. ASSUME NEW pc \in {"friends", "groups", "inform", "reply"}, Goto(w, pc)
        PROVE  JobTypes' /\ JobsCarry'
    <3>1. pc \in Places /\ pc # "send"
      BY DEF Places
    <3>2. QED
      BY <1>1, <1>2, <1>3, <2>2, <3>1, GotoKeeps
  <2>3. QED
    BY <1>1, <1>2, <1>3, <2>1, <2>2, LeaveKeeps
<1>5. TableTypes' /\ SeenTypes'
  <2>1. CASE RegisterInsert(w)
    <3>1. CASE UNCHANGED user
      BY <1>1, <1>3, <2>1, <3>1, TablesKept, SeenKept DEF RegisterInsert, dbVars
    <3>2. CASE user' = [user EXCEPT ![a] = [state |-> "offline", sock |-> 0]]
      <4>1. [state |-> "offline", sock |-> 0] \in UserRow
        BY DEF UserRow
      <4>2. QED
        BY <1>1, <1>2, <1>3, <2>1, <3>2, <4>1, UserSet, SeenKept
           DEF RegisterInsert
    <3>3. QED
      BY <2>1, <3>1, <3>2 DEF RegisterInsert
  <2>2. CASE RegisterTables(w)
    <3>1. CASE /\ friends' = [friends EXCEPT ![a] = CreateTable(@, a, {})]
               /\ UNCHANGED <<myGroups, inform>>
      <4>1. friends' = [friends EXCEPT ![a] = CreateTable(friends[a], a, {})]
        BY <3>1
      <4>2. \/ CreateTable(friends[a], a, {}) = None
            \/ CreateTable(friends[a], a, {}) \in SUBSET Account
        BY <1>1, <1>2 DEF CreateTable, TableTypes
      <4>3. QED
        BY <1>1, <1>2, <1>3, <2>2, <3>1, <4>1, <4>2, FriendsSet, SeenKept
           DEF RegisterTables
    <3>2. CASE /\ myGroups' = [myGroups EXCEPT ![a] =
                                 CreateTable(@, a, [g \in Group |-> 0])]
               /\ UNCHANGED <<friends, inform>>
      <4>1. myGroups' = [myGroups EXCEPT ![a] =
                           CreateTable(myGroups[a], a, [g \in Group |-> 0])]
        BY <3>2
      <4>2. CreateTable(myGroups[a], a, [g \in Group |-> 0])
              \in {None} \cup [Group -> Nat]
        BY <1>1, <1>2 DEF CreateTable, TableTypes
      <4>3. QED
        BY <1>1, <1>2, <1>3, <2>2, <3>2, <4>1, <4>2, MyGroupsSet, SeenKept
           DEF RegisterTables
    <3>3. CASE /\ inform' = [inform EXCEPT ![a] = CreateTable(@, a, <<>>)]
               /\ UNCHANGED <<friends, myGroups>>
      <4>1. inform' = [inform EXCEPT ![a] = CreateTable(inform[a], a, <<>>)]
        BY <3>3
      <4>2. <<>> \in Seq(NoticeOf(notices)) /\ Distinct(<<>>)
        BY EmptySeq DEF Distinct
      <4>3. \/ CreateTable(inform[a], a, <<>>) = None
            \/ /\ CreateTable(inform[a], a, <<>>) \in Seq(NoticeOf(notices))
               /\ Distinct(CreateTable(inform[a], a, <<>>))
        BY <1>1, <1>2, <4>2 DEF CreateTable, TableTypes
      <4>4. QED
        BY <1>1, <1>2, <1>3, <2>2, <3>3, <4>1, <4>3, InformSet, SeenKept
           DEF RegisterTables
    <3>4. QED
      BY <2>2, <3>1, <3>2, <3>3 DEF RegisterTables
  <2>3. CASE RegisterReply(w)
    <3>1. TableTypes'
      BY <1>1, <1>3, <2>3, TablesKept DEF RegisterReply
    <3>2. SeenTypes'
      BY <1>1, <1>2, <2>3 DEF RegisterReply, SeenTypes
    <3>3. QED
      BY <3>1, <3>2
  <2>4. QED
    BY <2>1, <2>2, <2>3 DEF Registre
<1>6. RestTypes' /\ OneConnection'
  BY <1>1, <1>3, SteadyKeeps DEF TypeInv, OneConnection, Steady
<1>7. QED
  BY <1>4, <1>5, <1>6, TypeParts DEF TypeInv

LEMMA LoginKeeps ==
  ASSUME TypeInv, NEW w \in Worker, job[w] # Idle, Login(w)
  PROVE  TypeInv'
<1> DEFINE a == job[w].from
<1>1. TableTypes /\ JobTypes /\ SeenTypes /\ RestTypes /\ JobsCarry
  BY TypeParts DEF TypeInv
<1>2. a \in Account /\ notices \in Nat
  BY <1>1, TaskType DEF SeenTypes
<1>3. Steady /\ notices' = notices /\ UNCHANGED seenVars
  BY DEF Login, LoginCheck, LoginOnline, LoginSock, seenVars
<1>4. JobTypes' /\ JobsCarry'
  <2>1. Leave(w) \/ Goto(w, "online") \/ Goto(w, "sock")
    BY DEF Login, LoginCheck, LoginOnline, LoginSock
  <2>2. {"online", "sock"} \subseteq Places
    BY DEF Places
  <2>3. QED
    BY <1>1, <1>2, <1>3, <2>1, <2>2, GotoKeeps, LeaveKeeps
<1>5. TableTypes'
  <2>1. CASE LoginCheck(w)
    BY <1>1, <1>3, <2>1, TablesKept DEF LoginCheck
  <2>2. CASE LoginOnline(w) \/ LoginSock(w)
    <3>1. PICK row :
            /\ user' = UpdateData(user, a, row)
            /\ \/ row = [user[a] EXCEPT !.state = "online"]
               \/ row = [user[a] EXCEPT !.sock = job[w].fd]
      BY <2>2 DEF LoginOnline, LoginSock
    <3>2. HasRow(a) => row \in UserRow
      <4>1. HasRow(a) => user[a] \in UserRow
        BY <1>1, <1>2 DEF HasRow, TableTypes
      <4>2. job[w].fd \in FD
        BY <1>1, TaskType
      <4>3. QED
        BY <3>1, <4>1, <4>2 DEF UserRow
    <3>3. user' = [user EXCEPT ![a] = IF user[a] = None THEN None ELSE row]
      BY <3>1 DEF UpdateData
    <3>4. (IF user[a] = None THEN None ELSE row) \in UserRow \cup {None}
      BY <3>2 DEF HasRow
    <3>5. UNCHANGED <<friends, inform, groups, myGroups, notices>>
      BY <2>2 DEF LoginOnline, LoginSock, seenVars
    <3>6. QED
      BY <1>1, <1>2, <3>3, <3>4, <3>5, UserSet
  <2>3. QED
    BY <2>1, <2>2 DEF Login
<1>6. SeenTypes' /\ RestTypes' /\ OneConnection'
  BY <1>1, <1>3, SteadyKeeps, SeenKept DEF TypeInv, OneConnection, Steady
<1>7. QED
  BY <1>4, <1>5, <1>6, TypeParts DEF TypeInv

\* Whom a message reaches is a person.
LEMMA MissesPersons ==
  ASSUME RestTypes, NEW a \in Account, NEW fd
  PROVE  Misses(a, fd) \subseteq Account \X Account
BY DEF RestTypes, Misses, Receiver

LEMMA SendMessageKeeps ==
  ASSUME TypeInv, NEW w \in Worker, job[w] # Idle, SendMessage(w)
  PROVE  TypeInv'
<1>1. TableTypes /\ JobTypes /\ SeenTypes /\ RestTypes /\ JobsCarry
  BY TypeParts DEF TypeInv
<1>2. job[w].to \in Account /\ notices \in Nat
  BY <1>1, TaskType DEF SeenTypes
<1>3. ASSUME ~Crash
      PROVE  TypeInv'
  <2>1. /\ Steady /\ notices' = notices /\ UNCHANGED dbVars
        /\ job[w].op = "SEND_MESSAGE"
    BY <1>3 DEF SendMessage, SendLookUp, SendDeliver, seenVars, At
  <2>2. JobTypes' /\ JobsCarry'
    <3>1. CASE Leave(w)
      BY <1>1, <1>2, <2>1, <3>1, LeaveKeeps
    <3>2. ASSUME NEW val, GotoWith(w, "send", val)
          PROVE  JobTypes' /\ JobsCarry'
      <4>1. Carried(Task(job[w], job[w].fd, "send", val), notices)
        BY <2>1, TaskFields DEF JobsCarry, Carried, TypeInv
      <4>2. "send" \in Places
        BY DEF Places
      <4>3. QED
        BY <1>1, <1>2, <2>1, <3>2, <4>1, <4>2, GotoWithKeeps
    <3>3. QED
      BY <1>3, <3>1, <3>2 DEF SendMessage, SendLookUp, SendDeliver
  <2>3. SeenTypes'
    <3>1. stray' = stray \/ stray' = stray \cup Misses(job[w].to, job[w].val)
      BY <1>3 DEF SendMessage, SendLookUp, SendDeliver, seenVars
    <3>2. stray' \subseteq Account \X Account
      BY <1>1, <1>2, <3>1, MissesPersons DEF SeenTypes
    <3>3. UNCHANGED <<notices, shown, welcomed>>
      BY <1>3 DEF SendMessage, SendLookUp, SendDeliver, seenVars
    <3>4. QED
      BY <1>1, <3>2, <3>3 DEF SeenTypes
  <2>4. TableTypes' /\ RestTypes' /\ OneConnection'
    BY <1>1, <2>1, SteadyKeeps, TablesKept DEF TypeInv, OneConnection, Steady
  <2>5. QED
    BY <2>2, <2>3, <2>4, TypeParts DEF TypeInv
<1>4. QED
  BY <1>3, CrashKeeps

LEMMA AddFriendsKeeps ==
  ASSUME TypeInv, NEW w \in Worker, job[w] # Idle, AddFriends(w)
  PROVE  TypeInv'
<1> DEFINE a == job[w].to
<1>1. TableTypes /\ JobTypes /\ SeenTypes /\ RestTypes /\ JobsCarry
  BY TypeParts DEF TypeInv
<1>2. a \in Account /\ notices \in Nat
  BY <1>1, TaskType DEF SeenTypes
<1>3. /\ Steady /\ Leave(w)
      /\ UNCHANGED <<user, friends, groups, myGroups, shown, stray, welcomed>>
  BY DEF AddFriends
<1>4. CASE UNCHANGED <<inform, notices>>
  BY <1>1, <1>2, <1>3, <1>4, LeaveKeeps, SteadyKeeps, TablesKept, SeenKept,
     TypeParts DEF TypeInv, OneConnection, Steady, dbVars, seenVars
<1>5. CASE inform[a] # None
  <2>1. PICK i \in 1..(Len(inform[a]) + 1) :
          inform' = [inform EXCEPT ![a] =
            InsertAt(@, i, [id |-> notices', read |-> FALSE])]
    <3>1. PICK i \in IF TimesGrow THEN {Len(inform[a]) + 1}
                                  ELSE 1..(Len(inform[a]) + 1) :
            inform' = [inform EXCEPT ![a] =
              InsertAt(@, i, [id |-> notices', read |-> FALSE])]
      BY <1>5 DEF AddFriends
    <3>2. Len(inform[a]) \in Nat
      BY <1>1, <1>2, <1>5, LenProperties DEF TableTypes
    <3>3. i \in 1..(Len(inform[a]) + 1)
      BY <3>2
    <3>4. QED
      BY <3>1, <3>3
  <2>2. notices' = notices + 1 /\ notices' \in Nat
    BY <1>2, <1>5 DEF AddFriends
  <2>3. inform[a] \in Seq(NoticeOf(notices)) /\ Distinct(inform[a])
    BY <1>1, <1>2, <1>5 DEF TableTypes
  <2>4. PICK new :
          /\ inform' = [inform EXCEPT ![a] = new]
          /\ new \in Seq(NoticeOf(notices')) /\ Distinct(new)
    BY <1>2, <2>1, <2>2, <2>3, NoticeSortedIn
  <2>5. \A b \in Account : inform[b] # None => inform[b] \in Seq(NoticeOf(notices'))
    <3>1. NoticeOf(notices) \subseteq NoticeOf(notices')
      BY <1>2, <2>2 DEF NoticeOf
    <3>2. \A b \in Account : inform[b] # None => inform[b] \in Seq(NoticeOf(notices))
      BY <1>1 DEF TableTypes
    <3>3. QED
      BY <3>1, <3>2, SeqMonotonic, Zenon
  <2>6. inform' \in [Account -> {None} \cup Seq(NoticeOf(notices'))]
    BY <1>1, <1>2, <2>4, <2>5 DEF TableTypes
  <2>7. \A b \in Account : inform'[b] # None => Distinct(inform'[b])
    BY <1>1, <1>2, <2>4 DEF TableTypes
  <2>8. TableTypes'
    BY <1>1, <1>3, <2>6, <2>7 DEF TableTypes, Distinct
  <2>9. SeenTypes'
    <3>1. 1..notices \subseteq 1..notices'
      BY <1>2, <2>2
    <3>2. shown' \in [Account -> SUBSET (1..notices')]
      BY <1>1, <1>3, <3>1 DEF SeenTypes
    <3>3. QED
      BY <1>1, <1>3, <2>2, <3>2 DEF SeenTypes
  <2>10. JobTypes' /\ JobsCarry' /\ RestTypes' /\ OneConnection'
    BY <1>1, <1>2, <1>3, <2>2, LeaveKeeps, SteadyKeeps
       DEF TypeInv, OneConnection, Steady
  <2>11. QED
    BY <2>8, <2>9, <2>10, TypeParts DEF TypeInv
<1>6. QED
  BY <1>4, <1>5 DEF AddFriends

LEMMA AgreeKeeps ==
  ASSUME TypeInv, NEW w \in Worker, job[w] # Idle, AgreeFriendsApply(w)
  PROVE  TypeInv'
<1> DEFINE a == job[w].from
           b == job[w].to
<1>1. TableTypes /\ JobTypes /\ SeenTypes /\ RestTypes /\ JobsCarry
  BY TypeParts DEF TypeInv
<1>2. a \in Account /\ b \in Account /\ notices \in Nat
  BY <1>1, TaskType DEF SeenTypes
<1>3. ASSUME ~Crash
      PROVE  TypeInv'
  <2>1. /\ Steady /\ notices' = notices /\ UNCHANGED seenVars
        /\ UNCHANGED <<user, inform, groups, myGroups, notices>>
    BY <1>3 DEF AgreeFriendsApply, AgreeOwn, AgreeOther, seenVars
  <2>2. JobTypes' /\ JobsCarry'
    <3>1. Leave(w) \/ Goto(w, "other")
      BY <1>3 DEF AgreeFriendsApply, AgreeOwn, AgreeOther
    <3>2. "other" \in Places
      BY DEF Places
    <3>3. QED
      BY <1>1, <1>2, <2>1, <3>1, <3>2, GotoKeeps, LeaveKeeps
  <2>3. TableTypes'
    <3>1. \/ friends' = [friends EXCEPT ![a] = InsertKey(friends[a], b)]
          \/ friends' = [friends EXCEPT ![b] = InsertKey(friends[b], a)]
      BY <1>3 DEF AgreeFriendsApply, AgreeOwn, AgreeOther
    <3>2. ASSUME NEW c \in Account, NEW d \in Account
          PROVE  \/ InsertKey(friends[c], d) = None
                 \/ InsertKey(friends[c], d) \in SUBSET Account
      BY <1>1 DEF InsertKey, TableTypes
    <3>3. QED
      BY <1>1, <1>2, <2>1, <3>1, <3>2, FriendsSet
  <2>4. SeenTypes' /\ RestTypes' /\ OneConnection'
    BY <1>1, <2>1, SteadyKeeps, SeenKept DEF TypeInv, OneConnection, Steady
  <2>5. QED
    BY <2>2, <2>3, <2>4, TypeParts DEF TypeInv
<1>4. QED
  BY <1>3, CrashKeeps

\* The oldest unread notice.
LEMMA OldestUnread ==
  ASSUME NEW n \in Nat, NEW list \in Seq(NoticeOf(n)), Unread(list) # {}
  PROVE  /\ Min(Unread(list)) \in DOMAIN list
         /\ ~list[Min(Unread(list))].read
         /\ \A k \in Unread(list) : Min(Unread(list)) <= k
<1>1. Unread(list) \in SUBSET Nat
  <2>1. DOMAIN list \subseteq Nat
    BY LenProperties
  <2>2. QED
    BY <2>1 DEF Unread
<1>2. Min(Unread(list)) \in Unread(list) /\ \A k \in Unread(list) : Min(Unread(list)) <= k
  BY <1>1, MinOfNats
<1>3. QED
  BY <1>2 DEF Unread

LEMMA NumberOfNotice ==
  ASSUME NEW n \in Nat, NEW list \in Seq(NoticeOf(n)), NEW i \in DOMAIN list
  PROVE  list[i].id \in 1..n
<1>1. list[i] \in NoticeOf(n)
  BY LenProperties, ElementOfSeq
<1>2. QED
  BY <1>1 DEF NoticeOf

LEMMA ShowKeeps ==
  ASSUME SeenTypes, UNCHANGED <<notices, stray, welcomed>>,
         NEW fd, NEW ids \in SUBSET (1..notices), Show(fd, ids)
  PROVE  SeenTypes'
<1>1. shown' \in [Account -> SUBSET (1..notices)]
  BY DEF SeenTypes, Show
<1>2. QED
  BY <1>1 DEF SeenTypes

LEMMA ReadSelectKeeps ==
  ASSUME TypeInv, NEW w \in Worker, job[w] # Idle,
         ReadAllSelect(w) \/ ReadOneSelect(w)
  PROVE  TypeInv'
<1> DEFINE a == job[w].from
<1>1. TableTypes /\ JobTypes /\ SeenTypes /\ RestTypes /\ JobsCarry
  BY TypeParts DEF TypeInv
<1>2. a \in Account /\ notices \in Nat
  BY <1>1, TaskType DEF SeenTypes
<1>3. Steady /\ UNCHANGED <<dbVars, seenVars>> /\ notices' = notices
  BY DEF ReadAllSelect, ReadOneSelect, seenVars
<1>4. inform[a] # None => inform[a] \in Seq(NoticeOf(notices))
  BY <1>1, <1>2 DEF TableTypes
<1>5. JobTypes' /\ JobsCarry'
  <2>1. CASE Leave(w)
    BY <1>1, <1>2, <1>3, <2>1, LeaveKeeps
  <2>2. ASSUME NEW val, GotoWith(w, "send", val),
               \/ job[w].op = "READ_ALL_INFO" /\ val \subseteq 1..notices
               \/ job[w].op = "READ_GINGLE_INFO" /\ val \in 1..notices
        PROVE  JobTypes' /\ JobsCarry'
    <3>1. Carried(Task(job[w], job[w].fd, "send", val), notices)
      BY <1>1, <2>2, TaskFields DEF JobsCarry, Carried
    <3>2. "send" \in Places
      BY DEF Places
    <3>3. QED
      BY <1>1, <1>2, <1>3, <2>2, <3>1, <3>2, GotoWithKeeps
  <2>3. CASE ReadAllSelect(w) /\ ~Leave(w)
    <3>1. /\ job[w].op = "READ_ALL_INFO"
          /\ GetTableInfo(inform, a) # <<>>
          /\ GotoWith(w, "send", {GetTableInfo(inform, a)[i].id :
                                   i \in DOMAIN GetTableInfo(inform, a)})
      BY <2>3 DEF ReadAllSelect, At
    <3>2. GetTableInfo(inform, a) \in Seq(NoticeOf(notices))
      BY <1>4, <3>1 DEF GetTableInfo
    <3>3. \A i \in DOMAIN GetTableInfo(inform, a) :
            GetTableInfo(inform, a)[i].id \in 1..notices
      BY <1>2, <3>2, NumberOfNotice
    <3>4. {GetTableInfo(inform, a)[i].id : i \in DOMAIN GetTableInfo(inform, a)}
            \subseteq 1..notices
      BY <3>3
    <3>5. QED
      BY <2>2, <3>1, <3>4
  <2>4. CASE ReadOneSelect(w) /\ ~Leave(w)
    <3>1. /\ job[w].op = "READ_GINGLE_INFO"
          /\ inform[a] # None /\ Unread(inform[a]) # {}
          /\ GotoWith(w, "send", inform[a][Min(Unread(inform[a]))].id)
      BY <2>4 DEF ReadOneSelect, SelectInfo, At
    <3>2. inform[a][Min(Unread(inform[a]))].id \in 1..notices
      BY <1>2, <1>4, <3>1, OldestUnread, NumberOfNotice
    <3>3. QED
      BY <2>2, <3>1, <3>2
  <2>5. QED
    BY <2>1, <2>3, <2>4
<1>6. TableTypes' /\ SeenTypes' /\ RestTypes' /\ OneConnection'
  BY <1>1, <1>3, SteadyKeeps, SeenKept, TablesKept
     DEF TypeInv, OneConnection, Steady
<1>7. QED
  BY <1>5, <1>6, TypeParts DEF TypeInv

LEMMA ReadSendKeeps ==
  ASSUME TypeInv, NEW w \in Worker, job[w] # Idle,
         ReadAllSend(w) \/ ReadOneSend(w)
  PROVE  TypeInv'
<1>1. TableTypes /\ JobTypes /\ SeenTypes /\ RestTypes /\ JobsCarry
  BY TypeParts DEF TypeInv
<1>2. /\ Steady /\ UNCHANGED <<dbVars, notices, stray, welcomed>>
      /\ Goto(w, "mark") /\ notices \in Nat
  BY <1>1 DEF ReadAllSend, ReadOneSend, SeenTypes
<1>3. PICK ids \in SUBSET (1..notices) : Show(job[w].fd, ids)
  <2>1. CASE ReadAllSend(w)
    <3>1. job[w].val \subseteq 1..notices /\ Show(job[w].fd, job[w].val)
      BY <1>1, <2>1 DEF ReadAllSend, At, JobsCarry, Carried
    <3>2. QED
      BY <3>1
  <2>2. CASE ReadOneSend(w)
    <3>1. job[w].val \in 1..notices /\ Show(job[w].fd, {job[w].val})
      BY <1>1, <2>2 DEF ReadOneSend, At, JobsCarry, Carried
    <3>2. QED
      BY <3>1
  <2>3. QED
    BY <2>1, <2>2
<1>4. SeenTypes'
  BY <1>1, <1>2, <1>3, ShowKeeps
<1>5. JobTypes' /\ JobsCarry'
  <2>1. "mark" \in Places
    BY DEF Places
  <2>2. QED
    BY <1>1, <1>2, <2>1, GotoKeeps
<1>6. TableTypes' /\ RestTypes' /\ OneConnection'
  BY <1>1, <1>2, SteadyKeeps, TablesKept DEF TypeInv, OneConnection, Steady
<1>7. QED
  BY <1>4, <1>5, <1>6, TypeParts DEF TypeInv

\* What marking makes of the notices of the person who asked.
LEMMA MarkStep ==
  ASSUME NEW w \in Worker, ReadAllMark(w) \/ ReadOneMark(w)
  PROVE  LET a == job[w].from
             list == inform[a]
         IN  \E new :
               /\ new = [i \in DOMAIN list |-> new[i]]
               /\ \A i \in DOMAIN list :
                    \/ new[i] = list[i]
                    \/ /\ new[i] = AsRead(list[i])
                       /\ \/ job[w].op = "READ_ALL_INFO"
                          \/ /\ At(w, "READ_GINGLE_INFO", "mark")
                             /\ i \in Unread(list) /\ i = Min(Unread(list))
               /\ inform' = [inform EXCEPT ![a] =
                               IF list = None THEN None ELSE new]
<1> DEFINE a == job[w].from
           list == inform[a]
<1>1. CASE ReadAllMark(w)
  <2> DEFINE new == [i \in DOMAIN list |-> AsRead(list[i])]
  <2>1. inform' = [inform EXCEPT ![a] = IF list = None THEN None ELSE new]
    BY <1>1 DEF ReadAllMark, UpdateData
  <2>2. job[w].op = "READ_ALL_INFO"
    BY <1>1 DEF ReadAllMark, At
  <2>3. QED
    BY <2>1, <2>2
<1>2. CASE ReadOneMark(w)
  <2> DEFINE new == [i \in DOMAIN list |->
                       IF i \in Unread(list) /\ i = Min(Unread(list))
                       THEN AsRead(list[i]) ELSE list[i]]
  <2>1. inform' = [inform EXCEPT ![a] = IF list = None THEN None ELSE new]
    BY <1>2 DEF ReadOneMark, UpdateData
  <2>2. At(w, "READ_GINGLE_INFO", "mark")
    BY <1>2 DEF ReadOneMark
  <2>3. QED
    BY <2>1, <2>2
<1>3. QED
  BY <1>1, <1>2

LEMMA ReadMarkKeeps ==
  ASSUME TypeInv, NEW w \in Worker, job[w] # Idle,
         ReadAllMark(w) \/ ReadOneMark(w)
  PROVE  TypeInv'
<1> DEFINE a == job[w].from
<1>1. TableTypes /\ JobTypes /\ SeenTypes /\ RestTypes /\ JobsCarry
  BY TypeParts DEF TypeInv
<1>2. a \in Account /\ notices \in Nat
  BY <1>1, TaskType DEF SeenTypes
<1>3. /\ Steady /\ Leave(w) /\ UNCHANGED seenVars /\ notices' = notices
      /\ UNCHANGED <<user, friends, groups, myGroups>>
  BY DEF ReadAllMark, ReadOneMark, seenVars
<1>4. TableTypes'
  <2>1. PICK new :
          /\ new = [i \in DOMAIN inform[a] |-> new[i]]
          /\ \A i \in DOMAIN inform[a] :
               new[i] = inform[a][i] \/ new[i] = AsRead(inform[a][i])
          /\ inform' = [inform EXCEPT ![a] =
                          IF inform[a] = None THEN None ELSE new]
    BY MarkStep
  <2>2. inform[a] # None =>
          inform[a] \in Seq(NoticeOf(notices)) /\ Distinct(inform[a])
    BY <1>1, <1>2 DEF TableTypes
  <2>3. inform[a] # None => new \in Seq(NoticeOf(notices)) /\ Distinct(new)
    BY <1>2, <2>1, <2>2, NoticesMarked
  <2>4. QED
    BY <1>1, <1>2, <1>3, <2>1, <2>3, InformSet
<1>5. JobTypes' /\ JobsCarry' /\ SeenTypes' /\ RestTypes' /\ OneConnection'
  BY <1>1, <1>2, <1>3, LeaveKeeps, SteadyKeeps, SeenKept
     DEF TypeInv, OneConnection, Steady
<1>6. QED
  BY <1>4, <1>5, TypeParts DEF TypeInv

LEMMA ReadInfoKeeps ==
  ASSUME TypeInv, NEW w \in Worker, job[w] # Idle, ReadInfo(w)
  PROVE  TypeInv'
BY ReadSelectKeeps, ReadSendKeeps, ReadMarkKeeps DEF ReadInfo

\* The table of a group and a person's list of groups change the same way in
\* CREATE_GROUP and in GROUP_ADD.
LEMMA GroupTableStep ==
  ASSUME TableTypes, NEW g \in Group, NEW a \in Account,
         UNCHANGED <<user, friends, inform, myGroups, notices>>,
         \/ groups' = [groups EXCEPT ![g] = CreateTable(@, g, {})]
         \/ groups' = [groups EXCEPT ![g] = InsertKey(@, a)]
  PROVE  TableTypes'
<1>1. /\ CreateTable(groups[g], g, {}) \in {None} \cup SUBSET Account
      /\ InsertKey(groups[g], a) \in {None} \cup SUBSET Account
  BY DEF TableTypes, CreateTable, InsertKey
<1>2. \/ groups' = [groups EXCEPT ![g] = CreateTable(groups[g], g, {})]
      \/ groups' = [groups EXCEPT ![g] = InsertKey(groups[g], a)]
  OBVIOUS
<1>3. QED
  BY <1>1, <1>2, GroupsSet

LEMMA GroupListStep ==
  ASSUME TableTypes, NEW g \in Group, NEW a \in Account,
         UNCHANGED <<user, friends, inform, groups, notices>>,
         myGroups' = [myGroups EXCEPT ![a] = InsertRow(@, g)]
  PROVE  TableTypes'
<1>1. myGroups' = [myGroups EXCEPT ![a] = InsertRow(myGroups[a], g)]
  OBVIOUS
<1>2. InsertRow(myGroups[a], g) \in {None} \cup [Group -> Nat]
  BY DEF TableTypes, InsertRow
<1>3. QED
  BY <1>1, <1>2, MyGroupsSet

LEMMA GroupKeeps ==
  ASSUME TypeInv, NEW w \in Worker, job[w] # Idle,
         CreateGroup(w) \/ GroupAdd(w)
  PROVE  TypeInv'
<1>1. TableTypes /\ JobTypes /\ SeenTypes /\ RestTypes /\ JobsCarry
  BY TypeParts DEF TypeInv
<1>2. /\ job[w].from \in Account /\ job[w].to \in Account
      /\ job[w].group \in Group /\ notices \in Nat
  BY <1>1, TaskType DEF SeenTypes
<1> USE DEF CreateGroup, CreateGroupTable, CreateGroupMember, CreateGroupList,
            GroupAdd, GroupAddInsert, GroupAddList
<1>3. ASSUME ~Crash
      PROVE  TypeInv'
  <2>1. /\ Steady /\ notices' = notices /\ UNCHANGED seenVars
        /\ UNCHANGED <<user, friends, inform>>
    BY <1>3 DEF seenVars
  <2>2. JobTypes' /\ JobsCarry'
    <3>1. Leave(w) \/ Goto(w, "member") \/ Goto(w, "list")
      BY <1>3
    <3>2. {"member", "list"} \subseteq Places
      BY DEF Places
    <3>3. QED
      BY <1>1, <1>2, <2>1, <3>1, <3>2, GotoKeeps, LeaveKeeps
  <2>3. \/ /\ UNCHANGED myGroups
           /\ \E a \in {job[w].from, job[w].to} :
                \/ groups' = [groups EXCEPT ![job[w].group] =
                                CreateTable(@, job[w].group, {})]
                \/ groups' = [groups EXCEPT ![job[w].group] = InsertKey(@, a)]
        \/ /\ UNCHANGED groups
           /\ \E a \in {job[w].from, job[w].to} :
                myGroups' = [myGroups EXCEPT ![a] = InsertRow(@, job[w].group)]
    BY <1>3
  <2>4. TableTypes'
    BY <1>1, <1>2, <2>1, <2>3, GroupTableStep, GroupListStep
  <2>5. SeenTypes' /\ RestTypes' /\ OneConnection'
    BY <1>1, <2>1, SteadyKeeps, SeenKept DEF TypeInv, OneConnection, Steady
  <2>6. QED
    BY <2>2, <2>4, <2>5, TypeParts DEF TypeInv
<1>4. QED
  BY <1>3, CrashKeeps

LEMMA GroupSendKeeps ==
  ASSUME TypeInv, NEW w \in Worker, job[w] # Idle, GroupSendMessage(w)
  PROVE  TypeInv'
<1>1. TableTypes /\ JobTypes /\ SeenTypes /\ RestTypes /\ JobsCarry
  BY TypeParts DEF TypeInv
<1>2. job[w].group \in Group /\ notices \in Nat
  BY <1>1, TaskType DEF SeenTypes
<1>3. ASSUME NEW val \in SUBSET Account, GotoWith(w, "send", val),
             job[w].op = "GROUP_SEND_MESSAGE", notices' = notices
      PROVE  JobTypes' /\ JobsCarry'
  <2>1. Carried(Task(job[w], job[w].fd, "send", val), notices)
    BY <1>1, <1>3, TaskFields DEF JobsCarry, Carried
  <2>2. "send" \in Places
    BY DEF Places
  <2>3. QED
    BY <1>1, <1>2, <1>3, <2>1, <2>2, GotoWithKeeps
<1>4. CASE GroupSendSelect(w) /\ ~Crash
  <2>1. /\ groups[job[w].group] # None
        /\ GotoWith(w, "send", groups[job[w].group] \ {job[w].from})
        /\ job[w].op = "GROUP_SEND_MESSAGE"
        /\ Steady /\ UNCHANGED <<dbVars, seenVars>> /\ notices' = notices
    BY <1>4 DEF GroupSendSelect, SelectInfo, At, seenVars
  <2>2. groups[job[w].group] \ {job[w].from} \in SUBSET Account
    BY <1>1, <1>2, <2>1 DEF TableTypes
  <2>3. JobTypes' /\ JobsCarry'
    BY <1>3, <2>1, <2>2
  <2>4. TableTypes' /\ SeenTypes' /\ RestTypes' /\ OneConnection'
    BY <1>1, <2>1, SteadyKeeps, SeenKept, TablesKept
       DEF TypeInv, OneConnection, Steady
  <2>5. QED
    BY <2>3, <2>4, TypeParts DEF TypeInv
<1>5. CASE GroupSendDeliver(w) \/ (GroupSendNobody(w) /\ ~Crash)
  <2>1. /\ Steady /\ UNCHANGED <<dbVars, notices, shown, welcomed>>
        /\ job[w].op = "GROUP_SEND_MESSAGE"
    BY <1>5 DEF GroupSendDeliver, GroupSendNobody, At
  <2>2. job[w].val \subseteq Account
    BY <1>1, <1>5 DEF GroupSendDeliver, GroupSendNobody, At, JobsCarry, Carried
  <2>3. \/ Leave(w) /\ UNCHANGED stray
        \/ \E a \in job[w].val : \E fd :
             /\ stray' = stray \cup Misses(a, fd)
             /\ GotoWith(w, "send", job[w].val \ {a})
    BY <1>5 DEF GroupSendDeliver, GroupSendNobody
  <2>4. JobTypes' /\ JobsCarry'
    BY <1>1, <1>2, <1>3, <2>1, <2>2, <2>3, LeaveKeeps
  <2>5. stray' \subseteq Account \X Account
    BY <1>1, <2>2, <2>3, MissesPersons DEF SeenTypes
  <2>6. TableTypes' /\ SeenTypes' /\ RestTypes' /\ OneConnection'
    BY <1>1, <2>1, <2>5, SteadyKeeps, TablesKept
       DEF TypeInv, OneConnection, Steady, SeenTypes
  <2>7. QED
    BY <2>4, <2>6, TypeParts DEF TypeInv
<1>6. CASE Crash
  BY <1>6, CrashKeeps
<1>7. QED
  BY <1>4, <1>5, <1>6 DEF GroupSendMessage

LEMMA FileKeeps ==
  ASSUME TypeInv, NEW w \in Worker, job[w] # Idle, SendFile(w) \/ RecvFile(w)
  PROVE  TypeInv'
<1>1. CASE Crash
  BY <1>1, CrashKeeps
<1>2. CASE Leave(w) /\ Steady /\ UNCHANGED <<dbVars, seenVars>>
  <2>1. TableTypes /\ JobTypes /\ SeenTypes /\ RestTypes /\ JobsCarry
    BY TypeParts DEF TypeInv
  <2>2. notices \in Nat /\ notices' = notices
    BY <1>2, <2>1 DEF SeenTypes, seenVars
  <2>3. JobTypes' /\ JobsCarry' /\ TableTypes' /\ SeenTypes' /\ RestTypes'
    BY <1>2, <2>1, <2>2, LeaveKeeps, SteadyKeeps, SeenKept, TablesKept
  <2>4. OneConnection'
    BY <1>2 DEF TypeInv, OneConnection, Steady
  <2>5. QED
    BY <2>3, <2>4, TypeParts DEF TypeInv
<1>3. QED
  BY <1>1, <1>2 DEF SendFile, RecvFile

LEMMA HandlerKeepsTypes ==
  ASSUME TypeInv, NEW w \in Worker, thread_handler(w)
  PROVE  TypeInv'
BY RegistreKeeps, LoginKeeps, SendMessageKeeps, AddFriendsKeeps, AgreeKeeps,
   ReadInfoKeeps, GroupKeeps, GroupSendKeeps, FileKeeps DEF thread_handler
-----------------------------------------------------------------------------
(* People and the process                                                  *)

\* There is a free descriptor for whoever has no connection.
LEMMA FreeDescriptor ==
  ASSUME TypeInv, NEW p \in Account, \A fd \in FD : conn[fd] # p
  PROVE  Min({fd \in FD : conn[fd] = None}) \in {fd \in FD : conn[fd] = None}
<1> DEFINE Free == {fd \in FD : conn[fd] = None}
<1>1. Free # {}
  <2>1. SUFFICES ASSUME \A fd \in FD : conn[fd] # None
                 PROVE  FALSE
    OBVIOUS
  <2>2. conn \in [FD -> Account \ {p}]
    BY <2>1 DEF TypeInv, TypeOK
  <2>3. conn \in Injection(FD, Account \ {p})
    BY <2>1, <2>2 DEF TypeInv, OneConnection, Injection, IsInjective
  <2>4. /\ IsFiniteSet(Account \ {p})
        /\ Cardinality(Account \ {p}) = Cardinality(Account) - 1
    BY FS_RemoveElement, ChatServerAssumption
  <2>5. Cardinality(FD) <= Cardinality(Account \ {p})
    BY <2>3, <2>4, FS_Injection
  <2>6. /\ Cardinality(FD) \in Nat /\ Cardinality(Account) \in Nat
        /\ Cardinality(FD) >= Cardinality(Account)
    BY FS_CardinalityType, ChatServerAssumption
  <2>7. QED
    BY <2>4, <2>5, <2>6
<1>2. Free \in SUBSET Nat
  BY ChatServerAssumption
<1>3. QED
  BY <1>1, <1>2, MinOfNats

LEMMA ConnectKeeps ==
  ASSUME TypeInv, NEW p \in Account, Connect(p)
  PROVE  TypeInv'
<1>1. TableTypes /\ JobTypes /\ SeenTypes /\ RestTypes /\ JobsCarry
  BY TypeParts DEF TypeInv
<1>2. PICK fd \in FD : conn[fd] = None /\ conn' = [conn EXCEPT ![fd] = p]
  BY FreeDescriptor DEF Connect
<1>3. /\ \A d \in FD : conn[d] # p
      /\ UNCHANGED <<dbVars, job, alive, restarts, asked, seenVars>>
      /\ notices' = notices
  BY DEF Connect, seenVars
<1>4. RestTypes' /\ OneConnection'
  BY <1>1, <1>2, <1>3 DEF RestTypes, TypeInv, OneConnection
<1>5. JobTypes' /\ JobsCarry'
  BY <1>1, <1>3 DEF JobTypes, JobsCarry
<1>6. TableTypes' /\ SeenTypes'
  BY <1>1, <1>3, TablesKept, SeenKept
<1>7. QED
  BY <1>4, <1>5, <1>6, TypeParts DEF TypeInv

LEMMA DisconnectKeeps ==
  ASSUME TypeInv, NEW fd \in FD, Disconnect(fd)
  PROVE  TypeInv'
<1>1. TableTypes /\ JobTypes /\ SeenTypes /\ RestTypes /\ JobsCarry
  BY TypeParts DEF TypeInv
<1>2. /\ conn' = [conn EXCEPT ![fd] = None]
      /\ UNCHANGED <<dbVars, job, alive, restarts, asked, seenVars>>
      /\ notices' = notices
  BY DEF Disconnect, seenVars
<1>3. RestTypes' /\ OneConnection'
  BY <1>1, <1>2 DEF RestTypes, TypeInv, OneConnection
<1>4. JobTypes' /\ JobsCarry'
  BY <1>1, <1>2 DEF JobTypes, JobsCarry
<1>5. TableTypes' /\ SeenTypes'
  BY <1>1, <1>2, TablesKept, SeenKept
<1>6. QED
  BY <1>3, <1>4, <1>5, TypeParts DEF TypeInv

\* The request that Begin takes up.
Request == [op : Ops, from : Account, to : Account, group : Group]

LEMMA BeginStep ==
  ASSUME TypeInv, NEW w \in Worker, Begin(w)
  PROVE  \E fd \in FD, r \in Request :
           /\ conn[fd] # None /\ r.from = conn[fd]
           /\ asked[r.from] < MaxRequests
           /\ ~Overlap => \A v \in Worker : job[v] # Idle => job[v].fd # fd
           /\ job' = [v \in Worker |->
                       IF v = w THEN Task(r, fd, "start", None) ELSE job[v]]
           /\ asked' = [asked EXCEPT ![r.from] = @ + 1]
<1>1. PICK fd \in FD :
        /\ conn[fd] # None /\ asked[conn[fd]] < MaxRequests
        /\ ~Overlap => \A v \in Worker : job[v] # Idle => job[v].fd # fd
        /\ \E r \in Requests(conn[fd]) :
             job' = [job EXCEPT ![w] = Task(r, fd, "start", None)]
        /\ asked' = [asked EXCEPT ![conn[fd]] = @ + 1]
  BY DEF Begin
<1>2. conn[fd] \in Account
  BY <1>1, TypeParts DEF TypeInv, RestTypes
<1>3. PICK r \in Requests(conn[fd]) :
        job' = [job EXCEPT ![w] = Task(r, fd, "start", None)]
  BY <1>1
<1>4. r \in Request /\ r.from = conn[fd]
  BY <1>2 DEF Requests, Request
<1>5. job' = [v \in Worker |->
               IF v = w THEN Task(r, fd, "start", None) ELSE job[v]]
  BY <1>3, TypeParts DEF TypeInv, JobTypes
<1>6. QED
  BY <1>1, <1>4, <1>5

LEMMA BeginKeeps ==
  ASSUME TypeInv, NEW w \in Worker, Begin(w)
  PROVE  TypeInv'
<1>1. TableTypes /\ JobTypes /\ SeenTypes /\ RestTypes /\ JobsCarry
  BY TypeParts DEF TypeInv
<1>2. /\ UNCHANGED <<dbVars, conn, alive, restarts, seenVars>>
      /\ notices' = notices
  BY DEF Begin, seenVars
<1>3. PICK fd \in FD, r \in Request :
        /\ conn[fd] # None /\ r.from = conn[fd]
        /\ asked[r.from] < MaxRequests
        /\ job' = [v \in Worker |->
                    IF v = w THEN Task(r, fd, "start", None) ELSE job[v]]
        /\ asked' = [asked EXCEPT ![r.from] = @ + 1]
  BY BeginStep
<1>4. /\ r.op \in Ops /\ r.from \in Account /\ r.to \in Account
      /\ r.group \in Group
  BY DEF Request
<1> DEFINE j == Task(r, fd, "start", None)
<1>5. JobType(j) /\ Carried(j, notices)
  BY <1>3, <1>4 DEF JobType, Carried, Task, Places
<1> HIDE DEF j
<1>6. job' = [v \in Worker |-> IF v = w THEN j ELSE job[v]]
  BY <1>3 DEF j
<1>7. JobTypes' /\ JobsCarry'
  BY <1>1, <1>2, <1>5, <1>6 DEF JobTypes, JobsCarry
<1>8. asked' \in [Account -> 0..MaxRequests]
  <2>1. /\ asked[r.from] \in 0..MaxRequests /\ MaxRequests \in Nat
    BY <1>1, <1>4, ChatServerAssumption DEF RestTypes
  <2>2. asked[r.from] + 1 \in 0..MaxRequests
    BY <1>3, <2>1
  <2>3. QED
    BY <1>1, <1>3, <1>4, <2>2 DEF RestTypes
<1>9. RestTypes' /\ OneConnection'
  BY <1>1, <1>2, <1>8 DEF RestTypes, TypeInv, OneConnection
<1>10. TableTypes' /\ SeenTypes'
  BY <1>1, <1>2, TablesKept, SeenKept
<1>11. QED
  BY <1>7, <1>9, <1>10, TypeParts DEF TypeInv

LEMMA RestartKeeps ==
  ASSUME TypeInv, Restart
  PROVE  TypeInv'
<1>1. TableTypes /\ JobTypes /\ SeenTypes /\ RestTypes /\ JobsCarry
  BY TypeParts DEF TypeInv
<1>2. UNCHANGED <<dbVars, asked, seenVars>> /\ notices' = notices
  BY DEF Restart, seenVars
<1>3. RestTypes'
  <2>1. restarts' \in 0..MaxRestarts
    BY <1>1, ChatServerAssumption DEF Restart, RestTypes
  <2>2. QED
    BY <1>1, <1>2, <2>1 DEF Restart, RestTypes
<1>4. JobTypes' /\ JobsCarry' /\ OneConnection'
  BY DEF Restart, JobTypes, JobsCarry, OneConnection
<1>5. TableTypes' /\ SeenTypes'
  BY <1>1, <1>2, TablesKept, SeenKept
<1>6. QED
  BY <1>3, <1>4, <1>5, TypeParts DEF TypeInv

LEMMA InitTypes ==
  ASSUME Init
  PROVE  TypeInv
<1>1. TableTypes
  <2>1. [state |-> "offline", sock |-> 0] \in UserRow
    BY DEF UserRow
  <2>2. /\ user \in [Account -> UserRow \cup {None}]
        /\ friends \in [Account -> {None} \cup SUBSET Account]
        /\ groups \in [Group -> {None} \cup SUBSET Account]
        /\ \A a \in Account : friends[a] # None => a \notin friends[a]
    BY <2>1 DEF Init
  <2>3. myGroups \in [Account -> {None} \cup [Group -> Nat]]
    BY DEF Init
  <2>4. inform \in [Account -> {None} \cup Seq(NoticeOf(notices))]
    BY EmptySeq DEF Init
  <2>5. \A a \in Account : inform[a] # None => Distinct(inform[a])
    BY DEF Init, Distinct
  <2>6. QED
    BY <2>2, <2>3, <2>4, <2>5 DEF TableTypes
<1>2. JobTypes /\ JobsCarry /\ OneConnection
  BY DEF Init, JobTypes, JobsCarry, OneConnection
<1>3. SeenTypes /\ RestTypes
  BY ChatServerAssumption DEF Init, SeenTypes, RestTypes
<1>4. QED
  BY <1>1, <1>2, <1>3, TypeParts DEF TypeInv

LEMMA StutterKeepsTypes ==
  ASSUME TypeInv, UNCHANGED vars
  PROVE  TypeInv'
BY DEF TypeInv, TypeOK, OneConnection, JobsCarry, vars, dbVars, seenVars

LEMMA NextKeepsTypes ==
  ASSUME TypeInv, [Next]_vars
  PROVE  TypeInv'
BY HandlerKeepsTypes, ConnectKeeps, DisconnectKeeps, BeginKeeps, RestartKeeps,
   StutterKeepsTypes DEF Next

\* What the tables, the handlers and the connections hold has its type, in a
\* server with any number of people and handlers that crashes and is restarted.
THEOREM ChatTypes == Spec => []TypeOK
<1>1. TypeInv => TypeOK
  BY DEF TypeInv
<1>2. QED
  BY <1>1, InitTypes, NextKeepsTypes, PTL DEF Spec
-----------------------------------------------------------------------------
(* Accounts                                                                *)

\* What a handler's step may do to its job, and to nobody else's.
JobStep(w) ==
  /\ \A v \in Worker \ {w} : job'[v] = job[v]
  /\ \/ job'[w] = Idle
     \/ \E pc, val : job'[w] = Task(job[w], job[w].fd, pc, val)

LEMMA HandlerJob ==
  ASSUME TypeInv, NEW w \in Worker, thread_handler(w)
  PROVE  JobStep(w) \/ Crash
<1>1. \/ Crash \/ Leave(w) \/ \E pc, val : GotoWith(w, pc, val)
  <2>1. CASE Registre(w) \/ Login(w) \/ SendMessage(w) \/ AddFriends(w)
    BY <2>1 DEF Registre, RegisterInsert, RegisterTables, RegisterReply, Login,
       LoginCheck, LoginOnline, LoginSock, SendMessage, SendLookUp, SendDeliver,
       AddFriends, Goto
  <2>2. CASE AgreeFriendsApply(w) \/ ReadInfo(w)
    BY <2>2 DEF AgreeFriendsApply, AgreeOwn, AgreeOther, ReadInfo, ReadAllSelect,
       ReadAllSend, ReadAllMark, ReadOneSelect, ReadOneSend, ReadOneMark, Goto
  <2>3. CASE CreateGroup(w) \/ GroupAdd(w) \/ GroupSendMessage(w)
    BY <2>3 DEF CreateGroup, CreateGroupTable, CreateGroupMember, CreateGroupList,
       GroupAdd, GroupAddInsert, GroupAddList, GroupSendMessage, GroupSendSelect,
       GroupSendDeliver, GroupSendNobody, Goto
  <2>4. CASE SendFile(w) \/ RecvFile(w)
    BY <2>4 DEF SendFile, RecvFile
  <2>5. QED
    BY <2>1, <2>2, <2>3, <2>4 DEF thread_handler
<1>2. DOMAIN job = Worker
  BY TypeParts DEF TypeInv, JobTypes
<1>3. CASE Leave(w)
  BY <1>2, <1>3 DEF Leave, JobStep
<1>4. ASSUME NEW pc, NEW val, GotoWith(w, pc, val)
      PROVE  JobStep(w)
  <2>1. job' = [job EXCEPT ![w] = Task(job[w], job[w].fd, pc, val)]
    BY <1>4 DEF GotoWith
  <2>2. job'[w] = Task(job[w], job[w].fd, pc, val)
    BY <1>2, <2>1
  <2>3. \A v \in Worker \ {w} : job'[v] = job[v]
    BY <1>2, <2>1
  <2>4. QED
    BY <2>2, <2>3 DEF JobStep
<1>5. QED
  BY <1>1, <1>3, <1>4

\* Rows and tables that are there stay there.
TablesStay ==
  \A a \in Account :
    /\ user[a] # None => user'[a] # None
    /\ friends[a] # None => friends'[a] # None
    /\ inform[a] # None => inform'[a] # None
    /\ myGroups[a] # None => myGroups'[a] # None

LEMMA NoneIsNoList ==
  ASSUME NEW n \in Nat
  PROVE  None \notin Seq(NoticeOf(n))
<1>1. NoticeOf(n) \subseteq Notice
  BY DEF NoticeOf, Notice
<1>2. \A s \in Seq(NoticeOf(n)) : s \in Seq(Notice)
  BY <1>1, SeqMonotonic, Zenon
<1>3. QED
  BY <1>2, NoneAssumption

LEMMA TablesStayUnchanged ==
  ASSUME UNCHANGED <<user, friends, inform, myGroups>>
  PROVE  TablesStay
BY DEF TablesStay

LEMMA RegistreStays ==
  ASSUME TypeInv, NEW w \in Worker, job[w] # Idle, Registre(w)
  PROVE  TablesStay
<1>1. CASE RegisterInsert(w)
  <2>1. [state |-> "offline", sock |-> 0] \in UserRow
    BY DEF UserRow
  <2>2. [state |-> "offline", sock |-> 0] # None
    BY <2>1, NoneAssumption
  <2>3. user \in [Account -> UserRow \cup {None}]
    BY DEF TypeInv, TypeOK
  <2>4. QED
    BY <1>1, <2>2, <2>3 DEF RegisterInsert, TablesStay
<1>2. CASE RegisterTables(w)
  <2>1. /\ friends \in [Account -> {None} \cup SUBSET Account]
        /\ DOMAIN inform = Account /\ DOMAIN myGroups = Account
    BY TypeParts DEF TypeInv, TableTypes
  <2>2. QED
    BY <1>2, <2>1 DEF RegisterTables, CreateTable, TablesStay
<1>3. CASE RegisterReply(w)
  BY <1>3, TablesStayUnchanged DEF RegisterReply, dbVars
<1>4. QED
  BY <1>1, <1>2, <1>3 DEF Registre

LEMMA LoginStays ==
  ASSUME TypeInv, NEW w \in Worker, job[w] # Idle, Login(w)
  PROVE  TablesStay
<1> DEFINE a == job[w].from
<1>1. CASE UNCHANGED user
  BY <1>1, TablesStayUnchanged
     DEF Login, LoginCheck, LoginOnline, LoginSock, dbVars
<1>2. CASE LoginOnline(w) \/ LoginSock(w)
  <2>1. a \in Account /\ job[w].fd \in FD /\ user \in [Account -> UserRow \cup {None}]
    BY TypeParts, TaskType DEF TypeInv, TableTypes
  <2>2. PICK row :
          /\ user' = UpdateData(user, a, row)
          /\ \/ row = [user[a] EXCEPT !.state = "online"]
             \/ row = [user[a] EXCEPT !.sock = job[w].fd]
    BY <1>2 DEF LoginOnline, LoginSock
  <2>3. user[a] # None => row \in UserRow
    <3>1. user[a] # None => user[a] \in UserRow
      BY <2>1
    <3>2. QED
      BY <2>1, <2>2, <3>1 DEF UserRow
  <2>4. user' = [user EXCEPT ![a] = IF user[a] = None THEN None ELSE row]
    BY <2>2 DEF UpdateData
  <2>5. UNCHANGED <<friends, inform, myGroups>>
    BY <1>2 DEF LoginOnline, LoginSock
  <2>6. QED
    BY <2>1, <2>3, <2>4, <2>5, NoneAssumption DEF TablesStay
<1>3. QED
  BY <1>1, <1>2 DEF Login, LoginCheck, dbVars

LEMMA AddFriendsStays ==
  ASSUME TypeInv, TypeInv', NEW w \in Worker, job[w] # Idle, AddFriends(w)
  PROVE  TablesStay
<1> DEFINE a == job[w].to
<1>1. UNCHANGED <<user, friends, myGroups>>
  BY DEF AddFriends
<1>2. CASE UNCHANGED inform
  BY <1>1, <1>2, TablesStayUnchanged
<1>3. CASE inform[a] # None
  <2>1. PICK i \in IF TimesGrow THEN {Len(inform[a]) + 1}
                                ELSE 1..(Len(inform[a]) + 1) :
          inform' = [inform EXCEPT ![a] =
            InsertAt(@, i, [id |-> notices', read |-> FALSE])]
    BY <1>3 DEF AddFriends
  <2>2. a \in Account /\ DOMAIN inform = Account /\ notices \in Nat
    BY TypeParts, TaskType DEF TypeInv, TableTypes, SeenTypes
  <2>3. notices' = notices + 1
    BY <1>3 DEF AddFriends
  <2>4. inform[a] \in Seq(NoticeOf(notices)) /\ Distinct(inform[a])
    BY <1>3, <2>2, TypeParts DEF TypeInv, TableTypes
  <2>5. i \in 1..(Len(inform[a]) + 1)
    <3>1. Len(inform[a]) \in Nat
      BY <2>4, LenProperties
    <3>2. QED
      BY <3>1
  <2>6. InsertAt(inform[a], i, [id |-> notices', read |-> FALSE])
          \in Seq(NoticeOf(notices + 1))
    BY <2>2, <2>3, <2>4, <2>5, NoticeSortedIn
  <2>7. InsertAt(inform[a], i, [id |-> notices', read |-> FALSE]) # None
    BY <2>2, <2>6, NoneIsNoList
  <2>8. inform' = [inform EXCEPT ![a] =
                     InsertAt(inform[a], i, [id |-> notices', read |-> FALSE])]
    BY <2>1
  <2>9. QED
    BY <1>1, <2>2, <2>7, <2>8 DEF TablesStay
<1>4. QED
  BY <1>2, <1>3 DEF AddFriends

LEMMA ReadInfoStays ==
  ASSUME TypeInv, NEW w \in Worker, job[w] # Idle, ReadInfo(w)
  PROVE  TablesStay
<1> DEFINE a == job[w].from
<1>1. CASE UNCHANGED dbVars
  BY <1>1, TablesStayUnchanged DEF dbVars
<1>2. CASE ReadAllMark(w) \/ ReadOneMark(w)
  <2>1. PICK new :
          /\ new = [i \in DOMAIN inform[a] |-> new[i]]
          /\ \A i \in DOMAIN inform[a] :
               new[i] = inform[a][i] \/ new[i] = AsRead(inform[a][i])
          /\ inform' = [inform EXCEPT ![a] =
                          IF inform[a] = None THEN None ELSE new]
    BY <1>2, MarkStep
  <2>2. a \in Account /\ DOMAIN inform = Account /\ notices \in Nat
    BY TypeParts, TaskType DEF TypeInv, TableTypes, SeenTypes
  <2>3. inform[a] # None => inform[a] \in Seq(NoticeOf(notices))
    BY <2>2, TypeParts DEF TypeInv, TableTypes
  <2>4. inform[a] # None => new \in Seq(NoticeOf(notices))
    BY <2>1, <2>2, <2>3, NoticesMarked
  <2>5. inform[a] # None => new # None
    BY <2>2, <2>4, NoneIsNoList
  <2>6. UNCHANGED <<user, friends, myGroups>>
    BY <1>2 DEF ReadAllMark, ReadOneMark
  <2>7. QED
    BY <2>1, <2>2, <2>5, <2>6 DEF TablesStay
<1>3. QED
  BY <1>1, <1>2 DEF ReadInfo, ReadAllSelect, ReadAllSend, ReadOneSelect, ReadOneSend

LEMMA AgreeStays ==
  ASSUME TypeInv, NEW w \in Worker, job[w] # Idle, AgreeFriendsApply(w)
  PROVE  TablesStay
<1>1. CASE Crash
  BY <1>1, TablesStayUnchanged DEF Crash, dbVars
<1>2. CASE \E a, b \in Account : friends' = [friends EXCEPT ![a] = InsertKey(@, b)]
  <2>1. PICK a \in Account, b \in Account :
          friends' = [friends EXCEPT ![a] = InsertKey(friends[a], b)]
    BY <1>2
  <2>2. friends \in [Account -> {None} \cup SUBSET Account]
    BY DEF TypeInv, TypeOK
  <2>3. friends[a] # None => InsertKey(friends[a], b) # None
    BY <2>2, NoneAssumption DEF InsertKey
  <2>4. UNCHANGED <<user, inform, myGroups>>
    BY DEF AgreeFriendsApply, AgreeOwn, AgreeOther, Crash, dbVars
  <2>5. QED
    BY <2>1, <2>2, <2>3, <2>4 DEF TablesStay
<1>3. job[w].from \in Account /\ job[w].to \in Account
  BY TaskPeople
<1>4. QED
  BY <1>1, <1>2, <1>3 DEF AgreeFriendsApply, AgreeOwn, AgreeOther

LEMMA GroupStays ==
  ASSUME TypeInv, NEW w \in Worker, job[w] # Idle,
         CreateGroup(w) \/ GroupAdd(w)
  PROVE  TablesStay
<1> USE DEF CreateGroup, CreateGroupTable, CreateGroupMember, CreateGroupList,
            GroupAdd, GroupAddInsert, GroupAddList
<1>1. CASE UNCHANGED <<user, friends, inform, myGroups>>
  BY <1>1, TablesStayUnchanged
<1>2. CASE CreateGroupList(w) \/ GroupAddList(w)
  <2>1. PICK a \in Account, g \in Group :
          myGroups' = [myGroups EXCEPT ![a] = InsertRow(myGroups[a], g)]
    <3>1. /\ job[w].from \in Account /\ job[w].to \in Account
          /\ job[w].group \in Group
      BY TypeParts, TaskType DEF TypeInv
    <3>2. QED
      BY <1>2, <3>1
  <2>2. myGroups \in [Account -> {None} \cup [Group -> Nat]]
    BY DEF TypeInv, TypeOK
  <2>3. myGroups[a] # None => InsertRow(myGroups[a], g) \in [Group -> Nat]
    BY <2>2 DEF InsertRow
  <2>4. UNCHANGED <<user, friends, inform>>
    BY <1>2
  <2>5. QED
    BY <2>1, <2>2, <2>3, <2>4, NoneAssumption DEF TablesStay
<1>3. QED
  BY <1>1, <1>2 DEF Crash, dbVars

LEMMA HandlerStays ==
  ASSUME TypeInv, NEW w \in Worker, thread_handler(w)
  PROVE  TablesStay
<1>1. CASE SendMessage(w) \/ GroupSendMessage(w) \/ SendFile(w) \/ RecvFile(w)
  BY <1>1, TablesStayUnchanged DEF SendMessage, SendLookUp, SendDeliver,
     GroupSendMessage, GroupSendSelect, GroupSendDeliver, GroupSendNobody,
     SendFile, RecvFile, Crash, dbVars
<1>2. TypeInv'
  BY HandlerKeepsTypes
<1>3. QED
  BY <1>1, <1>2, RegistreStays, LoginStays, AddFriendsStays, ReadInfoStays,
     AgreeStays, GroupStays DEF thread_handler

\* Handler w has made the row of the new account a and is at pc.
Registers(w, a, pc) ==
  /\ job[w] # Idle /\ job[w].op = "REGISTRE"
  /\ job[w].from = a /\ job[w].pc = pc /\ pc # "start"

\* The tables of an account whose registration is at pc.
TablesUpTo(a, pc) ==
  /\ HasRow(a)
  /\ a \in Nameable =>
       /\ pc # "friends" => friends[a] # None
       /\ pc \in {"inform", "reply"} => myGroups[a] # None
       /\ pc = "reply" => inform[a] # None

\* The inductive invariant behind RegisteredOnce: one handler at most is busy
\* with a new account, and its place tells how far the tables are.
RegInv ==
  /\ \A w \in Worker, a \in Account, pc \in Places : Registers(w, a, pc) =>
       /\ pc \in {"friends", "groups", "inform", "reply"}
       /\ welcomed[a] = 0 /\ TablesUpTo(a, pc)
  /\ \A v, w \in Worker, a \in Account, c, d \in Places :
       Registers(v, a, c) /\ Registers(w, a, d) => v = w
  /\ \A a \in Account :
       welcomed[a] = 0 \/ (welcomed[a] = 1 /\ TablesUpTo(a, "reply"))

LEMMA TablesGrow ==
  ASSUME TablesStay, NEW a \in Account, NEW pc, TablesUpTo(a, pc)
  PROVE  TablesUpTo(a, pc)'
BY DEF TablesStay, TablesUpTo, HasRow

LEMMA OtherStepsReg ==
  ASSUME RegInv, TablesStay, welcomed' = welcomed,
         \A w \in Worker, a \in Account, pc \in Places :
           Registers(w, a, pc)' => Registers(w, a, pc)
  PROVE  RegInv'
<1>1. \A w \in Worker, a \in Account, pc \in Places : Registers(w, a, pc)' =>
        /\ pc \in {"friends", "groups", "inform", "reply"}
        /\ welcomed'[a] = 0 /\ TablesUpTo(a, pc)'
  BY TablesGrow DEF RegInv
<1>2. \A a \in Account :
        welcomed'[a] = 0 \/ (welcomed'[a] = 1 /\ TablesUpTo(a, "reply")')
  BY TablesGrow DEF RegInv
<1>3. QED
  BY <1>1, <1>2 DEF RegInv

LEMMA RegistreKeepsReg ==
  ASSUME TypeInv, RegInv, NEW w \in Worker, job[w] # Idle, Registre(w)
  PROVE  RegInv'
<1>1. job[w].op = "REGISTRE"
  BY DEF Registre, RegisterInsert, RegisterTables, RegisterReply, At
<1>2. PICK a \in Account, c \in Places : a = job[w].from /\ c = job[w].pc
  BY TypeParts, TaskType DEF TypeInv
<1>3. /\ DOMAIN job = Worker /\ welcomed \in [Account -> Nat]
      /\ DOMAIN user = Account /\ DOMAIN friends = Account
      /\ DOMAIN inform = Account /\ DOMAIN myGroups = Account
  BY TypeParts DEF TypeInv, JobTypes, SeenTypes, TableTypes
<1>4. TablesStay
  BY RegistreStays
<1>5. ASSUME NEW d, Goto(w, d), d # "start",
             NEW v \in Worker, NEW b \in Account, NEW pc \in Places,
             Registers(v, b, pc)'
      PROVE  \/ v = w /\ b = a /\ pc = d
             \/ v # w /\ Registers(v, b, pc)
  <2>1. job'[w] = Task(job[w], job[w].fd, d, job[w].val)
    BY <1>3, <1>5 DEF Goto, GotoWith
  <2>2. v # w => job'[v] = job[v]
    BY <1>3, <1>5 DEF Goto, GotoWith
  <2>3. QED
    BY <1>2, <1>5, <2>1, <2>2, TaskFields DEF Registers
<1>6. ASSUME Leave(w), NEW v \in Worker, NEW b \in Account, NEW pc \in Places,
             Registers(v, b, pc)'
      PROVE  v # w /\ Registers(v, b, pc)
  BY <1>3, <1>6 DEF Leave, Registers
<1>7. CASE RegisterInsert(w)
  <2>1. CASE Leave(w) /\ welcomed' = welcomed
    BY <1>4, <1>6, <2>1, OtherStepsReg
  <2>2. CASE ~HasRow(a)
    <3>1. /\ user' = [user EXCEPT ![a] = [state |-> "offline", sock |-> 0]]
          /\ Goto(w, "friends") /\ welcomed' = welcomed
      BY <1>2, <1>7, <2>2 DEF RegisterInsert, seenVars
    <3>2. /\ welcomed[a] = 0
          /\ \A v \in Worker, pc \in Places : ~Registers(v, a, pc)
      BY <2>2 DEF RegInv, TablesUpTo
    <3>3. TablesUpTo(a, "friends")'
      <4>1. [state |-> "offline", sock |-> 0] \in UserRow
        BY DEF UserRow
      <4>2. [state |-> "offline", sock |-> 0] # None
        BY <4>1, NoneAssumption
      <4>3. user'[a] # None
        BY <1>3, <3>1, <4>2
      <4>4. QED
        BY <4>3 DEF TablesUpTo, HasRow
    <3>4. \A v \in Worker, b \in Account, pc \in Places : Registers(v, b, pc)' =>
            \/ v = w /\ b = a /\ pc = "friends"
            \/ v # w /\ Registers(v, b, pc)
      BY <1>5, <3>1
    <3>5. \A v \in Worker, b \in Account, pc \in Places : Registers(v, b, pc)' =>
            /\ pc \in {"friends", "groups", "inform", "reply"}
            /\ welcomed'[b] = 0 /\ TablesUpTo(b, pc)'
      BY <1>4, <3>1, <3>2, <3>3, <3>4, TablesGrow DEF RegInv
    <3>6. \A u, v \in Worker, b \in Account, c1, c2 \in Places :
            Registers(u, b, c1)' /\ Registers(v, b, c2)' => u = v
      BY <3>2, <3>4 DEF RegInv
    <3>7. \A b \in Account :
            welcomed'[b] = 0 \/ (welcomed'[b] = 1 /\ TablesUpTo(b, "reply")')
      BY <1>4, <3>1, TablesGrow DEF RegInv
    <3>8. QED
      BY <3>5, <3>6, <3>7 DEF RegInv
  <2>3. QED
    BY <1>2, <1>7, <2>1, <2>2 DEF RegisterInsert, seenVars
<1>8. CASE RegisterTables(w)
  <2>1. Registers(w, a, c) /\ welcomed' = welcomed
    BY <1>1, <1>2, <1>8 DEF RegisterTables, Registers, seenVars
  <2>2. welcomed[a] = 0 /\ TablesUpTo(a, c) /\ TablesUpTo(a, c)'
    BY <1>4, <2>1, TablesGrow DEF RegInv
  <2>3. PICK d \in {"groups", "inform", "reply"} :
          Goto(w, d) /\ TablesUpTo(a, d)'
    <3>1. CASE c = "friends"
      <4>1. /\ friends' = [friends EXCEPT ![a] = CreateTable(@, a, {})]
            /\ Goto(w, "groups")
        BY <1>2, <1>8, <3>1 DEF RegisterTables
      <4>2. {} # None
        BY NoneAssumption
      <4>3. a \in Nameable => friends'[a] # None
        BY <1>3, <4>1, <4>2 DEF CreateTable
      <4>4. QED
        BY <2>2, <4>1, <4>3 DEF TablesUpTo
    <3>2. CASE c = "groups"
      <4>1. /\ myGroups' = [myGroups EXCEPT ![a] =
                              CreateTable(@, a, [g \in Group |-> 0])]
            /\ Goto(w, "inform")
        BY <1>2, <1>8, <3>2 DEF RegisterTables
      <4>2. [g \in Group |-> 0] \in [Group -> Nat]
        OBVIOUS
      <4>3. [g \in Group |-> 0] # None
        BY <4>2, NoneAssumption
      <4>4. a \in Nameable => myGroups'[a] # None
        BY <1>3, <4>1, <4>3 DEF CreateTable
      <4>5. QED
        BY <2>2, <3>2, <4>1, <4>4 DEF TablesUpTo
    <3>3. CASE c = "inform"
      <4>1. /\ inform' = [inform EXCEPT ![a] = CreateTable(@, a, <<>>)]
            /\ Goto(w, "reply")
        BY <1>2, <1>8, <3>3 DEF RegisterTables
      <4>2. <<>> # None
        BY EmptySeq, NoneAssumption
      <4>3. a \in Nameable => inform'[a] # None
        BY <1>3, <4>1, <4>2 DEF CreateTable
      <4>4. QED
        BY <2>2, <3>3, <4>1, <4>3 DEF TablesUpTo
    <3>4. QED
      BY <1>2, <1>8, <3>1, <3>2, <3>3 DEF RegisterTables
  <2>4. \A v \in Worker, b \in Account, pc \in Places : Registers(v, b, pc)' =>
          \/ v = w /\ b = a /\ pc = d
          \/ v # w /\ Registers(v, b, pc)
    BY <1>5, <2>3
  <2>5. \A v \in Worker, b \in Account, pc \in Places : Registers(v, b, pc)' =>
          /\ pc \in {"friends", "groups", "inform", "reply"}
          /\ welcomed'[b] = 0 /\ TablesUpTo(b, pc)'
    BY <1>4, <2>1, <2>2, <2>3, <2>4, TablesGrow DEF RegInv
  <2>6. \A u, v \in Worker, b \in Account, c1, c2 \in Places :
          Registers(u, b, c1)' /\ Registers(v, b, c2)' => u = v
    BY <2>1, <2>4 DEF RegInv
  <2>7. \A b \in Account :
          welcomed'[b] = 0 \/ (welcomed'[b] = 1 /\ TablesUpTo(b, "reply")')
    BY <1>4, <2>1, TablesGrow DEF RegInv
  <2>8. QED
    BY <2>5, <2>6, <2>7 DEF RegInv
<1>9. CASE RegisterReply(w)
  <2>1. /\ Registers(w, a, "reply") /\ "reply" \in Places
        /\ welcomed' = [welcomed EXCEPT ![a] = @ + 1] /\ Leave(w)
    BY <1>1, <1>2, <1>9 DEF RegisterReply, Registers, At
  <2>2. welcomed[a] = 0 /\ TablesUpTo(a, "reply")
    BY <2>1 DEF RegInv
  <2>3. \A v \in Worker, b \in Account, pc \in Places :
          Registers(v, b, pc)' => v # w /\ Registers(v, b, pc)
    BY <1>6, <2>1
  <2>4. \A v \in Worker, b \in Account, pc \in Places :
          Registers(v, b, pc)' => b # a
    BY <2>1, <2>3 DEF RegInv
  <2>5. \A v \in Worker, b \in Account, pc \in Places : Registers(v, b, pc)' =>
          /\ pc \in {"friends", "groups", "inform", "reply"}
          /\ welcomed'[b] = 0 /\ TablesUpTo(b, pc)'
    BY <1>3, <1>4, <2>1, <2>3, <2>4, TablesGrow DEF RegInv
  <2>6. ASSUME NEW b \in Account
        PROVE  welcomed'[b] = 0 \/ (welcomed'[b] = 1 /\ TablesUpTo(b, "reply")')
    <3>1. CASE b = a
      BY <1>3, <1>4, <2>1, <2>2, <3>1, TablesGrow
    <3>2. CASE b # a
      BY <1>3, <1>4, <2>1, <3>2, TablesGrow DEF RegInv
    <3>3. QED
      BY <3>1, <3>2
  <2>7. QED
    BY <2>3, <2>5, <2>6 DEF RegInv
<1>10. QED
  BY <1>7, <1>8, <1>9 DEF Registre

LEMMA HandlerKeepsReg ==
  ASSUME TypeInv, RegInv, NEW w \in Worker, thread_handler(w)
  PROVE  RegInv'
<1>1. CASE Registre(w)
  BY <1>1, RegistreKeepsReg DEF thread_handler
<1>2. CASE ~Registre(w)
  <2>1. TablesStay
    BY HandlerStays
  <2>2. /\ welcomed' = welcomed
        /\ Crash \/ job[w].op # "REGISTRE"
    <3>1. CASE Login(w) \/ SendMessage(w) \/ AddFriends(w)
      BY <3>1 DEF Login, LoginCheck, LoginOnline, LoginSock, SendMessage,
         SendLookUp, SendDeliver, AddFriends, At, Crash, seenVars
    <3>2. CASE AgreeFriendsApply(w) \/ ReadInfo(w)
      BY <3>2 DEF AgreeFriendsApply, AgreeOwn, AgreeOther, ReadInfo,
         ReadAllSelect, ReadAllSend, ReadAllMark, ReadOneSelect, ReadOneSend,
         ReadOneMark, At, Crash, seenVars
    <3>3. CASE CreateGroup(w) \/ GroupAdd(w) \/ GroupSendMessage(w)
      BY <3>3 DEF CreateGroup, CreateGroupTable, CreateGroupMember,
         CreateGroupList, GroupAdd, GroupAddInsert, GroupAddList,
         GroupSendMessage, GroupSendSelect, GroupSendDeliver, GroupSendNobody,
         At, Crash, seenVars
    <3>4. CASE SendFile(w) \/ RecvFile(w)
      BY <3>4 DEF SendFile, RecvFile, At, Crash, seenVars
    <3>5. QED
      BY <1>2, <3>1, <3>2, <3>3, <3>4 DEF thread_handler
  <2>3. \A v \in Worker, b \in Account, pc \in Places :
          Registers(v, b, pc)' => Registers(v, b, pc)
    <3>1. CASE Crash
      BY <3>1 DEF Crash, Registers
    <3>2. CASE ~Crash
      <4>1. JobStep(w) /\ job[w].op # "REGISTRE"
        BY <2>2, <3>2, HandlerJob
      <4>2. job'[w] = Idle \/ job'[w].op = job[w].op
        BY <4>1, TaskFields DEF JobStep
      <4>3. QED
        BY <4>1, <4>2 DEF JobStep, Registers
    <3>3. QED
      BY <3>1, <3>2
  <2>4. QED
    BY <2>1, <2>2, <2>3, OtherStepsReg
<1>3. QED
  BY <1>1, <1>2

LEMMA NextKeepsReg ==
  ASSUME TypeInv, RegInv, [Next]_vars
  PROVE  RegInv'
<1>1. ASSUME NEW w \in Worker, thread_handler(w)
      PROVE  RegInv'
  BY <1>1, HandlerKeepsReg
<1>2. ASSUME UNCHANGED <<dbVars, seenVars>>,
             \A v \in Worker, b \in Account, pc \in Places :
               Registers(v, b, pc)' => Registers(v, b, pc)
      PROVE  RegInv'
  BY <1>2, OtherStepsReg, TablesStayUnchanged DEF dbVars, seenVars
<1>3. ASSUME NEW p \in Account, Connect(p)
      PROVE  RegInv'
  BY <1>2, <1>3 DEF Connect, Registers
<1>4. ASSUME NEW fd \in FD, Disconnect(fd)
      PROVE  RegInv'
  BY <1>2, <1>4 DEF Disconnect, Registers
<1>5. ASSUME NEW w \in Worker, Begin(w)
      PROVE  RegInv'
  <2>1. UNCHANGED <<dbVars, seenVars>>
    BY <1>5 DEF Begin
  <2>2. PICK fd \in FD, r \in Request :
          job' = [v \in Worker |->
                  IF v = w THEN Task(r, fd, "start", None) ELSE job[v]]
    BY <1>5, BeginStep
  <2>3. job'[w].pc = "start"
    BY <2>2, TaskFields
  <2>4. QED
    BY <1>2, <2>1, <2>2, <2>3 DEF Registers
<1>6. CASE Restart
  BY <1>2, <1>6 DEF Restart, Registers
<1>7. CASE UNCHANGED vars
  BY <1>2, <1>7 DEF vars, Registers
<1>8. QED
  BY <1>1, <1>3, <1>4, <1>5, <1>6, <1>7 DEF Next

\* An account is given away once, and who is told so has all its tables, however
\* many handlers register the same name at once, and across crashes.
THEOREM AccountsAreGivenOnce == Spec => []RegisteredOnce
<1>1. Init => RegInv
  BY DEF Init, RegInv, Registers
<1>2. RegInv => RegisteredOnce
  BY DEF RegInv, RegisteredOnce, TablesUpTo
<1>3. TypeInv /\ RegInv /\ [Next]_vars => RegInv'
  BY NextKeepsReg
<1>4. QED
  BY <1>1, <1>2, <1>3, InitTypes, NextKeepsTypes, PTL DEF Spec
-----------------------------------------------------------------------------
(* Which requests change what                                              *)

Frame(w) ==
  /\ job[w].op \notin {"REGISTRE", "LOGIN"} => UNCHANGED user
  /\ job[w].op \notin {"REGISTRE", "AGREE_FRIENDS_APPLY"} => UNCHANGED friends
  /\ job[w].op \notin {"REGISTRE", "CREATE_GROUP", "GROUP_ADD"} =>
       UNCHANGED <<groups, myGroups>>
  /\ job[w].op \notin {"REGISTRE", "ADD_FRIENDS", "READ_ALL_INFO",
                      "READ_GINGLE_INFO"} => UNCHANGED inform
  /\ job[w].op \notin {"READ_ALL_INFO", "READ_GINGLE_INFO"} => UNCHANGED shown
  /\ job[w].op \notin {"SEND_MESSAGE", "GROUP_SEND_MESSAGE"} => UNCHANGED stray

LEMMA HandlerFrame ==
  ASSUME NEW w \in Worker, thread_handler(w)
  PROVE  Frame(w) /\ UNCHANGED <<conn, restarts, asked>>
<1>1. CASE Crash
  BY <1>1 DEF Crash, Frame, dbVars, seenVars
<1>2. CASE Registre(w) \/ Login(w) \/ SendMessage(w) \/ AddFriends(w)
  BY <1>1, <1>2 DEF Registre, RegisterInsert, RegisterTables, RegisterReply,
     Login, LoginCheck, LoginOnline, LoginSock, SendMessage, SendLookUp,
     SendDeliver, AddFriends, At, Steady, Frame, dbVars, seenVars
<1>3. CASE AgreeFriendsApply(w) \/ ReadInfo(w)
  BY <1>1, <1>3 DEF AgreeFriendsApply, AgreeOwn, AgreeOther, ReadInfo,
     ReadAllSelect, ReadAllSend, ReadAllMark, ReadOneSelect, ReadOneSend,
     ReadOneMark, At, Steady, Frame, dbVars, seenVars
<1>4. CASE CreateGroup(w) \/ GroupAdd(w) \/ GroupSendMessage(w)
  BY <1>1, <1>4 DEF CreateGroup, CreateGroupTable, CreateGroupMember,
     CreateGroupList, GroupAdd, GroupAddInsert, GroupAddList, GroupSendMessage,
     GroupSendSelect, GroupSendDeliver, GroupSendNobody, At, Steady, Frame,
     dbVars, seenVars
<1>5. CASE SendFile(w) \/ RecvFile(w)
  BY <1>1, <1>5 DEF SendFile, RecvFile, At, Steady, Frame, dbVars, seenVars
<1>6. QED
  BY <1>2, <1>3, <1>4, <1>5 DEF thread_handler

\* A handler does what the request it works on is.
LEMMA Dispatch ==
  ASSUME NEW w \in Worker, thread_handler(w)
  PROVE  /\ job[w].op = "REGISTRE" => Registre(w)
         /\ job[w].op = "LOGIN" => Login(w)
         /\ job[w].op = "SEND_MESSAGE" => SendMessage(w)
         /\ job[w].op = "ADD_FRIENDS" => AddFriends(w)
         /\ job[w].op = "AGREE_FRIENDS_APPLY" => AgreeFriendsApply(w)
         /\ job[w].op \in {"READ_ALL_INFO", "READ_GINGLE_INFO"} => ReadInfo(w)
         /\ job[w].op \in {"CREATE_GROUP", "GROUP_ADD"} => CreateGroup(w) \/ GroupAdd(w)
         /\ job[w].op = "GROUP_SEND_MESSAGE" => GroupSendMessage(w)
<1>1. Registre(w) => job[w].op = "REGISTRE"
  BY DEF Registre, RegisterInsert, RegisterTables, RegisterReply, At
<1>2. Login(w) => job[w].op = "LOGIN"
  BY DEF Login, LoginCheck, LoginOnline, LoginSock, At
<1>3. SendMessage(w) => job[w].op = "SEND_MESSAGE"
  BY DEF SendMessage, SendLookUp, SendDeliver, At
<1>4. AddFriends(w) => job[w].op = "ADD_FRIENDS"
  BY DEF AddFriends, At
<1>5. AgreeFriendsApply(w) => job[w].op = "AGREE_FRIENDS_APPLY"
  BY DEF AgreeFriendsApply, AgreeOwn, AgreeOther, At
<1>6. ReadInfo(w) => job[w].op \in {"READ_ALL_INFO", "READ_GINGLE_INFO"}
  BY DEF ReadInfo, ReadAllSelect, ReadAllSend, ReadAllMark, ReadOneSelect,
     ReadOneSend, ReadOneMark, At
<1>7. CreateGroup(w) \/ GroupAdd(w) => job[w].op \in {"CREATE_GROUP", "GROUP_ADD"}
  BY DEF CreateGroup, CreateGroupTable, CreateGroupMember, CreateGroupList,
     GroupAdd, GroupAddInsert, GroupAddList, At
<1>8. GroupSendMessage(w) => job[w].op = "GROUP_SEND_MESSAGE"
  BY DEF GroupSendMessage, GroupSendSelect, GroupSendDeliver, GroupSendNobody, At
<1>9. SendFile(w) \/ RecvFile(w) => job[w].op \in {"SEND_FILE", "RECV_FILE"}
  BY DEF SendFile, RecvFile, At
<1>10. QED
  BY <1>1, <1>2, <1>3, <1>4, <1>5, <1>6, <1>7, <1>8, <1>9 DEF thread_handler

LEMMA NextStays ==
  ASSUME TypeInv, [Next]_vars
  PROVE  TablesStay
BY HandlerStays, TablesStayUnchanged
   DEF Next, Connect, Disconnect, Begin, Restart, vars, dbVars

\* Everybody has an account.
AllKnown ==
  \A a \in Account :
    /\ user[a] # None /\ friends[a] # None
    /\ inform[a] # None /\ myGroups[a] # None

LEMMA InitKnown ==
  ASSUME Known = Account, Init
  PROVE  AllKnown
<1>1. /\ [state |-> "offline", sock |-> 0] \in UserRow
      /\ [g \in Group |-> 0] \in [Group -> Nat]
      /\ <<>> \in Seq(Notice)
  BY EmptySeq DEF UserRow
<1>2. /\ [state |-> "offline", sock |-> 0] # None
      /\ [g \in Group |-> 0] # None /\ <<>> # None /\ {} # None
  BY <1>1, NoneAssumption
<1>3. QED
  BY <1>2 DEF Init, AllKnown

LEMMA NextKeepsKnown ==
  ASSUME TypeInv, AllKnown, [Next]_vars
  PROVE  AllKnown'
BY NextStays DEF AllKnown, TablesStay

\* Then a registration changes nothing any more.
LEMMA RegistreFrame ==
  ASSUME TypeInv, AllKnown, NEW w \in Worker, thread_handler(w),
         job[w].op = "REGISTRE"
  PROVE  UNCHANGED dbVars
<1>1. /\ friends \in [Account -> {None} \cup SUBSET Account]
      /\ inform \in [Account -> {None} \cup Seq(NoticeOf(notices))]
      /\ myGroups \in [Account -> {None} \cup [Group -> Nat]]
      /\ job[w].from \in Account
  BY TypeParts, TaskType DEF TypeInv, TableTypes, thread_handler
<1>2. CASE Registre(w)
  <2>1. CASE RegisterInsert(w)
    BY <1>1, <2>1 DEF RegisterInsert, AllKnown, HasRow, dbVars
  <2>2. CASE RegisterTables(w)
    <3>1. PICK a \in Account : a = job[w].from
      BY <1>1
    <3>2. \/ /\ friends' = [friends EXCEPT ![a] = friends[a]]
             /\ UNCHANGED <<myGroups, inform>>
          \/ /\ myGroups' = [myGroups EXCEPT ![a] = myGroups[a]]
             /\ UNCHANGED <<friends, inform>>
          \/ /\ inform' = [inform EXCEPT ![a] = inform[a]]
             /\ UNCHANGED <<friends, myGroups>>
      BY <2>2, <3>1 DEF RegisterTables, CreateTable, AllKnown
    <3>3. UNCHANGED <<friends, myGroups, inform>>
      BY <1>1, <3>2
    <3>4. QED
      BY <2>2, <3>3 DEF RegisterTables, dbVars
  <2>3. CASE RegisterReply(w)
    BY <2>3 DEF RegisterReply
  <2>4. QED
    BY <1>2, <2>1, <2>2, <2>3 DEF Registre
<1>3. QED
  BY <1>2, Dispatch

-----------------------------------------------------------------------------
(* Friends                                                                 *)

\* Handler w has told a that b is a friend, and b not yet.
Agrees(w, a, b) ==
  /\ job[w] # Idle /\ At(w, "AGREE_FRIENDS_APPLY", "other")
  /\ job[w].from = a /\ job[w].to = b

\* The inductive invariant behind FriendshipMutual: whoever is a friend of one
\* side only is about to become one of the other.
FriendInv ==
  /\ \A w \in Worker, a, b \in Account : Agrees(w, a, b) => b \in friends[a]
  /\ restarts = 0 =>
       \A a, b \in Account :
         b \in friends[a] => a \in friends[b] \/ \E w \in Worker : Agrees(w, a, b)

LEMMA OtherStepsFriend ==
  ASSUME FriendInv, UNCHANGED <<friends, restarts>>,
         \A w \in Worker, a, b \in Account : Agrees(w, a, b) <=> Agrees(w, a, b)'
  PROVE  FriendInv'
BY DEF FriendInv

LEMMA HandlerKeepsFriend ==
  ASSUME TypeInv, AllKnown, FriendInv, NEW w \in Worker, thread_handler(w)
  PROVE  FriendInv'
<1>1. Frame(w) /\ UNCHANGED restarts
  BY HandlerFrame
<1>2. CASE Crash
  BY <1>2, OtherStepsFriend DEF Crash, Agrees, At, dbVars
<1>3. CASE job[w].op # "AGREE_FRIENDS_APPLY" /\ ~Crash
  <2>1. UNCHANGED friends
    BY <1>1, <1>3, RegistreFrame DEF Frame, dbVars
  <2>2. \A v \in Worker \ {w} : job'[v] = job[v]
    BY <1>3, HandlerJob DEF JobStep
  <2>3. job'[w] = Idle \/ job'[w].op = job[w].op
    BY <1>3, HandlerJob, TaskFields DEF JobStep
  <2>4. QED
    BY <1>1, <1>3, <2>1, <2>2, <2>3, OtherStepsFriend DEF Agrees, At
<1>4. CASE job[w].op = "AGREE_FRIENDS_APPLY" /\ ~Crash
  <2>1. PICK a \in Account, b \in Account : a = job[w].from /\ b = job[w].to
    BY TypeParts, TaskType DEF TypeInv, thread_handler
  <2>2. /\ \A v \in Worker \ {w} : job'[v] = job[v]
        /\ friends \in [Account -> {None} \cup SUBSET Account]
        /\ DOMAIN job = Worker /\ job[w] # Idle
    BY <1>4, HandlerJob, TypeParts
       DEF JobStep, TypeInv, TableTypes, JobTypes, thread_handler
  <2>3. \A v \in Worker \ {w}, c, d \in Account : Agrees(v, c, d) <=> Agrees(v, c, d)'
    BY <2>2 DEF Agrees, At
  <2>4. AgreeOwn(w) \/ AgreeOther(w)
    BY <1>4, Dispatch DEF AgreeFriendsApply
  <2>5. CASE AgreeOwn(w)
    <3>1. /\ job[w].pc = "start" /\ Goto(w, "other")
          /\ friends' = [friends EXCEPT ![a] = InsertKey(friends[a], b)]
      BY <1>4, <2>1, <2>5 DEF AgreeOwn, At
    <3>2. friends' = [friends EXCEPT ![a] = friends[a] \cup {b}]
      BY <2>1, <3>1 DEF InsertKey, AllKnown
    <3>3. job'[w] = Task(job[w], job[w].fd, "other", job[w].val)
      BY <2>2, <3>1 DEF Goto, GotoWith
    <3>4. Agrees(w, a, b)'
      <4>1. /\ job'[w].op = "AGREE_FRIENDS_APPLY" /\ job'[w].pc = "other"
            /\ job'[w].from = a /\ job'[w].to = b
        BY <1>4, <2>1, <3>3, TaskFields
      <4>2. job'[w] # Idle
        BY <4>1 DEF Idle
      <4>3. QED
        BY <4>1, <4>2 DEF Agrees, At
    <3>5. \A c, d \in Account : ~Agrees(w, c, d)
      BY <3>1 DEF Agrees, At
    <3>6. \A c, d \in Account : Agrees(w, c, d)' => c = a /\ d = b
      BY <2>1, <3>3, TaskFields DEF Agrees
    <3>7. \A v \in Worker, c, d \in Account : Agrees(v, c, d)' => d \in friends'[c]
      BY <2>2, <2>3, <3>2, <3>6 DEF FriendInv
    <3>8. ASSUME restarts = 0, NEW c \in Account, NEW d \in Account, d \in friends'[c]
          PROVE  c \in friends'[d] \/ \E v \in Worker : Agrees(v, c, d)'
      BY <2>2, <2>3, <3>2, <3>4, <3>5, <3>8 DEF FriendInv
    <3>9. QED
      BY <1>1, <3>7, <3>8 DEF FriendInv
  <2>6. CASE AgreeOther(w)
    <3>1. friends' = [friends EXCEPT ![b] = friends[b] \cup {a}]
      BY <2>1, <2>6 DEF AgreeOther, InsertKey, AllKnown
    <3>2. Agrees(w, a, b) /\ \A c, d \in Account : Agrees(w, c, d) => c = a /\ d = b
      BY <2>1, <2>2, <2>6 DEF AgreeOther, Agrees
    <3>3. \A c, d \in Account : ~Agrees(w, c, d)'
      BY <2>2, <2>6 DEF AgreeOther, Leave, Agrees
    <3>4. b \in friends'[a] /\ a \in friends'[b]
      BY <2>2, <3>1, <3>2 DEF FriendInv
    <3>5. \A c \in Account : friends[c] \subseteq friends'[c]
      BY <2>2, <3>1
    <3>6. \A v \in Worker, c, d \in Account : Agrees(v, c, d)' => d \in friends'[c]
      BY <2>3, <3>3, <3>5 DEF FriendInv
    <3>7. ASSUME restarts = 0, NEW c \in Account, NEW d \in Account, d \in friends'[c]
          PROVE  c \in friends'[d] \/ \E v \in Worker : Agrees(v, c, d)'
      <4>1. CASE d \in friends[c]
        BY <2>3, <3>2, <3>4, <3>5, <3>7, <4>1 DEF FriendInv
      <4>2. CASE d \notin friends[c]
        <5>1. c = b /\ d = a
          BY <2>2, <3>1, <3>7, <4>2
        <5>2. QED
          BY <3>4, <5>1
      <4>3. QED
        BY <4>1, <4>2
    <3>8. QED
      BY <1>1, <3>6, <3>7 DEF FriendInv
  <2>7. QED
    BY <2>4, <2>5, <2>6
<1>5. QED
  BY <1>2, <1>3, <1>4

LEMMA NextKeepsFriend ==
  ASSUME TypeInv, AllKnown, FriendInv, [Next]_vars
  PROVE  FriendInv'
<1>1. ASSUME NEW w \in Worker, Begin(w)
      PROVE  FriendInv'
  <2>1. PICK fd \in FD, r \in Request :
          job' = [v \in Worker |->
                  IF v = w THEN Task(r, fd, "start", None) ELSE job[v]]
    BY <1>1, BeginStep
  <2>2. job[w] = Idle /\ job'[w].pc = "start" /\ UNCHANGED <<friends, restarts>>
    BY <1>1, <2>1, TaskFields DEF Begin, dbVars
  <2>3. QED
    BY <2>1, <2>2, OtherStepsFriend DEF Agrees, At
<1>2. CASE Restart
  <2>1. restarts' # 0
    BY <1>2, TypeParts, ChatServerAssumption DEF Restart, TypeInv, RestTypes
  <2>2. \A w \in Worker, a, b \in Account : ~Agrees(w, a, b)'
    BY <1>2 DEF Restart, Agrees
  <2>3. QED
    BY <2>1, <2>2 DEF FriendInv
<1>3. ASSUME UNCHANGED <<friends, restarts, job>>
      PROVE  FriendInv'
  BY <1>3, OtherStepsFriend DEF Agrees, At
<1>4. QED
  BY <1>1, <1>2, <1>3, HandlerKeepsFriend
     DEF Next, Connect, Disconnect, vars, dbVars

\* Among people who have accounts, friendship is mutual whenever nobody is in
\* the middle of accepting, in whatever order the statements of handlers that
\* accept each other's people come.
THEOREM FriendsAreMutual ==
  ASSUME Known = Account
  PROVE  Spec => []FriendshipMutual
<1>1. Init => FriendInv
  BY DEF Init, FriendInv, Agrees
<1>2. FriendInv => FriendshipMutual
  <2>1. ASSUME FriendInv, restarts = 0, ~InProgress({"AGREE_FRIENDS_APPLY"}),
               NEW a \in Account, NEW b \in Account, b \in friends[a]
        PROVE  a \in friends[b]
    BY <2>1 DEF FriendInv, InProgress, Agrees, At
  <2>2. QED
    BY <2>1 DEF FriendshipMutual
<1>3. AllKnown /\ TypeInv /\ FriendInv /\ [Next]_vars => AllKnown' /\ FriendInv'
  BY NextKeepsFriend, NextKeepsKnown
<1>4. Init => AllKnown
  BY InitKnown
<1>5. QED
  BY <1>1, <1>2, <1>3, <1>4, InitTypes, NextKeepsTypes, PTL DEF Spec

-----------------------------------------------------------------------------
(* Groups                                                                  *)

\* Handler w has put a into group g and goes on to a's list of groups.
Lists(w, a, g) ==
  /\ job[w] # Idle /\ job[w].pc = "list" /\ job[w].group = g
  /\ \/ job[w].op = "CREATE_GROUP" /\ job[w].from = a
     \/ job[w].op = "GROUP_ADD" /\ job[w].to = a

\* The inductive invariant behind MembersKnowTheirGroups.
MemberInv ==
  restarts = 0 =>
    \A g \in Group, a \in Account :
      groups[g] # None /\ a \in groups[g] =>
        myGroups[a][g] > 0 \/ \E w \in Worker : Lists(w, a, g)

LEMMA OtherStepsMember ==
  ASSUME MemberInv, UNCHANGED <<groups, myGroups, restarts>>,
         \A w \in Worker, a \in Account, g \in Group :
           Lists(w, a, g) => Lists(w, a, g)'
  PROVE  MemberInv'
BY DEF MemberInv

LEMMA HandlerKeepsMember ==
  ASSUME TypeInv, AllKnown, MemberInv, NEW w \in Worker, thread_handler(w)
  PROVE  MemberInv'
<1>1. Frame(w) /\ UNCHANGED restarts
  BY HandlerFrame
<1>2. CASE Crash
  BY <1>2, OtherStepsMember DEF Crash, Lists, dbVars
<1>3. CASE job[w].op \notin {"CREATE_GROUP", "GROUP_ADD"} /\ ~Crash
  <2>1. UNCHANGED <<groups, myGroups>>
    BY <1>1, <1>3, RegistreFrame DEF Frame, dbVars
  <2>2. \A v \in Worker \ {w} : job'[v] = job[v]
    BY <1>3, HandlerJob DEF JobStep
  <2>3. QED
    BY <1>1, <1>3, <2>1, <2>2, OtherStepsMember DEF Lists
<1>4. CASE job[w].op \in {"CREATE_GROUP", "GROUP_ADD"} /\ ~Crash
  <2>1. PICK a \in Account, g \in Group :
          /\ g = job[w].group
          /\ job[w].op = "CREATE_GROUP" => a = job[w].from
          /\ job[w].op = "GROUP_ADD" => a = job[w].to
    BY TypeParts, TaskType DEF TypeInv, thread_handler
  <2>2. /\ \A v \in Worker \ {w} : job'[v] = job[v]
        /\ DOMAIN job = Worker /\ job[w] # Idle
        /\ groups \in [Group -> {None} \cup SUBSET Account]
        /\ myGroups \in [Account -> [Group -> Nat]]
    BY <1>4, HandlerJob, TypeParts
       DEF JobStep, TypeInv, TableTypes, JobTypes, AllKnown, thread_handler
  <2>3. \A v \in Worker \ {w}, b \in Account, h \in Group :
          Lists(v, b, h) => Lists(v, b, h)'
    BY <2>2 DEF Lists
  <2>4. \A b \in Account, h \in Group : Lists(w, b, h) => b = a /\ h = g
    BY <2>1 DEF Lists
  <2>5. CASE CreateGroupTable(w)
    <3>1. /\ groups' = [groups EXCEPT ![g] = CreateTable(groups[g], g, {})]
          /\ myGroups' = myGroups /\ job[w].pc = "start"
      BY <2>1, <2>5 DEF CreateGroupTable, At
    <3>2. \A h \in Group : groups'[h] = groups[h] \/ groups'[h] = {}
      BY <2>2, <3>1 DEF CreateTable
    <3>3. \A b \in Account, h \in Group : ~Lists(w, b, h)
      BY <3>1 DEF Lists
    <3>4. QED
      BY <1>1, <2>3, <3>1, <3>2, <3>3 DEF MemberInv
  <2>6. CASE CreateGroupMember(w) \/ GroupAddInsert(w)
    <3>1. /\ groups' = [groups EXCEPT ![g] = InsertKey(groups[g], a)]
          /\ myGroups' = myGroups /\ job[w].pc # "list" /\ Goto(w, "list")
      BY <1>4, <2>1, <2>6 DEF CreateGroupMember, GroupAddInsert, At
    <3>2. \A h \in Group : groups'[h] # None =>
            groups[h] # None /\ groups'[h] \subseteq groups[h] \cup
              {b \in {a} : h = g}
      BY <2>2, <3>1 DEF InsertKey
    <3>3. \A b \in Account, h \in Group : ~Lists(w, b, h)
      BY <3>1 DEF Lists
    <3>4. Lists(w, a, g)'
      <4>1. job'[w] = Task(job[w], job[w].fd, "list", job[w].val)
        BY <2>2, <3>1 DEF Goto, GotoWith
      <4>2. /\ job'[w].op = job[w].op /\ job'[w].pc = "list"
            /\ job'[w].from = job[w].from /\ job'[w].to = job[w].to
            /\ job'[w].group = g
        BY <2>1, <4>1, TaskFields
      <4>3. job'[w] # Idle
        BY <1>4, <4>2 DEF Idle
      <4>4. QED
        BY <1>4, <2>1, <4>2, <4>3 DEF Lists
    <3>5. QED
      BY <1>1, <2>3, <3>1, <3>2, <3>3, <3>4 DEF MemberInv
  <2>7. CASE CreateGroupList(w) \/ GroupAddList(w)
    <3>1. /\ myGroups' = [myGroups EXCEPT ![a] = InsertRow(myGroups[a], g)]
          /\ groups' = groups
      BY <1>4, <2>1, <2>7 DEF CreateGroupList, GroupAddList, At
    <3>2. InsertRow(myGroups[a], g) = [myGroups[a] EXCEPT ![g] = @ + 1]
      BY DEF InsertRow, AllKnown
    <3>3. /\ \A b \in Account, h \in Group : myGroups[b][h] \in Nat
          /\ myGroups'[a][g] = myGroups[a][g] + 1
          /\ \A b \in Account, h \in Group :
               ~(b = a /\ h = g) => myGroups'[b][h] = myGroups[b][h]
      BY <2>2, <3>1, <3>2
    <3>4. myGroups'[a][g] > 0
      BY <3>3
    <3>5. QED
      BY <1>1, <2>3, <2>4, <3>1, <3>3, <3>4 DEF MemberInv
  <2>8. QED
    BY <1>4, <2>5, <2>6, <2>7, Dispatch DEF CreateGroup, GroupAdd
<1>5. QED
  BY <1>2, <1>3, <1>4

LEMMA NextKeepsMember ==
  ASSUME TypeInv, AllKnown, MemberInv, [Next]_vars
  PROVE  MemberInv'
<1>1. ASSUME NEW w \in Worker, Begin(w)
      PROVE  MemberInv'
  <2>1. PICK fd \in FD, r \in Request :
          job' = [v \in Worker |->
                  IF v = w THEN Task(r, fd, "start", None) ELSE job[v]]
    BY <1>1, BeginStep
  <2>2. job[w] = Idle /\ UNCHANGED <<groups, myGroups, restarts>>
    BY <1>1 DEF Begin, dbVars
  <2>3. QED
    BY <2>1, <2>2, OtherStepsMember DEF Lists
<1>2. CASE Restart
  <2>1. restarts' # 0
    BY <1>2, TypeParts, ChatServerAssumption DEF Restart, TypeInv, RestTypes
  <2>2. QED
    BY <2>1 DEF MemberInv
<1>3. ASSUME UNCHANGED <<groups, myGroups, restarts, job>>
      PROVE  MemberInv'
  BY <1>3, OtherStepsMember DEF Lists
<1>4. QED
  BY <1>1, <1>2, <1>3, HandlerKeepsMember
     DEF Next, Connect, Disconnect, vars, dbVars

\* Among people who have accounts, a member of a group has it in the list of his
\* groups whenever nobody is in the middle of making a group or adding to one.
THEOREM MembersHaveTheirLists ==
  ASSUME Known = Account
  PROVE  Spec => []MembersKnowTheirGroups
<1>1. Init => MemberInv
  BY DEF Init, MemberInv
<1>2. TypeInv /\ MemberInv => MembersKnowTheirGroups
  <2>1. ASSUME TypeInv, MemberInv, restarts = 0,
               ~InProgress({"CREATE_GROUP", "GROUP_ADD"}),
               NEW g \in Group, groups[g] # None, NEW a \in groups[g]
        PROVE  myGroups[a][g] > 0
    <3>1. a \in Account
      BY <2>1 DEF TypeInv, TypeOK
    <3>2. QED
      BY <2>1, <3>1 DEF MemberInv, InProgress, Lists
  <2>2. QED
    BY <2>1 DEF MembersKnowTheirGroups
<1>3. AllKnown /\ TypeInv /\ MemberInv /\ [Next]_vars => AllKnown' /\ MemberInv'
  BY NextKeepsMember, NextKeepsKnown
<1>4. Init => AllKnown
  BY InitKnown
<1>5. QED
  BY <1>1, <1>2, <1>3, <1>4, InitTypes, NextKeepsTypes, PTL DEF Spec

-----------------------------------------------------------------------------
(* The history                                                             *)

LEMMA HistoryGrows ==
  ASSUME HNext
  PROVE  /\ [Next]_vars
         /\ ended \subseteq ended' /\ guessed \subseteq guessed'
         /\ muddled \subseteq muddled'
         /\ Parted \subseteq ended' /\ Unregistered \subseteq guessed'
         /\ Crossed \cup Overtaken \subseteq muddled'
BY DEF HNext

\* A handler answers the person who asked, unless his connection has ended.
Answers ==
  \A w \in Worker : job[w] # Idle =>
    conn[job[w].fd] = job[w].from \/ job[w].from \in ended

\* Who loses his descriptor goes down in history.
ConnStays ==
  \A fd \in FD : conn[fd] # None => conn'[fd] = conn[fd] \/ conn[fd] \in ended'

LEMMA NextKeepsConn ==
  ASSUME TypeInv, HNext
  PROVE  ConnStays
<1>1. \A fd \in FD : conn[fd] # None => conn[fd] \in Account
  BY DEF TypeInv, TypeOK
<1>2. Parted \subseteq ended'
  BY HistoryGrows
<1>3. QED
  BY <1>1, <1>2 DEF ConnStays, Parted

LEMMA NextKeepsAnswers ==
  ASSUME TypeInv, Answers, HNext
  PROVE  Answers'
<1>1. CASE Restart
  BY <1>1 DEF Restart, Answers
<1>2. ASSUME ~Restart, NEW v \in Worker, job'[v] # Idle
      PROVE  conn'[job'[v].fd] = job'[v].from \/ job'[v].from \in ended'
  <2>1. ConnStays /\ ended \subseteq ended'
    BY NextKeepsConn, HistoryGrows
  <2>2. CASE job[v] # Idle /\ job'[v].fd = job[v].fd /\ job'[v].from = job[v].from
    <3>1. job[v].fd \in FD /\ job[v].from \in Account
      BY <2>2, TypeParts, TaskType DEF TypeInv
    <3>2. CASE job[v].from \in ended
      BY <2>1, <2>2, <3>2
    <3>3. CASE conn[job[v].fd] = job[v].from
      <4>1. conn[job[v].fd] # None
        BY <3>1, <3>3, NoneAssumption
      <4>2. QED
        BY <2>1, <2>2, <3>1, <3>3, <4>1 DEF ConnStays
    <3>4. QED
      BY <2>2, <3>2, <3>3 DEF Answers
  <2>3. ASSUME NEW w \in Worker, Begin(w)
        PROVE  conn'[job'[v].fd] = job'[v].from \/ job'[v].from \in ended'
    <3>1. PICK fd \in FD, r \in Request :
            /\ conn[fd] # None /\ r.from = conn[fd]
            /\ job' = [u \in Worker |->
                        IF u = w THEN Task(r, fd, "start", None) ELSE job[u]]
      BY <2>3, BeginStep
    <3>2. CASE v = w
      <4>1. job'[v].fd = fd /\ job'[v].from = r.from
        BY <3>1, <3>2, TaskFields
      <4>2. QED
        BY <2>1, <3>1, <4>1 DEF ConnStays
    <3>3. CASE v # w
      BY <1>2, <2>2, <3>1, <3>3
    <3>4. QED
      BY <3>2, <3>3
  <2>4. ASSUME NEW w \in Worker, thread_handler(w)
        PROVE  conn'[job'[v].fd] = job'[v].from \/ job'[v].from \in ended'
    <3>1. CASE Crash
      BY <1>2, <2>2, <3>1 DEF Crash
    <3>2. CASE JobStep(w) /\ v = w
      <4>1. job'[w].fd = job[w].fd /\ job'[w].from = job[w].from
        BY <1>2, <3>2, TaskFields DEF JobStep
      <4>2. QED
        BY <2>2, <2>4, <3>2, <4>1 DEF thread_handler
    <3>3. CASE JobStep(w) /\ v # w
      BY <1>2, <2>2, <3>3 DEF JobStep
    <3>4. QED
      BY <2>4, <3>1, <3>2, <3>3, HandlerJob
  <2>5. CASE UNCHANGED job
    BY <1>2, <2>2, <2>5
  <2>6. QED
    BY <1>2, <2>3, <2>4, <2>5 DEF HNext, Next, Connect, Disconnect
<1>3. QED
  BY <1>1, <1>2 DEF Answers
-----------------------------------------------------------------------------
(* Messages                                                                *)

\* Number n is the descriptor of person a or of nobody, unless he has lost one.
Leads(n, a) == n = 0 \/ (n \in FD /\ conn[n] = a) \/ a \in ended

\* The inductive invariant behind StraysAreExplained: what stands in column sock,
\* and what a handler has read there, leads to that person.
SockInv ==
  /\ Answers
  /\ \A a \in Account : HasRow(a) => Leads(user[a].sock, a)
  /\ \A w \in Worker : At(w, "SEND_MESSAGE", "send") =>
       Leads(job[w].val, job[w].to) \/ job[w].to \in guessed
  /\ StraysAreExplained

LEMMA NoMiss ==
  ASSUME NEW a \in Account, NEW fd,
         Leads(fd, a) \/ a \in guessed \/ a \in guessed',
         ended \subseteq ended', guessed \subseteq guessed'
  PROVE  \A m \in Misses(a, fd) : m[1] \in ended' \cup guessed'
<1>1. \A m \in Misses(a, fd) : m[1] = a
  BY DEF Misses
<1>2. CASE a \in ended \/ a \in guessed \/ a \in guessed'
  BY <1>1, <1>2
<1>3. CASE fd = 0 \/ (fd \in FD /\ conn[fd] = a)
  <2>1. Receiver(fd) \in {None, a}
    BY <1>3, ChatServerAssumption DEF Receiver
  <2>2. QED
    BY <2>1 DEF Misses
<1>4. QED
  BY <1>2, <1>3 DEF Leads

\* What becomes of the sockets and of the lookups of handlers.
SockStep ==
  /\ \A a \in Account : HasRow(a)' => Leads(user'[a].sock, a)
  /\ \A w \in Worker : At(w, "SEND_MESSAGE", "send")' =>
       Leads(job'[w].val, job'[w].to) \/ job'[w].to \in guessed'

LEMMA IdleWaits ==
  ASSUME NEW w \in Worker, NEW op \in AllOps, NEW pc, At(w, op, pc)
  PROVE  job[w] # Idle
BY DEF At, Idle, AllOps

LEMMA SockStepKeeps ==
  ASSUME TypeInv, TypeInv', HNext, SockStep, Answers', StraysAreExplained'
  PROVE  SockInv'
<1>1. /\ None \notin Account /\ ended \subseteq ended' /\ ConnStays
      /\ \A w \in Worker : job'[w] # Idle => job'[w].to \in Account
  BY NoneAssumption, TypeParts, HistoryGrows, NextKeepsConn
     DEF TypeInv, JobTypes, JobType
<1>2. ASSUME NEW a \in Account, NEW n, Leads(n, a)
      PROVE  n = 0 \/ (n \in FD /\ conn'[n] = a) \/ a \in ended'
  BY <1>1, <1>2 DEF Leads, ConnStays
<1>3. \A a \in Account : HasRow(a)' => Leads(user[a].sock, a)'
  BY <1>2 DEF SockStep, Leads
<1>4. ASSUME NEW w \in Worker, At(w, "SEND_MESSAGE", "send")'
      PROVE  Leads(job[w].val, job[w].to)' \/ job'[w].to \in guessed'
  <2>1. job'[w].to \in Account
    BY <1>1, <1>4 DEF At, Idle
  <2>2. QED
    BY <1>2, <1>4, <2>1 DEF SockStep, Leads
<1>5. QED
  BY <1>3, <1>4 DEF SockInv

LEMMA UserStep ==
  ASSUME TypeInv, SockInv, NEW w \in Worker, thread_handler(w),
         NEW a \in Account, HasRow(a)'
  PROVE  Leads(user'[a].sock, a)
<1>1. CASE user'[a] = user[a]
  BY <1>1 DEF HasRow, SockInv
<1>2. CASE Registre(w) /\ ~Crash
  <2>1. \/ user' = user
        \/ user' = [user EXCEPT ![job[w].from] = [state |-> "offline", sock |-> 0]]
    BY <1>2 DEF Registre, RegisterInsert, RegisterTables, RegisterReply, dbVars
  <2>2. user'[a] = user[a] \/ user'[a] = [state |-> "offline", sock |-> 0]
    BY <2>1 DEF TypeInv, TypeOK
  <2>3. user'[a] = user[a] \/ user'[a].sock = 0
    BY <2>2
  <2>4. QED
    BY <1>1, <2>3 DEF Leads
<1>3. CASE Login(w) /\ user' # user
  <2>1. PICK b \in Account : b = job[w].from
    BY TypeParts, TaskType DEF TypeInv, thread_handler
  <2>2. /\ job[w].fd \in FD /\ DOMAIN user = Account
        /\ conn[job[w].fd] = b \/ b \in ended
    BY <2>1, TypeParts, TaskType DEF TypeInv, TableTypes, thread_handler, SockInv, Answers
  <2>3. PICK row :
          /\ user' = UpdateData(user, b, row)
          /\ \/ row = [user[b] EXCEPT !.state = "online"]
             \/ row = [user[b] EXCEPT !.sock = job[w].fd]
    BY <1>3, <2>1 DEF Login, LoginCheck, LoginOnline, LoginSock, dbVars
  <2>4. user' = [user EXCEPT ![b] = IF user[b] = None THEN None ELSE row]
    BY <2>3 DEF UpdateData
  <2>5. CASE a # b
    BY <1>1, <2>4, <2>5
  <2>6. CASE a = b
    <3>1. user[b] # None /\ user'[b] = row
      BY <2>2, <2>4, <2>6 DEF HasRow
    <3>2. user[b] \in UserRow
      BY <3>1 DEF TypeInv, TypeOK
    <3>3. row.sock = user[b].sock \/ row.sock = job[w].fd
      BY <2>3, <3>2 DEF UserRow
    <3>4. Leads(user[b].sock, b) /\ Leads(job[w].fd, b)
      BY <2>2, <3>1 DEF SockInv, HasRow, Leads
    <3>5. QED
      BY <2>6, <3>1, <3>3, <3>4
  <2>7. QED
    BY <2>5, <2>6
<1>4. QED
  <2>1. job[w].op \in {"REGISTRE", "LOGIN"} \/ user' = user
    BY HandlerFrame DEF Frame
  <2>2. Registre(w) \/ Login(w) \/ user' = user
    BY <2>1, Dispatch
  <2>3. Crash => user' = user
    BY DEF Crash, dbVars
  <2>4. QED
    BY <1>1, <1>2, <1>3, <2>2, <2>3

\* A handler that has looked up whom to send to.
LEMMA LookUpStep ==
  ASSUME TypeInv, SockInv, HNext, NEW w \in Worker, thread_handler(w), ~Crash,
         At(w, "SEND_MESSAGE", "send")'
  PROVE  Leads(job'[w].val, job'[w].to) \/ job'[w].to \in guessed'
<1>1. /\ JobStep(w) /\ job'[w].op = "SEND_MESSAGE" /\ job'[w].pc = "send"
      /\ job'[w] # Idle /\ DOMAIN job = Worker
  BY HandlerJob, TypeParts DEF At, Idle, TypeInv, JobTypes
<1>2. job[w].op = "SEND_MESSAGE" /\ job'[w].to = job[w].to
  BY <1>1, TaskFields DEF JobStep
<1>3. ~Leave(w)
  BY <1>1 DEF Leave
<1>4. SendLookUp(w)
  BY <1>2, <1>3, Dispatch DEF SendMessage, SendDeliver
<1>5. PICK a \in Account : a = job[w].to
  BY TypeParts, TaskType DEF TypeInv, thread_handler
<1>6. CASE user[a] = None
  <2>1. Writing(w, a)'
    BY <1>2, <1>5 DEF Writing
  <2>2. a \in Unregistered
    BY <1>6, <2>1 DEF Unregistered, HasRow
  <2>3. QED
    BY <1>2, <1>5, <2>2, HistoryGrows
<1>7. CASE user[a] # None
  <2>1. GotoWith(w, "send", user[a].sock)
    BY <1>3, <1>4, <1>5, <1>7 DEF SendLookUp, SelectInfo
  <2>2. job'[w].val = user[a].sock
    <3>1. job'[w] = Task(job[w], job[w].fd, "send", user[a].sock)
      BY <1>1, <2>1 DEF GotoWith
    <3>2. QED
      BY <3>1, TaskFields
  <2>3. QED
    BY <1>2, <1>5, <1>7, <2>2 DEF SockInv, HasRow
<1>8. QED
  BY <1>6, <1>7

\* What a handler sends is for whom it reaches, or it is explained.
LEMMA DeliverStep ==
  ASSUME TypeInv, SockInv, HNext, NEW w \in Worker, thread_handler(w)
  PROVE  StraysAreExplained'
<1>1. ended \subseteq ended' /\ guessed \subseteq guessed' /\ Unregistered \subseteq guessed'
  BY HistoryGrows
<1>2. ASSUME NEW new, stray' = stray \cup new,
             \A m \in new : m[1] \in ended' \cup guessed'
      PROVE  StraysAreExplained'
  BY <1>1, <1>2 DEF SockInv, StraysAreExplained
<1>3. CASE stray' = stray
  BY <1>1, <1>3 DEF SockInv, StraysAreExplained
<1>4. CASE SendDeliver(w)
  <2>1. job[w].to \in Account
    BY TypeParts, TaskType DEF TypeInv, thread_handler
  <2>2. Leads(job[w].val, job[w].to) \/ job[w].to \in guessed
    BY <1>4 DEF SendDeliver, SockInv
  <2>3. \A m \in Misses(job[w].to, job[w].val) : m[1] \in ended' \cup guessed'
    BY <1>1, <2>1, <2>2, NoMiss
  <2>4. QED
    BY <1>2, <1>4, <2>3 DEF SendDeliver
<1>5. CASE GroupSendDeliver(w)
  <2>1. job[w].val \subseteq Account
    BY <1>5 DEF GroupSendDeliver, At, TypeInv, JobsCarry, Carried, thread_handler
  <2>2. CASE stray' # stray
    <3>1. PICK a \in job[w].val :
            HasRow(a) /\ stray' = stray \cup Misses(a, user[a].sock)
      BY <1>5, <2>2 DEF GroupSendDeliver
    <3>2. a \in Account /\ Leads(user[a].sock, a)
      BY <2>1, <3>1 DEF SockInv
    <3>3. \A m \in Misses(a, user[a].sock) : m[1] \in ended' \cup guessed'
      BY <1>1, <3>2, NoMiss
    <3>4. QED
      BY <1>2, <3>1, <3>3
  <2>3. QED
    BY <1>3, <2>2
<1>6. CASE GroupSendNobody(w) /\ ~Crash
  <2>1. job[w].val \subseteq Account /\ At(w, "GROUP_SEND_MESSAGE", "send")
    BY <1>6 DEF GroupSendNobody, At, TypeInv, JobsCarry, Carried, thread_handler
  <2>2. PICK a \in job[w].val, fd \in FD \cup {0} :
          ~HasRow(a) /\ stray' = stray \cup Misses(a, fd)
    BY <1>6 DEF GroupSendNobody
  <2>3. a \in Unregistered
    BY <2>1, <2>2 DEF Unregistered, Writing
  <2>4. \A m \in Misses(a, fd) : m[1] \in ended' \cup guessed'
    BY <1>1, <2>1, <2>3, NoMiss
  <2>5. QED
    BY <1>2, <2>2, <2>4
<1>7. job[w].op \in {"SEND_MESSAGE", "GROUP_SEND_MESSAGE"} \/ stray' = stray
  BY HandlerFrame DEF Frame
<1>8. CASE SendMessage(w) \/ GroupSendMessage(w)
  BY <1>3, <1>4, <1>5, <1>6, <1>8 DEF SendMessage, SendLookUp, GroupSendMessage,
     GroupSendSelect, Crash, seenVars
<1>9. QED
  BY <1>3, <1>7, <1>8, Dispatch

LEMMA HandlerKeepsSock ==
  ASSUME TypeInv, TypeInv', SockInv, HNext, NEW w \in Worker, thread_handler(w)
  PROVE  SockInv'
<1>1. Answers' /\ StraysAreExplained' /\ guessed \subseteq guessed'
  BY NextKeepsAnswers, DeliverStep, HistoryGrows DEF SockInv
<1>2. \A a \in Account : HasRow(a)' => Leads(user'[a].sock, a)
  BY UserStep
<1>3. ASSUME NEW v \in Worker, At(v, "SEND_MESSAGE", "send")'
      PROVE  Leads(job'[v].val, job'[v].to) \/ job'[v].to \in guessed'
  <2>1. CASE job'[v] = job[v]
    BY <1>1, <1>3, <2>1 DEF SockInv, At
  <2>2. CASE v = w /\ ~Crash
    BY <1>3, <2>2, LookUpStep
  <2>3. QED
    BY <2>1, <2>2, HandlerJob DEF JobStep, Crash
<1>4. SockStep
  BY <1>2, <1>3 DEF SockStep
<1>5. QED
  BY <1>1, <1>4, SockStepKeeps

LEMMA NextKeepsSock ==
  ASSUME TypeInv, TypeInv', SockInv, HNext
  PROVE  SockInv'
<1>1. Answers' /\ ended \subseteq ended' /\ guessed \subseteq guessed'
  BY NextKeepsAnswers, HistoryGrows DEF SockInv
<1>2. ASSUME UNCHANGED <<user, stray>>,
             \A w \in Worker : At(w, "SEND_MESSAGE", "send")' => job'[w] = job[w]
      PROVE  SockInv'
  <2>1. SockStep
    BY <1>1, <1>2 DEF SockStep, SockInv, HasRow, At
  <2>2. StraysAreExplained'
    BY <1>1, <1>2 DEF SockInv, StraysAreExplained
  <2>3. QED
    BY <1>1, <2>1, <2>2, SockStepKeeps
<1>3. ASSUME NEW w \in Worker, Begin(w)
      PROVE  SockInv'
  <2>1. PICK fd \in FD, r \in Request :
          job' = [v \in Worker |->
                  IF v = w THEN Task(r, fd, "start", None) ELSE job[v]]
    BY <1>3, BeginStep
  <2>2. job'[w].pc = "start" /\ UNCHANGED <<user, stray>>
    BY <1>3, <2>1, TaskFields DEF Begin, dbVars, seenVars
  <2>3. QED
    BY <1>2, <2>1, <2>2 DEF At
<1>4. CASE Restart
  <2>1. UNCHANGED <<user, stray>> /\ \A w \in Worker : job'[w] = Idle
    BY <1>4 DEF Restart, dbVars, seenVars
  <2>2. QED
    BY <1>2, <2>1 DEF At, Idle
<1>5. ASSUME UNCHANGED <<user, stray, job>>
      PROVE  SockInv'
  BY <1>2, <1>5
<1>6. QED
  BY <1>3, <1>4, <1>5, HandlerKeepsSock
     DEF HNext, Next, Connect, Disconnect, dbVars, seenVars

LEMMA StutterKeepsSock ==
  ASSUME SockInv, UNCHANGED hvars
  PROVE  SockInv'
BY DEF SockInv, Answers, Leads, HasRow, At, StraysAreExplained, hvars, histVars,
       vars, dbVars, seenVars

\* A chat message that reaches another person is explained, whoever comes, leaves
\* and asks what, in any number of handlers, and across crashes.
THEOREM MessagesReachTheirPerson == HSpec => []StraysAreExplained
<1>1. HInit => Init /\ SockInv
  BY DEF HInit, Init, SockInv, Answers, HasRow, At, Idle, Leads, StraysAreExplained
<1>2. SockInv => StraysAreExplained
  BY DEF SockInv
<1>3. [HNext]_hvars => [Next]_vars
  BY DEF HNext, hvars
<1>4. TypeInv /\ TypeInv' /\ SockInv /\ [HNext]_hvars => SockInv'
  BY NextKeepsSock, StutterKeepsSock
<1>5. QED
  BY <1>1, <1>2, <1>3, <1>4, InitTypes, NextKeepsTypes, PTL DEF HSpec
-----------------------------------------------------------------------------
(* Notices                                                                 *)

\* The notice that handler w has read is the one it will mark.
ReadsOldest(w, a) ==
  /\ inform[a] # None /\ Unread(inform[a]) # {}
  /\ job[w].val = inform[a][Min(Unread(inform[a]))].id

\* What handler w has selected is what it will mark, and was sent before that.
HasSelected(w, a) ==
  /\ inform[a] # None
  /\ job[w].op = "READ_GINGLE_INFO" =>
       ReadsOldest(w, a) /\ (job[w].pc = "mark" => job[w].val \in shown[a])
  /\ job[w].op = "READ_ALL_INFO" =>
       \A i \in DOMAIN inform[a] :
         IF job[w].pc = "send" THEN inform[a][i].id \in job[w].val
                               ELSE inform[a][i].id \in shown[a]

MarksShown(a) ==
  inform[a] # None =>
    \A i \in DOMAIN inform[a] :
      inform[a][i].read => inform[a][i].id \in shown[a]

Served(a) ==
  MarksShown(a) /\ \A w \in Worker : Reading(w, a) => HasSelected(w, a)

\* Two handlers that read the notices of one person go down in history.
OneReader ==
  \A v, w \in Worker, a \in Account :
    Reading(v, a) /\ Reading(w, a) => v = w \/ a \in muddled

\* The inductive invariant behind ReadMeansShownOrMuddled.
NoticeInv ==
  /\ Answers /\ OneReader
  /\ \A a \in Account \ (ended \cup muddled) : Served(a)

LEMMA ReadingIsWork ==
  ASSUME NEW w \in Worker, NEW a \in Account, Reading(w, a)
  PROVE  job[w] # Idle /\ job[w].pc # "start"
BY DEF Reading, Idle

\* New notices come after the old ones.
Extends(old, new) ==
  /\ DOMAIN old \subseteq DOMAIN new
  /\ \A i \in DOMAIN old : new[i] = old[i]
  /\ \A i \in DOMAIN new \ DOMAIN old : ~new[i].read

LEMMA OldestStays ==
  ASSUME NEW n \in Nat, NEW m \in Nat, NEW old \in Seq(NoticeOf(n)),
         NEW new \in Seq(NoticeOf(m)), Extends(old, new), Unread(old) # {}
  PROVE  /\ Unread(new) # {} /\ Min(Unread(new)) = Min(Unread(old))
         /\ new[Min(Unread(new))] = old[Min(Unread(old))]
<1> DEFINE x == Min(Unread(old))
           y == Min(Unread(new))
<1>1. x \in DOMAIN old /\ ~old[x].read /\ \A k \in Unread(old) : x <= k
  BY OldestUnread
<1>2. x \in Unread(new)
  BY <1>1 DEF Extends, Unread
<1>3. y \in DOMAIN new /\ ~new[y].read /\ \A k \in Unread(new) : y <= k
  BY <1>2, OldestUnread
<1>4. /\ DOMAIN old = 1..Len(old) /\ Len(old) \in Nat
      /\ DOMAIN new = 1..Len(new) /\ Len(new) \in Nat
  BY LenProperties
<1> HIDE DEF x, y
<1>5. y <= x
  BY <1>2, <1>3
<1>6. y \in DOMAIN old
  BY <1>1, <1>3, <1>4, <1>5
<1>7. y \in Unread(old)
  BY <1>3, <1>6 DEF Extends, Unread
<1>8. x = y
  BY <1>1, <1>3, <1>4, <1>5, <1>7
<1>9. QED
  BY <1>1, <1>2, <1>8 DEF Extends, x, y

\* Every element of the new list is e or was in the old one.
Adds(new, old, e) ==
  \A k \in DOMAIN new : new[k] = e \/ \E j \in DOMAIN old : new[k] = old[j]

LEMMA SortedInElements ==
  ASSUME NEW n \in Nat, NEW list \in Seq(NoticeOf(n)),
         NEW i \in 1..(Len(list) + 1), NEW e, e = [id |-> n + 1, read |-> FALSE],
         NEW new, new = InsertAt(list, i, e)
  PROVE  /\ Len(new) = Len(list) + 1 /\ DOMAIN new = 1..(Len(list) + 1)
         /\ new[i] = e
         /\ Adds(new, list, e)
<1>1. NoticeOf(n) \subseteq NoticeOf(n + 1) /\ e \in NoticeOf(n + 1)
  BY DEF NoticeOf
<1>2. list \in Seq(NoticeOf(n + 1))
  BY <1>1, SeqMonotonic, Zenon
<1>3. new \in Seq(NoticeOf(n + 1)) /\ Inserts(new, list, i, e)
  BY <1>1, <1>2, InsertAtProperties
<1>4. /\ Len(new) = Len(list) + 1 /\ new[i] = e
      /\ \A k \in 1..(i - 1) : new[k] = list[k]
      /\ \A k \in (i + 1)..(Len(list) + 1) : new[k] = list[k - 1]
  BY <1>3 DEF Inserts
<1>5. /\ Len(list) \in Nat /\ DOMAIN list = 1..Len(list)
      /\ DOMAIN new = 1..(Len(list) + 1)
  BY <1>3, <1>4, LenProperties
<1>6. ASSUME NEW k \in 1..(Len(list) + 1)
      PROVE  new[k] = e \/ \E j \in 1..Len(list) : new[k] = list[j]
  <2>1. CASE k < i
    <3>1. k \in 1..(i - 1) /\ k \in 1..Len(list)
      BY <1>5, <2>1
    <3>2. QED
      BY <1>4, <3>1
  <2>2. CASE k > i
    <3>1. k \in (i + 1)..(Len(list) + 1) /\ k - 1 \in 1..Len(list)
      BY <1>5, <2>2
    <3>2. QED
      BY <1>4, <3>1
  <2>3. CASE k = i
    BY <1>4, <2>3
  <2>4. k < i \/ k = i \/ k > i
    BY <1>5
  <2>5. QED
    BY <2>1, <2>2, <2>3, <2>4
<1>7. Adds(new, list, e)
  BY <1>5, <1>6 DEF Adds
<1>8. QED
  BY <1>4, <1>5, <1>7

\* If all but the last are as they were, the new one is the last.
LEMMA SortedInLast ==
  ASSUME NEW n \in Nat, NEW list \in Seq(NoticeOf(n)),
         NEW i \in 1..(Len(list) + 1), NEW e, e = [id |-> n + 1, read |-> FALSE],
         Front(InsertAt(list, i, e)) = list
  PROVE  Extends(list, InsertAt(list, i, e))
<1> DEFINE new == InsertAt(list, i, e)
<1>1. /\ Len(new) = Len(list) + 1 /\ DOMAIN new = 1..(Len(list) + 1)
      /\ new[i] = e
  BY SortedInElements
<1>2. Len(list) \in Nat /\ DOMAIN list = 1..Len(list)
  BY LenProperties
<1>3. Front(new) = list
  OBVIOUS
<1> HIDE DEF new
<1>4. Front(new) = [k \in 1..Len(list) |-> new[k]]
  <2>1. Front(new) = SubSeq(new, 1, Len(list))
    BY <1>1, <1>2 DEF Front
  <2>2. SubSeq(new, 1, Len(list)) = [k \in 1..Len(list) |-> new[k]]
    BY <1>2 DEF SubSeq
  <2>3. QED
    BY <2>1, <2>2
<1>5. \A k \in 1..Len(list) : new[k] = list[k]
  BY <1>3, <1>4
<1>6. i \notin 1..Len(list)
  <2>1. SUFFICES ASSUME i \in 1..Len(list) PROVE FALSE
    OBVIOUS
  <2>2. list[i].id \in 1..n
    BY <1>2, <2>1, NumberOfNotice
  <2>3. list[i].id = n + 1
    BY <1>1, <1>5, <2>1
  <2>4. QED
    BY <2>2, <2>3
<1>7. i = Len(list) + 1 /\ ~new[i].read
  BY <1>1, <1>2, <1>6
<1>8. Extends(list, new)
  BY <1>1, <1>2, <1>5, <1>7 DEF Extends
<1>9. QED
  BY <1>8 DEF new

\* A step that has nothing to do with the notices of a.
LEMMA OrdinaryStep ==
  ASSUME NEW a \in Account, Served(a),
         inform'[a] = inform[a] \/ (inform[a] = None /\ inform'[a] = <<>>),
         shown[a] \subseteq shown'[a],
         \A v \in Worker : Reading(v, a)' => Reading(v, a) /\ job'[v] = job[v]
  PROVE  Served(a)'
<1>1. MarksShown(a)'
  <2>1. CASE inform'[a] = inform[a]
    BY <2>1 DEF Served, MarksShown
  <2>2. CASE inform'[a] = <<>>
    <3>1. DOMAIN inform'[a] = {}
      BY <2>2
    <3>2. QED
      BY <3>1 DEF MarksShown
  <2>3. QED
    BY <2>1, <2>2
<1>2. ASSUME NEW v \in Worker, Reading(v, a)'
      PROVE  HasSelected(v, a)'
  <2>1. HasSelected(v, a) /\ job'[v] = job[v]
    BY <1>2 DEF Served
  <2>2. inform'[a] = inform[a] /\ inform[a] # None
    BY <2>1 DEF HasSelected
  <2>3. QED
    BY <2>1, <2>2 DEF HasSelected, ReadsOldest
<1>3. QED
  BY <1>1, <1>2 DEF Served
\* A registration leaves a list alone or creates it.
LEMMA RegistreLists ==
  ASSUME TypeInv, NEW w \in Worker, job[w] # Idle, Registre(w), NEW a \in Account
  PROVE  inform'[a] = inform[a] \/ (inform[a] = None /\ inform'[a] = <<>>)
<1>1. PICK b \in Account : b = job[w].from
  BY TaskPeople
<1>2. CASE UNCHANGED inform
  BY <1>2
<1>3. CASE inform' = [inform EXCEPT ![b] = CreateTable(@, b, <<>>)]
  <2>1. DOMAIN inform = Account
    BY DEF TypeInv, TypeOK
  <2>2. inform' = [inform EXCEPT ![b] = CreateTable(inform[b], b, <<>>)]
    BY <1>3
  <2>3. QED
    BY <2>1, <2>2 DEF CreateTable
<1>4. QED
  BY <1>1, <1>2, <1>3
     DEF Registre, RegisterInsert, RegisterTables, RegisterReply, dbVars

\* A notice is stored: no handler reads all notices of a, and for one that reads a
\* single one it comes after the others.
LEMMA StoreKeepsServed ==
  ASSUME TypeInv, TypeInv', HNext, NEW w \in Worker, job[w] # Idle, AddFriends(w),
         NEW a \in Account, a \notin muddled', Served(a)
  PROVE  Served(a)'
<1>1. /\ Leave(w) /\ shown' = shown /\ DOMAIN job = Worker /\ DOMAIN inform = Account
      /\ notices \in Nat
  BY TypeParts DEF AddFriends, TypeInv, JobTypes, TableTypes, SeenTypes
<1>2. \A v \in Worker : Reading(v, a)' => Reading(v, a) /\ job'[v] = job[v]
  BY <1>1 DEF Leave, Reading, Idle
<1>3. CASE inform'[a] = inform[a]
  BY <1>1, <1>2, <1>3, OrdinaryStep
<1>4. CASE inform'[a] # inform[a]
  <2>1. a = job[w].to /\ inform[a] # None
    BY <1>1, <1>4 DEF AddFriends
  <2>2. inform[a] \in Seq(NoticeOf(notices))
    BY <2>1, TypeParts DEF TypeInv, TableTypes
  <2>3. Len(inform[a]) \in Nat
    BY <2>2, LenProperties
  <2>4. PICK i \in 1..(Len(inform[a]) + 1) :
          inform' = [inform EXCEPT ![a] =
            InsertAt(inform[a], i, [id |-> notices + 1, read |-> FALSE])]
    <3>1. PICK i \in IF TimesGrow THEN {Len(inform[a]) + 1}
                                  ELSE 1..(Len(inform[a]) + 1) :
            inform' = [inform EXCEPT ![a] =
              InsertAt(inform[a], i, [id |-> notices', read |-> FALSE])]
      BY <2>1 DEF AddFriends
    <3>2. i \in 1..(Len(inform[a]) + 1) /\ notices' = notices + 1
      BY <2>1, <2>3 DEF AddFriends
    <3>3. QED
      BY <3>1, <3>2
  <2>5. PICK e : e = [id |-> notices + 1, read |-> FALSE]
    OBVIOUS
  <2>6. inform'[a] = InsertAt(inform[a], i, e)
    BY <1>1, <2>4, <2>5
  <2>7. Len(inform'[a]) = Len(inform[a]) + 1 /\ Adds(inform'[a], inform[a], e)
    <3>1. PICK new : new = InsertAt(inform[a], i, e)
      OBVIOUS
    <3>2. Len(new) = Len(inform[a]) + 1 /\ Adds(new, inform[a], e)
      BY <1>1, <2>2, <2>5, <3>1, SortedInElements
    <3>3. QED
      BY <2>6, <3>1, <3>2
  <2>8. MarksShown(a)'
    <3>1. ~e.read
      BY <2>5
    <3>2. \A j \in DOMAIN inform[a] :
            inform[a][j].read => inform[a][j].id \in shown[a]
      BY <2>1 DEF Served, MarksShown
    <3>3. QED
      BY <1>1, <2>7, <3>1, <3>2 DEF MarksShown, Adds
  <2>9. ASSUME NEW v \in Worker, Reading(v, a)'
        PROVE  HasSelected(v, a)'
    <3>1. Reading(v, a) /\ HasSelected(v, a) /\ job'[v] = job[v]
      BY <1>2, <2>9 DEF Served
    <3>2. job[v].op # "READ_ALL_INFO" /\ Front(inform'[a]) = inform[a]
      <4>1. a \notin Overtaken
        BY HistoryGrows
      <4>2. Len(inform'[a]) > Len(inform[a])
        BY <2>3, <2>7
      <4>3. QED
        BY <2>1, <3>1, <4>1, <4>2 DEF Overtaken
    <3>3. Extends(inform[a], inform'[a])
      BY <1>1, <2>2, <2>5, <2>6, <3>2, SortedInLast
    <3>4. job[v].op = "READ_GINGLE_INFO" /\ ReadsOldest(v, a)
      BY <3>1, <3>2 DEF Reading, HasSelected
    <3>5. inform'[a] # None /\ inform'[a] \in Seq(NoticeOf(notices')) /\ notices' \in Nat
      <4>1. inform'[a] # None
        BY <2>1, AddFriendsStays DEF TablesStay
      <4>2. QED
        BY <4>1, TypeParts DEF TypeInv, TableTypes, SeenTypes
    <3>6. /\ Unread(inform'[a]) # {}
          /\ inform'[a][Min(Unread(inform'[a]))] = inform[a][Min(Unread(inform[a]))]
      BY <1>1, <2>2, <3>3, <3>4, <3>5, OldestStays DEF ReadsOldest
    <3>7. ReadsOldest(v, a)'
      BY <3>1, <3>4, <3>5, <3>6 DEF ReadsOldest
    <3>8. QED
      BY <1>1, <3>1, <3>2, <3>4, <3>5, <3>7 DEF HasSelected
  <2>10. QED
    BY <2>8, <2>9 DEF Served
<1>5. QED
  BY <1>3, <1>4

\* A step of the one handler that reads the notices of a.
LEMMA ReadKeepsServed ==
  ASSUME TypeInv, NoticeInv, HNext, OneReader', NEW w \in Worker, job[w] # Idle,
         ReadInfo(w), NEW a \in Account, a = job[w].from,
         a \notin ended', a \notin muddled', Served(a)
  PROVE  Served(a)'
<1>1. /\ DOMAIN job = Worker /\ DOMAIN inform = Account /\ notices \in Nat
      /\ inform[a] # None => inform[a] \in Seq(NoticeOf(notices))
      /\ a \notin muddled /\ a \notin ended
  BY TypeParts, HistoryGrows DEF TypeInv, JobTypes, TableTypes, SeenTypes
<1>2. ASSUME Reading(w, a)', HasSelected(w, a)', MarksShown(a)'
      PROVE  Served(a)'
  BY <1>2 DEF Served, OneReader
<1>3. ASSUME Reading(w, a), Leave(w), MarksShown(a)'
      PROVE  Served(a)'
  <2>1. \A v \in Worker : v # w => ~Reading(v, a) /\ job'[v] = job[v]
    BY <1>1, <1>3 DEF NoticeInv, OneReader, Leave
  <2>2. job'[w] = Idle
    BY <1>1, <1>3 DEF Leave
  <2>3. \A v \in Worker : ~Reading(v, a)'
    BY <2>1, <2>2 DEF Reading, Idle
  <2>4. QED
    BY <1>3, <2>3 DEF Served
<1>4. ASSUME NEW val, NEW pc \in {"send", "mark"}, GotoWith(w, pc, val),
             job[w].op \in {"READ_ALL_INFO", "READ_GINGLE_INFO"}
      PROVE  /\ Reading(w, a)' /\ job'[w].op = job[w].op
             /\ job'[w].pc = pc /\ job'[w].val = val
  <2>1. job'[w] = Task(job[w], job[w].fd, pc, val)
    BY <1>1, <1>4 DEF GotoWith
  <2>2. QED
    BY <1>4, <2>1, TaskFields DEF Reading
<1>5. CASE ReadAllSelect(w) \/ ReadOneSelect(w)
  <2>1. UNCHANGED <<inform, shown>>
    BY <1>5 DEF ReadAllSelect, ReadOneSelect, dbVars, seenVars
  <2>2. MarksShown(a)'
    BY <2>1 DEF Served, MarksShown
  <2>3. CASE Leave(w)
    <3>1. \A v \in Worker : Reading(v, a)' => Reading(v, a) /\ job'[v] = job[v]
      BY <1>1, <2>3 DEF Leave, Reading, Idle
    <3>2. QED
      BY <2>1, <3>1, OrdinaryStep
  <2>4. CASE ReadAllSelect(w) /\ ~Leave(w)
    <3>1. PICK val : /\ val = {inform[a][i].id : i \in DOMAIN inform[a]}
                     /\ inform[a] # None /\ GotoWith(w, "send", val)
                     /\ job[w].op = "READ_ALL_INFO"
      BY <2>4 DEF ReadAllSelect, GetTableInfo, At
    <3>2. HasSelected(w, a)'
      BY <1>4, <2>1, <3>1 DEF HasSelected
    <3>3. QED
      BY <1>2, <1>4, <2>2, <3>1, <3>2
  <2>5. CASE ReadOneSelect(w) /\ ~Leave(w)
    <3>1. PICK val : /\ val = inform[a][Min(Unread(inform[a]))].id
                     /\ inform[a] # None /\ Unread(inform[a]) # {}
                     /\ GotoWith(w, "send", val)
                     /\ job[w].op = "READ_GINGLE_INFO"
      BY <2>5 DEF ReadOneSelect, SelectInfo, At
    <3>2. ReadsOldest(w, a)'
      BY <1>4, <2>1, <3>1 DEF ReadsOldest
    <3>3. HasSelected(w, a)'
      BY <1>4, <2>1, <3>1, <3>2 DEF HasSelected
    <3>4. QED
      BY <1>2, <1>4, <2>2, <3>1, <3>3
  <2>6. QED
    BY <1>5, <2>3, <2>4, <2>5
<1>6. CASE ReadAllSend(w) \/ ReadOneSend(w)
  <2>1. /\ inform' = inform /\ job[w].pc = "send" /\ GotoWith(w, "mark", job[w].val)
        /\ job[w].op \in {"READ_ALL_INFO", "READ_GINGLE_INFO"}
        /\ job[w].op = "READ_ALL_INFO" => Show(job[w].fd, job[w].val)
        /\ job[w].op = "READ_GINGLE_INFO" => Show(job[w].fd, {job[w].val})
    BY <1>6 DEF ReadAllSend, ReadOneSend, At, Goto, dbVars
  <2>2. job[w].fd \in FD /\ conn[job[w].fd] = a
    BY <1>1, TypeParts, TaskType DEF TypeInv, NoticeInv, Answers
  <2>3. HasSelected(w, a)
    BY <2>1 DEF Served, Reading
  <2>4. /\ shown[a] \subseteq shown'[a]
        /\ job[w].op = "READ_ALL_INFO" => job[w].val \subseteq shown'[a]
        /\ job[w].op = "READ_GINGLE_INFO" => job[w].val \in shown'[a]
    BY <2>1, <2>2 DEF Show, Receiver
  <2>5. MarksShown(a)'
    BY <2>1, <2>4 DEF Served, MarksShown
  <2>6. /\ Reading(w, a)' /\ job'[w].op = job[w].op /\ job'[w].pc = "mark"
        /\ job'[w].val = job[w].val
    BY <1>4, <2>1
  <2>7. HasSelected(w, a)'
    BY <2>1, <2>3, <2>4, <2>6 DEF HasSelected, ReadsOldest
  <2>8. QED
    BY <1>2, <2>5, <2>6, <2>7
<1>7. CASE ReadAllMark(w) \/ ReadOneMark(w)
  <2>1. /\ Leave(w) /\ shown' = shown /\ Reading(w, a) /\ job[w].pc = "mark"
    BY <1>7 DEF ReadAllMark, ReadOneMark, At, Reading, seenVars
  <2>2. HasSelected(w, a) /\ inform[a] # None
    BY <2>1 DEF Served, HasSelected
  <2>3. PICK new :
          /\ new = [i \in DOMAIN inform[a] |-> new[i]]
          /\ \A i \in DOMAIN inform[a] :
               \/ new[i] = inform[a][i]
               \/ /\ new[i] = AsRead(inform[a][i])
                  /\ \/ job[w].op = "READ_ALL_INFO"
                     \/ /\ At(w, "READ_GINGLE_INFO", "mark")
                        /\ i \in Unread(inform[a]) /\ i = Min(Unread(inform[a]))
          /\ inform' = [inform EXCEPT ![a] = IF inform[a] = None THEN None ELSE new]
    BY <1>7, MarkStep
  <2>4. DOMAIN new = DOMAIN inform[a] /\ inform'[a] = new
    BY <1>1, <2>2, <2>3
  <2>5. ASSUME NEW i \in DOMAIN inform[a], new[i].read
        PROVE  new[i].id \in shown[a]
    <3>1. CASE new[i] = inform[a][i]
      BY <2>2, <2>5, <3>1 DEF Served, MarksShown
    <3>2. CASE new[i] = AsRead(inform[a][i]) /\ job[w].op = "READ_ALL_INFO"
      <4>1. new[i].id = inform[a][i].id
        BY <3>2 DEF AsRead
      <4>2. inform[a][i].id \in shown[a]
        BY <2>1, <2>2, <3>2 DEF HasSelected
      <4>3. QED
        BY <4>1, <4>2
    <3>3. CASE /\ new[i] = AsRead(inform[a][i]) /\ i = Min(Unread(inform[a]))
               /\ job[w].op = "READ_GINGLE_INFO"
      <4>1. new[i].id = inform[a][i].id
        BY <3>3 DEF AsRead
      <4>2. inform[a][i].id \in shown[a]
        BY <2>1, <2>2, <3>3 DEF HasSelected, ReadsOldest
      <4>3. QED
        BY <4>1, <4>2
    <3>4. QED
      BY <2>3, <3>1, <3>2, <3>3 DEF At
  <2>6. MarksShown(a)'
    BY <2>1, <2>4, <2>5 DEF MarksShown
  <2>7. QED
    BY <1>3, <2>1, <2>6
<1>8. QED
  BY <1>5, <1>6, <1>7 DEF ReadInfo

\* A reading handler of somebody else.
LEMMA OthersReadKeepsServed ==
  ASSUME TypeInv, NEW w \in Worker, thread_handler(w), ~Crash, ReadInfo(w),
         NEW a \in Account, a # job[w].from, Served(a)
  PROVE  Served(a)'
<1>1. DOMAIN job = Worker /\ DOMAIN inform = Account /\ JobStep(w)
  BY HandlerJob, TypeParts DEF TypeInv, JobTypes, TableTypes
<1>2. inform'[a] = inform[a]
  <2>1. CASE ReadAllMark(w) \/ ReadOneMark(w)
    <3>1. PICK row : inform' = [inform EXCEPT ![job[w].from] = row]
      BY <2>1 DEF ReadAllMark, ReadOneMark, UpdateData
    <3>2. QED
      BY <1>1, <3>1
  <2>2. CASE ~ReadAllMark(w) /\ ~ReadOneMark(w)
    BY <2>2 DEF ReadInfo, ReadAllSelect, ReadAllSend, ReadOneSelect, ReadOneSend, dbVars
  <2>3. QED
    BY <2>1, <2>2
<1>3. shown[a] \subseteq shown'[a]
  BY DEF ReadInfo, ReadAllSelect, ReadAllSend, ReadAllMark, ReadOneSelect,
         ReadOneSend, ReadOneMark, Show, seenVars
<1>4. \A v \in Worker : Reading(v, a)' => Reading(v, a) /\ job'[v] = job[v]
  <2>1. ~Reading(w, a)'
    <3>1. job'[w] = Idle \/ job'[w].from = job[w].from
      BY <1>1, TaskFields DEF JobStep
    <3>2. QED
      BY <3>1 DEF Reading, Idle
  <2>2. QED
    BY <1>1, <2>1 DEF JobStep, Reading
<1>5. QED
  BY <1>2, <1>3, <1>4, OrdinaryStep

LEMMA HandlerKeepsServed ==
  ASSUME TypeInv, TypeInv', NoticeInv, HNext, OneReader',
         NEW w \in Worker, thread_handler(w),
         NEW a \in Account, a \notin ended', a \notin muddled'
  PROVE  Served(a)'
<1>1. job[w] # Idle /\ Frame(w) /\ Served(a)
  BY HandlerFrame, HistoryGrows DEF thread_handler, NoticeInv
<1>2. CASE Crash
  <2>1. UNCHANGED <<inform, shown, job>>
    BY <1>2 DEF Crash, dbVars, seenVars
  <2>2. QED
    BY <1>1, <2>1, OrdinaryStep DEF Reading
<1>3. CASE job[w].op \in {"READ_ALL_INFO", "READ_GINGLE_INFO"} /\ ~Crash
  <2>1. ReadInfo(w)
    BY <1>3, Dispatch
  <2>2. QED
    BY <1>1, <1>3, <2>1, ReadKeepsServed, OthersReadKeepsServed
<1>4. CASE job[w].op = "ADD_FRIENDS"
  BY <1>1, <1>4, Dispatch, StoreKeepsServed
<1>5. CASE /\ ~Crash
           /\ job[w].op \notin {"READ_ALL_INFO", "READ_GINGLE_INFO", "ADD_FRIENDS"}
  <2>1. JobStep(w) /\ (job'[w] = Idle \/ job'[w].op = job[w].op)
    BY <1>5, HandlerJob, TaskFields DEF JobStep
  <2>2. \A v \in Worker : Reading(v, a)' => Reading(v, a) /\ job'[v] = job[v]
    BY <1>5, <2>1 DEF JobStep, Reading, Idle
  <2>3. shown' = shown
    BY <1>1, <1>5 DEF Frame
  <2>4. inform'[a] = inform[a] \/ (inform[a] = None /\ inform'[a] = <<>>)
    <3>1. CASE job[w].op = "REGISTRE"
      BY <1>1, <3>1, Dispatch, RegistreLists
    <3>2. CASE job[w].op # "REGISTRE"
      BY <1>1, <1>5, <3>2 DEF Frame
    <3>3. QED
      BY <3>1, <3>2
  <2>5. QED
    BY <1>1, <2>2, <2>3, <2>4, OrdinaryStep
<1>6. QED
  BY <1>2, <1>3, <1>4, <1>5

LEMMA NextKeepsNotices ==
  ASSUME TypeInv, TypeInv', NoticeInv, HNext
  PROVE  NoticeInv'
<1>1. Answers'
  BY NextKeepsAnswers DEF NoticeInv
<1>2. OneReader'
  <2>1. ASSUME NEW v \in Worker, NEW w \in Worker, NEW a \in Account,
               Reading(v, a)', Reading(w, a)', v # w
        PROVE  a \in muddled'
    BY <2>1, HistoryGrows DEF Crossed
  <2>2. QED
    BY <2>1 DEF OneReader
<1>3. ASSUME NEW a \in Account, a \notin ended', a \notin muddled'
      PROVE  Served(a)'
  <2>1. Served(a)
    BY <1>3, HistoryGrows DEF NoticeInv
  <2>2. ASSUME UNCHANGED <<inform, shown>>,
               \A v \in Worker : job'[v] = job[v] \/ job'[v] = Idle
                                 \/ job'[v].pc = "start"
        PROVE  Served(a)'
    BY <2>1, <2>2, OrdinaryStep DEF Reading, Idle
  <2>3. ASSUME NEW w \in Worker, Begin(w)
        PROVE  Served(a)'
    <3>1. PICK fd \in FD, r \in Request :
            job' = [v \in Worker |->
                    IF v = w THEN Task(r, fd, "start", None) ELSE job[v]]
      BY <2>3, BeginStep
    <3>2. job'[w].pc = "start" /\ UNCHANGED <<inform, shown>>
      BY <2>3, <3>1, TaskFields DEF Begin, dbVars, seenVars
    <3>3. QED
      BY <2>2, <3>1, <3>2
  <2>4. CASE Restart
    BY <2>2, <2>4 DEF Restart, dbVars, seenVars
  <2>5. ASSUME NEW w \in Worker, thread_handler(w)
        PROVE  Served(a)'
    BY <1>2, <1>3, <2>5, HandlerKeepsServed
  <2>6. QED
    BY <2>2, <2>3, <2>4, <2>5 DEF HNext, Next, Connect, Disconnect, dbVars, seenVars
<1>4. QED
  BY <1>1, <1>2, <1>3 DEF NoticeInv

LEMMA StutterKeepsNotices ==
  ASSUME NoticeInv, UNCHANGED hvars
  PROVE  NoticeInv'
BY DEF NoticeInv, Answers, OneReader, Served, MarksShown, HasSelected, ReadsOldest,
       Reading, hvars, histVars, vars, dbVars, seenVars

\* A notice is marked as read only when it was sent to the person it is for, unless
\* he has lost a connection or his notices changed while they were read to him.
THEOREM NoticesAreShownFirst == HSpec => []ReadMeansShownOrMuddled
<1>1. HInit => Init /\ NoticeInv
  <2>1. ASSUME HInit
        PROVE  NoticeInv
    <3>1. \A w \in Worker : job[w] = Idle
      BY <2>1 DEF HInit, Init
    <3>2. \A w \in Worker, a \in Account : ~Reading(w, a)
      BY <3>1 DEF Reading, Idle
    <3>3. ASSUME NEW a \in Account, inform[a] # None
          PROVE  DOMAIN inform[a] = {}
      <4>1. inform[a] = <<>>
        BY <2>1, <3>3 DEF HInit, Init
      <4>2. QED
        BY <4>1
    <3>4. QED
      BY <3>1, <3>2, <3>3 DEF NoticeInv, Answers, OneReader, Served, MarksShown
  <2>2. QED
    BY <2>1 DEF HInit
<1>2. NoticeInv => ReadMeansShownOrMuddled
  BY DEF NoticeInv, Served, MarksShown, ReadMeansShownOrMuddled
<1>3. [HNext]_hvars => [Next]_vars
  BY DEF HNext, hvars
<1>4. TypeInv /\ TypeInv' /\ NoticeInv /\ [HNext]_hvars => NoticeInv'
  BY NextKeepsNotices, StutterKeepsNotices
<1>5. QED
  BY <1>1, <1>2, <1>3, <1>4, InitTypes, NextKeepsTypes, PTL DEF HSpec
=============================================================================
