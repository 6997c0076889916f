--------------------------- MODULE DoubleLinkList ---------------------------
(***************************************************************************)
(* DoubleLinkList.c over a heap of nodes, one action per piece of straight *)
(* code and per turn of a loop; and Queue.c, which has a list inside.      *)
(* A list is not shared while a call works on it: its users hold a lock,   *)
(* but for DestoryThreadPool, whose walk and FreeDLlist module ThreadPool  *)
(* has step by step.                                                       *)
(***************************************************************************)
EXTENDS Integers, Sequences, FiniteSets

CONSTANTS Addr,      \* bound: where malloc can put a node
          Element,   \* the values, pointers in the code
          Calls,     \* the calls that are made
          NULL

ElementCalls == {"DBInsertTail", "QPush", "DBInsertHead", "DBInsertByIndex",
                 "DBRemoveByElement", "DBFindeFirstByElement", "DBFindByElement",
                 "DBSeValueByIndex", "DBSeValueByElent"}

IndexCalls == {"DBRemoveByIndex", "DBFindeByindex", "DBInsertByIndex",
               "DBSeValueByIndex"}

\* struct Node
Nodes == [data : Element, prev : Addr \cup {NULL}, next : Addr \cup {NULL}]

\* DBSeValueByElent never returns when it replaces a value by itself.
ASSUME ListAssumption ==
  /\ IsFiniteSet(Addr)
  /\ NULL \notin Addr \cup Element \cup Nodes
  /\ \A c \in Calls :
       /\ c.op # "none"
       /\ c.op \in ElementCalls => c.element \in Element
       /\ c.op \in IndexCalls => c.index \in Int
       /\ c.op = "DBSeValueByElent" => c.old # c.element

VARIABLES head, tail, len, \* struct DoubleLinkList
          node,            \* the struct Node at each address, NULL if none is
          call,            \* the call in progress
          pc,
          TravelPoint,     \* its locals: the walking pointer,
          index,           \* what is left of the index, or the count so far,
          newNode,         \* a node that is not linked yet,
          FindVector,      \* the vector of DBFindByElement
          ret,             \* what the last call returned
          before           \* history: the sequence when the call was made

list   == <<head, tail, len, node>>
locals == <<TravelPoint, index, newNode, FindVector>>
vars   == <<list, call, pc, locals, ret, before>>

NoCall == [op |-> "none"]

\* Lines 6-13.
Init ==
  /\ head = NULL /\ tail = NULL /\ len = 0
  /\ node = [p \in Addr |-> NULL]
  /\ call = NoCall /\ pc = "idle"
  /\ TravelPoint = NULL /\ index = 0 /\ newNode = NULL /\ FindVector = NULL
  /\ ret = NULL
  /\ before = <<>>
-----------------------------------------------------------------------------
(* Helpers *)

\* Operators named Faulty... are plausible bugs of the operator that follows
\* them. No specification uses them.

\* The node k steps after the head, and what stands in the list.
Nth[k \in 0..(len - 1)] == IF k = 0 THEN head ELSE node[Nth[k - 1]].next

Contents == [k \in 1..len |-> node[Nth[k - 1]].data]

Op(ops) == call.op \in ops

Goto(label) == pc' = label /\ UNCHANGED <<call, ret, before>>

\* Walk from node p on, counting from k.
Walk(p, k) == TravelPoint' = p /\ index' = k /\ UNCHANGED <<newNode, FindVector>>

Return(value) ==
  /\ call' = NoCall /\ pc' = "idle" /\ ret' = value
  /\ TravelPoint' = NULL /\ index' = 0 /\ newNode' = NULL /\ FindVector' = NULL
  /\ before' = <<>>

Node(element, prev, next) == [data |-> element, prev |-> prev, next |-> next]

Free(p) == node[p] = NULL
-----------------------------------------------------------------------------
Call ==
  /\ pc = "idle"
  /\ \E c \in Calls : call' = c
  /\ pc' = "start"
  /\ ret' = NULL
  /\ before' = Contents
  /\ UNCHANGED <<list, locals>>
-----------------------------------------------------------------------------
(* Insertion, lines 15-113, and QPush *)

\* Lines 39-50.
LinkTail(p) ==
  /\ Free(p)
  /\ node' = IF len = 0
             THEN [node EXCEPT ![p] = Node(call.element, NULL, NULL)]
             ELSE [node EXCEPT ![tail].next = p,
                               ![p] = Node(call.element, tail, NULL)]
  /\ head' = IF len = 0 THEN p ELSE head
  /\ tail' = p
  /\ len' = len + 1

\* Lines 62-73.
LinkHead(p) ==
  /\ Free(p)
  /\ node' = IF len = 0
             THEN [node EXCEPT ![p] = Node(call.element, NULL, NULL)]
             ELSE [node EXCEPT ![head].prev = p,
                               ![p] = Node(call.element, NULL, head)]
  /\ tail' = IF len = 0 THEN p ELSE tail
  /\ head' = p
  /\ len' = len + 1

\* CreateNode got no memory.
NoMemory == UNCHANGED list

Insert ==
  /\ pc = "start"
  /\ \/ Op({"DBInsertTail", "QPush"}) /\ \E p \in Addr : LinkTail(p)
     \/ Op({"DBInsertHead"}) /\ \E p \in Addr : LinkHead(p)
     \/ Op({"DBInsertTail", "QPush", "DBInsertHead"}) /\ NoMemory
  /\ Return(NULL)

\* Lines 78-92: an invalid index, the head, the tail.
InsertAtEnd ==
  /\ pc = "start" /\ Op({"DBInsertByIndex"})
  /\ \/ call.index \notin 0..len /\ UNCHANGED list
     \/ call.index = 0 /\ \E p \in Addr : LinkHead(p)
     \/ call.index = len /\ len # 0 /\ \E p \in Addr : LinkTail(p)
     \/ call.index \in {0, len} /\ NoMemory
  /\ Return(NULL)

Inside == 0 < call.index /\ call.index < len

\* The node is created before the index is looked at.
FaultyInsertInside ==
  /\ pc = "start" /\ Op({"DBInsertByIndex"})
  /\ \E p \in Addr :
       /\ Free(p)
       /\ node' = [node EXCEPT ![p] = Node(call.element, NULL, NULL)]
       /\ IF Inside
          THEN /\ newNode' = p
               /\ TravelPoint' = head /\ index' = call.index
               /\ Goto("walk") /\ UNCHANGED FindVector
          ELSE Return(NULL)
  /\ UNCHANGED <<head, tail, len>>

\* Lines 93-101.
InsertInside ==
  /\ pc = "start" /\ Op({"DBInsertByIndex"})
  /\ Inside
  /\ \/ NoMemory /\ Return(NULL)
     \/ \E p \in Addr :
          /\ Free(p)
          /\ node' = [node EXCEPT ![p] = Node(call.element, NULL, NULL)]
          /\ newNode' = p
          /\ TravelPoint' = head /\ index' = call.index
          /\ Goto("walk")
          /\ UNCHANGED <<head, tail, len, FindVector>>

\* Lines 107-111.
LinkBetween ==
  /\ pc = "walk" /\ index = 0 /\ Op({"DBInsertByIndex"})
  /\ LET q == node[TravelPoint].prev
     IN  node' = [node EXCEPT ![newNode] = Node(@.data, q, TravelPoint),
                              ![q].next = newNode,
                              ![TravelPoint].prev = newNode]
  /\ len' = len + 1
  /\ UNCHANGED <<head, tail>>
  /\ Return(NULL)
-----------------------------------------------------------------------------
(* The loops that follow next *)

\* Lines 102-106, 150-154, 197-201 and 239-243.
WalkOn ==
  /\ pc = "walk" /\ index # 0
  /\ Walk(node[TravelPoint].next, index - 1)
  /\ Goto("walk")
  /\ UNCHANGED list

\* Lines 174-175.
Search == pc' = "search" /\ TravelPoint' = head' /\ index' = 0

\* DBFindeFirstByElement and the callers that begin with it.
SearchStart ==
  /\ pc = "start"
  /\ Op({"DBFindeFirstByElement", "DBRemoveByElement", "DBSeValueByElent"})
  /\ UNCHANGED <<list, newNode, FindVector, call, ret, before>>
  /\ Search

Wanted == IF Op({"DBSeValueByElent"}) THEN call.old ELSE call.element

\* The count is forgotten.
FaultySearchOn ==
  /\ pc = "search" /\ TravelPoint # NULL
  /\ node[TravelPoint].data # Wanted
  /\ Walk(node[TravelPoint].next, index)
  /\ Goto("search")
  /\ UNCHANGED list

\* Lines 182-183.
SearchOn ==
  /\ pc = "search" /\ TravelPoint # NULL
  /\ node[TravelPoint].data # Wanted
  /\ Walk(node[TravelPoint].next, index + 1)
  /\ Goto("search")
  /\ UNCHANGED list

\* Line 233 with an index too small by one.
FaultySearchHit ==
  /\ pc = "search" /\ TravelPoint # NULL
  /\ node[TravelPoint].data = Wanted
  /\ \/ Op({"DBFindeFirstByElement"}) /\ Return(index)
     \/ Op({"DBRemoveByElement"}) /\ Walk(NULL, index) /\ Goto("remove")
     \/ /\ Op({"DBSeValueByElent"})
        /\ IF index < len - 1
           THEN Walk(head, index) /\ Goto("walk")
           ELSE Walk(head, 0) /\ Goto("search")
  /\ UNCHANGED list

\* Lines 178-181, and what the callers do with the index (lines 164-166, 253).
SearchHit ==
  /\ pc = "search" /\ TravelPoint # NULL
  /\ node[TravelPoint].data = Wanted
  /\ \/ Op({"DBFindeFirstByElement"}) /\ Return(index)
     \/ Op({"DBRemoveByElement"}) /\ Walk(NULL, index) /\ Goto("remove")
     \/ Op({"DBSeValueByElent"}) /\ Walk(head, index) /\ Goto("walk")
  /\ UNCHANGED list

\* Line 185; the callers return as well.
SearchMiss ==
  /\ pc = "search" /\ TravelPoint = NULL
  /\ Return(IF Op({"DBFindeFirstByElement"}) THEN -1 ELSE NULL)
  /\ UNCHANGED list
-----------------------------------------------------------------------------
(* Removal, lines 115-170, and Pop *)

RemoveStart ==
  /\ pc = "start"
  /\ \/ Op({"DBRemoveByIndex"}) /\ Walk(NULL, call.index) /\ Goto("remove")
     \/ Op({"Pop"}) /\ len # 0 /\ Walk(NULL, 0) /\ Goto("remove")
     \/ Op({"Pop"}) /\ len = 0 /\ Return(NULL)
  /\ UNCHANGED list

\* One removal is enough.
FaultyRemoved == Return(IF Op({"Pop"}) THEN node[head].data ELSE NULL)

\* After a removal: DBRemoveByElement looks for the next one, Pop returns what
\* was at the head (Queue.c:24-26).
Removed ==
  IF Op({"DBRemoveByElement"})
  THEN Search /\ UNCHANGED <<newNode, FindVector, call, ret, before>>
  ELSE Return(IF Op({"Pop"}) THEN node[head].data ELSE NULL)

\* Lines 117-121.
RemoveNothing ==
  /\ pc = "remove" /\ index \notin 0..(len - 1)
  /\ UNCHANGED list
  /\ Removed

\* The tail is forgotten.
FaultyRemoveOnly ==
  /\ pc = "remove" /\ index = 0 /\ len = 1
  /\ node' = [node EXCEPT ![head] = NULL]
  /\ head' = NULL /\ len' = 0
  /\ UNCHANGED tail
  /\ Removed

\* Lines 124-131.
RemoveOnly ==
  /\ pc = "remove" /\ index = 0 /\ len = 1
  /\ node' = [node EXCEPT ![head] = NULL]
  /\ head' = NULL /\ tail' = NULL /\ len' = 0
  /\ Removed

\* The new head keeps its link to the node that is freed.
FaultyRemoveHead ==
  /\ pc = "remove" /\ index = 0 /\ len > 1
  /\ node' = [node EXCEPT ![head] = NULL]
  /\ head' = node[head].next
  /\ len' = len - 1
  /\ UNCHANGED tail
  /\ Removed

\* Lines 132-137.
RemoveHead ==
  /\ pc = "remove" /\ index = 0 /\ len > 1
  /\ head' = node[head].next
  /\ node' = [node EXCEPT ![head'].prev = NULL, ![head] = NULL]
  /\ len' = len - 1
  /\ UNCHANGED tail
  /\ Removed

\* Lines 140-148.
RemoveTail ==
  /\ pc = "remove" /\ index = len - 1 /\ index > 0
  /\ tail' = node[tail].prev
  /\ node' = [node EXCEPT ![tail'].next = NULL, ![tail] = NULL]
  /\ len' = len - 1
  /\ UNCHANGED head
  /\ Removed

\* Line 149.
RemoveInside ==
  /\ pc = "remove" /\ 0 < index /\ index < len - 1
  /\ Walk(head, index)
  /\ Goto("walk")
  /\ UNCHANGED list

\* Lines 155-158.
Unlink ==
  /\ pc = "walk" /\ index = 0 /\ Op({"DBRemoveByIndex", "DBRemoveByElement"})
  /\ LET t == node[TravelPoint]
     IN  node' = [node EXCEPT ![t.prev].next = t.next,
                              ![t.next].prev = t.prev,
                              ![TravelPoint] = NULL]
  /\ len' = len - 1
  /\ UNCHANGED <<head, tail>>
  /\ Removed

DBRemove ==
  \/ RemoveStart \/ RemoveNothing \/ RemoveOnly \/ RemoveHead \/ RemoveTail
  \/ RemoveInside \/ Unlink
-----------------------------------------------------------------------------
(* Reading and writing at an index, lines 188-203 and 231-256 *)

IndexStart ==
  /\ pc = "start" /\ Op({"DBFindeByindex", "DBSeValueByIndex"})
  /\ IF call.index \in 0..(len - 1)
     THEN Walk(head, call.index) /\ Goto("walk")
     ELSE Return(NULL)
  /\ UNCHANGED list

\* Line 202. The value is returned for its address.
ReadHere ==
  /\ pc = "walk" /\ index = 0 /\ Op({"DBFindeByindex"})
  /\ Return(node[TravelPoint].data)
  /\ UNCHANGED list

\* Line 244; DBSeValueByElent goes on with line 254 and, if that finds an index,
\* with line 252, which finds it again.
WriteHere ==
  /\ pc = "walk" /\ index = 0 /\ Op({"DBSeValueByIndex", "DBSeValueByElent"})
  /\ node' = [node EXCEPT ![TravelPoint].data = call.element]
  /\ UNCHANGED <<head, tail, len>>
  /\ IF Op({"DBSeValueByIndex"})
     THEN Return(NULL)
     ELSE Search /\ UNCHANGED <<newNode, FindVector, call, ret, before>>
-----------------------------------------------------------------------------
(* DBFindByElement, lines 205-229 *)

\* Lines 207-215; malloc leaves the vector as it is.
FindStart ==
  /\ pc = "start" /\ Op({"DBFindByElement"})
  /\ \/ Return(NULL)
     \/ /\ FindVector' = [k \in 0..len |-> NULL]
        /\ TravelPoint' = head /\ index' = 0
        /\ UNCHANGED newNode
        /\ Goto("fill")
  /\ UNCHANGED list

\* Lines 218-225; count is the same as FindVector[0] after the first turn.
Fill ==
  LET count == IF index = 0 THEN 0 ELSE FindVector[0]
  IN  /\ pc = "fill" /\ TravelPoint # NULL
      /\ FindVector' =
           IF node[TravelPoint].data = call.element
           THEN [FindVector EXCEPT ![0] = count + 1, ![count + 1] = index]
           ELSE [FindVector EXCEPT ![0] = count]
      /\ TravelPoint' = node[TravelPoint].next /\ index' = index + 1
      /\ Goto("fill")
      /\ UNCHANGED <<list, newNode>>

\* Line 227.
FillEnd ==
  /\ pc = "fill" /\ TravelPoint = NULL
  /\ Return([FindVector EXCEPT ![index] = -1])
  /\ UNCHANGED list

FindByElement == FindStart \/ Fill \/ FillEnd
-----------------------------------------------------------------------------
(* DBTravel, FreeDLlist and the queries, lines 258-296 and Queue.c *)

Travel ==
  /\ \/ pc = "start" /\ Op({"DBTravel"}) /\ Walk(head, 0) /\ Goto("forward")
     \/ /\ pc = "forward" /\ TravelPoint # NULL
        /\ Walk(node[TravelPoint].next, 0) /\ Goto("forward")
     \/ pc = "forward" /\ TravelPoint = NULL /\ Walk(tail, 0) /\ Goto("backward")
     \/ /\ pc = "backward" /\ TravelPoint # NULL
        /\ Walk(node[TravelPoint].prev, 0) /\ Goto("backward")
     \/ pc = "backward" /\ TravelPoint = NULL /\ Return(NULL)
  /\ UNCHANGED list

\* Lines 282-287.
FreeHead ==
  /\ pc \in {"start", "free"} /\ Op({"FreeDLlist"})
  /\ head # NULL
  /\ head' = node[head].next
  /\ node' = [node EXCEPT ![head] = NULL]
  /\ Goto("free")
  /\ UNCHANGED <<tail, len, locals>>

\* Lines 288-290.
FreeEnd ==
  /\ pc \in {"start", "free"} /\ Op({"FreeDLlist"})
  /\ head = NULL
  /\ tail' = NULL /\ len' = 0
  /\ UNCHANGED <<head, node>>
  /\ Return(NULL)

\* Queue.c:29-40 and 53-57.
Query ==
  /\ pc = "start"
  /\ \/ Op({"GetDBlistLen"}) /\ Return(len)
     \/ Op({"IsQEmpty"}) /\ Return(len = 0)
  /\ UNCHANGED list
-----------------------------------------------------------------------------
Step ==
  \/ Insert \/ InsertAtEnd \/ InsertInside \/ LinkBetween
  \/ WalkOn \/ SearchStart \/ SearchOn \/ SearchHit \/ SearchMiss
  \/ DBRemove
  \/ IndexStart \/ ReadHere \/ WriteHere
  \/ FindByElement
  \/ Travel \/ FreeHead \/ FreeEnd \/ Query

Next == Call \/ Step

Spec == Init /\ [][Next]_vars

\* The caller's thread runs on: a call is a piece of sequential code.
FairSpec == Spec /\ WF_vars(Step)
-----------------------------------------------------------------------------
(* Properties *)

Live == {p \in Addr : node[p] # NULL}

\* No pointer of the list, of a node in it or of a call points to memory that was
\* given back (lines 126, 135, 145, 157, 286); but while FreeDLlist is at it, tail
\* and the prev of the first node left do.
TypeOK ==
  /\ head \in Live \cup {NULL}
  /\ {tail, TravelPoint, newNode} \subseteq Live \cup {NULL} \/ pc = "free"
  /\ \A p \in Live \ {newNode} :
       /\ node[p].next \in Live \cup {NULL}
       /\ node[p].prev \in Live \cup {NULL} \/ (pc = "free" /\ p = head)
  /\ len \in 0..Cardinality(Addr)
  /\ \A p \in Live : node[p] \in Nodes
  /\ index \in Int
  /\ call = NoCall \/ call \in Calls
  /\ pc = "idle" <=> call = NoCall

Linked == {Nth[k] : k \in 0..(len - 1)}

\* Forwards and backwards the list is the same chain of len nodes between head
\* and tail, also between the removals of one DBRemoveByElement (lines 30-159).
WellLinked ==
  pc # "free" =>
    IF len = 0 THEN head = NULL /\ tail = NULL
    ELSE /\ Nth[len - 1] = tail
         /\ node[head].prev = NULL /\ node[tail].next = NULL
         /\ \A k \in 1..(len - 1) : node[Nth[k]].prev = Nth[k - 1]

\* No call leaks a node: what malloc gave is linked, or about to be (lines 15-28,
\* 76-159, 280-291).
NothingLeaks == pc # "free" => Live = Linked \cup ({newNode} \ {NULL})

Hits(s, e) == {k \in 0..(Len(s) - 1) : s[k + 1] = e}

First(ks) == IF ks = {} THEN -1 ELSE CHOOSE k \in ks : \A m \in ks : k <= m

Returns(op) == call.op = op /\ pc' = "idle"

\* What the calls that look something up return. The vector holds the number
\* of hits and then their indices, unless every element is one: the mark of line
\* 227 is then written over the last index, or over the number if there is none.
Answer ==
  /\ Returns("DBFindeFirstByElement") =>
       ret' = First(Hits(before, call.element))
  /\ Returns("DBFindeByindex") =>
       ret' = IF call.index \in 0..(Len(before) - 1)
              THEN before[call.index + 1] ELSE NULL
  /\ Returns("DBFindByElement") /\ ret' # NULL =>
       LET hits == Hits(before, call.element)
           n    == Cardinality(hits)
       IN  n < Len(before) =>
             ret'[0] = n /\ {ret'[k] : k \in 1..n} = hits
  /\ Returns("Pop") => ret' = IF before = <<>> THEN NULL ELSE Head(before)
  /\ Returns("GetDBlistLen") => ret' = Len(before)
  /\ Returns("IsQEmpty") => ret' = (before = <<>>)

\* What a call returns is right for the sequence as it was when the call was
\* made, also where the call walks through the nodes (DoubleLinkList.h:25-27,
\* Queue.h).
AnswersRight == [][Answer]_vars

\* Every call returns: no loop goes round for ever, no search starts again
\* without having changed anything (lines 164-168, 250-255, 282-287).
CallsReturn == pc = "start" ~> pc = "idle"

ListSeq == INSTANCE ListSeq WITH
  seq <- IF pc = "idle" THEN Contents ELSE before

\* A list is a sequence and a call changes it as the header says.
ImplementsListSeq == ListSeq!Spec
=============================================================================
