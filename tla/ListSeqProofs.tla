---------------------------- MODULE ListSeqProofs ----------------------------
(***************************************************************************)
(* A call changes the list as ListSeq says and answers for the sequence    *)
(* that stood there when it was made.                                      *)
(***************************************************************************)
EXTENDS DoubleLinkListProofs

\* The n elements of t come from these positions of the l elements of s, in the
\* same order, and the elements that are left out are e.
Places(from, t, n, s, l, e) ==
  /\ from \in [1..n -> 1..l]
  /\ \A i, k \in 1..n : i < k => from[i] < from[k]
  /\ \A i \in 1..n : t[i] = s[from[i]]
  /\ \A k \in 1..l : s[k] # e => \E i \in 1..n : from[i] = k

\* t is s without some of the elements that are e.
Thinned(t, s, e) ==
  \E from \in [1..Len(t) -> 1..Len(s)] : Places(from, t, Len(t), s, Len(s), e)

\* t is s with new for some of the elements that are old.
Replaced(t, s, old, new) ==
  /\ Len(t) = Len(s)
  /\ \A k \in 1..Len(s) : t[k] = s[k] \/ (s[k] = old /\ t[k] = new)

\* What a call has made of the sequence so far.
Progress ==
  /\ before \in Seq(Element)
  /\ CASE call.op = "DBRemoveByElement" ->
            Thinned(Contents, before, call.element)
       [] call.op = "DBSeValueByElent" ->
            Replaced(Contents, before, call.old, call.element)
       [] OTHER -> Contents = before

\* What is going to happen at position i is what the call asks for.
Aim(i) ==
  /\ Op(IndexCalls) => i = call.index
  /\ Op({"Pop"}) => i = 0 /\ len > 0
  /\ Op({"DBRemoveByElement", "DBSeValueByElent"}) =>
       i \in 0..(len - 1) /\ Contents[i + 1] = Wanted
  /\ newNode # NULL => node[newNode].data = call.element

Found(i) == {k \in 0..(i - 1) : Contents[k + 1] = call.element}

\* The vector v holds the m members of F from position 1 on.
Lists(v, m, F) == m = Cardinality(F) /\ {v[k] : k \in 1..m} = F

\* FindVector holds the number of hits before index, and then the hits.
FoundSoFar ==
  /\ index \in 0..len
  /\ TravelPoint = IF index = len THEN NULL ELSE Nth[index]
  /\ FindVector \in [0..len -> Int \cup {NULL}]
  /\ LET count == IF index = 0 THEN 0 ELSE FindVector[0]
     IN  Lists(FindVector, count, Found(index))

\* Where the call has got to.
Reached ==
  /\ pc = "start" => Contents = before
  /\ pc = "search" =>
       \A k \in 1..(IF TravelPoint = NULL THEN len ELSE index) : Contents[k] # Wanted
  /\ pc = "walk" =>
       \E k \in 0..(len - 1) : TravelPoint = Nth[k] /\ Aim(k + index)
  /\ pc = "remove" => Aim(index)
  /\ pc = "fill" => Op({"DBFindByElement"}) /\ FoundSoFar
  /\ pc \in {"forward", "backward"} => Op({"DBTravel"})

HistoryInv == pc \notin {"idle", "free"} => Progress /\ Reached

-----------------------------------------------------------------------------
(* The chain and the sequence it holds                                     *)

\* A chain is what Nth computes, and its data are a sequence.
DataFact ==
  \A n \in Nat : \A c \in [0..(n - 1) -> Addr] :
    Chain(c, n) /\ Ended(c, n) /\ node \in [Addr -> Nodes \cup {NULL}] =>
      /\ Nth = c /\ len = n
      /\ Contents \in Seq(Element) /\ Len(Contents) = n
      /\ \A k \in 0..(n - 1) : Contents[k + 1] = node[c[k]].data

LEMMA DataNow == DataFact
<1> SUFFICES ASSUME NEW n \in Nat, NEW c \in [0..(n - 1) -> Addr],
                    Chain(c, n), Ended(c, n), node \in [Addr -> Nodes \cup {NULL}]
             PROVE  /\ Nth = c /\ len = n
                    /\ Contents \in Seq(Element) /\ Len(Contents) = n
                    /\ \A k \in 0..(n - 1) : Contents[k + 1] = node[c[k]].data
  BY DEF DataFact
<1>1. Nth = c /\ len = n
  BY NthOfChain DEF Ended
<1>2. \A k \in 0..(n - 1) : c[k] \in Addr /\ node[c[k]] \in Nodes
  BY DEF Chain
<1>3. \A k \in 1..n : k - 1 \in 0..(n - 1) /\ node[c[k - 1]].data \in Element
  <2>1. ASSUME NEW k \in 1..n
        PROVE  k - 1 \in 0..(n - 1) /\ node[c[k - 1]].data \in Element
    <3>1. k - 1 \in 0..(n - 1)
      OBVIOUS
    <3>2. node[c[k - 1]] \in Nodes
      BY <1>2, <3>1
    <3>3. QED
      BY <3>1, <3>2, FieldTypes
  <2>2. QED
    BY <2>1
<1>4. Contents = [k \in 1..n |-> node[c[k - 1]].data]
  BY <1>1 DEF Contents
<1>5. Contents \in [1..n -> Element]
  BY <1>3, <1>4
<1>6. Contents \in Seq(Element) /\ Len(Contents) = n
  BY <1>5, FunctionIsSeq
<1>7. ASSUME NEW k \in 0..(n - 1)
      PROVE  Contents[k + 1] = node[c[k]].data
  <2>1. k + 1 \in 1..n /\ (k + 1) - 1 = k
    OBVIOUS
  <2>2. QED
    BY <1>4, <2>1
<1>8. QED
  BY <1>1, <1>6, <1>7

LEMMA DataNext == DataFact'
BY DataNow, PTL

\* The chain is c, of n nodes, and holds the sequence s.
Holds(n, c, s) ==
  /\ n = len /\ c = Nth /\ s = Contents
  /\ n \in Nat /\ c \in [0..(n - 1) -> Addr]
  /\ Chain(c, n) /\ Ended(c, n) /\ Where(c, n)
  /\ s \in Seq(Element) /\ Len(s) = n
  /\ \A k \in 0..(n - 1) : s[k + 1] = node[c[k]].data

\* There is such a chain while the list is whole.
WholeFact == ListInv /\ pc # "free" => Types /\ \E n, c, s : Holds(n, c, s)

LEMMA WholeNow == WholeFact
<1> SUFFICES ASSUME ListInv, pc # "free"
             PROVE  Types /\ \E n, c, s : Holds(n, c, s)
  BY DEF WholeFact
<1>1. Types /\ node \in [Addr -> Nodes \cup {NULL}]
  BY DEF ListInv, Types
<1>2. PICK n \in Nat : \E c \in [0..(n - 1) -> Addr] : Linking(c, n)
  BY DEF ListInv
<1>3. PICK c \in [0..(n - 1) -> Addr] : Chain(c, n) /\ Ended(c, n) /\ Where(c, n)
  BY <1>2 DEF Linking
<1>4. /\ Nth = c /\ len = n /\ Contents \in Seq(Element) /\ Len(Contents) = n
      /\ \A k \in 0..(n - 1) : Contents[k + 1] = node[c[k]].data
  BY <1>1, <1>3, DataNow DEF DataFact
<1>5. Holds(n, c, Contents)
  BY <1>3, <1>4 DEF Holds
<1>6. QED
  BY <1>1, <1>5

LEMMA WholeNext == WholeFact'
BY WholeNow, PTL

LEMMA SameList ==
  ASSUME UNCHANGED list
  PROVE  Nth' = Nth /\ Contents' = Contents /\ len' = len
<1>1. Nth' = Nth
  BY DEF Nth, list
<1>2. QED
  BY <1>1 DEF Contents, list

-----------------------------------------------------------------------------
(* What the changes of the chain do to the sequence                        *)

LEMMA LinkingInserts ==
  ASSUME Types, NEW n \in Nat, NEW c \in [0..(n - 1) -> Addr],
         Chain(c, n), Ended(c, n), NEW e \in Element, NEW p \in Addr,
         NEW j \in 0..n, LinksNew(c, n, j, e, p)
  PROVE  Contents' = InsertAt(Contents, j + 1, e)
<1>1. PICK s \in Seq(Element) :
        /\ s = Contents /\ Len(s) = n
        /\ \A k \in 0..(n - 1) : s[k + 1] = node[c[k]].data
  BY DataNow DEF DataFact, Types
<1>2. PICK d \in [0..n -> Addr] :
        d = With(c, n, j, p) /\ Chain(d, n + 1)' /\ Ended(d, n + 1)'
  BY DEF LinksNew
<1>3. n + 1 \in Nat /\ (n + 1) - 1 = n
  OBVIOUS
<1>4. PICK t \in Seq(Element) :
        /\ t = Contents' /\ Len(t) = n + 1
        /\ \A k \in 0..n : t[k + 1] = node'[d[k]].data
  <2>1. PICK m \in Nat : m = n + 1 /\ m - 1 = n
    BY <1>3
  <2>2. d \in [0..(m - 1) -> Addr] /\ Chain(d, m)' /\ Ended(d, m)'
    BY <1>2, <2>1
  <2>3. /\ Contents' \in Seq(Element) /\ Len(Contents') = m
        /\ \A k \in 0..(m - 1) : Contents'[k + 1] = node'[d[k]].data
    BY <2>2, DataNext DEF DataFact, LinksNew
  <2>4. QED
    BY <2>1, <2>3
<1>5. PICK i \in 1..(Len(s) + 1) : i = j + 1
  BY <1>1
<1>6. ASSUME NEW m \in 1..(n + 1)
      PROVE  t[m] = IF m < i THEN s[m] ELSE IF m = i THEN e ELSE s[m - 1]
  <2>1. PICK k \in 0..n : k = m - 1 /\ k + 1 = m
    OBVIOUS
  <2>2. t[m] = node'[d[k]].data
    BY <1>4, <2>1
  <2>3. CASE k < j
    <3>1. d[k] = c[k] /\ k \in 0..(n - 1) /\ m < i
      BY <1>2, <1>5, <2>1, <2>3 DEF With
    <3>2. node'[c[k]].data = s[k + 1]
      BY <1>1, <3>1 DEF LinksNew
    <3>3. QED
      BY <2>1, <2>2, <3>1, <3>2
  <2>4. CASE k = j
    <3>1. d[k] = p /\ m = i
      BY <1>2, <1>5, <2>1, <2>4 DEF With
    <3>2. QED
      BY <2>2, <3>1 DEF LinksNew
  <2>5. CASE k > j
    <3>1. /\ d[k] = c[k - 1] /\ k - 1 \in 0..(n - 1) /\ m > i /\ (k - 1) + 1 = m - 1
      BY <1>2, <1>5, <2>1, <2>5 DEF With
    <3>2. node'[c[k - 1]].data = s[m - 1]
      BY <1>1, <3>1 DEF LinksNew
    <3>3. QED
      BY <1>5, <2>2, <3>1, <3>2
  <2>6. QED
    BY <2>3, <2>4, <2>5
<1>7. Inserts(t, s, i, e)
  BY <1>1, <1>4, <1>5, <1>6 DEF Inserts
<1>8. t = InsertAt(s, i, e)
  BY <1>7, InsertAtIsUnique
<1>9. QED
  BY <1>1, <1>4, <1>5, <1>8

LEMMA ShrinkingRemoves ==
  ASSUME Types, NEW n \in Nat, NEW c \in [0..(n - 1) -> Addr],
         Chain(c, n), Ended(c, n), NEW j \in 0..(n - 1), ShrinksWell(c, n, j)
  PROVE  Contents' = RemoveAt(Contents, j + 1)
<1>1. PICK s \in Seq(Element) :
        /\ s = Contents /\ Len(s) = n
        /\ \A k \in 0..(n - 1) : s[k + 1] = node[c[k]].data
  BY DataNow DEF DataFact, Types
<1>2. PICK d \in [0..((n - 1) - 1) -> Addr] :
        d = Without(c, n, j) /\ Chain(d, n - 1)' /\ Ended(d, n - 1)'
  BY DEF ShrinksWell
<1>3. n - 1 \in Nat
  OBVIOUS
<1>4. PICK t \in Seq(Element) :
        /\ t = Contents' /\ Len(t) = n - 1
        /\ \A k \in 0..((n - 1) - 1) : t[k + 1] = node'[d[k]].data
  BY <1>2, <1>3, DataNext DEF DataFact, ShrinksWell
<1>5. PICK i \in 1..Len(s) : i = j + 1
  BY <1>1
<1>6. ASSUME NEW m \in 1..(n - 1)
      PROVE  t[m] = IF m < i THEN s[m] ELSE s[m + 1]
  <2>1. PICK k \in 0..(n - 2) : k = m - 1 /\ k + 1 = m /\ k \in 0..((n - 1) - 1)
    OBVIOUS
  <2>2. t[m] = node'[d[k]].data
    BY <1>4, <2>1
  <2>3. CASE k < j
    <3>1. d[k] = c[k] /\ k \in 0..(n - 1) /\ k # j /\ m < i
      BY <1>2, <1>5, <2>1, <2>3 DEF Without
    <3>2. node'[c[k]].data = s[k + 1]
      BY <1>1, <3>1 DEF ShrinksWell
    <3>3. QED
      BY <2>1, <2>2, <3>1, <3>2
  <2>4. CASE ~(k < j)
    <3>1. d[k] = c[k + 1] /\ k + 1 \in 0..(n - 1) /\ k + 1 # j /\ ~(m < i)
      BY <1>2, <1>5, <2>1, <2>4 DEF Without
    <3>2. node'[c[k + 1]].data = s[(k + 1) + 1]
      BY <1>1, <3>1 DEF ShrinksWell
    <3>3. QED
      BY <2>1, <2>2, <3>1, <3>2
  <2>5. QED
    BY <2>3, <2>4
<1>7. Removes(t, s, i)
  BY <1>1, <1>4, <1>5, <1>6 DEF Removes
<1>8. t = RemoveAt(s, i)
  BY <1>7, RemoveAtIsUnique
<1>9. QED
  BY <1>1, <1>4, <1>5, <1>8

LEMMA WritingSets ==
  ASSUME Types, NEW n \in Nat, NEW c \in [0..(n - 1) -> Addr],
         Chain(c, n), Ended(c, n), Where(c, n), newNode' = newNode,
         call.element \in Element, WriteHere, NEW j \in 0..(n - 1), TravelPoint = c[j]
  PROVE  /\ Contents' \in Seq(Element) /\ Len(Contents') = n
         /\ \A k \in 1..n : Contents'[k] = IF k = j + 1 THEN call.element ELSE Contents[k]
<1>1. PICK s \in Seq(Element) :
        /\ s = Contents /\ Len(s) = n
        /\ \A k \in 0..(n - 1) : s[k + 1] = node[c[k]].data
  BY DataNow DEF DataFact, Types
<1>2. /\ node' \in [Addr -> Nodes \cup {NULL}] /\ Chain(c, n)' /\ Ended(c, n)'
      /\ \A k \in 0..(n - 1) :
           node'[c[k]].data = IF c[k] = TravelPoint THEN call.element
                              ELSE node[c[k]].data
  BY WriteKeepsLinks
<1>3. PICK t \in Seq(Element) :
        /\ t = Contents' /\ Len(t) = n
        /\ \A k \in 0..(n - 1) : t[k + 1] = node'[c[k]].data
  BY <1>2, DataNext DEF DataFact
<1>4. ASSUME NEW m \in 1..n
      PROVE  t[m] = IF m = j + 1 THEN call.element ELSE s[m]
  <2>1. PICK k \in 0..(n - 1) : k = m - 1 /\ k + 1 = m
    OBVIOUS
  <2>2. c[k] = TravelPoint <=> k = j
    BY DEF Chain
  <2>3. k = j <=> m = j + 1
    BY <2>1
  <2>4. QED
    BY <1>1, <1>2, <1>3, <2>1, <2>2, <2>3
<1>5. QED
  BY <1>1, <1>3, <1>4

LEMMA NewNodeInsertsNothing ==
  ASSUME Types, NEW n \in Nat, NEW c \in [0..(n - 1) -> Addr],
         Chain(c, n), Ended(c, n), node' \in [Addr -> Nodes \cup {NULL}],
         Chain(c, n)', Ended(c, n)', \A k \in 0..(n - 1) : node'[c[k]] = node[c[k]]
  PROVE  Nth' = Nth /\ Contents' = Contents
<1>1. PICK s \in Seq(Element) :
        /\ s = Contents /\ Len(s) = n /\ Nth = c
        /\ \A k \in 0..(n - 1) : s[k + 1] = node[c[k]].data
  BY DataNow DEF DataFact, Types
<1>2. PICK t \in Seq(Element) :
        /\ t = Contents' /\ Len(t) = n /\ Nth' = c
        /\ \A k \in 0..(n - 1) : t[k + 1] = node'[c[k]].data
  BY DataNext DEF DataFact
<1>3. ASSUME NEW m \in 1..n
      PROVE  t[m] = s[m]
  <2>1. PICK k \in 0..(n - 1) : k = m - 1 /\ k + 1 = m
    OBVIOUS
  <2>2. QED
    BY <1>1, <1>2, <2>1
<1>4. t = s
  BY <1>1, <1>2, <1>3, SeqEqual
<1>5. QED
  BY <1>1, <1>2, <1>4

-----------------------------------------------------------------------------
(* What ListSeq says of each call                                          *)

LEMMA AppendInserts ==
  ASSUME NEW S, NEW s \in Seq(S), NEW e \in S
  PROVE  InsertAt(s, Len(s) + 1, e) = Append(s, e)
<1>1. PICK t \in Seq(S) : /\ t = Append(s, e) /\ Len(t) = Len(s) + 1
                          /\ \A k \in 1..Len(s) : t[k] = s[k]
                          /\ t[Len(s) + 1] = e
  BY AppendProperties
<1>2. Len(s) \in Nat
  BY LenProperties
<1>3. Inserts(t, s, Len(s) + 1, e)
  BY <1>1, <1>2 DEF Inserts
<1>4. Len(s) + 1 \in 1..(Len(s) + 1)
  BY <1>2
<1>5. QED
  BY <1>1, <1>3, <1>4, InsertAtIsUnique

LEMMA ConsInserts ==
  ASSUME NEW S, NEW s \in Seq(S), NEW e \in S
  PROVE  InsertAt(s, 1, e) = <<e>> \o s
<1>1. <<e>> \in Seq(S) /\ Len(<<e>>) = 1 /\ <<e>>[1] = e
  OBVIOUS
<1>2. Len(s) \in Nat
  BY LenProperties
<1>3. PICK t \in Seq(S) :
        /\ t = <<e>> \o s /\ Len(t) = 1 + Len(s)
        /\ \A k \in 1..(1 + Len(s)) : t[k] = IF k <= 1 THEN <<e>>[k] ELSE s[k - 1]
  <2>1. PICK a \in Seq(S) : a = <<e>> /\ Len(a) = 1
    BY <1>1
  <2>2. /\ a \o s \in Seq(S) /\ Len(a \o s) = Len(a) + Len(s)
        /\ \A k \in 1..(Len(a) + Len(s)) :
             (a \o s)[k] = IF k <= Len(a) THEN a[k] ELSE s[k - Len(a)]
    BY ConcatProperties
  <2>3. QED
    BY <2>1, <2>2
<1>4. Inserts(t, s, 1, e)
  <2>1. /\ Len(t) = Len(s) + 1 /\ \A k \in 1..(1 - 1) : FALSE
        /\ 1 \in 1..(1 + Len(s))
        /\ \A k \in (1 + 1)..(Len(s) + 1) : k \in 1..(1 + Len(s)) /\ ~(k <= 1)
    BY <1>2, <1>3
  <2>2. t[1] = e
    BY <1>1, <1>3, <2>1
  <2>3. QED
    BY <1>3, <2>1, <2>2 DEF Inserts
<1>5. 1 \in 1..(Len(s) + 1)
  BY <1>2
<1>6. QED
  BY <1>3, <1>4, <1>5, InsertAtIsUnique

LEMMA TailRemoves ==
  ASSUME NEW S, NEW s \in Seq(S), s # <<>>
  PROVE  RemoveAt(s, 1) = Tail(s)
<1>1. Len(s) \in Nat \ {0} /\ 1 \in 1..Len(s)
  BY EmptySeq
<1>2. PICK t \in Seq(S) : /\ t = Tail(s) /\ Len(t) = Len(s) - 1
                          /\ \A k \in 1..Len(t) : t[k] = s[k + 1]
  BY HeadTailProperties
<1>3. Removes(t, s, 1)
  BY <1>1, <1>2 DEF Removes
<1>4. QED
  BY <1>1, <1>2, <1>3, RemoveAtIsUnique

\* The calls that leave the list as it is.
Readers == {"DBFindeFirstByElement", "DBFindeByindex", "DBFindByElement",
            "GetDBlistLen", "IsQEmpty", "DBTravel"}

LEMMA Results ==
  ASSUME pc # "idle"
  PROVE  /\ call.op \in {"DBInsertTail", "QPush"} =>
              ListSeq!Result = Append(before, call.element)
         /\ call.op = "DBInsertHead" =>
              ListSeq!Result = <<call.element>> \o before
         /\ call.op = "DBInsertByIndex" =>
              ListSeq!Result =
                IF call.index \in 0..Len(before)
                THEN InsertAt(before, call.index + 1, call.element) ELSE before
         /\ call.op = "DBRemoveByIndex" =>
              ListSeq!Result =
                IF call.index \in 0..(Len(before) - 1)
                THEN RemoveAt(before, call.index + 1) ELSE before
         /\ call.op = "Pop" =>
              ListSeq!Result = IF before = <<>> THEN before ELSE Tail(before)
         /\ call.op = "DBSeValueByIndex" =>
              ListSeq!Result =
                IF call.index \in 0..(Len(before) - 1)
                THEN [before EXCEPT ![call.index + 1] = call.element] ELSE before
         /\ call.op = "DBSeValueByElent" =>
              ListSeq!Result =
                [k \in DOMAIN before |->
                   IF before[k] = call.old THEN call.element ELSE before[k]]
         /\ call.op = "FreeDLlist" => ListSeq!Result = <<>>
         /\ call.op \in Readers => ListSeq!Result = before
<1>1. call.op \in {"DBInsertTail", "QPush"} =>
        ListSeq!Result = Append(before, call.element)
  BY DEF ListSeq!Result
<1>2. call.op = "DBInsertHead" => ListSeq!Result = <<call.element>> \o before
  BY DEF ListSeq!Result
<1>3. call.op = "DBInsertByIndex" =>
        ListSeq!Result = IF call.index \in 0..Len(before)
                         THEN InsertAt(before, call.index + 1, call.element)
                         ELSE before
  BY DEF ListSeq!Result, ListSeq!InsertAt, InsertAt
<1>4. call.op = "DBRemoveByIndex" =>
        ListSeq!Result = IF call.index \in 0..(Len(before) - 1)
                         THEN RemoveAt(before, call.index + 1) ELSE before
  BY DEF ListSeq!Result, ListSeq!ValidIndex, ListSeq!RemoveAt, RemoveAt
<1>5. call.op = "Pop" =>
        ListSeq!Result = IF before = <<>> THEN before ELSE Tail(before)
  BY DEF ListSeq!Result
<1>6. call.op = "DBSeValueByIndex" =>
        ListSeq!Result = IF call.index \in 0..(Len(before) - 1)
                         THEN [before EXCEPT ![call.index + 1] = call.element]
                         ELSE before
  BY DEF ListSeq!Result, ListSeq!ValidIndex
<1>7. call.op = "DBSeValueByElent" =>
        ListSeq!Result = [k \in DOMAIN before |->
          IF before[k] = call.old THEN call.element ELSE before[k]]
  BY DEF ListSeq!Result
<1>8. call.op = "FreeDLlist" => ListSeq!Result = <<>>
  BY DEF ListSeq!Result
<1>9. call.op \in Readers => ListSeq!Result = before
  BY DEF ListSeq!Result, Readers
<1>10. QED
  BY <1>1, <1>2, <1>3, <1>4, <1>5, <1>6, <1>7, <1>8, <1>9

\* A call returns.
Finishes == pc # "idle" /\ pc' = "idle" /\ call # NoCall /\ call' = NoCall

LEMMA ReturnEnds ==
  ASSUME Types, pc # "idle", NEW v, Return(v)
  PROVE  Finishes /\ ret' = v
BY DEF Types, Return, Finishes

LEMMA Completes ==
  ASSUME Finishes
  PROVE  /\ call.op # "DBRemoveByElement" /\ Contents' = ListSeq!Result =>
              ListSeq!Complete
         /\ /\ call.op = "DBRemoveByElement"
            /\ ListSeq!IsWithout(Contents', before, call.element)
            => ListSeq!Complete
         /\ /\ call.op \in {"DBInsertTail", "DBInsertHead", "DBInsertByIndex", "QPush"}
            /\ Contents' = before
            => ListSeq!Complete
<1>1. call.op # "DBRemoveByElement" /\ Contents' = ListSeq!Result => ListSeq!Complete
  BY DEF Finishes, ListSeq!Complete, ListSeq!NoCall, NoCall
<1>2. /\ call.op = "DBRemoveByElement"
      /\ ListSeq!IsWithout(Contents', before, call.element)
      => ListSeq!Complete
  BY DEF Finishes, ListSeq!Complete, ListSeq!NoCall, NoCall
<1>3. /\ call.op \in {"DBInsertTail", "DBInsertHead", "DBInsertByIndex", "QPush"}
      /\ Contents' = before
      => ListSeq!Complete
  BY DEF Finishes, ListSeq!Complete, ListSeq!NoCall, NoCall, ListSeq!Insertions
<1>4. QED
  BY <1>1, <1>2, <1>3

LEMMA NothingToAnswer ==
  ASSUME call.op \notin Readers \cup {"Pop"}
  PROVE  Answer
BY DEF Answer, Returns, Readers

-----------------------------------------------------------------------------
(* Steps within a call                                                     *)

\* What every step of a call does.
Right ==
  IF pc' = "idle" THEN Answer /\ ListSeq!Complete
  ELSE HistoryInv' /\ UNCHANGED <<call, before>>

LEMMA Started ==
  ASSUME HistoryInv, pc \notin {"idle", "free"}
  PROVE  Progress /\ Reached
BY DEF HistoryInv

LEMMA GoesOn ==
  ASSUME HistoryInv, pc \notin {"idle", "free"}, pc' # "idle",
         Contents' = Contents, UNCHANGED <<call, before>>, Reached'
  PROVE  Right
<1>1. Progress'
  BY Started DEF Progress
<1>2. QED
  BY <1>1 DEF Right, HistoryInv

LEMMA SearchBegins ==
  ASSUME ListInv', pc' = "search", TravelPoint' = head', index' = 0
  PROVE  Reached'
<1>1. PICK n, c, s : Holds(n, c, s)'
  BY WholeNext DEF WholeFact
<1>2. TravelPoint' = NULL => n = 0
  <2>1. n # 0 => TravelPoint' = c[0] /\ c[0] \in Addr
    BY <1>1 DEF Chain, Holds
  <2>2. QED
    BY <2>1, Constants
<1>3. QED
  BY <1>1, <1>2 DEF Reached, Holds

LEMMA AimStays ==
  ASSUME NEW i, Aim(i), UNCHANGED list, UNCHANGED <<call, newNode>>
  PROVE  Aim(i)'
<1>1. Contents' = Contents /\ len' = len /\ node' = node
  BY SameList DEF list
<1>2. QED
  BY <1>1 DEF Aim, Op, Wanted

LEMMA CallRight ==
  ASSUME ListInv, Call
  PROVE  HistoryInv' /\ pc' # "idle" /\ Contents' = Contents /\ before' = Contents
<1>1. /\ pc = "idle" /\ pc' = "start" /\ before' = Contents /\ Contents' = Contents
  BY SameList DEF Call
<1>2. PICK n, c, s : Holds(n, c, s)
  BY <1>1, WholeNow DEF WholeFact
<1>3. s = Contents /\ s \in Seq(Element) /\ DOMAIN s = 1..Len(s) /\ Len(s) \in Nat
  BY <1>2, LenProperties DEF Holds
<1>4. ASSUME NEW e
      PROVE  Thinned(s, s, e)
  <2>1. PICK from \in [1..Len(s) -> 1..Len(s)] : \A i \in 1..Len(s) : from[i] = i
    <3>1. [i \in 1..Len(s) |-> i] \in [1..Len(s) -> 1..Len(s)]
      OBVIOUS
    <3>2. QED
      BY <3>1
  <2>2. Places(from, s, Len(s), s, Len(s), e)
    BY <1>3, <2>1 DEF Places
  <2>3. QED
    BY <2>2 DEF Thinned
<1>5. \A old, new : Replaced(s, s, old, new)
  BY DEF Replaced
<1>6. Progress'
  BY <1>1, <1>3, <1>4, <1>5 DEF Progress
<1>7. Reached'
  BY <1>1 DEF Reached
<1>8. QED
  BY <1>1, <1>6, <1>7 DEF HistoryInv

LEMMA SearchStartRight ==
  ASSUME ListInv, ListInv', HistoryInv, SearchStart
  PROVE  Right
<1>1. /\ pc = "start" /\ pc' = "search" /\ UNCHANGED <<call, before>>
      /\ Contents' = Contents /\ TravelPoint' = head' /\ index' = 0
  BY SameList DEF SearchStart, Search
<1>2. QED
  BY <1>1, SearchBegins, GoesOn

LEMMA SearchOnRight ==
  ASSUME ListInv, HistoryInv, SearchOn
  PROVE  Right
<1>1. /\ pc = "search" /\ pc' = "search" /\ TravelPoint # NULL
      /\ node[TravelPoint].data # Wanted
      /\ TravelPoint' = node[TravelPoint].next /\ index' = index + 1
      /\ UNCHANGED <<call, before>>
      /\ Contents' = Contents /\ len' = len /\ Wanted' = Wanted
  BY SameList DEF SearchOn, Walk, Goto, Wanted, Op
<1>2. PICK n, c, s : Holds(n, c, s)
  BY <1>1, WholeNow DEF WholeFact
<1>3. PICK i \in 0..(n - 1) : i = index /\ TravelPoint = c[i]
  BY <1>1, <1>2 DEF Holds, Where
<1>4. \A k \in 1..i : s[k] # Wanted
  BY <1>1, <1>2, <1>3, Started DEF Reached, Holds
<1>5. s[i + 1] # Wanted
  BY <1>1, <1>2, <1>3 DEF Holds
<1>6. TravelPoint' = NULL => i + 1 = n
  <2>1. ASSUME i + 1 # n
        PROVE  TravelPoint' \in Addr
    <3>1. i + 1 \in 0..(n - 1) /\ i # n - 1
      BY <1>2, <2>1 DEF Holds
    <3>2. node[c[i]].next = c[i + 1]
      BY <1>2, <3>1 DEF Holds, Chain
    <3>3. QED
      BY <1>1, <1>2, <1>3, <3>1, <3>2 DEF Holds
  <2>2. QED
    BY <2>1, Constants
<1>7. \A k \in 1..(i + 1) : s[k] # Wanted
  BY <1>4, <1>5
<1>8. Reached'
  BY <1>1, <1>2, <1>3, <1>6, <1>7 DEF Reached, Holds
<1>9. QED
  BY <1>1, <1>8, GoesOn

LEMMA RemoveStartRight ==
  ASSUME ListInv, HistoryInv, pc = "start", UNCHANGED list, Goto("remove"),
         NEW i, Walk(NULL, i),
         \/ Op({"DBRemoveByIndex"}) /\ i = call.index
         \/ Op({"Pop"}) /\ i = 0 /\ len # 0
  PROVE  Right
<1>1. /\ pc' = "remove" /\ index' = i /\ UNCHANGED <<call, before, newNode>>
      /\ Contents' = Contents
  BY SameList DEF Goto, Walk
<1>2. newNode = NULL /\ len \in Nat
  BY WholeNow DEF WholeFact, Types, Holds
<1>3. Aim(i)
  BY <1>2 DEF Aim, Op, IndexCalls
<1>4. Reached'
  BY <1>1, <1>3, AimStays DEF Reached
<1>5. QED
  BY <1>1, <1>4, GoesOn

LEMMA WalkBegins ==
  ASSUME ListInv, HistoryInv, pc \notin {"idle", "free"},
         UNCHANGED list, Goto("walk"), NEW i \in Int, Walk(head, i), Aim(i), len > 0
  PROVE  Right
<1>1. /\ pc' = "walk" /\ TravelPoint' = head /\ index' = i
      /\ UNCHANGED <<call, before, newNode>> /\ Contents' = Contents
      /\ Nth' = Nth /\ len' = len
  BY SameList DEF Goto, Walk
<1>2. PICK n, c, s : Holds(n, c, s)
  BY WholeNow DEF WholeFact
<1>3. 0 \in 0..(n - 1) /\ head = c[0]
  BY <1>2 DEF Holds, Chain
<1>4. Aim(i)'
  BY <1>1, AimStays
<1>5. 0 + index' = i
  BY <1>1
<1>6. Reached'
  BY <1>1, <1>2, <1>3, <1>4, <1>5 DEF Reached, Holds
<1>7. QED
  BY <1>1, <1>6, GoesOn

LEMMA WalkOnRight ==
  ASSUME ListInv, HistoryInv, WalkOn
  PROVE  Right
<1>1. /\ pc = "walk" /\ pc' = "walk" /\ UNCHANGED list
      /\ TravelPoint' = node[TravelPoint].next /\ index' = index - 1 /\ index # 0
      /\ UNCHANGED <<call, before, newNode>> /\ Contents' = Contents
      /\ Nth' = Nth /\ len' = len
  BY SameList DEF WalkOn, Walk, Goto
<1>2. PICK n, c, s : Holds(n, c, s)
  BY <1>1, WholeNow DEF WholeFact
<1>3. PICK k \in 0..(n - 1) : TravelPoint = c[k] /\ Aim(k + index)
  BY <1>1, <1>2, Started DEF Reached, Holds
<1>4. index \in Nat /\ k + index <= n - 1
  BY <1>1, <1>2, <1>3 DEF Holds, Where, Chain
<1>5. /\ k + 1 \in 0..(n - 1) /\ k # n - 1 /\ (k + 1) + index' = k + index
  BY <1>1, <1>2, <1>4 DEF Holds
<1>6. TravelPoint' = c[k + 1]
  BY <1>1, <1>2, <1>3, <1>5 DEF Holds, Chain
<1>7. PICK i : i = k + index
  OBVIOUS
<1>8. Aim(i)'
  BY <1>1, <1>3, <1>7, AimStays
<1>9. Reached'
  BY <1>1, <1>2, <1>5, <1>6, <1>7, <1>8 DEF Reached, Holds
<1>10. QED
  BY <1>1, <1>9, GoesOn

LEMMA RemoveInsideRight ==
  ASSUME ListInv, HistoryInv, RemoveInside
  PROVE  Right
<1>1. pc = "remove" /\ UNCHANGED list /\ Goto("walk") /\ Walk(head, index) /\ 0 < index
  BY DEF RemoveInside
<1>2. index \in Int /\ len > 0
  BY WholeNow, <1>1 DEF WholeFact, Types, Holds, RemoveInside
<1>3. Aim(index)
  BY <1>1, Started DEF Reached
<1>4. PICK i \in Int : i = index
  BY <1>2
<1>5. QED
  BY <1>1, <1>2, <1>3, <1>4, WalkBegins

\* The node is created and the walk begins.
LEMMA NewNodeRight ==
  ASSUME ListInv, HistoryInv, pc = "start", Op({"DBInsertByIndex"}), Inside,
         NEW p \in Addr, Free(p), NEW e \in Element, e = call.element,
         node' = [node EXCEPT ![p] = Node(e, NULL, NULL)],
         newNode' = p, TravelPoint' = head, index' = call.index, Goto("walk"),
         UNCHANGED <<head, tail, len, FindVector>>
  PROVE  Right
<1>1. PICK n, c, s : Holds(n, c, s)
  BY WholeNow DEF WholeFact
<1>2. Types /\ newNode = NULL
  BY WholeNow DEF WholeFact, Types
<1>3. PICK i \in Int : i = call.index /\ 0 < i /\ i < n
  BY <1>1, <1>2, CallArguments DEF Op, IndexCalls, Inside, Holds
<1>4. /\ n \in Nat /\ c \in [0..(n - 1) -> Addr] /\ Chain(c, n) /\ Ended(c, n)
      /\ UNCHANGED <<head, tail, len>>
  BY <1>1, <1>3 DEF Holds
<1>5. /\ node' \in [Addr -> Nodes \cup {NULL}] /\ Chain(c, n)' /\ Ended(c, n)'
      /\ node'[p].data = e
      /\ \A k \in 0..(n - 1) : node'[c[k]] = node[c[k]]
  BY <1>2, <1>4, NewNodeKeepsChain
<1>6. Nth' = Nth /\ Contents' = Contents
  BY <1>2, <1>4, <1>5, NewNodeInsertsNothing
<1>7. pc' = "walk" /\ UNCHANGED <<call, before>>
  BY DEF Goto
<1>8. Aim(i)'
  BY <1>3, <1>5, <1>7 DEF Aim, Op
<1>9. 0 \in 0..(n - 1) /\ TravelPoint' = c[0] /\ 0 + index' = i
  BY <1>1, <1>3 DEF Holds, Chain
<1>10. Reached'
  BY <1>1, <1>6, <1>7, <1>8, <1>9 DEF Reached, Holds
<1>11. QED
  BY <1>6, <1>7, <1>10, GoesOn

LEMMA TravelOn ==
  ASSUME HistoryInv, pc \notin {"idle", "free"}, UNCHANGED list, Op({"DBTravel"}),
         NEW label \in {"forward", "backward"}, Goto(label)
  PROVE  Right
<1>1. /\ Contents' = Contents /\ UNCHANGED <<call, before>> /\ pc' = label
  BY SameList DEF Goto
<1>2. Reached'
  BY <1>1 DEF Reached, Op
<1>3. QED
  BY <1>1, <1>2, GoesOn

LEMMA FreeHeadRight ==
  ASSUME FreeHead
  PROVE  Right
BY DEF FreeHead, Right, HistoryInv, Goto

LEMMA FindBegins ==
  ASSUME ListInv, HistoryInv, pc = "start", Op({"DBFindByElement"}),
         FindVector' = [k \in 0..len |-> NULL],
         TravelPoint' = head, index' = 0, Goto("fill"), UNCHANGED list
  PROVE  Right
<1>1. /\ Contents' = Contents /\ UNCHANGED <<call, before>> /\ pc' = "fill"
      /\ Nth' = Nth /\ len' = len
  BY SameList DEF Goto
<1>2. PICK n, c, s : Holds(n, c, s)
  BY WholeNow DEF WholeFact
<1>3. TravelPoint' = IF 0 = n THEN NULL ELSE c[0]
  BY <1>2 DEF Holds, Chain
<1>4. FindVector' \in [0..n -> Int \cup {NULL}]
  BY <1>2 DEF Holds
<1>5. Found(0)' = {}
  BY DEF Found
<1>6. {FindVector'[k] : k \in 1..0} = {}
  OBVIOUS
<1>7. Cardinality({}) = 0
  BY FS_EmptySet
<1>8. 0 \in 0..n
  BY <1>2 DEF Holds
<1>9. FoundSoFar'
  BY <1>1, <1>2, <1>3, <1>4, <1>5, <1>6, <1>7, <1>8 DEF FoundSoFar, Lists, Holds
<1>10. Reached'
  BY <1>1, <1>9 DEF Reached, Op
<1>11. QED
  BY <1>1, <1>10, GoesOn

\* The hits before index when the element at index has been looked at.
LEMMA FoundGrows ==
  ASSUME NEW i \in Nat
  PROVE  /\ Contents[i + 1] = call.element => Found(i + 1) = Found(i) \cup {i}
         /\ Contents[i + 1] # call.element => Found(i + 1) = Found(i)
<1>1. 0..((i + 1) - 1) = 0..(i - 1) \cup {i} /\ i \notin 0..(i - 1)
  OBVIOUS
<1>2. Found(i + 1) = {k \in 0..(i - 1) \cup {i} : Contents[k + 1] = call.element}
  BY <1>1 DEF Found
<1>3. QED
  BY <1>2, Zenon DEF Found

LEMMA FoundIsFinite ==
  ASSUME NEW i \in Nat
  PROVE  /\ IsFiniteSet(Found(i)) /\ Cardinality(Found(i)) \in 0..i
         /\ i \notin Found(i) /\ Found(i) \subseteq 0..(i - 1)
<1>1. Found(i) \subseteq 0..(i - 1)
  BY DEF Found
<1>2. i \notin Found(i)
  BY <1>1
<1>3. IsFiniteSet(0..(i - 1)) /\ Cardinality(0..(i - 1)) = i
  BY FS_Interval
<1>4. /\ IsFiniteSet(Found(i)) /\ Cardinality(Found(i)) <= Cardinality(0..(i - 1))
  BY <1>1, <1>3, FS_Subset
<1>5. Cardinality(Found(i)) \in Nat
  BY <1>4, FS_CardinalityType
<1>6. QED
  BY <1>1, <1>2, <1>3, <1>4, <1>5

\* What a turn of Fill makes of a vector with m hits, if G are the hits then.
Filled(v, m, i, G) ==
  IF i \in G THEN [v EXCEPT ![0] = m + 1, ![m + 1] = i] ELSE [v EXCEPT ![0] = m]

Joined(G, F, i) == G = F \/ G = F \cup {i}

LEMMA VectorGrows ==
  ASSUME NEW n \in Nat, NEW i \in 0..n, i < n, NEW v \in [0..n -> Int \cup {NULL}],
         NEW F, IsFiniteSet(F), i \notin F, NEW m \in 0..i, Lists(v, m, F),
         NEW G, Joined(G, F, i), NEW w, w = Filled(v, m, i, G)
  PROVE  w \in [0..n -> Int \cup {NULL}] /\ Lists(w, w[0], G)
<1>1. CASE i \in G
  <2>1. m + 1 \in 0..n /\ m + 1 # 0 /\ 0 \in 0..n /\ m + 1 \in Int /\ i \in Int
    OBVIOUS
  <2>2. /\ w \in [0..n -> Int \cup {NULL}]
        /\ \A k \in 0..n :
             w[k] = IF k = m + 1 THEN i ELSE IF k = 0 THEN m + 1 ELSE v[k]
    BY <1>1, <2>1 DEF Filled
  <2>3. w[0] = m + 1 /\ w[m + 1] = i
    BY <2>1, <2>2
  <2>4. \A k \in 1..m : w[k] = v[k] /\ k \in 1..(m + 1)
    <3>1. \A k \in 1..m : k \in 0..n /\ k # 0 /\ k # m + 1 /\ k \in 1..(m + 1)
      OBVIOUS
    <3>2. QED
      BY <2>2, <3>1
  <2>5. \A k \in 1..(m + 1) : k = m + 1 \/ k \in 1..m
    OBVIOUS
  <2>6. {w[k] : k \in 1..(m + 1)} = {v[k] : k \in 1..m} \cup {i}
    BY <2>3, <2>4, <2>5
  <2>7. Cardinality(F \cup {i}) = m + 1
    BY FS_AddElement DEF Lists
  <2>8. QED
    BY <1>1, <2>2, <2>3, <2>6, <2>7 DEF Lists, Joined
<1>2. CASE i \notin G
  <2>1. 0 \in 0..n /\ m \in Int
    OBVIOUS
  <2>2. /\ w \in [0..n -> Int \cup {NULL}]
        /\ \A k \in 0..n : w[k] = IF k = 0 THEN m ELSE v[k]
    BY <1>2, <2>1 DEF Filled
  <2>3. w[0] = m /\ \A k \in 1..m : w[k] = v[k]
    BY <2>1, <2>2
  <2>4. {w[k] : k \in 1..m} = {v[k] : k \in 1..m}
    BY <2>3
  <2>5. QED
    BY <1>2, <2>2, <2>3, <2>4 DEF Lists, Joined
<1>3. QED
  BY <1>1, <1>2

LEMMA FillRight ==
  ASSUME ListInv, HistoryInv, Fill
  PROVE  Right
<1>1. /\ pc = "fill" /\ pc' = "fill" /\ TravelPoint # NULL
      /\ TravelPoint' = node[TravelPoint].next /\ index' = index + 1
      /\ UNCHANGED <<call, before>> /\ Contents' = Contents
      /\ Nth' = Nth /\ len' = len
  BY SameList DEF Fill, Goto
<1>2. PICK n, c, s : Holds(n, c, s)
  BY <1>1, WholeNow DEF WholeFact
<1>3. Op({"DBFindByElement"}) /\ FoundSoFar
  BY <1>1, Started DEF Reached
<1>4. PICK i \in 0..n : i = index /\ i < n /\ TravelPoint = c[i] /\ i \in 0..(n - 1)
  BY <1>1, <1>2, <1>3 DEF FoundSoFar, Holds
<1>5. PICK v \in [0..n -> Int \cup {NULL}] : v = FindVector
  BY <1>2, <1>3 DEF FoundSoFar, Holds
<1>6. PICK m \in 0..i : m = IF i = 0 THEN 0 ELSE v[0]
  BY <1>3, <1>4, <1>5, FoundIsFinite DEF FoundSoFar, Lists
<1>7. Lists(v, m, Found(i))
  BY <1>3, <1>4, <1>5, <1>6 DEF FoundSoFar
<1>8. PICK G :
        /\ G = Found(i + 1) /\ Joined(G, Found(i), i)
        /\ (i \in G <=> s[i + 1] = call.element)
  <2>1. i \notin Found(i) /\ i \in Nat /\ s = Contents
    BY <1>2, <1>4, FoundIsFinite DEF Holds
  <2>2. CASE s[i + 1] = call.element
    BY <2>1, <2>2, FoundGrows DEF Joined
  <2>3. CASE s[i + 1] # call.element
    BY <2>1, <2>3, FoundGrows DEF Joined
  <2>4. QED
    BY <2>2, <2>3
<1>9. PICK w : w = FindVector'
  OBVIOUS
<1>10. w = Filled(v, m, i, G)
  <2>1. node[TravelPoint].data = s[i + 1]
    BY <1>2, <1>4 DEF Holds
  <2>2. QED
    BY <1>4, <1>5, <1>6, <1>8, <1>9, <2>1 DEF Fill, Filled
<1>11. PICK F : F = Found(i) /\ IsFiniteSet(F) /\ i \notin F
  BY <1>4, FoundIsFinite
<1>12. w \in [0..n -> Int \cup {NULL}] /\ Lists(w, w[0], G)
  <2>1. n \in Nat /\ Joined(G, F, i) /\ Lists(v, m, F)
    BY <1>2, <1>7, <1>8, <1>11 DEF Holds
  <2>2. QED
    BY <1>4, <1>10, <1>11, <2>1, VectorGrows
<1>13. Found(i + 1)' = G
  BY <1>1, <1>8 DEF Found
<1>14. TravelPoint' = IF i + 1 = n THEN NULL ELSE c[i + 1]
  <2>1. node[c[i]].next = IF i = n - 1 THEN NULL ELSE c[i + 1]
    BY <1>2, <1>4 DEF Holds, Chain
  <2>2. i = n - 1 <=> i + 1 = n
    BY <1>2, <1>4 DEF Holds
  <2>3. QED
    BY <1>1, <1>4, <2>1, <2>2
<1>15. FoundSoFar'
  <2>1. index' = i + 1 /\ i + 1 \in 0..n /\ i + 1 # 0 /\ len' = n /\ Nth' = c
    BY <1>1, <1>2, <1>4 DEF Holds
  <2>2. QED
    BY <1>9, <1>12, <1>13, <1>14, <2>1 DEF FoundSoFar
<1>16. Reached'
  BY <1>1, <1>3, <1>15 DEF Reached, Op
<1>17. QED
  BY <1>1, <1>16, GoesOn

-----------------------------------------------------------------------------
(* Steps that end a call that reads                                        *)

LEMMA Unchanged ==
  ASSUME Progress, call.op \notin {"DBRemoveByElement", "DBSeValueByElent"}
  PROVE  Contents = before
BY DEF Progress

LEMMA ReaderRight ==
  ASSUME ListInv, HistoryInv, pc \notin {"idle", "free"}, UNCHANGED list,
         NEW v, Return(v), Op(Readers), Answer
  PROVE  Right
<1>1. Contents' = before
  BY Started, Unchanged, SameList DEF Op, Readers
<1>2. Finishes
  BY ReturnEnds DEF ListInv
<1>3. ListSeq!Result = before
  BY Results DEF Op
<1>4. ListSeq!Complete
  BY <1>1, <1>2, <1>3, Completes DEF Op, Readers
<1>5. QED
  BY <1>4 DEF Right, Return

LEMMA QueryRight ==
  ASSUME ListInv, HistoryInv, Query
  PROVE  Right
<1>1. pc = "start" /\ UNCHANGED list
  BY DEF Query
<1>2. PICK n, c, s : Holds(n, c, s)
  BY <1>1, WholeNow DEF WholeFact
<1>3. n = len /\ s \in Seq(Element) /\ Len(s) = n /\ n \in Nat
  BY <1>2 DEF Holds
<1>4. CASE Op({"GetDBlistLen"}) /\ Return(len)
  <2>1. before = s
    BY <1>1, <1>2, <1>4, Started, Unchanged DEF Op, Holds
  <2>2. Answer
    BY <1>3, <1>4, <2>1 DEF Answer, Returns, Op, Return
  <2>3. QED
    BY <1>1, <1>4, <2>2, ReaderRight DEF Op, Readers
<1>5. CASE Op({"IsQEmpty"}) /\ Return(len = 0)
  <2>1. before = s
    BY <1>1, <1>2, <1>5, Started, Unchanged DEF Op, Holds
  <2>2. (len = 0) = (before = <<>>)
    BY <1>3, <2>1, EmptySeq
  <2>3. Answer
    BY <1>5, <2>2 DEF Answer, Returns, Op, Return
  <2>4. QED
    BY <1>1, <1>5, <2>3, ReaderRight DEF Op, Readers
<1>6. QED
  BY <1>4, <1>5 DEF Query

LEMMA TravelRight ==
  ASSUME ListInv, HistoryInv, Travel
  PROVE  Right
<1>1. UNCHANGED list /\ pc \in {"start", "forward", "backward"} /\ Op({"DBTravel"})
  BY Started DEF Travel, Reached
<1>2. ASSUME NEW label \in {"forward", "backward"}, Goto(label)
      PROVE  Right
  BY <1>1, <1>2, TravelOn
<1>3. CASE Return(NULL)
  <2>1. Answer
    BY <1>1 DEF Answer, Returns, Op
  <2>2. QED
    BY <1>1, <1>3, <2>1, ReaderRight DEF Op, Readers
<1>4. QED
  BY <1>2, <1>3 DEF Travel

\* The hits in a sequence are what has been found when all of it is seen.
LEMMA AllFound ==
  ASSUME NEW n, NEW c, NEW s, Holds(n, c, s)
  PROVE  Hits(s, call.element) = Found(n)
BY DEF Hits, Found, Holds

LEMMA FindRight ==
  ASSUME ListInv, HistoryInv, FindByElement
  PROVE  Right
<1>1. CASE FindStart
  <2>1. pc = "start" /\ UNCHANGED list /\ Op({"DBFindByElement"})
    BY <1>1 DEF FindStart
  <2>2. CASE Return(NULL)
    <3>1. Answer
      BY <2>1, <2>2 DEF Answer, Returns, Op, Return
    <3>2. QED
      BY <2>1, <2>2, <3>1, ReaderRight DEF Op, Readers
  <2>3. CASE /\ FindVector' = [k \in 0..len |-> NULL]
             /\ TravelPoint' = head /\ index' = 0 /\ Goto("fill")
    BY <2>1, <2>3, FindBegins
  <2>4. QED
    BY <1>1, <2>2, <2>3 DEF FindStart
<1>2. CASE Fill
  BY <1>2, FillRight
<1>3. CASE FillEnd
  <2>1. /\ pc = "fill" /\ TravelPoint = NULL /\ UNCHANGED list
        /\ Return([FindVector EXCEPT ![index] = -1])
    BY <1>3 DEF FillEnd
  <2>2. PICK n, c, s : Holds(n, c, s)
    BY <2>1, WholeNow DEF WholeFact
  <2>3. Op({"DBFindByElement"}) /\ FoundSoFar
    BY <2>1, Started DEF Reached
  <2>4. index = n
    <3>1. index # n => index \in 0..(n - 1) /\ c[index] = NULL
      BY <2>1, <2>2, <2>3 DEF FoundSoFar, Holds
    <3>2. QED
      BY <2>2, <3>1, Constants DEF Holds
  <2>5. PICK v \in [0..n -> Int \cup {NULL}] :
          v = FindVector /\ ret' = [v EXCEPT ![n] = -1]
    BY <2>1, <2>2, <2>3, <2>4 DEF FoundSoFar, Holds, Return
  <2>6. PICK m \in 0..n : m = IF n = 0 THEN 0 ELSE v[0]
    BY <2>2, <2>3, <2>4, <2>5, FoundIsFinite DEF FoundSoFar, Lists, Holds
  <2>7. PICK F : F = Found(n) /\ m = Cardinality(F) /\ {v[k] : k \in 1..m} = F
    BY <2>3, <2>4, <2>5, <2>6 DEF FoundSoFar, Lists
  <2>8. Hits(before, call.element) = F
    BY <2>1, <2>2, <2>3, <2>7, AllFound, Started, Unchanged DEF Holds, Op
  <2>9. ASSUME m < n
        PROVE  ret'[0] = m /\ {ret'[k] : k \in 1..m} = F
    <3>1. \A k \in 0..m : k \in 0..n /\ k # n
      BY <2>2, <2>9 DEF Holds
    <3>2. \A k \in 0..m : ret'[k] = v[k]
      BY <2>5, <3>1
    <3>3. ret'[0] = v[0] /\ \A k \in 1..m : ret'[k] = v[k]
      BY <3>2
    <3>4. {ret'[k] : k \in 1..m} = {v[k] : k \in 1..m}
      BY <3>3
    <3>5. QED
      BY <2>6, <2>7, <2>9, <3>3, <3>4
  <2>10. Len(before) = n
    BY <2>1, <2>2, <2>3, Started, Unchanged DEF Holds, Op
  <2>11. Answer
    BY <2>3, <2>5, <2>7, <2>8, <2>9, <2>10 DEF Answer, Returns, Op
  <2>12. QED
    BY <2>1, <2>3, <2>11, ReaderRight DEF Op, Readers
<1>4. QED
  BY <1>1, <1>2, <1>3 DEF FindByElement

-----------------------------------------------------------------------------
(* Steps that end a search                                                 *)

LEMMA FirstIs ==
  ASSUME NEW S \in SUBSET Nat, NEW i \in S, \A k \in S : i <= k
  PROVE  First(S) = i
<1>1. PICK f \in S : f = First(S) /\ \A k \in S : f <= k
  BY DEF First
<1>2. f <= i /\ i <= f
  BY <1>1
<1>3. QED
  BY <1>1, <1>2

\* Nothing is left to take out.
LEMMA ThinnedToTheEnd ==
  ASSUME NEW s \in Seq(Element), NEW t \in Seq(Element), NEW e, Thinned(t, s, e),
         \A k \in 1..Len(t) : t[k] # e
  PROVE  ListSeq!IsWithout(t, s, e)
<1> DEFINE kept == {k \in DOMAIN s : s[k] # e}
           D == DOMAIN t
<1>1. PICK n \in Nat, m \in Nat :
        n = Len(t) /\ m = Len(s) /\ DOMAIN s = 1..m /\ D = 1..n
  BY LenProperties
<1>2. PICK from \in [1..n -> 1..m] :
        /\ \A i, k \in 1..n : i < k => from[i] < from[k]
        /\ \A i \in 1..n : t[i] = s[from[i]]
        /\ \A k \in 1..m : s[k] # e => \E i \in 1..n : from[i] = k
  <2>1. PICK from : Places(from, t, n, s, m, e)
    BY <1>1 DEF Thinned
  <2>2. QED
    BY <2>1 DEF Places
<1>3. \A i \in 1..n : from[i] \in kept
  BY <1>1, <1>2
<1>4. \A k \in kept : k \in 1..m /\ s[k] # e
  BY <1>1
<1>5. t \in Seq({s[k] : k \in kept})
  <2>1. \A i \in 1..n : t[i] \in {s[k] : k \in kept}
    BY <1>2, <1>3
  <2>2. t \in [1..n -> {s[k] : k \in kept}]
    <3>1. t = [i \in D |-> t[i]]
      BY LenProperties
    <3>2. QED
      BY <1>1, <2>1, <3>1
  <2> HIDE DEF kept
  <2>3. QED
    BY <2>2, FunctionIsSeq
<1> HIDE DEF kept, D
<1>6. /\ from \in [D -> kept]
      /\ \A k \in kept : \E i \in D : from[i] = k
      /\ \A i, k \in D : i < k => from[i] < from[k]
      /\ \A i \in D : t[i] = s[from[i]]
  BY <1>1, <1>2, <1>3, <1>4
<1>7. QED
  BY <1>5, <1>6 DEF ListSeq!IsWithout, kept, D

\* Nothing is left to replace.
LEMMA ReplacedToTheEnd ==
  ASSUME NEW s \in Seq(Element), NEW t \in Seq(Element), NEW old, NEW new,
         Replaced(t, s, old, new), \A k \in 1..Len(s) : t[k] # old
  PROVE  t = [k \in DOMAIN s |-> IF s[k] = old THEN new ELSE s[k]]
<1>1. DOMAIN s = 1..Len(s) /\ DOMAIN t = 1..Len(s)
  BY LenProperties DEF Replaced
<1>2. \A k \in 1..Len(s) : t[k] = IF s[k] = old THEN new ELSE s[k]
  BY DEF Replaced
<1>3. t = [k \in DOMAIN t |-> t[k]]
  BY LenProperties
<1>4. QED
  BY <1>1, <1>2, <1>3

LEMMA SearchMissRight ==
  ASSUME ListInv, HistoryInv, SearchMiss
  PROVE  Right
<1>1. /\ pc = "search" /\ TravelPoint = NULL /\ UNCHANGED list
      /\ Return(IF Op({"DBFindeFirstByElement"}) THEN -1 ELSE NULL)
  BY DEF SearchMiss
<1>2. PICK n, c, s : Holds(n, c, s)
  BY <1>1, WholeNow DEF WholeFact
<1>3. Progress /\ \A k \in 1..n : s[k] # Wanted
  BY <1>1, <1>2, Started DEF Reached, Holds
<1>4. /\ s = Contents /\ s \in Seq(Element) /\ Len(s) = n /\ n \in Nat
      /\ DOMAIN s = 1..n /\ Contents' = s
  BY <1>1, <1>2, SameList, LenProperties DEF Holds
<1>5. Finishes
  BY <1>1, ReturnEnds DEF ListInv
<1>6. before \in Seq(Element)
  BY <1>3 DEF Progress
<1>7. Op({"DBFindeFirstByElement", "DBRemoveByElement", "DBSeValueByElent"})
  BY <1>1 DEF ListInv, Types
<1>8. CASE Op({"DBFindeFirstByElement"})
  <2>1. s = before
    BY <1>3, <1>4, <1>8, Unchanged DEF Op
  <2>2. Hits(before, call.element) = {}
    <3>1. \A k \in 0..(n - 1) : k + 1 \in 1..n
      BY <1>4
    <3>2. QED
      BY <1>3, <1>4, <1>8, <2>1, <3>1 DEF Hits, Wanted, Op
  <2>3. Answer
    BY <1>1, <1>8, <2>2 DEF Answer, Returns, Op, Return, First
  <2>4. QED
    BY <1>1, <1>8, <2>3, ReaderRight DEF Op, Readers
<1>9. CASE Op({"DBRemoveByElement"})
  <2>1. Thinned(s, before, call.element)
    BY <1>3, <1>4, <1>9 DEF Progress, Op
  <2>2. ListSeq!IsWithout(s, before, call.element)
    BY <1>3, <1>4, <1>6, <1>9, <2>1, ThinnedToTheEnd DEF Wanted, Op
  <2>3. ListSeq!Complete
    BY <1>4, <1>5, <1>9, <2>2, Completes DEF Op
  <2>4. Answer
    BY <1>9, NothingToAnswer DEF Op, Readers
  <2>5. QED
    BY <1>1, <2>3, <2>4 DEF Right, Return
<1>10. CASE Op({"DBSeValueByElent"})
  <2>1. Replaced(s, before, call.old, call.element)
    BY <1>3, <1>4, <1>10 DEF Progress, Op
  <2>2. Contents' = ListSeq!Result
    <3>1. \A k \in 1..Len(before) : s[k] # call.old
      BY <1>3, <1>4, <1>10, <2>1 DEF Wanted, Op, Replaced
    <3>2. s = [k \in DOMAIN before |->
                 IF before[k] = call.old THEN call.element ELSE before[k]]
      BY <1>4, <1>6, <2>1, <3>1, ReplacedToTheEnd
    <3>3. QED
      BY <1>1, <1>4, <1>10, <3>2, Results DEF Op
  <2>3. ListSeq!Complete
    BY <1>5, <1>10, <2>2, Completes DEF Op
  <2>4. Answer
    BY <1>10, NothingToAnswer DEF Op, Readers
  <2>5. QED
    BY <1>1, <2>3, <2>4 DEF Right, Return
<1>11. QED
  BY <1>7, <1>8, <1>9, <1>10 DEF Op

LEMMA SearchHitRight ==
  ASSUME ListInv, HistoryInv, SearchHit
  PROVE  Right
<1>1. /\ pc = "search" /\ TravelPoint # NULL /\ UNCHANGED list
      /\ node[TravelPoint].data = Wanted
  BY DEF SearchHit
<1>2. PICK n, c, s : Holds(n, c, s)
  BY <1>1, WholeNow DEF WholeFact
<1>3. PICK i \in 0..(n - 1) : i = index /\ TravelPoint = c[i]
  BY <1>1, <1>2 DEF Holds, Where
<1>4. \A k \in 1..i : s[k] # Wanted
  BY <1>1, <1>3, <1>2, Started DEF Reached, Holds
<1>5. s = Contents /\ s[i + 1] = Wanted /\ len = n /\ Len(s) = n /\ n \in Nat
  BY <1>1, <1>2, <1>3 DEF Holds
<1>6. newNode = NULL
  BY <1>1 DEF ListInv, Types
<1>7. Op({"DBRemoveByElement", "DBSeValueByElent"}) => Aim(i)
  BY <1>5, <1>6 DEF Aim, Op, IndexCalls
<1>8. CASE Op({"DBFindeFirstByElement"}) /\ Return(index)
  <2>1. s = before
    BY <1>1, <1>5, <1>8, Started, Unchanged DEF Op
  <2>2. PICK H : H = Hits(before, call.element)
    OBVIOUS
  <2>3. H = {k \in 0..(n - 1) : s[k + 1] = Wanted}
    BY <1>5, <1>8, <2>1, <2>2 DEF Hits, Wanted, Op
  <2>4. H \in SUBSET Nat /\ i \in H
    BY <1>5, <2>3
  <2>5. ASSUME NEW k \in H
        PROVE  i <= k
    <3>1. k \in 0..(n - 1) /\ s[k + 1] = Wanted
      BY <2>3
    <3>2. k < i => k + 1 \in 1..i
      BY <3>1
    <3>3. QED
      BY <1>4, <3>1, <3>2
  <2>6. First(H) = i
    BY <2>4, <2>5, FirstIs
  <2>7. Answer
    BY <1>3, <1>8, <2>2, <2>6 DEF Answer, Returns, Op, Return
  <2>8. QED
    BY <1>1, <1>8, <2>7, ReaderRight DEF Op, Readers
<1>9. CASE Op({"DBRemoveByElement"}) /\ Walk(NULL, index) /\ Goto("remove")
  <2>1. Aim(i)'
    BY <1>1, <1>7, <1>9, AimStays DEF Walk, Goto, Op
  <2>2. Reached'
    BY <1>3, <1>9, <2>1 DEF Reached, Walk, Goto
  <2>3. QED
    BY <1>1, <1>9, <2>2, SameList, GoesOn DEF Goto
<1>10. CASE Op({"DBSeValueByElent"}) /\ Walk(head, index) /\ Goto("walk")
  <2>1. Aim(i) /\ len > 0 /\ i \in Int /\ Walk(head, i)
    BY <1>3, <1>5, <1>7, <1>10 DEF Op
  <2>2. QED
    BY <1>1, <1>10, <2>1, WalkBegins
<1>11. QED
  BY <1>8, <1>9, <1>10 DEF SearchHit

-----------------------------------------------------------------------------
(* Steps that remove                                                       *)

LEMMA ThinnedOnceMore ==
  ASSUME NEW s \in Seq(Element), NEW t \in Seq(Element), NEW e, Thinned(t, s, e),
         NEW i \in 1..Len(t), t[i] = e, NEW u \in Seq(Element), Removes(u, t, i)
  PROVE  Thinned(u, s, e)
<1>1. PICK n \in Nat, l \in Nat : n = Len(t) /\ l = Len(s)
  BY LenProperties
<1>2. Len(u) = n - 1
  BY <1>1 DEF Removes
<1>3. PICK from \in [1..n -> 1..l] :
        /\ \A k, m \in 1..n : k < m => from[k] < from[m]
        /\ \A k \in 1..n : t[k] = s[from[k]]
        /\ \A k \in 1..l : s[k] # e => \E m \in 1..n : from[m] = k
  <2>1. PICK from : Places(from, t, n, s, l, e)
    BY <1>1 DEF Thinned
  <2>2. QED
    BY <2>1 DEF Places
<1>4. PICK f \in [1..(n - 1) -> 1..l] :
        \A k \in 1..(n - 1) : f[k] = IF k < i THEN from[k] ELSE from[k + 1]
  <2>1. \A k \in 1..(n - 1) : k \in 1..n /\ k + 1 \in 1..n
    OBVIOUS
  <2>2. [k \in 1..(n - 1) |-> IF k < i THEN from[k] ELSE from[k + 1]]
          \in [1..(n - 1) -> 1..l]
    BY <2>1
  <2>3. QED
    BY <2>2
<1>5. ASSUME NEW k \in 1..(n - 1), NEW m \in 1..(n - 1), k < m
      PROVE  f[k] < f[m]
  <2>1. k \in 1..n /\ k + 1 \in 1..n /\ m \in 1..n /\ m + 1 \in 1..n /\ k < m + 1
        /\ k + 1 < m + 1
    BY <1>5
  <2>2. /\ from[k] < from[m] /\ from[k] < from[m + 1]
        /\ from[k + 1] < from[m + 1]
    BY <1>3, <1>5, <2>1
  <2>3. QED
    BY <1>1, <1>4, <1>5, <2>2
<1>6. ASSUME NEW k \in 1..(n - 1)
      PROVE  u[k] = s[f[k]]
  <2>1. k \in 1..n /\ k + 1 \in 1..n
    OBVIOUS
  <2>2. CASE k < i
    <3>1. k \in 1..(i - 1)
      BY <1>1, <2>2
    <3>2. u[k] = t[k]
      BY <3>1 DEF Removes
    <3>3. QED
      BY <1>3, <1>4, <2>1, <2>2, <3>2
  <2>3. CASE ~(k < i)
    <3>1. k \in i..(Len(t) - 1)
      BY <1>1, <2>3
    <3>2. u[k] = t[k + 1]
      BY <3>1 DEF Removes
    <3>3. QED
      BY <1>3, <1>4, <2>1, <2>3, <3>2
  <2>4. QED
    BY <2>2, <2>3
<1>7. ASSUME NEW k \in 1..l, s[k] # e
      PROVE  \E m \in 1..(n - 1) : f[m] = k
  <2>1. PICK m \in 1..n : from[m] = k
    BY <1>3, <1>7
  <2>2. m # i
    BY <1>3, <1>7, <2>1
  <2>3. CASE m < i
    <3>1. m \in 1..(n - 1)
      BY <1>1, <2>3
    <3>2. QED
      BY <1>4, <2>1, <2>3, <3>1
  <2>4. CASE m > i
    <3>1. m - 1 \in 1..(n - 1) /\ ~(m - 1 < i) /\ (m - 1) + 1 = m
      BY <1>1, <2>4
    <3>2. QED
      BY <1>4, <2>1, <3>1
  <2>5. QED
    BY <1>1, <2>2, <2>3, <2>4
<1>8. PICK m \in Nat : m = n - 1 /\ m = Len(u)
  <2>1. n - 1 \in Nat
    BY <1>1
  <2>2. QED
    BY <1>2, <2>1
<1>9. Places(f, u, m, s, l, e)
  BY <1>4, <1>5, <1>6, <1>7, <1>8 DEF Places
<1>10. f \in [1..Len(u) -> 1..Len(s)]
  BY <1>1, <1>8
<1>11. QED
  BY <1>1, <1>8, <1>9, <1>10 DEF Thinned

\* The call removed the element at position j.
LEMMA RemovalRight ==
  ASSUME ListInv, ListInv', HistoryInv, pc \in {"remove", "walk"},
         Op({"DBRemoveByIndex", "DBRemoveByElement", "Pop"}), Removed,
         NEW j \in 0..(len - 1), Aim(j), Contents' = RemoveAt(Contents, j + 1)
  PROVE  Right
<1>1. PICK n, c, s : Holds(n, c, s)
  BY WholeNow DEF WholeFact
<1>2. /\ s = Contents /\ s \in Seq(Element) /\ Len(s) = n /\ n \in Nat /\ n = len
      /\ j + 1 \in 1..Len(s) /\ j \in Nat
  BY <1>1 DEF Holds
<1>3. Progress /\ before \in Seq(Element)
  BY Started DEF Progress
<1>4. CASE Op({"DBRemoveByElement"})
  <2>1. /\ pc' = "search" /\ TravelPoint' = head' /\ index' = 0
        /\ UNCHANGED <<call, before>>
    BY <1>4 DEF Removed, Search
  <2>2. Thinned(s, before, call.element) /\ s[j + 1] = call.element
    BY <1>2, <1>3, <1>4 DEF Progress, Op, Aim, Wanted
  <2>3. PICK i \in 1..Len(s) : i = j + 1
    BY <1>2
  <2>4. PICK u \in Seq(Element) : u = RemoveAt(s, i) /\ Removes(u, s, i)
    BY <1>2, RemoveAtProperties
  <2>5. PICK e : e = call.element
    OBVIOUS
  <2>6. Thinned(u, before, e)
    BY <1>2, <1>3, <2>2, <2>3, <2>4, <2>5, ThinnedOnceMore
  <2>7. u = Contents'
    BY <1>2, <2>3, <2>4
  <2>8. Progress'
    BY <1>3, <1>4, <2>1, <2>5, <2>6, <2>7 DEF Progress, Op
  <2>9. Reached'
    BY <2>1, SearchBegins
  <2>10. QED
    BY <2>1, <2>8, <2>9 DEF Right, HistoryInv
<1>5. CASE Op({"DBRemoveByIndex"})
  <2>1. Return(NULL)
    BY <1>5 DEF Removed, Op
  <2>2. before = s /\ j = call.index
    BY <1>2, <1>3, <1>5, Unchanged DEF Op, Aim, IndexCalls
  <2>3. Contents' = ListSeq!Result
    BY <1>2, <1>5, <2>2, Results DEF Op
  <2>4. ListSeq!Complete
    BY <1>5, <2>1, <2>3, ReturnEnds, Completes DEF Op, ListInv
  <2>5. Answer
    BY <1>5, NothingToAnswer DEF Op, Readers
  <2>6. QED
    BY <2>1, <2>4, <2>5 DEF Right, Return
<1>6. CASE Op({"Pop"})
  <2>1. Return(node[head].data)
    BY <1>6 DEF Removed, Op
  <2>2. before = s /\ j = 0 /\ n > 0
    BY <1>2, <1>3, <1>6, Unchanged DEF Op, Aim
  <2>3. s # <<>>
    BY <1>2, <2>2, EmptySeq
  <2>4. Contents' = Tail(s)
    BY <1>2, <2>2, <2>3, TailRemoves
  <2>5. Contents' = ListSeq!Result
    BY <1>6, <2>2, <2>3, <2>4, Results DEF Op
  <2>6. ListSeq!Complete
    BY <1>6, <2>1, <2>5, ReturnEnds, Completes DEF Op, ListInv
  <2>7. node[head].data = Head(s)
    <3>1. head = c[0] /\ 0 \in 0..(n - 1)
      BY <1>1, <1>2, <2>2 DEF Holds, Chain
    <3>2. Head(s) = s[1]
      BY <1>2, <2>3, HeadTailProperties
    <3>3. s[0 + 1] = node[c[0]].data
      BY <1>1, <3>1 DEF Holds
    <3>4. QED
      BY <3>1, <3>2, <3>3
  <2>8. Answer
    BY <1>6, <2>1, <2>2, <2>3, <2>7 DEF Answer, Returns, Op, Return
  <2>9. QED
    BY <2>1, <2>6, <2>8 DEF Right, Return
<1>7. QED
  BY <1>4, <1>5, <1>6 DEF Op

LEMMA RemoveNothingRight ==
  ASSUME ListInv, HistoryInv, RemoveNothing
  PROVE  Right
<1>1. pc = "remove" /\ UNCHANGED list /\ Removed /\ index \notin 0..(len - 1)
  BY DEF RemoveNothing
<1>2. PICK n, c, s : Holds(n, c, s)
  BY <1>1, WholeNow DEF WholeFact
<1>3. n = len /\ n \in Nat /\ s = Contents /\ Len(s) = n
  BY <1>2 DEF Holds
<1>4. Aim(index) /\ Op({"DBRemoveByIndex", "DBRemoveByElement", "Pop"})
  BY <1>1, Started DEF Reached, ListInv, Types
<1>5. Op({"DBRemoveByIndex"})
  <2>1. ~ Op({"DBRemoveByElement"})
    BY <1>1, <1>4 DEF Aim, Op
  <2>2. ~ Op({"Pop"})
    <3>1. Op({"Pop"}) => index = 0 /\ n > 0
      BY <1>3, <1>4 DEF Aim
    <3>2. QED
      BY <1>1, <1>3, <3>1
  <2>3. QED
    BY <1>4, <2>1, <2>2 DEF Op
<1>6. Return(NULL)
  BY <1>1, <1>5 DEF Removed, Op
<1>7. before = s /\ index = call.index /\ Contents' = s
  BY <1>1, <1>3, <1>4, <1>5, Started, Unchanged, SameList DEF Op, Aim, IndexCalls
<1>8. Contents' = ListSeq!Result
  BY <1>1, <1>3, <1>5, <1>7, Results DEF Op
<1>9. ListSeq!Complete
  BY <1>1, <1>5, <1>6, <1>8, ReturnEnds, Completes DEF Op, ListInv
<1>10. Answer
  BY <1>5, NothingToAnswer DEF Op, Readers
<1>11. QED
  BY <1>6, <1>9, <1>10 DEF Right, Return

\* A node is taken out at position j.
LEMMA ShrinkingRight ==
  ASSUME ListInv, ListInv', HistoryInv, pc \in {"remove", "walk"},
         Op({"DBRemoveByIndex", "DBRemoveByElement", "Pop"}), Removed,
         NEW n, NEW c, NEW s, Holds(n, c, s),
         NEW j \in 0..(n - 1), Aim(j), ShrinksWell(c, n, j)
  PROVE  Right
<1>1. /\ n \in Nat /\ c \in [0..(n - 1) -> Addr] /\ Chain(c, n) /\ Ended(c, n)
      /\ n = len
  BY DEF Holds
<1>2. Types
  BY DEF ListInv
<1>3. Contents' = RemoveAt(Contents, j + 1)
  BY <1>1, <1>2, ShrinkingRemoves
<1>4. j \in 0..(len - 1)
  BY <1>1
<1>5. QED
  BY <1>3, <1>4, RemovalRight

LEMMA RemoveRight ==
  ASSUME ListInv, ListInv', HistoryInv, DBRemove
  PROVE  Right
<1>1. pc \in {"start", "remove", "walk"} /\ Types
  BY DEF DBRemove, RemoveStart, RemoveNothing, RemoveOnly, RemoveHead, RemoveTail,
         RemoveInside, Unlink, ListInv
<1>2. PICK n, c, s : Holds(n, c, s)
  BY <1>1, WholeNow DEF WholeFact
<1>3. /\ n \in Nat /\ c \in [0..(n - 1) -> Addr] /\ n = len
      /\ Chain(c, n) /\ Ended(c, n) /\ Where(c, n)
  BY <1>2 DEF Holds
<1>4. pc = "remove" => /\ Aim(index) /\ newNode = NULL
                       /\ Op({"DBRemoveByIndex", "DBRemoveByElement", "Pop"})
  BY Started DEF Reached, ListInv, Types
<1>5. Removed /\ newNode = NULL => newNode' = NULL
  BY DEF Removed, Return
<1>6. CASE RemoveStart
  <2>1. pc = "start" /\ UNCHANGED list
    BY <1>6 DEF RemoveStart
  <2>2. CASE Op({"DBRemoveByIndex"}) /\ Walk(NULL, call.index) /\ Goto("remove")
    BY <2>1, <2>2, RemoveStartRight
  <2>3. CASE Op({"Pop"}) /\ len # 0 /\ Walk(NULL, 0) /\ Goto("remove")
    BY <2>1, <2>3, RemoveStartRight
  <2>4. CASE Op({"Pop"}) /\ len = 0 /\ Return(NULL)
    <3>1. s = <<>> /\ before = s /\ Contents' = s
      BY <1>2, <2>1, <2>4, EmptySeq, Started, Unchanged, SameList DEF Holds, Op
    <3>2. Contents' = ListSeq!Result
      BY <2>1, <2>4, <3>1, Results DEF Op
    <3>3. ListSeq!Complete
      BY <2>1, <2>4, <3>2, ReturnEnds, Completes DEF Op, ListInv
    <3>4. Answer
      BY <2>4, <3>1 DEF Answer, Returns, Op, Return
    <3>5. QED
      BY <2>4, <3>3, <3>4 DEF Right, Return
  <2>5. QED
    BY <1>6, <2>2, <2>3, <2>4 DEF RemoveStart
<1>7. CASE RemoveNothing
  BY <1>7, RemoveNothingRight
<1>8. CASE RemoveOnly
  <2>1. pc = "remove" /\ Removed /\ Aim(0) /\ 0 \in 0..(n - 1)
    BY <1>3, <1>4, <1>8 DEF RemoveOnly
  <2>2. ShrinksWell(c, n, 0)
    BY <1>1, <1>3, <1>4, <1>5, <1>8, <2>1, RemoveOnlyShrinks
  <2>3. QED
    BY <1>2, <1>4, <2>1, <2>2, ShrinkingRight
<1>9. CASE RemoveHead
  <2>1. pc = "remove" /\ Removed /\ Aim(0) /\ 0 \in 0..(n - 1)
    BY <1>3, <1>4, <1>9 DEF RemoveHead
  <2>2. ShrinksWell(c, n, 0)
    BY <1>1, <1>3, <1>4, <1>5, <1>9, <2>1, RemoveHeadShrinks
  <2>3. QED
    BY <1>2, <1>4, <2>1, <2>2, ShrinkingRight
<1>10. CASE RemoveTail
  <2>1. pc = "remove" /\ Removed /\ Aim(n - 1) /\ n - 1 \in 0..(n - 1)
    BY <1>3, <1>4, <1>10 DEF RemoveTail
  <2>2. ShrinksWell(c, n, n - 1)
    BY <1>1, <1>3, <1>4, <1>5, <1>10, <2>1, RemoveTailShrinks
  <2>3. QED
    BY <1>2, <1>4, <2>1, <2>2, ShrinkingRight
<1>11. CASE RemoveInside
  BY <1>11, RemoveInsideRight
<1>12. CASE Unlink
  <2>1. /\ pc = "walk" /\ index = 0 /\ Removed
        /\ Op({"DBRemoveByIndex", "DBRemoveByElement"})
    BY <1>12 DEF Unlink
  <2>2. newNode = NULL
    BY <1>1, <2>1 DEF Types, Op
  <2>3. PICK j \in 0..(n - 1) : TravelPoint = c[j] /\ Aim(j + index)
    BY <1>2, <2>1, Started DEF Reached, Holds
  <2>4. j + index = j
    BY <2>1
  <2>5. ShrinksWell(c, n, j)
    BY <1>1, <1>3, <1>5, <1>12, <2>1, <2>2, <2>3, UnlinkShrinks
  <2>6. Aim(j) /\ Op({"DBRemoveByIndex", "DBRemoveByElement", "Pop"})
    BY <2>1, <2>3, <2>4 DEF Op
  <2>7. QED
    BY <1>2, <2>1, <2>5, <2>6, ShrinkingRight
<1>13. QED
  BY <1>6, <1>7, <1>8, <1>9, <1>10, <1>11, <1>12 DEF DBRemove

-----------------------------------------------------------------------------
(* Steps at an index                                                       *)

LEMMA IndexStartRight ==
  ASSUME ListInv, HistoryInv, IndexStart
  PROVE  Right
<1>1. /\ pc = "start" /\ UNCHANGED list
      /\ Op({"DBFindeByindex", "DBSeValueByIndex"}) /\ Types
  BY DEF IndexStart, ListInv
<1>2. call.index \in Int
  BY <1>1, CallArguments DEF Op, IndexCalls
<1>3. PICK n, c, s : Holds(n, c, s)
  BY <1>1, WholeNow DEF WholeFact
<1>4. /\ n = len /\ s = Contents /\ Len(s) = n /\ n \in Nat /\ before = s
      /\ newNode = NULL /\ Contents' = s
  BY <1>1, <1>3, Started, Unchanged, SameList DEF Holds, Op, Types
<1>5. CASE call.index \in 0..(len - 1) /\ Walk(head, call.index) /\ Goto("walk")
  <2>1. Aim(call.index) /\ len > 0
    BY <1>1, <1>2, <1>4, <1>5 DEF Aim, Op
  <2>2. PICK i \in Int : i = call.index
    BY <1>2
  <2>3. QED
    BY <1>1, <1>5, <2>1, <2>2, WalkBegins
<1>6. CASE call.index \notin 0..(len - 1) /\ Return(NULL)
  <2>1. CASE Op({"DBFindeByindex"})
    <3>1. Answer
      BY <1>4, <1>6, <2>1 DEF Answer, Returns, Op, Return
    <3>2. QED
      BY <1>1, <1>6, <2>1, <3>1, ReaderRight DEF Op, Readers
  <2>2. CASE Op({"DBSeValueByIndex"})
    <3>1. Contents' = ListSeq!Result
      BY <1>1, <1>4, <1>6, <2>2, Results DEF Op
    <3>2. ListSeq!Complete
      BY <1>1, <1>6, <2>2, <3>1, ReturnEnds, Completes DEF Op
    <3>3. Answer
      BY <2>2, NothingToAnswer DEF Op, Readers
    <3>4. QED
      BY <1>6, <3>2, <3>3 DEF Right, Return
  <2>3. QED
    BY <1>1, <2>1, <2>2 DEF Op
<1>7. QED
  BY <1>5, <1>6 DEF IndexStart

LEMMA ReadHereRight ==
  ASSUME ListInv, HistoryInv, ReadHere
  PROVE  Right
<1>1. /\ pc = "walk" /\ index = 0 /\ UNCHANGED list /\ Op({"DBFindeByindex"})
      /\ Return(node[TravelPoint].data)
  BY DEF ReadHere
<1>2. PICK n, c, s : Holds(n, c, s)
  BY <1>1, WholeNow DEF WholeFact
<1>3. PICK j \in 0..(n - 1) : TravelPoint = c[j] /\ Aim(j + index)
  BY <1>1, <1>2, Started DEF Reached, Holds
<1>4. j + index = j
  BY <1>1
<1>5. j = call.index
  BY <1>1, <1>3, <1>4 DEF Aim, Op, IndexCalls
<1>6. before = s /\ Len(s) = n
  BY <1>1, <1>2, Started, Unchanged DEF Holds, Op
<1>7. ret' = s[j + 1]
  BY <1>1, <1>2, <1>3 DEF Holds, Return
<1>8. Answer
  BY <1>1, <1>3, <1>5, <1>6, <1>7 DEF Answer, Returns, Op
<1>9. QED
  BY <1>1, <1>8, ReaderRight DEF Op, Readers

LEMMA WriteHereRight ==
  ASSUME ListInv, ListInv', HistoryInv, WriteHere
  PROVE  Right
<1>1. /\ pc = "walk" /\ index = 0 /\ Op({"DBSeValueByIndex", "DBSeValueByElent"})
      /\ Types
  BY DEF WriteHere, ListInv
<1>2. PICK n, c, s : Holds(n, c, s)
  BY <1>1, WholeNow DEF WholeFact
<1>3. /\ n \in Nat /\ c \in [0..(n - 1) -> Addr] /\ n = len /\ s = Contents
      /\ Chain(c, n) /\ Ended(c, n) /\ Where(c, n) /\ s \in Seq(Element) /\ Len(s) = n
  BY <1>2 DEF Holds
<1>4. PICK j \in 0..(n - 1) : TravelPoint = c[j] /\ Aim(j + index)
  BY <1>1, <1>2, Started DEF Reached, Holds
<1>5. j + index = j /\ j + 1 \in 1..n
  BY <1>1, <1>3
<1>6. call.element \in Element
  BY <1>1, CallArguments DEF Op, ElementCalls
<1>7. newNode' = newNode
  <2>1. newNode = NULL
    BY <1>1 DEF Types, Op
  <2>2. QED
    BY <2>1 DEF WriteHere, Return
<1>8. PICK t \in Seq(Element) :
        /\ t = Contents' /\ Len(t) = n
        /\ \A k \in 1..n : t[k] = IF k = j + 1 THEN call.element ELSE s[k]
  BY <1>1, <1>3, <1>4, <1>6, <1>7, WritingSets
<1>9. CASE Op({"DBSeValueByIndex"})
  <2>1. Return(NULL) /\ before = s /\ j = call.index
    BY <1>1, <1>3, <1>4, <1>5, <1>9, Started, Unchanged
    DEF WriteHere, Op, Aim, IndexCalls
  <2>2. t = [s EXCEPT ![j + 1] = call.element]
    <3>1. DOMAIN s = 1..n /\ DOMAIN t = 1..n
      BY <1>3, <1>8, LenProperties
    <3>2. t = [k \in 1..n |-> t[k]] /\ s = [k \in 1..n |-> s[k]]
      <4>1. t = [k \in DOMAIN t |-> t[k]]
        BY LenProperties
      <4>2. s = [k \in DOMAIN s |-> s[k]]
        BY <1>3, LenProperties
      <4>3. QED
        BY <3>1, <4>1, <4>2
    <3>3. [s EXCEPT ![j + 1] = call.element]
            = [k \in 1..n |-> IF k = j + 1 THEN call.element ELSE s[k]]
      BY <3>1, <3>2
    <3>4. QED
      BY <1>8, <3>2, <3>3
  <2>3. j \in 0..(Len(before) - 1)
    BY <1>3, <2>1
  <2>4. Contents' = ListSeq!Result
    BY <1>1, <1>8, <1>9, <2>1, <2>2, <2>3, Results DEF Op
  <2>5. ListSeq!Complete
    BY <1>1, <1>9, <2>1, <2>4, ReturnEnds, Completes DEF Op
  <2>6. Answer
    BY <1>9, NothingToAnswer DEF Op, Readers
  <2>7. QED
    BY <2>1, <2>5, <2>6 DEF Right, Return
<1>10. CASE Op({"DBSeValueByElent"})
  <2>1. /\ pc' = "search" /\ TravelPoint' = head' /\ index' = 0
        /\ UNCHANGED <<call, before>>
    BY <1>10 DEF WriteHere, Search, Op
  <2>2. Replaced(s, before, call.old, call.element) /\ s[j + 1] = call.old
    BY <1>1, <1>3, <1>4, <1>5, <1>10, Started DEF Progress, Op, Aim, Wanted
  <2>3. Replaced(t, before, call.old, call.element)
    BY <1>3, <1>8, <2>2 DEF Replaced
  <2>4. Progress'
    BY <1>1, <1>8, <1>10, <2>1, <2>3, Started DEF Progress, Op
  <2>5. Reached'
    BY <2>1, SearchBegins
  <2>6. QED
    BY <2>1, <2>4, <2>5 DEF Right, HistoryInv
<1>11. QED
  BY <1>1, <1>9, <1>10 DEF Op

-----------------------------------------------------------------------------
(* Steps that insert                                                       *)

Inserting == Op({"DBInsertTail", "QPush", "DBInsertHead", "DBInsertByIndex"})

LEMMA NothingInserted ==
  ASSUME ListInv, HistoryInv, pc = "start", UNCHANGED list, Inserting, Return(NULL)
  PROVE  Right
<1>1. Contents' = before
  BY Started, Unchanged, SameList DEF Op, Inserting
<1>2. ListSeq!Complete
  BY <1>1, ReturnEnds, Completes DEF Op, Inserting, ListInv
<1>3. Answer
  BY NothingToAnswer DEF Op, Inserting, Readers
<1>4. QED
  BY <1>2, <1>3 DEF Right, Return

\* The new element is at position j.
LEMMA LinkingRight ==
  ASSUME ListInv, HistoryInv, pc \in {"start", "walk"}, Inserting, Return(NULL),
         NEW n, NEW c, NEW s, Holds(n, c, s), NEW p \in Addr,
         NEW j \in 0..n, LinksNew(c, n, j, call.element, p),
         \/ Op({"DBInsertTail", "QPush"}) /\ j = n
         \/ Op({"DBInsertHead"}) /\ j = 0
         \/ Op({"DBInsertByIndex"}) /\ j = call.index
  PROVE  Right
<1>1. /\ n \in Nat /\ c \in [0..(n - 1) -> Addr] /\ Chain(c, n) /\ Ended(c, n)
      /\ s = Contents /\ s \in Seq(Element) /\ Len(s) = n /\ Types
  BY DEF Holds, ListInv
<1>2. PICK e \in Element : e = call.element
  BY <1>1, CallArguments DEF Op, ElementCalls, Inserting
<1>3. LinksNew(c, n, j, e, p)
  BY <1>2
<1>4. Contents' = InsertAt(s, j + 1, e)
  BY <1>1, <1>3, LinkingInserts
<1>5. before = s
  BY <1>1, Started, Unchanged DEF Op, Inserting
<1>6. Contents' = ListSeq!Result
  <2>1. CASE Op({"DBInsertTail", "QPush"}) /\ j = n
    <3>1. InsertAt(s, j + 1, e) = Append(s, e)
      BY <1>1, <2>1, AppendInserts
    <3>2. QED
      BY <1>2, <1>4, <1>5, <2>1, <3>1, Results DEF Op
  <2>2. CASE Op({"DBInsertHead"}) /\ j = 0
    <3>1. InsertAt(s, j + 1, e) = <<e>> \o s
      BY <1>1, <2>2, ConsInserts
    <3>2. QED
      BY <1>2, <1>4, <1>5, <2>2, <3>1, Results DEF Op
  <2>3. CASE Op({"DBInsertByIndex"}) /\ j = call.index
    BY <1>1, <1>2, <1>4, <1>5, <2>3, Results DEF Op
  <2>4. QED
    BY <2>1, <2>2, <2>3
<1>7. ListSeq!Complete
  BY <1>1, <1>6, ReturnEnds, Completes DEF Op, Inserting
<1>8. Answer
  BY NothingToAnswer DEF Op, Inserting, Readers
<1>9. QED
  BY <1>7, <1>8 DEF Right, Return

LEMMA InsertRight ==
  ASSUME ListInv, HistoryInv, Insert \/ InsertAtEnd
  PROVE  Right
<1>1. pc = "start" /\ Return(NULL) /\ Inserting /\ Types
  BY DEF Insert, InsertAtEnd, Op, Inserting, ListInv
<1>2. PICK n, c, s : Holds(n, c, s)
  BY <1>1, WholeNow DEF WholeFact
<1>3. /\ n \in Nat /\ c \in [0..(n - 1) -> Addr] /\ n = len
      /\ Chain(c, n) /\ Ended(c, n) /\ 0 \in 0..n /\ n \in 0..n
  BY <1>2 DEF Holds
<1>4. newNode = NULL /\ newNode' = NULL /\ call.element \in Element
  BY <1>1, CallArguments DEF Types, Return, Inserting, Op, ElementCalls
<1>5. ASSUME NEW p \in Addr, LinkTail(p),
             \/ Op({"DBInsertTail", "QPush"})
             \/ Op({"DBInsertByIndex"}) /\ call.index = n
      PROVE  Right
  <2>1. LinksNew(c, n, n, call.element, p)
    BY <1>1, <1>3, <1>4, <1>5, LinkTailLinks
  <2>2. QED
    BY <1>1, <1>2, <1>3, <1>5, <2>1, LinkingRight
<1>6. ASSUME NEW p \in Addr, LinkHead(p),
             \/ Op({"DBInsertHead"})
             \/ Op({"DBInsertByIndex"}) /\ call.index = 0
      PROVE  Right
  <2>1. LinksNew(c, n, 0, call.element, p)
    BY <1>1, <1>3, <1>4, <1>6, LinkHeadLinks
  <2>2. QED
    BY <1>1, <1>2, <1>3, <1>6, <2>1, LinkingRight
<1>7. CASE NoMemory
  BY <1>1, <1>7, NothingInserted DEF NoMemory
<1>8. CASE Insert
  <2>1. CASE Op({"DBInsertTail", "QPush"}) /\ \E p \in Addr : LinkTail(p)
    BY <1>5, <2>1
  <2>2. CASE Op({"DBInsertHead"}) /\ \E p \in Addr : LinkHead(p)
    BY <1>6, <2>2
  <2>3. QED
    BY <1>7, <1>8, <2>1, <2>2 DEF Insert
<1>9. CASE InsertAtEnd
  BY <1>1, <1>3, <1>5, <1>6, <1>7, <1>9, NothingInserted DEF InsertAtEnd
<1>10. QED
  BY <1>8, <1>9

LEMMA InsertInsideRight ==
  ASSUME ListInv, HistoryInv, InsertInside
  PROVE  Right
<1>1. pc = "start" /\ Op({"DBInsertByIndex"}) /\ Inside /\ Types
  BY DEF InsertInside, ListInv
<1>2. CASE NoMemory /\ Return(NULL)
  BY <1>1, <1>2, NothingInserted DEF NoMemory, Inserting, Op
<1>3. ASSUME NEW p \in Addr, Free(p),
             node' = [node EXCEPT ![p] = Node(call.element, NULL, NULL)],
             newNode' = p, TravelPoint' = head, index' = call.index, Goto("walk"),
             UNCHANGED <<head, tail, len, FindVector>>
      PROVE  Right
  <2>1. PICK e \in Element : e = call.element
    BY <1>1, CallArguments DEF Op, ElementCalls
  <2>2. node' = [node EXCEPT ![p] = Node(e, NULL, NULL)]
    BY <1>3, <2>1
  <2>3. QED
    BY <1>1, <1>3, <2>1, <2>2, NewNodeRight
<1>4. QED
  BY <1>2, <1>3 DEF InsertInside

LEMMA LinkBetweenRight ==
  ASSUME ListInv, HistoryInv, LinkBetween
  PROVE  Right
<1>1. pc = "walk" /\ index = 0 /\ Op({"DBInsertByIndex"}) /\ Return(NULL) /\ Types
  BY DEF LinkBetween, ListInv
<1>2. PICK n, c, s : Holds(n, c, s)
  BY <1>1, WholeNow DEF WholeFact
<1>3. /\ n \in Nat /\ c \in [0..(n - 1) -> Addr]
      /\ Chain(c, n) /\ Ended(c, n) /\ Where(c, n)
  BY <1>2 DEF Holds
<1>4. PICK j \in 0..(n - 1) : TravelPoint = c[j] /\ Aim(j + index)
  BY <1>1, <1>2, Started DEF Reached, Holds
<1>5. j + index = j /\ j \in 0..n
  BY <1>1, <1>3
<1>6. PICK p \in Addr : p = newNode /\ p # NULL
  BY <1>1, Constants DEF Types
<1>7. j = call.index /\ node[p].data = call.element
  BY <1>1, <1>4, <1>5, <1>6 DEF Aim, Op, IndexCalls
<1>8. newNode' = NULL
  BY <1>1 DEF Return
<1>9. LinksNew(c, n, j, call.element, p)
  BY <1>1, <1>3, <1>4, <1>6, <1>7, <1>8, LinkBetweenLinks
<1>10. QED
  BY <1>1, <1>2, <1>5, <1>7, <1>9, LinkingRight DEF Inserting, Op

-----------------------------------------------------------------------------
(* All steps                                                               *)

LEMMA FreeEndRight ==
  ASSUME ListInv, ListInv', FreeEnd
  PROVE  Right
<1>1. pc # "idle" /\ Op({"FreeDLlist"}) /\ Return(NULL) /\ len' = 0 /\ pc' = "idle"
  BY DEF FreeEnd, Return
<1>2. PICK n, c, s : Holds(n, c, s)'
  BY <1>1, WholeNext DEF WholeFact
<1>3. Contents' = <<>>
  BY <1>1, <1>2, EmptySeq DEF Holds
<1>4. Contents' = ListSeq!Result
  BY <1>1, <1>3, Results DEF Op
<1>5. ListSeq!Complete
  BY <1>1, <1>4, ReturnEnds, Completes DEF Op, ListInv
<1>6. Answer
  BY <1>1, NothingToAnswer DEF Op, Readers
<1>7. QED
  BY <1>1, <1>5, <1>6 DEF Right

LEMMA StepRight ==
  ASSUME ListInv, ListInv', HistoryInv, Step
  PROVE  Right
<1>1. CASE Insert \/ InsertAtEnd \/ InsertInside \/ LinkBetween
  BY <1>1, InsertRight, InsertInsideRight, LinkBetweenRight
<1>2. CASE SearchStart \/ SearchOn \/ SearchHit \/ SearchMiss
  BY <1>2, SearchStartRight, SearchOnRight, SearchHitRight, SearchMissRight
<1>3. CASE WalkOn \/ IndexStart \/ ReadHere \/ WriteHere
  BY <1>3, WalkOnRight, IndexStartRight, ReadHereRight, WriteHereRight
<1>4. CASE DBRemove \/ FindByElement
  BY <1>4, RemoveRight, FindRight
<1>5. CASE Travel
  BY <1>5, TravelRight
<1>6. CASE Query
  BY <1>6, QueryRight
<1>7. CASE FreeHead \/ FreeEnd
  BY <1>7, FreeHeadRight, FreeEndRight
<1>8. QED
  BY <1>1, <1>2, <1>3, <1>4, <1>5, <1>6, <1>7 DEF Step

LEMMA StepTakesTurn ==
  ASSUME ListInv, Step
  PROVE  pc # "idle"
BY DEF Step, Insert, InsertAtEnd, InsertInside, LinkBetween, WalkOn,
       SearchStart, SearchOn, SearchHit, SearchMiss, DBRemove, RemoveStart,
       RemoveNothing, RemoveOnly, RemoveHead, RemoveTail, RemoveInside, Unlink,
       IndexStart, ReadHere, WriteHere, FindByElement, FindStart, Fill, FillEnd,
       Travel, Query, FreeHead, FreeEnd

LEMMA NothingHappens ==
  ASSUME UNCHANGED vars
  PROVE  /\ Contents' = Contents
         /\ HistoryInv => HistoryInv'
<1>1. UNCHANGED list /\ UNCHANGED <<call, pc, locals, ret, before>>
  BY DEF vars
<1>2. Contents' = Contents /\ Nth' = Nth /\ len' = len
  BY <1>1, SameList
<1>3. HistoryInv => HistoryInv'
  BY <1>1, <1>2 DEF HistoryInv, Progress, Reached, Aim, Found, FoundSoFar, Wanted, Op,
                    locals, list
<1>4. QED
  BY <1>2, <1>3

LEMMA NextKeepsHistory == ListInv /\ HistoryInv /\ [Next]_vars => HistoryInv'
<1> SUFFICES ASSUME ListInv, HistoryInv, [Next]_vars
             PROVE  HistoryInv'
  OBVIOUS
<1>1. ListInv'
  BY NextKeepsList
<1>2. CASE UNCHANGED vars
  BY <1>2, NothingHappens
<1>3. CASE Call
  BY <1>3, CallRight
<1>4. CASE Step
  <2>1. Right
    BY <1>1, <1>4, StepRight
  <2>2. CASE pc' = "idle"
    BY <2>2 DEF HistoryInv
  <2>3. CASE pc' # "idle"
    BY <2>1, <2>3 DEF Right
  <2>4. QED
    BY <2>2, <2>3
<1>5. QED
  BY <1>2, <1>3, <1>4 DEF Next

LEMMA InitHistory == Init => HistoryInv
BY DEF Init, HistoryInv

\* What a call has done, and what it is about to do, is right at each of its
\* steps.
THEOREM HistoryInvariant == Spec => []HistoryInv
BY InitHistory, NextKeepsHistory, ListInvariant, PTL DEF Spec

LEMMA AnswersStep == ListInv /\ HistoryInv /\ [Next]_vars => [Answer]_vars
<1> SUFFICES ASSUME ListInv, HistoryInv, Next
             PROVE  Answer
  OBVIOUS
<1>1. CASE Call
  BY <1>1, CallRight DEF Answer, Returns
<1>2. CASE Step
  <2>1. ListInv'
    BY NextKeepsList
  <2>2. Right
    BY <1>2, <2>1, StepRight
  <2>3. QED
    BY <2>2 DEF Right, Answer, Returns
<1>3. QED
  BY <1>1, <1>2 DEF Next

\* Whatever calls are made, in whatever order and on a list of any length, each
\* returns what the header promises for the sequence it was called on.
THEOREM AnswersAreRight == Spec => AnswersRight
BY ListInvariant, HistoryInvariant, AnswersStep, PTL DEF Spec, AnswersRight

LEMMA InitRefines == Init => ListSeq!Init
<1> SUFFICES ASSUME Init
             PROVE  ListSeq!Init
  OBVIOUS
<1>1. ListInv /\ pc = "idle" /\ len = 0 /\ call = NoCall
  BY InitList DEF Init
<1>2. PICK n, c, s : Holds(n, c, s)
  BY <1>1, WholeNow DEF WholeFact
<1>3. Contents = <<>>
  BY <1>1, <1>2, EmptySeq DEF Holds
<1>4. QED
  BY <1>1, <1>3 DEF ListSeq!Init, ListSeq!NoCall, NoCall

LEMMA NextRefines ==
  ListInv /\ HistoryInv /\ [Next]_vars =>
    [ListSeq!Next]_<<IF pc = "idle" THEN Contents ELSE before, call>>
<1> DEFINE seq == IF pc = "idle" THEN Contents ELSE before
<1> SUFFICES ASSUME ListInv, HistoryInv, [Next]_vars
             PROVE  ListSeq!Next \/ UNCHANGED <<seq, call>>
  OBVIOUS
<1>1. CASE UNCHANGED vars
  BY <1>1, NothingHappens DEF vars
<1>2. CASE Call
  <2>1. /\ pc = "idle" /\ pc' = "start" /\ before' = Contents
        /\ call = NoCall /\ call' \in Calls
    BY <1>2 DEF Call, ListInv, Types
  <2>2. ListSeq!Make(call')
    BY <2>1 DEF ListSeq!Make, ListSeq!NoCall, NoCall
  <2>3. QED
    BY <2>1, <2>2 DEF ListSeq!Next
<1>3. CASE Step
  <2>1. ListInv'
    BY NextKeepsList
  <2>2. Right /\ pc # "idle"
    BY <1>3, <2>1, StepRight, StepTakesTurn
  <2>3. CASE pc' = "idle"
    BY <2>2, <2>3 DEF Right, ListSeq!Next
  <2>4. CASE pc' # "idle"
    BY <2>2, <2>4 DEF Right
  <2>5. QED
    BY <2>3, <2>4
<1>4. QED
  BY <1>1, <1>2, <1>3 DEF Next

\* The list implements ListSeq: each call changes the sequence once, as a whole
\* and as the header says, or, if it is an insertion and there is no memory, not
\* at all.
THEOREM ListRefinement == Spec => ImplementsListSeq
BY InitRefines, NextRefines, ListInvariant, HistoryInvariant, PTL
DEF Spec, ImplementsListSeq, ListSeq!Spec
=============================================================================
