------------------------ MODULE DoubleLinkListProofs ------------------------
(***************************************************************************)
(* The linked list for any number of nodes and elements and any calls: it  *)
(* is well linked forwards and backwards, no pointer dangles, no node is   *)
(* leaked.                                                                 *)
(*                                                                         *)
(* The proofs speak of the list as a function c from positions to          *)
(* addresses: that of position k is c[k]. It exists in every state and is  *)
(* what Nth computes.                                                      *)
(***************************************************************************)
EXTENDS DoubleLinkList, CommonLemmas, FiniteSetTheorems

LEMMA NthIsTheChain ==
  ASSUME len \in Nat,
         NEW c \in [0..(len - 1) -> Addr],
         len > 0 => c[0] = head,
         \A k \in 1..(len - 1) : c[k] = node[c[k - 1]].next
  PROVE  Nth = c
<1> DEFINE Turn(g) == g = [k \in 0..(len - 1) |->
                             IF k = 0 THEN head ELSE node[g[k - 1]].next]
<1>1. Turn(c)
  OBVIOUS
<1>2. Nth = CHOOSE g : Turn(g)
  BY DEF Nth
<1>3. Turn(Nth)
  BY <1>1, <1>2
<1> DEFINE Wrong == {k \in 0..(len - 1) : Nth[k] # c[k]}
<1>4. Wrong = {}
  <2>1. SUFFICES ASSUME Wrong # {}
                 PROVE  FALSE
    OBVIOUS
  <2>2. PICK m \in Wrong : \A k \in Wrong : m <= k
    <3>1. Wrong \in SUBSET Nat
      OBVIOUS
    <3>2. QED
      BY <2>1, <3>1, MinOfNats
  <2>3. m # 0 /\ m \in 1..(len - 1)
    BY <1>3
  <2>4. Nth[m - 1] = c[m - 1]
    <3>1. m - 1 \in 0..(len - 1) /\ ~ (m <= m - 1)
      BY <2>3
    <3>2. QED
      BY <2>2, <3>1
  <2>5. QED
    BY <1>3, <2>2, <2>3, <2>4
<1>5. QED
  BY <1>3, <1>4

-----------------------------------------------------------------------------
(* The inductive invariant                                                 *)

\* The nodes that can be reached from the head are c[0], ..., c[n - 1], none
\* of them twice; nothing else is allocated but a node about to be linked.
Chain(c, n) ==
  /\ n \in Nat /\ c \in [0..(n - 1) -> Addr]
  /\ \A i, k \in 0..(n - 1) : c[i] = c[k] => i = k
  /\ head = IF n = 0 THEN NULL ELSE c[0]
  /\ \A k \in 0..(n - 1) :
       node[c[k]].next = IF k = n - 1 THEN NULL ELSE c[k + 1]
  /\ \A k \in 1..(n - 1) : node[c[k]].prev = c[k - 1]
  /\ \A p \in Addr :
       node[p] # NULL <=> p = newNode \/ \E k \in 0..(n - 1) : p = c[k]
  /\ \A k \in 0..(n - 1) : newNode # c[k]

\* What FreeDLlist gives up while it frees the nodes one by one.
Ended(c, n) ==
  /\ len = n
  /\ tail = IF n = 0 THEN NULL ELSE c[n - 1]
  /\ n > 0 => node[c[0]].prev = NULL

\* Where the walking pointer is and where it will stop.
Where(c, n) ==
  /\ TravelPoint = NULL \/ \E k \in 0..(n - 1) : TravelPoint = c[k]
  /\ pc = "search" /\ TravelPoint # NULL =>
       index \in 0..(n - 1) /\ TravelPoint = c[index]
  /\ pc = "walk" =>
       /\ index \in Nat
       /\ \E k \in 0..(n - 1) :
            /\ TravelPoint = c[k] /\ k + index <= n - 1
            /\ Op({"DBInsertByIndex"}) => k + index > 0
            /\ Op({"DBRemoveByIndex", "DBRemoveByElement"}) =>
                 k + index > 0 /\ k + index < n - 1

\* Which calls get where, and when there is a node that is not linked yet.
Types ==
  /\ node \in [Addr -> Nodes \cup {NULL}]
  /\ index \in Int
  /\ call = NoCall \/ call \in Calls
  /\ pc = "idle" <=> call = NoCall
  /\ newNode \in Addr \cup {NULL}
  /\ newNode # NULL <=> pc = "walk" /\ Op({"DBInsertByIndex"})
  /\ pc = "remove" => Op({"DBRemoveByIndex", "DBRemoveByElement", "Pop"})
  /\ pc = "search" =>
       Op({"DBFindeFirstByElement", "DBRemoveByElement", "DBSeValueByElent"})
  /\ pc = "free" => Op({"FreeDLlist"})

Linking(c, n) ==
  /\ Chain(c, n)
  /\ IF pc = "free" THEN len \in 0..Cardinality(Addr)
     ELSE Ended(c, n) /\ Where(c, n)

ListInv == Types /\ \E n \in Nat : \E c \in [0..(n - 1) -> Addr] : Linking(c, n)

-----------------------------------------------------------------------------
(* Nodes and chains                                                        *)

LEMMA Constants ==
  /\ NULL \notin Addr /\ NULL \notin Element /\ NULL \notin Nodes
  /\ NoCall \notin Calls
  /\ \A c \in Calls : /\ c.op \in ElementCalls => c.element \in Element
                      /\ c.op \in IndexCalls => c.index \in Int
BY ListAssumption DEF NoCall

LEMMA NewFields ==
  ASSUME NEW e \in Element, NEW p \in Addr \cup {NULL}, NEW q \in Addr \cup {NULL}
  PROVE  /\ Node(e, p, q) \in Nodes /\ Node(e, p, q).data = e
         /\ Node(e, p, q).prev = p /\ Node(e, p, q).next = q
BY DEF Node, Nodes

LEMMA FirstFields ==
  ASSUME NEW e \in Element, NEW q \in Addr \cup {NULL}
  PROVE  /\ Node(e, NULL, q) \in Nodes /\ Node(e, NULL, q).next = q
         /\ Node(e, NULL, q).prev = NULL /\ Node(e, NULL, q).data = e
BY NewFields

LEMMA SetNext ==
  ASSUME NEW r \in Nodes, NEW p \in Addr \cup {NULL}
  PROVE  /\ [r EXCEPT !.next = p] \in Nodes /\ [r EXCEPT !.next = p].next = p
         /\ [r EXCEPT !.next = p].prev = r.prev
         /\ [r EXCEPT !.next = p].data = r.data
BY DEF Nodes

LEMMA NextIsSet ==
  ASSUME NEW r \in Nodes, NEW p \in Addr \cup {NULL}
  PROVE  \E m \in Nodes : /\ m = [r EXCEPT !.next = p] /\ m.next = p
                         /\ m.prev = r.prev /\ m.data = r.data
BY SetNext

LEMMA SetPrev ==
  ASSUME NEW r \in Nodes, NEW p \in Addr \cup {NULL}
  PROVE  /\ [r EXCEPT !.prev = p] \in Nodes /\ [r EXCEPT !.prev = p].prev = p
         /\ [r EXCEPT !.prev = p].next = r.next
         /\ [r EXCEPT !.prev = p].data = r.data
BY DEF Nodes

LEMMA PrevIsSet ==
  ASSUME NEW r \in Nodes, NEW p \in Addr \cup {NULL}
  PROVE  \E m \in Nodes : /\ m = [r EXCEPT !.prev = p] /\ m.prev = p
                         /\ m.next = r.next /\ m.data = r.data
BY SetPrev

LEMMA SetData ==
  ASSUME NEW r \in Nodes, NEW e \in Element
  PROVE  /\ [r EXCEPT !.data = e] \in Nodes /\ [r EXCEPT !.data = e].data = e
         /\ [r EXCEPT !.data = e].next = r.next
         /\ [r EXCEPT !.data = e].prev = r.prev
BY DEF Nodes

LEMMA DataIsSet ==
  ASSUME NEW r \in Nodes, NEW e \in Element
  PROVE  \E m \in Nodes : /\ m = [r EXCEPT !.data = e] /\ m.data = e
                         /\ m.next = r.next /\ m.prev = r.prev
BY SetData

LEMMA FieldTypes ==
  ASSUME NEW r \in Nodes
  PROVE  /\ r.data \in Element
         /\ r.prev \in Addr \cup {NULL} /\ r.next \in Addr \cup {NULL}
BY DEF Nodes

\* Position j gets the new node p.
With(c, n, j, p) ==
  [k \in 0..n |-> IF k < j THEN c[k] ELSE IF k = j THEN p ELSE c[k - 1]]

LEMMA Inserted ==
  ASSUME NEW n \in Nat, NEW c, Chain(c, n), NEW j \in 0..n, NEW p \in Addr,
         \A k \in 0..(n - 1) : p # c[k],
         newNode \in {NULL, p}, newNode' = NULL,
         head' = IF j = 0 THEN p ELSE head,
         \A q \in Addr : node'[q] # NULL <=> node[q] # NULL \/ q = p,
         node'[p].next = IF j = n THEN NULL ELSE c[j],
         node'[p].prev = IF j = 0 THEN NULL ELSE c[j - 1],
         \A k \in 0..(n - 1) :
           /\ node'[c[k]].next = IF k = j - 1 THEN p ELSE node[c[k]].next
           /\ node'[c[k]].prev = IF k = j THEN p ELSE node[c[k]].prev
  PROVE  /\ Chain(With(c, n, j, p), n + 1)'
         /\ /\ Ended(c, n) /\ len' = n + 1
            /\ tail' = IF j = n THEN p ELSE tail
            => Ended(With(c, n, j, p), n + 1)'
<1> DEFINE d == With(c, n, j, p)
<1>1. /\ c \in [0..(n - 1) -> Addr] /\ NULL \notin Addr
      /\ \A i, k \in 0..(n - 1) : c[i] = c[k] => i = k
  BY Constants DEF Chain
<1>2. /\ d \in [0..n -> Addr] /\ d[j] = p
      /\ \A k \in 0..n : /\ k < j => d[k] = c[k] /\ k \in 0..(n - 1)
                         /\ k > j => d[k] = c[k - 1] /\ k - 1 \in 0..(n - 1)
                         /\ k = j \/ k < j \/ k > j
  BY <1>1 DEF With
<1> HIDE DEF d
<1>3. \A i, k \in 0..n : d[i] = d[k] => i = k
  BY <1>1, <1>2
<1>4. head' = d[0]
  BY <1>1, <1>2 DEF Chain
<1>5. \A k \in 0..n : node'[d[k]].next = IF k = n THEN NULL ELSE d[k + 1]
  <2>1. ASSUME NEW k \in 0..n, k < j - 1
        PROVE  node'[d[k]].next = d[k + 1] /\ k # n
    <3>1. k \in 0..(n - 1) /\ k + 1 \in 0..n /\ k + 1 < j /\ k # n - 1 /\ k # n
      BY <2>1
    <3>2. d[k] = c[k] /\ d[k + 1] = c[k + 1]
      BY <1>2, <2>1, <3>1
    <3>3. node'[c[k]].next = node[c[k]].next
      BY <2>1, <3>1
    <3>4. node[c[k]].next = c[k + 1]
      BY <3>1 DEF Chain
    <3>5. QED
      BY <3>1, <3>2, <3>3, <3>4
  <2>2. ASSUME NEW k \in 0..n, k = j - 1
        PROVE  node'[d[k]].next = d[k + 1] /\ k # n
    BY <1>2, <2>2
  <2>3. ASSUME NEW k \in 0..n, k = j
        PROVE  node'[d[k]].next = IF k = n THEN NULL ELSE d[k + 1]
    BY <1>2, <2>3
  <2>4. ASSUME NEW k \in 0..n, k > j
        PROVE  node'[d[k]].next = IF k = n THEN NULL ELSE d[k + 1]
    <3>1. k - 1 \in 0..(n - 1) /\ k - 1 # j - 1 /\ (k - 1) + 1 = k
      BY <2>4
    <3>2. d[k] = c[k - 1]
      BY <1>2, <2>4
    <3>3. node'[c[k - 1]].next = node[c[k - 1]].next
      BY <3>1
    <3>4. node[c[k - 1]].next = IF k - 1 = n - 1 THEN NULL ELSE c[k]
      BY <3>1 DEF Chain
    <3>5. k # n => k + 1 \in 0..n /\ k + 1 > j /\ (k + 1) - 1 = k
      BY <2>4
    <3>6. k # n => d[k + 1] = c[k]
      BY <1>2, <3>5
    <3>7. QED
      BY <3>2, <3>3, <3>4, <3>6
  <2>5. QED
    BY <2>1, <2>2, <2>3, <2>4
<1>6. \A k \in 1..n : node'[d[k]].prev = d[k - 1]
  <2>1. ASSUME NEW k \in 1..n, k < j
        PROVE  node'[d[k]].prev = d[k - 1]
    <3>1. /\ k \in 1..(n - 1) /\ k \in 0..(n - 1) /\ k # j
          /\ k \in 0..n /\ k - 1 \in 0..n /\ k - 1 < j
      BY <2>1
    <3>2. d[k] = c[k] /\ d[k - 1] = c[k - 1]
      BY <1>2, <2>1, <3>1
    <3>3. node'[c[k]].prev = node[c[k]].prev
      BY <3>1
    <3>4. node[c[k]].prev = c[k - 1]
      BY <3>1 DEF Chain
    <3>5. QED
      BY <3>2, <3>3, <3>4
  <2>2. ASSUME NEW k \in 1..n, k = j
        PROVE  node'[d[k]].prev = d[k - 1]
    BY <1>2, <2>2
  <2>3. ASSUME NEW k \in 1..n, k = j + 1
        PROVE  node'[d[k]].prev = d[k - 1]
    BY <1>2, <2>3
  <2>4. ASSUME NEW k \in 1..n, k > j + 1
        PROVE  node'[d[k]].prev = d[k - 1]
    <3>1. /\ k - 1 \in 1..(n - 1) /\ k - 1 \in 0..(n - 1) /\ k - 1 # j
          /\ k \in 0..n /\ k > j /\ k - 1 \in 0..n /\ k - 1 > j
      BY <2>4
    <3>2. d[k] = c[k - 1] /\ d[k - 1] = c[(k - 1) - 1]
      BY <1>2, <3>1
    <3>3. node'[c[k - 1]].prev = node[c[k - 1]].prev
      BY <3>1
    <3>4. node[c[k - 1]].prev = c[(k - 1) - 1]
      BY <3>1 DEF Chain
    <3>5. QED
      BY <3>2, <3>3, <3>4
  <2>5. QED
    BY <2>1, <2>2, <2>3, <2>4
<1>7. \A q \in Addr : node'[q] # NULL <=> \E k \in 0..n : q = d[k]
  <2>1. \A k \in 0..(n - 1) : \E i \in 0..n : c[k] = d[i]
    <3>1. ASSUME NEW k \in 0..(n - 1)
          PROVE  \E i \in 0..n : c[k] = d[i]
      <4>1. CASE k < j
        BY <1>2, <4>1
      <4>2. CASE ~ (k < j)
        <5>1. k + 1 \in 0..n /\ k + 1 > j
          BY <4>2
        <5>2. d[k + 1] = c[k]
          BY <1>2, <5>1
        <5>3. QED
          BY <5>1, <5>2
      <4>3. QED
        BY <4>1, <4>2
    <3>2. QED
      BY <3>1
  <2>2. \A i \in 0..n : d[i] = p \/ \E k \in 0..(n - 1) : d[i] = c[k]
    BY <1>2
  <2>3. \A q \in Addr : node'[q] # NULL <=> q = p \/ \E k \in 0..(n - 1) : q = c[k]
    BY <1>1 DEF Chain
  <2>4. ASSUME NEW q \in Addr, node'[q] # NULL
        PROVE  \E k \in 0..n : q = d[k]
    <3>1. CASE q = p
      BY <1>2, <3>1
    <3>2. ASSUME NEW k \in 0..(n - 1), q = c[k]
          PROVE  \E i \in 0..n : q = d[i]
      BY <2>1, <3>2
    <3>3. QED
      BY <2>3, <2>4, <3>1, <3>2
  <2>5. ASSUME NEW q \in Addr, NEW i \in 0..n, q = d[i]
        PROVE  node'[q] # NULL
    BY <2>2, <2>3, <2>5
  <2>6. QED
    BY <2>4, <2>5
<1>8. Chain(d, n + 1)'
  <2>1. (n + 1) - 1 = n /\ n + 1 \in Nat /\ n + 1 # 0
    OBVIOUS
  <2>2. \A k \in 0..n : d[k] # NULL
    BY <1>1, <1>2
  <2>3. QED
    BY <1>1, <1>2, <1>3, <1>4, <1>5, <1>6, <1>7, <2>1, <2>2 DEF Chain
<1>9. ASSUME Ended(c, n), len' = n + 1, tail' = IF j = n THEN p ELSE tail
      PROVE  Ended(d, n + 1)'
  <2>1. tail' = d[n]
    BY <1>2, <1>9 DEF Ended
  <2>2. node'[d[0]].prev = NULL
    BY <1>2, <1>9 DEF Ended
  <2>3. QED
    BY <1>9, <2>1, <2>2 DEF Ended
<1>10. QED
  BY <1>8, <1>9 DEF d

\* Position j is given up.
Without(c, n, j) == [k \in 0..(n - 2) |-> IF k < j THEN c[k] ELSE c[k + 1]]

LEMMA Deleted ==
  ASSUME NEW n \in Nat, NEW c, Chain(c, n), NEW j \in 0..(n - 1),
         newNode = NULL, newNode' = NULL,
         head' = IF j > 0 THEN head ELSE IF n = 1 THEN NULL ELSE c[1],
         node'[c[j]] = NULL,
         \A q \in Addr : q # c[j] => (node'[q] # NULL <=> node[q] # NULL),
         \A k \in 0..(n - 1) : k # j =>
           node'[c[k]].next = IF k = j - 1 THEN node[c[j]].next ELSE node[c[k]].next,
         \A k \in 1..(n - 1) : k # j =>
           \/ k = j + 1 /\ j = 0
           \/ node'[c[k]].prev = IF k = j + 1 THEN c[j - 1] ELSE node[c[k]].prev
  PROVE  /\ Chain(Without(c, n, j), n - 1)'
         /\ /\ Ended(c, n) /\ len' = n - 1
            /\ tail' = IF j < n - 1 THEN tail ELSE IF n = 1 THEN NULL ELSE c[n - 2]
            /\ IF j > 0 THEN node'[c[0]].prev = node[c[0]].prev
               ELSE n > 1 => node'[c[1]].prev = NULL
            => Ended(Without(c, n, j), n - 1)'
<1> DEFINE d == Without(c, n, j)
<1>1. /\ c \in [0..(n - 1) -> Addr] /\ NULL \notin Addr /\ n > 0
      /\ \A i, k \in 0..(n - 1) : c[i] = c[k] => i = k
  BY Constants DEF Chain
<1>2. /\ d \in [0..(n - 2) -> Addr] /\ n - 1 \in Nat /\ (n - 1) - 1 = n - 2
      /\ \A k \in 0..(n - 2) : /\ k < j => d[k] = c[k]
                               /\ k >= j => d[k] = c[k + 1]
                               /\ k \in 0..(n - 1) /\ k + 1 \in 0..(n - 1)
                               /\ k < j \/ k >= j
  BY <1>1 DEF Without
<1> HIDE DEF d
<1>3. \A i, k \in 0..(n - 2) : d[i] = d[k] => i = k
  BY <1>1, <1>2
<1>4. head' = IF n - 1 = 0 THEN NULL ELSE d[0]
  BY <1>1, <1>2 DEF Chain
<1>5. \A k \in 0..(n - 2) : node'[d[k]].next = IF k = n - 2 THEN NULL ELSE d[k + 1]
  <2>1. ASSUME NEW k \in 0..(n - 2), k < j - 1
        PROVE  node'[d[k]].next = d[k + 1] /\ k # n - 2
    <3>1. /\ k \in 0..(n - 1) /\ k # j /\ k # j - 1 /\ k # n - 1 /\ k # n - 2
          /\ k + 1 \in 0..(n - 2) /\ k + 1 < j /\ k < j
      BY <2>1
    <3>2. d[k] = c[k] /\ d[k + 1] = c[k + 1]
      BY <1>2, <3>1
    <3>3. node'[c[k]].next = node[c[k]].next
      BY <3>1
    <3>4. node[c[k]].next = c[k + 1]
      BY <3>1 DEF Chain
    <3>5. QED
      BY <3>1, <3>2, <3>3, <3>4
  <2>2. ASSUME NEW k \in 0..(n - 2), k = j - 1
        PROVE  node'[d[k]].next = IF k = n - 2 THEN NULL ELSE d[k + 1]
    <3>1. k \in 0..(n - 1) /\ k # j /\ k < j /\ j \in 0..(n - 1)
      BY <2>2
    <3>2. d[k] = c[k] /\ node'[c[k]].next = node[c[j]].next
      BY <1>2, <2>2, <3>1
    <3>3. node[c[j]].next = IF j = n - 1 THEN NULL ELSE c[j + 1]
      BY <3>1 DEF Chain
    <3>4. k # n - 2 => k + 1 \in 0..(n - 2) /\ k + 1 >= j /\ k + 1 = j /\ j # n - 1
      BY <2>2
    <3>5. k = n - 2 => j = n - 1
      BY <2>2
    <3>6. k # n - 2 => d[k + 1] = c[j + 1]
      BY <1>2, <3>4
    <3>7. QED
      BY <3>2, <3>3, <3>4, <3>5, <3>6
  <2>3. ASSUME NEW k \in 0..(n - 2), k >= j
        PROVE  node'[d[k]].next = IF k = n - 2 THEN NULL ELSE d[k + 1]
    <3>1. k + 1 \in 0..(n - 1) /\ k + 1 # j /\ k + 1 # j - 1
      BY <2>3
    <3>2. d[k] = c[k + 1] /\ node'[c[k + 1]].next = node[c[k + 1]].next
      BY <1>2, <2>3, <3>1
    <3>3. node[c[k + 1]].next = IF k + 1 = n - 1 THEN NULL ELSE c[(k + 1) + 1]
      BY <3>1 DEF Chain
    <3>4. k # n - 2 => k + 1 \in 0..(n - 2) /\ k + 1 >= j /\ k + 1 # n - 1
      BY <2>3
    <3>5. k # n - 2 => d[k + 1] = c[(k + 1) + 1]
      BY <1>2, <3>4
    <3>6. QED
      BY <3>2, <3>3, <3>4, <3>5
  <2>4. QED
    BY <2>1, <2>2, <2>3
<1>6. \A k \in 1..(n - 2) : node'[d[k]].prev = d[k - 1]
  <2>1. ASSUME NEW k \in 1..(n - 2), k < j
        PROVE  node'[d[k]].prev = d[k - 1]
    <3>1. /\ k \in 1..(n - 1) /\ k # j /\ k # j + 1
          /\ k \in 0..(n - 2) /\ k - 1 \in 0..(n - 2) /\ k - 1 < j
      BY <2>1
    <3>2. d[k] = c[k] /\ d[k - 1] = c[k - 1]
      BY <1>2, <2>1, <3>1
    <3>3. node'[c[k]].prev = node[c[k]].prev
      BY <3>1
    <3>4. node[c[k]].prev = c[k - 1]
      BY <3>1 DEF Chain
    <3>5. QED
      BY <3>2, <3>3, <3>4
  <2>2. ASSUME NEW k \in 1..(n - 2), k = j
        PROVE  node'[d[k]].prev = d[k - 1]
    <3>1. /\ k + 1 \in 1..(n - 1) /\ k + 1 # j /\ k + 1 = j + 1 /\ j # 0
          /\ k \in 0..(n - 2) /\ k - 1 \in 0..(n - 2) /\ k - 1 < j /\ k >= j
      BY <2>2
    <3>2. d[k] = c[k + 1] /\ d[k - 1] = c[k - 1]
      BY <1>2, <3>1
    <3>3. node'[c[k + 1]].prev = c[j - 1]
      BY <3>1
    <3>4. QED
      BY <2>2, <3>2, <3>3
  <2>3. ASSUME NEW k \in 1..(n - 2), k > j
        PROVE  node'[d[k]].prev = d[k - 1]
    <3>1. /\ k + 1 \in 1..(n - 1) /\ k + 1 # j /\ k + 1 # j + 1 /\ k >= j
          /\ k \in 0..(n - 2) /\ k - 1 \in 0..(n - 2) /\ k - 1 >= j
          /\ (k - 1) + 1 = (k + 1) - 1
      BY <2>3
    <3>2. d[k] = c[k + 1] /\ d[k - 1] = c[(k - 1) + 1]
      BY <1>2, <3>1
    <3>3. node'[c[k + 1]].prev = node[c[k + 1]].prev
      BY <3>1
    <3>4. node[c[k + 1]].prev = c[(k + 1) - 1]
      BY <3>1 DEF Chain
    <3>5. QED
      BY <3>1, <3>2, <3>3, <3>4
  <2>4. QED
    BY <2>1, <2>2, <2>3
<1>7. \A q \in Addr : node'[q] # NULL <=> \E k \in 0..(n - 2) : q = d[k]
  <2>1. ASSUME NEW k \in 0..(n - 1), k # j
        PROVE  \E i \in 0..(n - 2) : c[k] = d[i]
    <3>1. CASE k < j
      <4>1. k \in 0..(n - 2)
        BY <3>1
      <4>2. QED
        BY <1>2, <3>1, <4>1
    <3>2. CASE k > j
      <4>1. k - 1 \in 0..(n - 2) /\ k - 1 >= j /\ (k - 1) + 1 = k
        BY <3>2
      <4>2. d[k - 1] = c[k]
        BY <1>2, <4>1
      <4>3. QED
        BY <4>1, <4>2
    <3>3. QED
      BY <2>1, <3>1, <3>2
  <2>2. ASSUME NEW i \in 0..(n - 2)
        PROVE  \E k \in 0..(n - 1) : k # j /\ d[i] = c[k]
    <3>1. CASE i < j
      BY <1>2, <3>1
    <3>2. CASE i >= j
      <4>1. i + 1 \in 0..(n - 1) /\ i + 1 # j
        BY <3>2
      <4>2. QED
        BY <1>2, <3>2, <4>1
    <3>3. QED
      BY <3>1, <3>2
  <2>3. \A q \in Addr :
          node'[q] # NULL <=> \E k \in 0..(n - 1) : k # j /\ q = c[k]
    BY <1>1 DEF Chain
  <2>4. QED
    BY <2>1, <2>2, <2>3
<1>8. Chain(d, n - 1)'
  <2>1. \A k \in 0..(n - 2) : d[k] # NULL
    BY <1>1, <1>2
  <2>2. QED
    BY <1>2, <1>3, <1>4, <1>5, <1>6, <1>7, <2>1, Constants DEF Chain
<1>9. ASSUME /\ Ended(c, n) /\ len' = n - 1
             /\ tail' = IF j < n - 1 THEN tail ELSE IF n = 1 THEN NULL ELSE c[n - 2]
             /\ IF j > 0 THEN node'[c[0]].prev = node[c[0]].prev
                ELSE n > 1 => node'[c[1]].prev = NULL
      PROVE  Ended(d, n - 1)'
  <2>1. CASE n = 1
    BY <1>9, <2>1 DEF Ended
  <2>2. CASE n > 1
    <3>1. n - 2 \in 0..(n - 2) /\ 0 \in 0..(n - 2) /\ (n - 2) + 1 = n - 1
      BY <2>2
    <3>2. d[n - 2] = IF n - 2 < j THEN c[n - 2] ELSE c[n - 1]
      BY <1>2, <3>1
    <3>3. d[0] = IF 0 < j THEN c[0] ELSE c[1]
      BY <1>2, <3>1
    <3>4. tail' = d[n - 2]
      BY <1>9, <2>2, <3>2 DEF Ended
    <3>5. node'[d[0]].prev = NULL
      BY <1>9, <2>2, <3>3 DEF Ended
    <3>6. QED
      BY <1>2, <1>9, <2>2, <3>4, <3>5 DEF Ended
  <2>3. QED
    BY <1>1, <2>1, <2>2
<1>10. QED
  BY <1>8, <1>9 DEF d

-----------------------------------------------------------------------------
(* Insertions                                                              *)

LEMMA ChainNodes ==
  ASSUME Types, NEW n \in Nat, NEW c, Chain(c, n)
  PROVE  /\ c \in [0..(n - 1) -> Addr]
         /\ \A k \in 0..(n - 1) : c[k] \in Addr /\ node[c[k]] \in Nodes /\ c[k] # NULL
         /\ \A p \in Addr : node[p] = NULL =>
              p # newNode /\ \A k \in 0..(n - 1) : p # c[k]
<1>1. c \in [0..(n - 1) -> Addr] /\ node \in [Addr -> Nodes \cup {NULL}]
  BY DEF Chain, Types
<1>2. \A k \in 0..(n - 1) : c[k] \in Addr /\ node[c[k]] # NULL
  BY <1>1 DEF Chain
<1>3. \A p \in Addr : node[p] = NULL =>
        p # newNode /\ \A k \in 0..(n - 1) : p # c[k]
  BY DEF Chain
<1>4. QED
  BY <1>1, <1>2, <1>3, Constants

\* What the pieces of code that link the new node p as position j have in common.
LinksNew(c, n, j, e, p) ==
  /\ node' \in [Addr -> Nodes \cup {NULL}]
  /\ \E d \in [0..n -> Addr] :
       d = With(c, n, j, p) /\ Chain(d, n + 1)' /\ Ended(d, n + 1)'
  /\ node'[p].data = e
  /\ \A k \in 0..(n - 1) : node'[c[k]].data = node[c[k]].data

LEMMA WithIsList ==
  ASSUME NEW n \in Nat, NEW c \in [0..(n - 1) -> Addr], NEW j \in 0..n,
         NEW p \in Addr
  PROVE  With(c, n, j, p) \in [0..n -> Addr]
BY DEF With

LEMMA LinkTailLinks ==
  ASSUME Types, NEW n \in Nat, NEW c, Chain(c, n), Ended(c, n),
         newNode = NULL, newNode' = NULL, call.element \in Element,
         NEW p \in Addr, LinkTail(p)
  PROVE  LinksNew(c, n, n, call.element, p)
<1>1. PICK e \in Element : e = call.element
  OBVIOUS
<1>2. /\ node[p] = NULL /\ node \in [Addr -> Nodes \cup {NULL}] /\ NULL \notin Addr
      /\ NULL \notin Nodes /\ len = n /\ len' = n + 1 /\ tail' = p
      /\ \A k \in 0..(n - 1) : p # c[k]
      /\ n \in 0..n
  BY ChainNodes, Constants DEF LinkTail, Free, Types, Ended
<1>3. CASE n = 0
  <2>1. node' = [node EXCEPT ![p] = Node(e, NULL, NULL)] /\ head' = p
    BY <1>1, <1>2, <1>3 DEF LinkTail
  <2>2. Node(e, NULL, NULL) \in Nodes
    BY NewFields
  <2>3. \A q \in Addr : node'[q] = IF q = p THEN Node(e, NULL, NULL) ELSE node[q]
    BY <1>2, <2>1
  <2>4. node' \in [Addr -> Nodes \cup {NULL}]
    BY <1>2, <2>1, <2>2
  <2>5. /\ \A q \in Addr : node'[q] # NULL <=> node[q] # NULL \/ q = p
        /\ node'[p].next = NULL /\ node'[p].prev = NULL
    BY <1>2, <2>2, <2>3, NewFields
  <2>6. Chain(With(c, n, 0, p), n + 1)' /\ Ended(With(c, n, 0, p), n + 1)'
    BY <1>2, <1>3, <2>1, <2>5, Inserted
  <2>7. 0 \in 0..n /\ c \in [0..(n - 1) -> Addr]
    BY ChainNodes
  <2>8. With(c, n, 0, p) \in [0..n -> Addr]
    BY <2>7, WithIsList
  <2>9. /\ node'[p].data = e
        /\ \A k \in 0..(n - 1) : node'[c[k]].data = node[c[k]].data
    BY <1>3, <2>3, NewFields
  <2>10. QED
    BY <1>1, <1>3, <2>4, <2>6, <2>8, <2>9 DEF LinksNew
<1>4. CASE n > 0
  <2>1. PICK t \in Addr : t = tail /\ t = c[n - 1] /\ node[t] \in Nodes /\ t # p
    BY <1>2, <1>4, ChainNodes DEF Ended
  <2>2. /\ node' = [node EXCEPT ![t].next = p, ![p] = Node(e, t, NULL)]
        /\ head' = head
    BY <1>1, <1>2, <1>4, <2>1 DEF LinkTail
  <2>3. \A q \in Addr :
          node'[q] = IF q = p THEN Node(e, t, NULL)
                     ELSE IF q = t THEN [node[t] EXCEPT !.next = p] ELSE node[q]
    BY <1>2, <2>1, <2>2
  <2>4. /\ Node(e, t, NULL) \in Nodes /\ Node(e, t, NULL).next = NULL
        /\ Node(e, t, NULL).prev = t /\ Node(e, t, NULL).data = e
        /\ [node[t] EXCEPT !.next = p] \in Nodes
        /\ [node[t] EXCEPT !.next = p].next = p
        /\ [node[t] EXCEPT !.next = p].prev = node[t].prev
        /\ [node[t] EXCEPT !.next = p].data = node[t].data
    BY <2>1, NewFields, SetNext
  <2>5. node' \in [Addr -> Nodes \cup {NULL}]
    <3>1. \A q \in Addr : node'[q] \in Nodes \cup {NULL}
      BY <1>2, <2>3, <2>4
    <3>2. DOMAIN node' = Addr /\ node' = [q \in DOMAIN node' |-> node'[q]]
      BY <1>2, <2>2
    <3>3. QED
      BY <3>1, <3>2
  <2>6. /\ \A q \in Addr : node'[q] # NULL <=> node[q] # NULL \/ q = p
        /\ node'[p].next = NULL /\ node'[p].prev = c[n - 1] /\ node'[p].data = e
    BY <1>2, <2>1, <2>3, <2>4
  <2>7. \A k \in 0..(n - 1) :
          /\ node'[c[k]].next = IF k = n - 1 THEN p ELSE node[c[k]].next
          /\ node'[c[k]].prev = node[c[k]].prev
          /\ node'[c[k]].data = node[c[k]].data
    <3>1. ASSUME NEW k \in 0..(n - 1)
          PROVE  c[k] \in Addr /\ c[k] # p /\ (c[k] = t <=> k = n - 1)
      BY <1>2, <1>4, <2>1, ChainNodes DEF Chain
    <3>2. QED
      BY <2>3, <2>4, <3>1
  <2>8. /\ head' = IF n = 0 THEN p ELSE head
        /\ node'[p].next = IF n = n THEN NULL ELSE c[n]
        /\ node'[p].prev = IF n = 0 THEN NULL ELSE c[n - 1]
        /\ tail' = IF n = n THEN p ELSE tail
    BY <1>2, <1>4, <2>2, <2>6
  <2>9. \A k \in 0..(n - 1) :
          /\ node'[c[k]].next = IF k = n - 1 THEN p ELSE node[c[k]].next
          /\ node'[c[k]].prev = IF k = n THEN p ELSE node[c[k]].prev
    <3>1. \A k \in 0..(n - 1) : k # n
      OBVIOUS
    <3>2. QED
      BY <2>7, <3>1
  <2>10. Chain(With(c, n, n, p), n + 1)' /\ Ended(With(c, n, n, p), n + 1)'
    BY <1>2, <2>6, <2>8, <2>9, Inserted
  <2>11. QED
    BY <1>1, <1>2, <2>5, <2>6, <2>7, <2>10, ChainNodes, WithIsList DEF LinksNew
<1>5. QED
  BY <1>3, <1>4

LEMMA LinkHeadLinks ==
  ASSUME Types, NEW n \in Nat, NEW c, Chain(c, n), Ended(c, n),
         newNode = NULL, newNode' = NULL, call.element \in Element,
         NEW p \in Addr, LinkHead(p)
  PROVE  LinksNew(c, n, 0, call.element, p)
<1>1. PICK e \in Element : e = call.element
  OBVIOUS
<1>2. /\ node[p] = NULL /\ node \in [Addr -> Nodes \cup {NULL}] /\ NULL \notin Addr
      /\ NULL \notin Nodes /\ len = n /\ len' = n + 1 /\ head' = p
      /\ \A k \in 0..(n - 1) : p # c[k]
      /\ 0 \in 0..n
  BY ChainNodes, Constants DEF LinkHead, Free, Types, Ended
<1>3. CASE n = 0
  <2>1. node' = [node EXCEPT ![p] = Node(e, NULL, NULL)] /\ tail' = p
    BY <1>1, <1>2, <1>3 DEF LinkHead
  <2>2. Node(e, NULL, NULL) \in Nodes
    BY NewFields
  <2>3. \A q \in Addr : node'[q] = IF q = p THEN Node(e, NULL, NULL) ELSE node[q]
    BY <1>2, <2>1
  <2>4. node' \in [Addr -> Nodes \cup {NULL}]
    BY <1>2, <2>1, <2>2
  <2>5. /\ \A q \in Addr : node'[q] # NULL <=> node[q] # NULL \/ q = p
        /\ node'[p].next = NULL /\ node'[p].prev = NULL
    BY <1>2, <2>2, <2>3, NewFields
  <2>6. Chain(With(c, n, 0, p), n + 1)' /\ Ended(With(c, n, 0, p), n + 1)'
    BY <1>2, <1>3, <2>1, <2>5, Inserted
  <2>7. With(c, n, 0, p) \in [0..n -> Addr]
    BY <1>2, ChainNodes, WithIsList
  <2>8. /\ node'[p].data = e
        /\ \A k \in 0..(n - 1) : node'[c[k]].data = node[c[k]].data
    BY <1>3, <2>3, NewFields
  <2>9. QED
    BY <1>1, <2>4, <2>6, <2>7, <2>8 DEF LinksNew
<1>4. CASE n > 0
  <2>1. PICK h \in Addr : h = head /\ h = c[0] /\ node[h] \in Nodes /\ h # p
    BY <1>2, <1>4, ChainNodes DEF Chain
  <2>2. /\ node' = [node EXCEPT ![h].prev = p, ![p] = Node(e, NULL, h)]
        /\ tail' = tail
    BY <1>1, <1>2, <1>4, <2>1 DEF LinkHead
  <2>3. \A q \in Addr :
          node'[q] = IF q = p THEN Node(e, NULL, h)
                     ELSE IF q = h THEN [node[h] EXCEPT !.prev = p] ELSE node[q]
    BY <1>2, <2>1, <2>2
  <2>4. /\ Node(e, NULL, h) \in Nodes /\ Node(e, NULL, h).next = h
        /\ Node(e, NULL, h).prev = NULL /\ Node(e, NULL, h).data = e
        /\ [node[h] EXCEPT !.prev = p] \in Nodes
        /\ [node[h] EXCEPT !.prev = p].prev = p
        /\ [node[h] EXCEPT !.prev = p].next = node[h].next
        /\ [node[h] EXCEPT !.prev = p].data = node[h].data
    <3>1. /\ Node(e, NULL, h) \in Nodes /\ Node(e, NULL, h).next = h
          /\ Node(e, NULL, h).prev = NULL /\ Node(e, NULL, h).data = e
      <4>1. NULL \in Addr \cup {NULL} /\ h \in Addr \cup {NULL} /\ e \in Element
        BY <2>1
      <4>2. QED
        BY <4>1, FirstFields
    <3>2. /\ [node[h] EXCEPT !.prev = p] \in Nodes
          /\ [node[h] EXCEPT !.prev = p].prev = p
          /\ [node[h] EXCEPT !.prev = p].next = node[h].next
          /\ [node[h] EXCEPT !.prev = p].data = node[h].data
      BY <2>1, SetPrev
    <3>3. QED
      BY <3>1, <3>2
  <2>5. node' \in [Addr -> Nodes \cup {NULL}]
    <3>1. \A q \in Addr : node'[q] \in Nodes \cup {NULL}
      BY <1>2, <2>3, <2>4
    <3>2. DOMAIN node' = Addr /\ node' = [q \in DOMAIN node' |-> node'[q]]
      BY <1>2, <2>2
    <3>3. QED
      BY <3>1, <3>2
  <2>6. /\ \A q \in Addr : node'[q] # NULL <=> node[q] # NULL \/ q = p
        /\ node'[p].next = IF 0 = n THEN NULL ELSE c[0]
        /\ node'[p].prev = NULL /\ node'[p].data = e
    BY <1>2, <1>4, <2>1, <2>3, <2>4
  <2>7. \A k \in 0..(n - 1) :
          /\ node'[c[k]].next = IF k = 0 - 1 THEN p ELSE node[c[k]].next
          /\ node'[c[k]].prev = IF k = 0 THEN p ELSE node[c[k]].prev
          /\ node'[c[k]].data = node[c[k]].data
    <3>1. ASSUME NEW k \in 0..(n - 1)
          PROVE  c[k] \in Addr /\ c[k] # p /\ (c[k] = h <=> k = 0) /\ k # 0 - 1
      BY <1>2, <1>4, <2>1, ChainNodes DEF Chain
    <3>2. QED
      BY <2>3, <2>4, <3>1
  <2>8. tail' = IF 0 = n THEN p ELSE tail
    BY <1>4, <2>2
  <2>9. Chain(With(c, n, 0, p), n + 1)' /\ Ended(With(c, n, 0, p), n + 1)'
    BY <1>2, <2>6, <2>7, <2>8, Inserted
  <2>10. QED
    BY <1>1, <1>2, <2>5, <2>6, <2>7, <2>9, ChainNodes, WithIsList DEF LinksNew
<1>5. QED
  BY <1>3, <1>4

LEMMA LinkBetweenLinks ==
  ASSUME Types, NEW n \in Nat, NEW c, Chain(c, n), Ended(c, n), Where(c, n),
         newNode' = NULL, LinkBetween, NEW j \in 0..(n - 1), TravelPoint = c[j]
  PROVE  LinksNew(c, n, j, node[newNode].data, newNode)
<1>1. PICK p \in Addr : p = newNode
  BY DEF LinkBetween, Types
<1>2. TravelPoint = c[j] /\ j > 0
  BY DEF LinkBetween, Where, Chain
<1>3. /\ node[p] \in Nodes /\ node \in [Addr -> Nodes \cup {NULL}] /\ NULL \notin Addr
      /\ NULL \notin Nodes /\ len = n /\ len' = n + 1 /\ head' = head /\ tail' = tail
      /\ \A k \in 0..(n - 1) : p # c[k]
      /\ j \in 0..n /\ j # 0 /\ j # n /\ j - 1 \in 0..(n - 1) /\ j \in 1..(n - 1)
  BY <1>1, <1>2, Constants DEF LinkBetween, Types, Chain, Ended
<1>4. PICK t \in Addr : t = TravelPoint /\ t = c[j] /\ node[t] \in Nodes /\ t # p
  BY <1>2, <1>3, ChainNodes
<1>5. PICK q \in Addr :
        q = node[t].prev /\ q = c[j - 1] /\ node[q] \in Nodes /\ q # p /\ q # t
  <2>1. node[t].prev = c[j - 1]
    BY <1>3, <1>4 DEF Chain
  <2>2. c[j - 1] # c[j]
    BY <1>2, <1>3 DEF Chain
  <2>3. QED
    BY <1>3, <1>4, <2>1, <2>2, ChainNodes
<1>6. PICK m : m = Node(node[p].data, q, t)
  OBVIOUS
<1>7. node' = [node EXCEPT ![p] = m, ![q].next = p, ![t].prev = p]
  BY <1>1, <1>4, <1>5, <1>6 DEF LinkBetween
<1>8. /\ m \in Nodes /\ m.next = t /\ m.prev = q /\ m.data = node[p].data
      /\ [node[q] EXCEPT !.next = p] \in Nodes
      /\ [node[q] EXCEPT !.next = p].next = p
      /\ [node[q] EXCEPT !.next = p].prev = node[q].prev
      /\ [node[q] EXCEPT !.next = p].data = node[q].data
      /\ [node[t] EXCEPT !.prev = p] \in Nodes
      /\ [node[t] EXCEPT !.prev = p].prev = p
      /\ [node[t] EXCEPT !.prev = p].next = node[t].next
      /\ [node[t] EXCEPT !.prev = p].data = node[t].data
  BY <1>3, <1>4, <1>5, <1>6, NewFields, SetNext, SetPrev,
     FieldTypes
<1>9. \A a \in Addr :
        node'[a] = IF a = p THEN m
                   ELSE IF a = q THEN [node[q] EXCEPT !.next = p]
                   ELSE IF a = t THEN [node[t] EXCEPT !.prev = p] ELSE node[a]
  BY <1>3, <1>4, <1>5, <1>7
<1>10. node' \in [Addr -> Nodes \cup {NULL}]
  <2>1. \A a \in Addr : node'[a] \in Nodes \cup {NULL}
    BY <1>3, <1>8, <1>9
  <2>2. DOMAIN node' = Addr /\ node' = [a \in DOMAIN node' |-> node'[a]]
    BY <1>3, <1>7
  <2>3. QED
    BY <2>1, <2>2
<1>11. /\ \A a \in Addr : node'[a] # NULL <=> node[a] # NULL \/ a = p
       /\ node'[p].next = IF j = n THEN NULL ELSE c[j]
       /\ node'[p].prev = IF j = 0 THEN NULL ELSE c[j - 1]
       /\ node'[p].data = node[p].data
  BY <1>3, <1>4, <1>5, <1>8, <1>9
<1>12. \A k \in 0..(n - 1) :
         /\ node'[c[k]].next = IF k = j - 1 THEN p ELSE node[c[k]].next
         /\ node'[c[k]].prev = IF k = j THEN p ELSE node[c[k]].prev
         /\ node'[c[k]].data = node[c[k]].data
  <2>1. ASSUME NEW k \in 0..(n - 1)
        PROVE  /\ c[k] \in Addr /\ c[k] # p
               /\ c[k] = q <=> k = j - 1
               /\ c[k] = t <=> k = j
    BY <1>2, <1>3, <1>4, <1>5, ChainNodes DEF Chain
  <2>2. QED
    BY <1>5, <1>8, <1>9, <2>1
<1>13. /\ head' = IF j = 0 THEN p ELSE head
       /\ tail' = IF j = n THEN p ELSE tail
  BY <1>3
<1>14. Chain(With(c, n, j, p), n + 1)' /\ Ended(With(c, n, j, p), n + 1)'
  BY <1>1, <1>3, <1>11, <1>12, <1>13, Inserted
<1>15. QED
  BY <1>1, <1>3, <1>10, <1>11, <1>12, <1>14, ChainNodes, WithIsList DEF LinksNew

-----------------------------------------------------------------------------
(* Removals                                                                *)

\* What the pieces of code that free a node have in common.
Shrinks(n) ==
  /\ node' \in [Addr -> Nodes \cup {NULL}]
  /\ \E d \in [0..((n - 1) - 1) -> Addr] : Chain(d, n - 1)'

ShrinksWell(c, n, j) ==
  /\ node' \in [Addr -> Nodes \cup {NULL}]
  /\ \E d \in [0..((n - 1) - 1) -> Addr] :
       d = Without(c, n, j) /\ Chain(d, n - 1)' /\ Ended(d, n - 1)'
  /\ \A k \in 0..(n - 1) : k # j => node'[c[k]].data = node[c[k]].data

LEMMA WithoutIsList ==
  ASSUME NEW n \in Nat, NEW c \in [0..(n - 1) -> Addr], NEW j \in 0..(n - 1)
  PROVE  Without(c, n, j) \in [0..((n - 1) - 1) -> Addr] /\ n - 1 \in Nat
<1>1. (n - 1) - 1 = n - 2 /\ n - 1 \in Nat
  OBVIOUS
<1>2. Without(c, n, j) \in [0..(n - 2) -> Addr]
  BY DEF Without
<1>3. QED
  BY <1>1, <1>2

LEMMA RemoveOnlyShrinks ==
  ASSUME Types, NEW n \in Nat, NEW c, Chain(c, n), Ended(c, n),
         newNode = NULL, newNode' = NULL, RemoveOnly
  PROVE  ShrinksWell(c, n, 0)
<1>1. n = 1 /\ 0 \in 0..(n - 1)
  BY DEF RemoveOnly, Ended
<1>2. /\ head = c[0] /\ c[0] \in Addr /\ node \in [Addr -> Nodes \cup {NULL}]
      /\ head' = NULL /\ tail' = NULL /\ len' = n - 1
  BY <1>1, ChainNodes DEF RemoveOnly, Chain, Types
<1>3. node' = [node EXCEPT ![c[0]] = NULL]
  BY <1>2 DEF RemoveOnly
<1>4. /\ node' \in [Addr -> Nodes \cup {NULL}] /\ node'[c[0]] = NULL
      /\ \A q \in Addr : q # c[0] => (node'[q] # NULL <=> node[q] # NULL)
  BY <1>2, <1>3
<1>5. \A k \in 0..(n - 1) : k = 0
  BY <1>1
<1>6. Chain(Without(c, n, 0), n - 1)' /\ Ended(Without(c, n, 0), n - 1)'
  BY <1>1, <1>2, <1>4, <1>5, Deleted
<1>7. QED
  BY <1>1, <1>4, <1>5, <1>6, WithoutIsList, ChainNodes DEF ShrinksWell

LEMMA RemoveHeadShrinks ==
  ASSUME Types, NEW n \in Nat, NEW c, Chain(c, n), Ended(c, n),
         newNode = NULL, newNode' = NULL, RemoveHead
  PROVE  ShrinksWell(c, n, 0)
<1>1. n > 1 /\ 0 \in 0..(n - 1) /\ 1 \in 0..(n - 1) /\ n # 1 /\ 0 < n - 1
  BY DEF RemoveHead, Ended
<1>2. /\ head = c[0] /\ c[0] \in Addr /\ node \in [Addr -> Nodes \cup {NULL}]
      /\ c[1] \in Addr /\ node[c[1]] \in Nodes /\ c[1] # c[0] /\ NULL \notin Nodes
      /\ head' = c[1] /\ tail' = tail /\ len' = n - 1
  BY <1>1, ChainNodes, Constants DEF RemoveHead, Chain, Types, Ended
<1>3. node' = [node EXCEPT ![c[1]].prev = NULL, ![c[0]] = NULL]
  BY <1>2 DEF RemoveHead
<1>4. PICK m \in Nodes : /\ m = [node[c[1]] EXCEPT !.prev = NULL]
                         /\ m.prev = NULL /\ m.next = node[c[1]].next
                         /\ m.data = node[c[1]].data
  <2>1. ASSUME NEW r \in Nodes
        PROVE  \E m \in Nodes : /\ m = [r EXCEPT !.prev = NULL]
                                /\ m.prev = NULL /\ m.next = r.next
                                /\ m.data = r.data
    BY SetPrev
  <2>2. QED
    BY <1>2, <2>1
<1>5. \A q \in Addr :
        node'[q] = IF q = c[0] THEN NULL ELSE IF q = c[1] THEN m ELSE node[q]
  BY <1>2, <1>3, <1>4
<1>6. node' \in [Addr -> Nodes \cup {NULL}]
  <2>1. \A q \in Addr : node'[q] \in Nodes \cup {NULL}
    BY <1>2, <1>4, <1>5
  <2>2. DOMAIN node' = Addr /\ node' = [q \in DOMAIN node' |-> node'[q]]
    BY <1>2, <1>3
  <2>3. QED
    BY <2>1, <2>2
<1>7. /\ node'[c[0]] = NULL /\ node'[c[1]].prev = NULL
      /\ \A q \in Addr : q # c[0] => (node'[q] # NULL <=> node[q] # NULL)
  BY <1>2, <1>4, <1>5
<1>8. ASSUME NEW k \in 0..(n - 1), k # 0
      PROVE  /\ node'[c[k]].next = node[c[k]].next /\ k # 0 - 1
             /\ node'[c[k]].data = node[c[k]].data
             /\ k # 1 => node'[c[k]].prev = node[c[k]].prev
  <2>1. c[k] \in Addr /\ k # 0 - 1
    BY ChainNodes
  <2>2. c[k] # c[0] /\ (c[k] = c[1] <=> k = 1)
    BY <1>1, <1>8 DEF Chain
  <2>3. CASE k = 1
    BY <1>4, <1>5, <2>1, <2>2, <2>3
  <2>4. CASE k # 1
    BY <1>5, <2>1, <2>2, <2>4
  <2>5. QED
    BY <2>3, <2>4
<1>9. Chain(Without(c, n, 0), n - 1)' /\ Ended(Without(c, n, 0), n - 1)'
  <2>1. \A k \in 0..(n - 1) : k # 0 =>
          node'[c[k]].next = IF k = 0 - 1 THEN node[c[0]].next ELSE node[c[k]].next
    BY <1>8
  <2>2. \A k \in 1..(n - 1) : k # 0 =>
          \/ k = 0 + 1 /\ 0 = 0
          \/ node'[c[k]].prev = IF k = 0 + 1 THEN c[0 - 1] ELSE node[c[k]].prev
    BY <1>8
  <2>3. QED
    BY <1>1, <1>2, <1>7, <2>1, <2>2, Deleted
<1>10. QED
  BY <1>1, <1>6, <1>8, <1>9, WithoutIsList, ChainNodes DEF ShrinksWell

LEMMA RemoveTailShrinks ==
  ASSUME Types, NEW n \in Nat, NEW c, Chain(c, n), Ended(c, n),
         newNode = NULL, newNode' = NULL, RemoveTail
  PROVE  ShrinksWell(c, n, n - 1)
<1>1. PICK j \in 0..(n - 1) :
        /\ j = n - 1 /\ j > 0 /\ n > 1 /\ n # 1 /\ j - 1 \in 0..(n - 1)
        /\ j \in 1..(n - 1) /\ j - 1 = n - 2 /\ ~ (j < n - 1) /\ 0 \in 0..(n - 1)
  BY DEF RemoveTail, Ended
<1>2. PICK t \in Addr : /\ t = tail /\ t = c[j] /\ node[t] \in Nodes
                        /\ node[t].next = NULL /\ node[t].prev = c[j - 1]
  <2>1. tail = c[j] /\ c[j] \in Addr /\ node[c[j]] \in Nodes
    BY <1>1, ChainNodes DEF Ended
  <2>2. node[c[j]].next = NULL /\ node[c[j]].prev = c[j - 1]
    BY <1>1 DEF Chain
  <2>3. QED
    BY <2>1, <2>2
<1>3. PICK q \in Addr : q = c[j - 1] /\ node[q] \in Nodes /\ q # t
  <2>1. c[j - 1] \in Addr /\ node[c[j - 1]] \in Nodes
    BY <1>1, ChainNodes
  <2>2. c[j - 1] # c[j]
    BY <1>1 DEF Chain
  <2>3. QED
    BY <1>2, <2>1, <2>2
<1>4. /\ node \in [Addr -> Nodes \cup {NULL}] /\ NULL \notin Nodes
      /\ head' = head /\ tail' = q /\ len' = n - 1
  BY <1>2, <1>3, Constants DEF RemoveTail, Types, Ended
<1>5. node' = [node EXCEPT ![q].next = NULL, ![t] = NULL]
  BY <1>2, <1>4 DEF RemoveTail
<1>6. PICK m \in Nodes : /\ m = [node[q] EXCEPT !.next = NULL]
                         /\ m.next = NULL /\ m.prev = node[q].prev
                         /\ m.data = node[q].data
  <2>1. node[q] \in Nodes /\ NULL \in Addr \cup {NULL}
    BY <1>3
  <2>2. QED
    BY <2>1, NextIsSet, Zenon
<1>7. \A a \in Addr :
        node'[a] = IF a = t THEN NULL ELSE IF a = q THEN m ELSE node[a]
  BY <1>3, <1>4, <1>5, <1>6
<1>8. node' \in [Addr -> Nodes \cup {NULL}]
  <2>1. \A a \in Addr : node'[a] \in Nodes \cup {NULL}
    BY <1>4, <1>7
  <2>2. DOMAIN node' = Addr /\ node' = [a \in DOMAIN node' |-> node'[a]]
    BY <1>4, <1>5
  <2>3. QED
    BY <2>1, <2>2
<1>9. /\ node'[c[j]] = NULL
      /\ \A a \in Addr : a # c[j] => (node'[a] # NULL <=> node[a] # NULL)
  BY <1>2, <1>3, <1>4, <1>7
<1>10. ASSUME NEW k \in 0..(n - 1), k # j
       PROVE  /\ node'[c[k]].next = IF k = j - 1 THEN node[c[j]].next
                                    ELSE node[c[k]].next
              /\ node'[c[k]].prev = node[c[k]].prev /\ k # j + 1
              /\ node'[c[k]].data = node[c[k]].data
  <2>1. c[k] \in Addr /\ c[k] # t /\ (c[k] = q <=> k = j - 1) /\ k # j + 1
    <3>1. c[k] \in Addr /\ k # j + 1
      BY <1>1, ChainNodes
    <3>2. c[k] # c[j] /\ (c[k] = c[j - 1] <=> k = j - 1)
      BY <1>1, <1>10 DEF Chain
    <3>3. QED
      BY <1>2, <1>3, <3>1, <3>2
  <2>2. QED
    BY <1>2, <1>6, <1>7, <2>1
<1>11. Chain(Without(c, n, j), n - 1)' /\ Ended(Without(c, n, j), n - 1)'
  <2>1. \A k \in 1..(n - 1) : k # j =>
          \/ k = j + 1 /\ j = 0
          \/ node'[c[k]].prev = IF k = j + 1 THEN c[j - 1] ELSE node[c[k]].prev
    BY <1>10
  <2>2. /\ head' = IF j > 0 THEN head ELSE IF n = 1 THEN NULL ELSE c[1]
        /\ tail' = IF j < n - 1 THEN tail ELSE IF n = 1 THEN NULL ELSE c[n - 2]
    BY <1>1, <1>3, <1>4
  <2>3. IF j > 0 THEN node'[c[0]].prev = node[c[0]].prev
        ELSE n > 1 => node'[c[1]].prev = NULL
    BY <1>1, <1>10
  <2>4. \A k \in 0..(n - 1) : k # j =>
          node'[c[k]].next = IF k = j - 1 THEN node[c[j]].next ELSE node[c[k]].next
    BY <1>10
  <2>5. QED
    BY <1>1, <1>4, <1>9, <2>1, <2>2, <2>3, <2>4, Deleted
<1>12. QED
  BY <1>1, <1>8, <1>10, <1>11, WithoutIsList, ChainNodes DEF ShrinksWell

LEMMA UnlinkShrinks ==
  ASSUME Types, NEW n \in Nat, NEW c, Chain(c, n), Ended(c, n), Where(c, n),
         newNode = NULL, newNode' = NULL, Unlink,
         NEW j \in 0..(n - 1), TravelPoint = c[j]
  PROVE  ShrinksWell(c, n, j)
<1>1. TravelPoint = c[j] /\ j > 0 /\ j < n - 1
  BY DEF Unlink, Where, Op, Chain
<1>2. /\ j \in 1..(n - 1) /\ j - 1 \in 0..(n - 1) /\ j + 1 \in 0..(n - 1)
      /\ j # n - 1 /\ n # 1 /\ 0 \in 0..(n - 1) /\ j # 0 /\ j + 1 \in 1..(n - 1)
      /\ (j + 1) - 1 = j
  BY <1>1
<1>3. PICK t \in Addr : /\ t = TravelPoint /\ t = c[j] /\ node[t] \in Nodes
                        /\ node[t].next = c[j + 1] /\ node[t].prev = c[j - 1]
  <2>1. c[j] \in Addr /\ node[c[j]] \in Nodes
    BY <1>2, ChainNodes
  <2>2. node[c[j]].next = c[j + 1] /\ node[c[j]].prev = c[j - 1]
    BY <1>2 DEF Chain
  <2>3. QED
    BY <1>1, <2>1, <2>2
<1>4. PICK q \in Addr : q = c[j - 1] /\ node[q] \in Nodes
  BY <1>2, ChainNodes
<1>5. PICK r \in Addr : r = c[j + 1] /\ node[r] \in Nodes
  BY <1>2, ChainNodes
<1>6. q # t /\ r # t /\ q # r
  <2>1. c[j - 1] # c[j] /\ c[j + 1] # c[j] /\ c[j - 1] # c[j + 1]
    BY <1>2 DEF Chain
  <2>2. QED
    BY <1>3, <1>4, <1>5, <2>1
<1>7. /\ node \in [Addr -> Nodes \cup {NULL}] /\ NULL \notin Nodes
      /\ head' = head /\ tail' = tail /\ len' = n - 1
  BY Constants DEF Unlink, Types, Ended
<1>8. node' = [node EXCEPT ![q].next = r, ![r].prev = q, ![t] = NULL]
  BY <1>3, <1>4, <1>5 DEF Unlink
<1>9. PICK m \in Nodes : /\ m = [node[q] EXCEPT !.next = r]
                         /\ m.next = r /\ m.prev = node[q].prev
                         /\ m.data = node[q].data
  <2>1. node[q] \in Nodes /\ r \in Addr \cup {NULL}
    BY <1>4
  <2>2. QED
    BY <2>1, NextIsSet, Zenon
<1>10. PICK w \in Nodes : /\ w = [node[r] EXCEPT !.prev = q]
                          /\ w.prev = q /\ w.next = node[r].next
                          /\ w.data = node[r].data
  <2>1. node[r] \in Nodes /\ q \in Addr \cup {NULL}
    BY <1>5
  <2>2. QED
    BY <2>1, PrevIsSet, Zenon
<1>11. \A a \in Addr :
         node'[a] = IF a = t THEN NULL ELSE IF a = q THEN m
                    ELSE IF a = r THEN w ELSE node[a]
  BY <1>6, <1>7, <1>8, <1>9, <1>10
<1>12. node' \in [Addr -> Nodes \cup {NULL}]
  <2>1. \A a \in Addr : node'[a] \in Nodes \cup {NULL}
    BY <1>7, <1>9, <1>10, <1>11
  <2>2. DOMAIN node' = Addr /\ node' = [a \in DOMAIN node' |-> node'[a]]
    BY <1>7, <1>8
  <2>3. QED
    BY <2>1, <2>2
<1>13. /\ node'[c[j]] = NULL
       /\ \A a \in Addr : a # c[j] => (node'[a] # NULL <=> node[a] # NULL)
  BY <1>3, <1>4, <1>5, <1>6, <1>7, <1>9, <1>10, <1>11
<1>14. ASSUME NEW k \in 0..(n - 1), k # j
       PROVE  /\ node'[c[k]].next = IF k = j - 1 THEN node[c[j]].next
                                    ELSE node[c[k]].next
              /\ node'[c[k]].prev = IF k = j + 1 THEN c[j - 1]
                                    ELSE node[c[k]].prev
              /\ node'[c[k]].data = node[c[k]].data
  <2>1. c[k] \in Addr
    BY ChainNodes
  <2>2. c[k] # c[j] /\ (c[k] = c[j - 1] <=> k = j - 1) /\ (c[k] = c[j + 1] <=> k = j + 1)
    BY <1>2, <1>14 DEF Chain
  <2>3. k = j - 1 => k # j + 1
    OBVIOUS
  <2>4. CASE k = j - 1
    BY <1>3, <1>4, <1>5, <1>6, <1>9, <1>11, <2>1, <2>2, <2>3, <2>4
  <2>5. CASE k = j + 1
    BY <1>3, <1>4, <1>5, <1>6, <1>10, <1>11, <2>1, <2>2, <2>3, <2>5
  <2>6. CASE k # j - 1 /\ k # j + 1
    BY <1>3, <1>4, <1>5, <1>11, <2>1, <2>2, <2>6
  <2>7. QED
    BY <2>4, <2>5, <2>6
<1>15. Chain(Without(c, n, j), n - 1)' /\ Ended(Without(c, n, j), n - 1)'
  <2>1. \A k \in 1..(n - 1) : k # j =>
          \/ k = j + 1 /\ j = 0
          \/ node'[c[k]].prev = IF k = j + 1 THEN c[j - 1] ELSE node[c[k]].prev
    BY <1>14
  <2>2. /\ head' = IF j > 0 THEN head ELSE IF n = 1 THEN NULL ELSE c[1]
        /\ tail' = IF j < n - 1 THEN tail ELSE IF n = 1 THEN NULL ELSE c[n - 2]
    BY <1>1, <1>7
  <2>3. IF j > 0 THEN node'[c[0]].prev = node[c[0]].prev
        ELSE n > 1 => node'[c[1]].prev = NULL
    BY <1>1, <1>2, <1>14
  <2>4. \A k \in 0..(n - 1) : k # j =>
          node'[c[k]].next = IF k = j - 1 THEN node[c[j]].next ELSE node[c[k]].next
    BY <1>14
  <2>5. QED
    BY <1>7, <1>13, <2>1, <2>2, <2>3, <2>4, Deleted
<1>16. QED
  BY <1>12, <1>14, <1>15, WithoutIsList, ChainNodes DEF ShrinksWell

LEMMA FreeHeadShrinks ==
  ASSUME Types, NEW n \in Nat, NEW c, Chain(c, n),
         newNode = NULL, newNode' = NULL, FreeHead
  PROVE  Shrinks(n) /\ n > 0
<1>1. n > 0 /\ 0 \in 0..(n - 1)
  BY DEF FreeHead, Chain
<1>2. /\ head = c[0] /\ c[0] \in Addr /\ node \in [Addr -> Nodes \cup {NULL}]
      /\ head' = IF n = 1 THEN NULL ELSE c[1]
  <2>1. head = c[0] /\ c[0] \in Addr /\ node[c[0]].next = IF 0 = n - 1 THEN NULL ELSE c[1]
    BY <1>1, ChainNodes DEF Chain
  <2>2. QED
    BY <1>1, <2>1 DEF FreeHead, Types
<1>3. node' = [node EXCEPT ![c[0]] = NULL]
  BY <1>2 DEF FreeHead
<1>4. /\ node' \in [Addr -> Nodes \cup {NULL}] /\ node'[c[0]] = NULL
      /\ \A q \in Addr : q # c[0] => node'[q] = node[q]
  BY <1>2, <1>3
<1>5. ASSUME NEW k \in 0..(n - 1), k # 0
      PROVE  node'[c[k]] = node[c[k]] /\ k # 0 - 1
  <2>1. c[k] \in Addr /\ c[k] # c[0]
    BY <1>1, <1>5, ChainNodes DEF Chain
  <2>2. QED
    BY <1>4, <2>1
<1>6. Chain(Without(c, n, 0), n - 1)'
  <2>1. \A k \in 0..(n - 1) : k # 0 =>
          node'[c[k]].next = IF k = 0 - 1 THEN node[c[0]].next ELSE node[c[k]].next
    BY <1>5
  <2>2. \A k \in 1..(n - 1) : k # 0 =>
          \/ k = 0 + 1 /\ 0 = 0
          \/ node'[c[k]].prev = IF k = 0 + 1 THEN c[0 - 1] ELSE node[c[k]].prev
    BY <1>5
  <2>3. QED
    BY <1>1, <1>2, <1>4, <2>1, <2>2, Deleted
<1>7. QED
  BY <1>1, <1>4, <1>6, WithoutIsList, ChainNodes DEF Shrinks

LEMMA WriteKeepsLinks ==
  ASSUME Types, NEW n \in Nat, NEW c, Chain(c, n), Ended(c, n), Where(c, n),
         newNode' = newNode, call.element \in Element, WriteHere
  PROVE  /\ node' \in [Addr -> Nodes \cup {NULL}] /\ Chain(c, n)' /\ Ended(c, n)'
         /\ \A k \in 0..(n - 1) :
              node'[c[k]].data = IF c[k] = TravelPoint THEN call.element
                                 ELSE node[c[k]].data
<1>1. PICK j \in 0..(n - 1) : TravelPoint = c[j]
  BY DEF WriteHere, Where
<1>2. PICK t \in Addr : t = TravelPoint /\ node[t] \in Nodes
  BY <1>1, ChainNodes
<1>3. PICK e \in Element : e = call.element
  OBVIOUS
<1>4. /\ node \in [Addr -> Nodes \cup {NULL}] /\ NULL \notin Nodes
      /\ UNCHANGED <<head, tail, len>>
      /\ node' = [node EXCEPT ![t].data = e]
  BY <1>2, <1>3, Constants DEF WriteHere, Types
<1>5. PICK m \in Nodes : /\ m = [node[t] EXCEPT !.data = e]
                         /\ m.next = node[t].next /\ m.prev = node[t].prev
                         /\ m.data = e
  BY <1>2, DataIsSet
<1>6. \A a \in Addr : node'[a] = IF a = t THEN m ELSE node[a]
  BY <1>4, <1>5
<1>7. node' \in [Addr -> Nodes \cup {NULL}]
  <2>1. \A a \in Addr : node'[a] \in Nodes \cup {NULL}
    BY <1>4, <1>6
  <2>2. DOMAIN node' = Addr /\ node' = [a \in DOMAIN node' |-> node'[a]]
    BY <1>4
  <2>3. QED
    BY <2>1, <2>2
<1>8. \A a \in Addr : node'[a] # NULL <=> node[a] # NULL
  BY <1>2, <1>4, <1>5, <1>6
<1>9. \A k \in 0..(n - 1) : /\ node'[c[k]].next = node[c[k]].next
                            /\ node'[c[k]].prev = node[c[k]].prev
  BY <1>5, <1>6, ChainNodes
<1>10. Chain(c, n)'
  BY <1>4, <1>8, <1>9 DEF Chain
<1>11. Ended(c, n)'
  <2>1. n > 0 => 0 \in 0..(n - 1)
    OBVIOUS
  <2>2. QED
    BY <1>4, <1>9, <2>1 DEF Ended
<1>12. \A k \in 0..(n - 1) :
         node'[c[k]].data = IF c[k] = TravelPoint THEN call.element
                            ELSE node[c[k]].data
  BY <1>2, <1>3, <1>5, <1>6, ChainNodes
<1>13. QED
  BY <1>7, <1>10, <1>11, <1>12

-----------------------------------------------------------------------------
(* The steps                                                               *)

LEMMA ChainIsShort ==
  ASSUME NEW n \in Nat, NEW c, Chain(c, n)
  PROVE  n \in 0..Cardinality(Addr)
<1>1. c \in Injection(0..(n - 1), Addr)
  BY DEF Chain, Injection, IsInjective
<1>2. Cardinality(0..(n - 1)) <= Cardinality(Addr) /\ Cardinality(Addr) \in Nat
  BY <1>1, FS_Injection, FS_CardinalityType, ListAssumption
<1>3. Cardinality(0..(n - 1)) = n
  BY FS_Interval
<1>4. QED
  BY <1>2, <1>3

LEMMA Returned ==
  ASSUME NEW v, Return(v), node' \in [Addr -> Nodes \cup {NULL}],
         NEW n \in Nat, NEW c \in [0..(n - 1) -> Addr], Chain(c, n)', Ended(c, n)'
  PROVE  ListInv'
<1>1. Types'
  BY DEF Return, Types, Op, NoCall
<1>2. Where(c, n)'
  BY DEF Return, Where
<1>3. QED
  BY <1>1, <1>2 DEF ListInv, Linking, Return

LEMMA StaysLinked ==
  ASSUME Types, NEW n \in Nat, NEW c, Chain(c, n), Ended(c, n),
         UNCHANGED list, UNCHANGED newNode
  PROVE  /\ node' \in [Addr -> Nodes \cup {NULL}]
         /\ Chain(c, n)' /\ Ended(c, n)'
BY DEF list, Types, Chain, Ended

LEMMA ReturnsUnchanged ==
  ASSUME Types, NEW n \in Nat, NEW c \in [0..(n - 1) -> Addr],
         Chain(c, n), Ended(c, n),
         newNode = NULL, UNCHANGED list, NEW v, Return(v)
  PROVE  ListInv'
<1>1. newNode' = newNode
  BY DEF Return
<1>2. QED
  BY <1>1, StaysLinked, Returned

LEMMA Moved ==
  ASSUME Types, NEW n \in Nat, NEW c \in [0..(n - 1) -> Addr],
         Chain(c, n), Ended(c, n),
         UNCHANGED list, UNCHANGED newNode, Types', Where(c, n)'
  PROVE  ListInv'
<1>1. len' \in 0..Cardinality(Addr)
  BY ChainIsShort DEF Ended, list
<1>2. QED
  BY <1>1, StaysLinked DEF ListInv, Linking

\* What the removal of a node goes on with.
LEMMA GoesOnAfterRemoval ==
  ASSUME Types, pc \in {"remove", "walk"}, newNode = NULL, Removed,
         node' \in [Addr -> Nodes \cup {NULL}],
         NEW n \in Nat, NEW c \in [0..(n - 1) -> Addr], Chain(c, n)', Ended(c, n)'
  PROVE  ListInv'
<1>1. CASE Op({"DBRemoveByElement"})
  <2>1. /\ pc' = "search" /\ TravelPoint' = head' /\ index' = 0
        /\ UNCHANGED <<newNode, call>>
    BY <1>1 DEF Removed, Search
  <2>2. Types'
    BY <1>1, <2>1 DEF Types, Op
  <2>3. n > 0 => head' = c[0] /\ 0 \in 0..(n - 1)
    BY DEF Chain
  <2>4. n = 0 => head' = NULL
    BY DEF Chain
  <2>5. Where(c, n)'
    BY <2>1, <2>3, <2>4 DEF Where
  <2>6. QED
    BY <2>1, <2>2, <2>5 DEF ListInv, Linking
<1>2. CASE ~ Op({"DBRemoveByElement"})
  <2>1. PICK v : Return(v)
    BY <1>2 DEF Removed
  <2>2. QED
    BY <2>1, Returned
<1>3. QED
  BY <1>1, <1>2

LEMMA Neighbours ==
  ASSUME NEW n \in Nat, NEW c, Chain(c, n), Ended(c, n), NEW k \in 0..(n - 1)
  PROVE  /\ node[c[k]].next = NULL \/ \E i \in 0..(n - 1) : node[c[k]].next = c[i]
         /\ node[c[k]].prev = NULL \/ \E i \in 0..(n - 1) : node[c[k]].prev = c[i]
<1>1. node[c[k]].next = NULL \/ \E i \in 0..(n - 1) : node[c[k]].next = c[i]
  <2>1. CASE k = n - 1
    BY <2>1 DEF Chain
  <2>2. CASE k # n - 1
    <3>1. k + 1 \in 0..(n - 1) /\ node[c[k]].next = c[k + 1]
      BY <2>2 DEF Chain
    <3>2. QED
      BY <3>1
  <2>3. QED
    BY <2>1, <2>2
<1>2. node[c[k]].prev = NULL \/ \E i \in 0..(n - 1) : node[c[k]].prev = c[i]
  <2>1. CASE k = 0
    BY <2>1 DEF Ended
  <2>2. CASE k # 0
    <3>1. k - 1 \in 0..(n - 1) /\ node[c[k]].prev = c[k - 1]
      BY <2>2 DEF Chain
    <3>2. QED
      BY <3>1
  <2>3. QED
    BY <2>1, <2>2
<1>3. QED
  BY <1>1, <1>2

LEMMA CallArguments ==
  ASSUME Types, pc # "idle"
  PROVE  /\ call \in Calls
         /\ Op(ElementCalls) => call.element \in Element
         /\ Op(IndexCalls) => call.index \in Int
BY Constants DEF Types, Op

LEMMA InsertKeeps ==
  ASSUME Types, NEW n \in Nat, NEW c \in [0..(n - 1) -> Addr],
         Chain(c, n), Ended(c, n),
         Insert \/ InsertAtEnd
  PROVE  ListInv'
<1>1. pc = "start" /\ newNode = NULL /\ Return(NULL) /\ newNode' = NULL
  BY DEF Insert, InsertAtEnd, Types, Return
<1>2. \/ UNCHANGED list
      \/ /\ call.element \in Element
         /\ \E p \in Addr : LinkTail(p) \/ LinkHead(p)
  <2>1. Op({"DBInsertTail", "QPush", "DBInsertHead", "DBInsertByIndex"}) =>
          call.element \in Element
    BY <1>1, CallArguments DEF Op, ElementCalls
  <2>2. CASE Insert
    BY <2>1, <2>2 DEF Insert, NoMemory, Op
  <2>3. CASE InsertAtEnd
    BY <2>1, <2>3 DEF InsertAtEnd, NoMemory, Op
  <2>4. QED
    BY <2>2, <2>3
<1>3. CASE UNCHANGED list
  BY <1>1, <1>3, ReturnsUnchanged
<1>4. ASSUME NEW p \in Addr, LinkTail(p) \/ LinkHead(p), call.element \in Element
      PROVE  ListInv'
  <2>1. \E j \in 0..n : LinksNew(c, n, j, call.element, p)
    BY <1>1, <1>4, LinkTailLinks, LinkHeadLinks
  <2>2. n + 1 \in Nat /\ (n + 1) - 1 = n
    OBVIOUS
  <2>3. QED
    BY <1>1, <2>1, <2>2, Returned DEF LinksNew
<1>5. QED
  BY <1>2, <1>3, <1>4

\* A node that is not linked yet leaves the chain as it is.
LEMMA NewNodeKeepsChain ==
  ASSUME Types, NEW n \in Nat, NEW c \in [0..(n - 1) -> Addr],
         Chain(c, n), Ended(c, n), newNode = NULL,
         NEW e \in Element, NEW p \in Addr, Free(p),
         node' = [node EXCEPT ![p] = Node(e, NULL, NULL)],
         newNode' = p, UNCHANGED <<head, tail, len>>
  PROVE  /\ node' \in [Addr -> Nodes \cup {NULL}] /\ Chain(c, n)' /\ Ended(c, n)'
         /\ node'[p].data = e
         /\ \A k \in 0..(n - 1) : node'[c[k]] = node[c[k]]
<1>1. /\ node \in [Addr -> Nodes \cup {NULL}] /\ NULL \notin Addr /\ NULL \notin Nodes
      /\ node[p] = NULL /\ \A k \in 0..(n - 1) : p # c[k] /\ c[k] \in Addr
  BY ChainNodes, Constants DEF Types, Free
<1>2. PICK m \in Nodes : node' = [node EXCEPT ![p] = m] /\ m.data = e
  <2>1. NULL \in Addr \cup {NULL}
    OBVIOUS
  <2>2. Node(e, NULL, NULL) \in Nodes /\ Node(e, NULL, NULL).data = e
    BY <2>1, FirstFields, Zenon
  <2>3. QED
    BY <2>2
<1>3. /\ node' \in [Addr -> Nodes \cup {NULL}]
      /\ \A q \in Addr : node'[q] = IF q = p THEN m ELSE node[q]
  BY <1>1, <1>2
<1>4. \A k \in 0..(n - 1) : node'[c[k]] = node[c[k]]
  BY <1>1, <1>3
<1>5. \A q \in Addr : node'[q] # NULL <=> node[q] # NULL \/ q = p
  BY <1>1, <1>3
<1>6. Chain(c, n)'
  <2>1. \A q \in Addr :
          node'[q] # NULL <=> q = newNode' \/ \E k \in 0..(n - 1) : q = c[k]
    BY <1>1, <1>5 DEF Chain
  <2>2. \A k \in 0..(n - 1) : newNode' # c[k]
    BY <1>1
  <2>3. \A k \in 0..(n - 1) :
          node'[c[k]].next = IF k = n - 1 THEN NULL ELSE c[k + 1]
    BY <1>4 DEF Chain
  <2>4. \A k \in 1..(n - 1) : node'[c[k]].prev = c[k - 1]
    BY <1>4 DEF Chain
  <2>5. QED
    BY <2>1, <2>2, <2>3, <2>4 DEF Chain
<1>7. Ended(c, n)'
  <2>1. n > 0 => 0 \in 0..(n - 1)
    OBVIOUS
  <2>2. QED
    BY <1>4, <2>1 DEF Ended
<1>8. node'[p].data = e
  BY <1>2, <1>3
<1>9. QED
  BY <1>3, <1>4, <1>6, <1>7, <1>8

LEMMA InsertInsideKeeps ==
  ASSUME Types, NEW n \in Nat, NEW c \in [0..(n - 1) -> Addr],
         Chain(c, n), Ended(c, n), InsertInside
  PROVE  ListInv'
<1>1. pc = "start" /\ newNode = NULL /\ Op({"DBInsertByIndex"})
  BY DEF InsertInside, Types
<1>2. PICK e \in Element, i \in Int :
        e = call.element /\ i = call.index /\ 0 < i /\ i < n
  BY <1>1, CallArguments DEF Op, ElementCalls, IndexCalls, InsertInside, Inside, Ended
<1>3. CASE NoMemory /\ Return(NULL)
  BY <1>1, <1>3, ReturnsUnchanged DEF NoMemory
<1>4. ASSUME NEW p \in Addr, Free(p),
             node' = [node EXCEPT ![p] = Node(call.element, NULL, NULL)],
             newNode' = p, TravelPoint' = head, index' = call.index,
             Goto("walk"), UNCHANGED <<head, tail, len>>
      PROVE  ListInv'
  <2>1. node' \in [Addr -> Nodes \cup {NULL}] /\ Chain(c, n)' /\ Ended(c, n)'
    <3>1. node' = [node EXCEPT ![p] = Node(e, NULL, NULL)]
      BY <1>2, <1>4
    <3>2. QED
      BY <1>1, <1>4, <3>1, NewNodeKeepsChain
  <2>2. 0 \in 0..(n - 1) /\ head = c[0]
    BY <1>2 DEF Chain
  <2>3. Types'
    BY <1>1, <1>2, <1>4, <2>1, Constants DEF Types, Goto, Op
  <2>4. Where(c, n)'
    <3>1. index' \in Nat /\ 0 + index' <= n - 1 /\ 0 + index' > 0
      BY <1>2, <1>4
    <3>2. pc' = "walk" /\ TravelPoint' = c[0] /\ call' = call
      BY <1>4, <2>2 DEF Goto
    <3>3. QED
      BY <1>1, <2>2, <3>1, <3>2 DEF Where, Op
  <2>5. QED
    BY <1>4, <2>1, <2>3, <2>4 DEF ListInv, Linking, Goto
<1>5. QED
  BY <1>3, <1>4 DEF InsertInside

LEMMA LinkBetweenKeeps ==
  ASSUME Types, NEW n \in Nat, NEW c \in [0..(n - 1) -> Addr],
         Chain(c, n), Ended(c, n), Where(c, n), LinkBetween
  PROVE  ListInv'
<1>1. Return(NULL) /\ newNode' = NULL
  BY DEF LinkBetween, Return
<1>2. \E j \in 0..(n - 1) : LinksNew(c, n, j, node[newNode].data, newNode)
  BY <1>1, LinkBetweenLinks DEF LinkBetween, Where
<1>3. n + 1 \in Nat /\ (n + 1) - 1 = n
  OBVIOUS
<1>4. QED
  BY <1>1, <1>2, <1>3, Returned DEF LinksNew

LEMMA RemoveKeeps ==
  ASSUME Types, NEW n \in Nat, NEW c \in [0..(n - 1) -> Addr],
         Chain(c, n), Ended(c, n), Where(c, n), DBRemove
  PROVE  ListInv'
<1>1. newNode = NULL
  BY DEF Types, Op, DBRemove, RemoveStart, RemoveNothing, RemoveOnly, RemoveHead,
         RemoveTail, RemoveInside, Unlink
<1>2. CASE RemoveStart
  <2>1. pc = "start" /\ UNCHANGED list
    BY <1>2 DEF RemoveStart
  <2>2. ASSUME NEW i \in Int, Walk(NULL, i), Goto("remove"),
               Op({"DBRemoveByIndex", "Pop"})
        PROVE  ListInv'
    <3>1. Types'
      BY <1>1, <2>1, <2>2 DEF Types, Walk, Goto, Op, list
    <3>2. Where(c, n)'
      BY <2>2 DEF Where, Walk, Goto
    <3>3. QED
      BY <2>1, <2>2, <3>1, <3>2, Moved DEF Walk
  <2>3. Op({"DBRemoveByIndex"}) => call.index \in Int
    BY <2>1, CallArguments DEF Op, IndexCalls
  <2>4. CASE Op({"Pop"}) /\ len = 0 /\ Return(NULL)
    BY <1>1, <2>1, <2>4, ReturnsUnchanged
  <2>5. QED
    BY <1>2, <2>2, <2>3, <2>4 DEF RemoveStart, Op
<1>3. ASSUME NEW j, ShrinksWell(c, n, j), n > 0, Removed, pc \in {"remove", "walk"}
      PROVE  ListInv'
  <2>1. n - 1 \in Nat
    BY <1>3
  <2>2. QED
    BY <1>1, <1>3, <2>1, GoesOnAfterRemoval DEF ShrinksWell
<1>4. Removed => newNode' = NULL
  BY <1>1 DEF Removed, Return
<1>5. CASE RemoveNothing
  <2>1. pc = "remove" /\ UNCHANGED list /\ Removed
    BY <1>5 DEF RemoveNothing
  <2>2. node' \in [Addr -> Nodes \cup {NULL}] /\ Chain(c, n)' /\ Ended(c, n)'
    BY <1>1, <1>4, <2>1, StaysLinked
  <2>3. QED
    BY <1>1, <2>1, <2>2, GoesOnAfterRemoval
<1>6. CASE RemoveOnly
  <2>1. Removed /\ pc = "remove" /\ n > 0
    BY <1>6 DEF RemoveOnly, Ended
  <2>2. QED
    BY <1>1, <1>3, <1>4, <1>6, <2>1, RemoveOnlyShrinks
<1>7. CASE RemoveHead
  <2>1. Removed /\ pc = "remove" /\ n > 0
    BY <1>7 DEF RemoveHead, Ended
  <2>2. QED
    BY <1>1, <1>3, <1>4, <1>7, <2>1, RemoveHeadShrinks
<1>8. CASE RemoveTail
  <2>1. Removed /\ pc = "remove" /\ n > 0
    BY <1>8 DEF RemoveTail, Ended
  <2>2. QED
    BY <1>1, <1>3, <1>4, <1>8, <2>1, RemoveTailShrinks
<1>9. CASE RemoveInside
  <2>1. /\ pc = "remove" /\ UNCHANGED list /\ index \in Int
        /\ 0 < index /\ index < n - 1
        /\ TravelPoint' = head /\ UNCHANGED <<index, newNode, call>> /\ pc' = "walk"
    BY <1>9 DEF RemoveInside, Walk, Goto, Ended, Types
  <2>2. Types'
    BY <1>1, <2>1 DEF Types, Op, list
  <2>3. 0 \in 0..(n - 1) /\ head = c[0]
    BY <2>1 DEF Chain
  <2>4. Where(c, n)'
    <3>1. index' \in Nat /\ 0 + index' <= n - 1 /\ 0 + index' > 0 /\ 0 + index' < n - 1
      BY <2>1
    <3>2. QED
      BY <2>1, <2>3, <3>1 DEF Where
  <2>5. QED
    BY <2>1, <2>2, <2>4, Moved
<1>10. CASE Unlink
  <2>1. Removed /\ pc = "walk"
    BY <1>10 DEF Unlink
  <2>2. n > 0
    BY <2>1 DEF Where
  <2>3. PICK j \in 0..(n - 1) : TravelPoint = c[j]
    BY <2>1 DEF Where
  <2>4. ShrinksWell(c, n, j)
    BY <1>1, <1>4, <1>10, <2>1, <2>3, UnlinkShrinks
  <2>5. QED
    BY <1>3, <2>1, <2>2, <2>4
<1>11. QED
  BY <1>2, <1>5, <1>6, <1>7, <1>8, <1>9, <1>10 DEF DBRemove

LEMMA WalkOnKeeps ==
  ASSUME Types, NEW n \in Nat, NEW c \in [0..(n - 1) -> Addr],
         Chain(c, n), Ended(c, n), Where(c, n), WalkOn
  PROVE  ListInv'
<1>1. /\ pc = "walk" /\ index # 0 /\ UNCHANGED list /\ UNCHANGED <<newNode, call>>
      /\ TravelPoint' = node[TravelPoint].next /\ index' = index - 1 /\ pc' = "walk"
  BY DEF WalkOn, Walk, Goto
<1>2. index \in Nat
  BY <1>1 DEF Where
<1>3. PICK k \in 0..(n - 1) :
        /\ TravelPoint = c[k] /\ k + index <= n - 1
        /\ Op({"DBInsertByIndex"}) => k + index > 0
        /\ Op({"DBRemoveByIndex", "DBRemoveByElement"}) =>
             k + index > 0 /\ k + index < n - 1
  BY <1>1 DEF Where
<1>4. /\ k + 1 \in 0..(n - 1) /\ k # n - 1 /\ index' \in Nat
      /\ (k + 1) + index' = k + index
  BY <1>1, <1>2, <1>3
<1>5. TravelPoint' = c[k + 1]
  BY <1>1, <1>3, <1>4 DEF Chain
<1>6. Where(c, n)'
  <2>1. Op({"DBInsertByIndex"})' = Op({"DBInsertByIndex"})
    BY <1>1 DEF Op
  <2>2. Op({"DBRemoveByIndex", "DBRemoveByElement"})'
          = Op({"DBRemoveByIndex", "DBRemoveByElement"})
    BY <1>1 DEF Op
  <2>3. /\ (k + 1) + index' <= n - 1
        /\ Op({"DBInsertByIndex"})' => (k + 1) + index' > 0
        /\ Op({"DBRemoveByIndex", "DBRemoveByElement"})' =>
             (k + 1) + index' > 0 /\ (k + 1) + index' < n - 1
    BY <1>3, <1>4, <2>1, <2>2
  <2>4. QED
    BY <1>1, <1>4, <1>5, <2>3 DEF Where
<1>7. Types'
  BY <1>1, <1>2, <1>4 DEF Types, Op, list
<1>8. QED
  BY <1>1, <1>6, <1>7, Moved

LEMMA SearchKeeps ==
  ASSUME Types, NEW n \in Nat, NEW c \in [0..(n - 1) -> Addr],
         Chain(c, n), Ended(c, n), Where(c, n),
         SearchStart \/ SearchOn \/ SearchHit \/ SearchMiss
  PROVE  ListInv'
<1>1. UNCHANGED list /\ newNode = NULL
  BY DEF SearchStart, SearchOn, SearchHit, SearchMiss, Types
<1>2. n > 0 => 0 \in 0..(n - 1) /\ head = c[0]
  BY DEF Chain
<1>3. n = 0 => head = NULL
  BY DEF Chain
<1>4. CASE SearchStart
  <2>1. /\ pc' = "search" /\ TravelPoint' = head /\ index' = 0
        /\ UNCHANGED <<newNode, call>>
        /\ Op({"DBFindeFirstByElement", "DBRemoveByElement", "DBSeValueByElent"})
        /\ pc = "start"
    BY <1>1, <1>4 DEF SearchStart, Search, list
  <2>2. Types'
    BY <1>1, <2>1 DEF Types, Op, list
  <2>3. Where(c, n)'
    BY <1>2, <1>3, <2>1 DEF Where
  <2>4. QED
    BY <1>1, <2>1, <2>2, <2>3, Moved
<1>5. ASSUME pc = "search", TravelPoint # NULL
      PROVE  index \in 0..(n - 1) /\ TravelPoint = c[index]
  BY <1>5 DEF Where
<1>6. CASE SearchOn
  <2>1. /\ pc = "search" /\ pc' = "search" /\ TravelPoint' = node[TravelPoint].next
        /\ index' = index + 1 /\ UNCHANGED <<newNode, call>> /\ TravelPoint # NULL
    BY <1>6 DEF SearchOn, Walk, Goto
  <2>2. Types'
    BY <1>1, <2>1 DEF Types, Op, list
  <2>3. PICK i \in 0..(n - 1) : i = index /\ TravelPoint = c[i]
    BY <1>5, <2>1
  <2>4. CASE i = n - 1
    <3>1. TravelPoint' = NULL
      BY <2>1, <2>3, <2>4 DEF Chain
    <3>2. QED
      <4>1. Where(c, n)'
        BY <2>1, <3>1 DEF Where
      <4>2. QED
        BY <1>1, <2>1, <2>2, <4>1, Moved
  <2>5. CASE i # n - 1
    <3>1. i + 1 \in 0..(n - 1) /\ index' = i + 1
      BY <2>1, <2>3, <2>5
    <3>2. TravelPoint' = c[i + 1]
      BY <2>1, <2>3, <2>5 DEF Chain
    <3>3. Where(c, n)'
      BY <2>1, <3>1, <3>2 DEF Where
    <3>4. QED
      BY <1>1, <2>1, <2>2, <3>3, Moved
  <2>6. QED
    BY <2>4, <2>5
<1>7. CASE SearchHit
  <2>1. pc = "search" /\ TravelPoint # NULL
    BY <1>7 DEF SearchHit
  <2>2. index \in 0..(n - 1) /\ n > 0
    BY <1>5, <2>1
  <2>3. CASE Op({"DBFindeFirstByElement"}) /\ Return(index)
    BY <1>1, <2>3, ReturnsUnchanged
  <2>4. CASE Op({"DBRemoveByElement"}) /\ Walk(NULL, index) /\ Goto("remove")
    <3>1. Types'
      BY <1>1, <2>1, <2>4 DEF Types, Op, list, Walk, Goto
    <3>2. Where(c, n)'
      BY <2>4 DEF Where, Walk, Goto
    <3>3. QED
      BY <1>1, <2>4, <3>1, <3>2, Moved DEF Walk
  <2>5. CASE Op({"DBSeValueByElent"}) /\ Walk(head, index) /\ Goto("walk")
    <3>1. Types'
      BY <1>1, <2>1, <2>5 DEF Types, Op, list, Walk, Goto
    <3>2. /\ pc' = "walk" /\ TravelPoint' = c[0] /\ index' \in Nat
          /\ 0 + index' <= n - 1 /\ 0 \in 0..(n - 1)
          /\ call' = call
      BY <1>2, <2>2, <2>5 DEF Walk, Goto
    <3>3. ~ Op({"DBInsertByIndex"})' /\ ~ Op({"DBRemoveByIndex", "DBRemoveByElement"})'
      BY <2>5, <3>2 DEF Op
    <3>4. Where(c, n)'
      BY <3>2, <3>3 DEF Where
    <3>5. QED
      BY <1>1, <2>5, <3>1, <3>4, Moved DEF Walk
  <2>6. QED
    BY <1>7, <2>3, <2>4, <2>5 DEF SearchHit
<1>8. CASE SearchMiss
  <2>1. PICK v : Return(v)
    BY <1>8 DEF SearchMiss
  <2>2. QED
    BY <1>1, <2>1, ReturnsUnchanged
<1>9. QED
  BY <1>4, <1>6, <1>7, <1>8

\* A step of a call that walks without looking at an index.
LEMMA Travels ==
  ASSUME Types, NEW n \in Nat, NEW c \in [0..(n - 1) -> Addr],
         Chain(c, n), Ended(c, n), newNode = NULL,
         UNCHANGED list, UNCHANGED <<newNode, call>>,
         pc # "idle", pc' \in {"fill", "forward", "backward"}, index' \in Int,
         TravelPoint' = NULL \/ \E k \in 0..(n - 1) : TravelPoint' = c[k]
  PROVE  ListInv'
<1>1. Types'
  BY DEF Types, Op, list
<1>2. Where(c, n)'
  BY DEF Where
<1>3. QED
  BY <1>1, <1>2, Moved

LEMMA Ends ==
  ASSUME NEW n \in Nat, NEW c, Chain(c, n), Ended(c, n)
  PROVE  /\ head = NULL \/ \E k \in 0..(n - 1) : head = c[k]
         /\ tail = NULL \/ \E k \in 0..(n - 1) : tail = c[k]
<1>1. CASE n = 0
  BY <1>1 DEF Chain, Ended
<1>2. CASE n # 0
  <2>1. 0 \in 0..(n - 1) /\ n - 1 \in 0..(n - 1)
    BY <1>2
  <2>2. QED
    BY <1>2, <2>1 DEF Chain, Ended
<1>3. QED
  BY <1>1, <1>2

LEMMA IndexedKeeps ==
  ASSUME Types, NEW n \in Nat, NEW c \in [0..(n - 1) -> Addr],
         Chain(c, n), Ended(c, n), Where(c, n),
         IndexStart \/ ReadHere \/ WriteHere
  PROVE  ListInv'
<1>1. newNode = NULL
  BY DEF IndexStart, ReadHere, WriteHere, Types, Op
<1>2. CASE IndexStart
  <2>1. /\ pc = "start" /\ UNCHANGED list
        /\ Op({"DBFindeByindex", "DBSeValueByIndex"}) /\ call.index \in Int
    BY <1>2, CallArguments DEF IndexStart, Op, IndexCalls
  <2>2. CASE call.index \in 0..(len - 1) /\ Walk(head, call.index) /\ Goto("walk")
    <3>1. Types'
      BY <1>1, <2>1, <2>2 DEF Types, Op, list, Walk, Goto
    <3>2. call.index \in 0..(n - 1)
      BY <2>2 DEF Ended
    <3>3. n > 0
      BY <2>1, <3>2
    <3>4. /\ pc' = "walk" /\ TravelPoint' = c[0] /\ index' \in Nat
          /\ 0 + index' <= n - 1 /\ 0 \in 0..(n - 1) /\ call' = call
      BY <2>2, <3>2, <3>3 DEF Walk, Goto, Chain
    <3>5. ~ Op({"DBInsertByIndex"})' /\ ~ Op({"DBRemoveByIndex", "DBRemoveByElement"})'
      BY <2>1, <3>4 DEF Op
    <3>6. Where(c, n)'
      BY <3>4, <3>5 DEF Where
    <3>7. QED
      BY <2>1, <2>2, <3>1, <3>6, Moved DEF Walk
  <2>3. CASE Return(NULL)
    BY <1>1, <2>1, <2>3, ReturnsUnchanged
  <2>4. QED
    BY <1>2, <2>2, <2>3 DEF IndexStart
<1>3. CASE ReadHere
  <2>1. PICK v : Return(v) /\ UNCHANGED list
    BY <1>3 DEF ReadHere
  <2>2. QED
    BY <1>1, <2>1, ReturnsUnchanged
<1>4. CASE WriteHere
  <2>1. pc = "walk" /\ Op({"DBSeValueByIndex", "DBSeValueByElent"})
    BY <1>4 DEF WriteHere
  <2>2. call.element \in Element
    BY <2>1, CallArguments DEF Op, ElementCalls
  <2>3. newNode' = newNode
    BY <1>1, <1>4 DEF WriteHere, Return
  <2>4. node' \in [Addr -> Nodes \cup {NULL}] /\ Chain(c, n)' /\ Ended(c, n)'
    BY <1>4, <2>2, <2>3, WriteKeepsLinks
  <2>5. CASE Return(NULL)
    BY <2>4, <2>5, Returned
  <2>6. CASE /\ Op({"DBSeValueByElent"})
             /\ Search /\ UNCHANGED <<newNode, FindVector, call, ret, before>>
    <3>1. Types'
      BY <1>1, <2>1, <2>4, <2>6 DEF Types, Op, Search
    <3>2. n > 0 => head' = c[0] /\ 0 \in 0..(n - 1)
      BY <2>4 DEF Chain
    <3>3. n = 0 => head' = NULL
      BY <2>4 DEF Chain
    <3>4. Where(c, n)'
      BY <2>6, <3>2, <3>3 DEF Where, Search
    <3>5. QED
      BY <2>4, <2>6, <3>1, <3>4 DEF ListInv, Linking, Search
  <2>7. QED
    BY <1>4, <2>1, <2>5, <2>6 DEF WriteHere, Op
<1>5. QED
  BY <1>2, <1>3, <1>4

LEMMA FindKeeps ==
  ASSUME Types, NEW n \in Nat, NEW c \in [0..(n - 1) -> Addr],
         Chain(c, n), Ended(c, n), Where(c, n), FindByElement
  PROVE  ListInv'
<1>1. newNode = NULL /\ UNCHANGED list /\ pc \in {"start", "fill"}
  BY DEF FindByElement, FindStart, Fill, FillEnd, Types
<1>2. CASE FindStart
  <2>1. CASE Return(NULL)
    BY <1>1, <2>1, ReturnsUnchanged
  <2>2. CASE TravelPoint' = head /\ index' = 0 /\ UNCHANGED newNode /\ Goto("fill")
    <3>1. TravelPoint' = NULL \/ \E k \in 0..(n - 1) : TravelPoint' = c[k]
      BY <2>2, Ends
    <3>2. QED
      BY <1>1, <2>2, <3>1, Travels DEF Goto
  <2>3. QED
    BY <1>2, <2>1, <2>2 DEF FindStart
<1>3. CASE Fill
  <2>1. /\ TravelPoint' = node[TravelPoint].next /\ index' = index + 1
        /\ UNCHANGED <<newNode, call>> /\ pc' = "fill" /\ TravelPoint # NULL
    BY <1>3 DEF Fill, Goto
  <2>2. PICK k \in 0..(n - 1) : TravelPoint = c[k]
    BY <2>1 DEF Where
  <2>3. TravelPoint' = NULL \/ \E i \in 0..(n - 1) : TravelPoint' = c[i]
    <3>1. node[c[k]].next = NULL \/ \E i \in 0..(n - 1) : node[c[k]].next = c[i]
      BY Neighbours
    <3>2. QED
      BY <2>1, <2>2, <3>1
  <2>4. index' \in Int
    BY <2>1 DEF Types
  <2>5. QED
    BY <1>1, <2>1, <2>3, <2>4, Travels
<1>4. CASE FillEnd
  <2>1. PICK v : Return(v)
    BY <1>4 DEF FillEnd
  <2>2. QED
    BY <1>1, <2>1, ReturnsUnchanged
<1>5. QED
  BY <1>2, <1>3, <1>4 DEF FindByElement

LEMMA TravelKeeps ==
  ASSUME Types, NEW n \in Nat, NEW c \in [0..(n - 1) -> Addr],
         Chain(c, n), Ended(c, n), Where(c, n), Travel
  PROVE  ListInv'
<1>1. newNode = NULL /\ UNCHANGED list /\ pc \in {"start", "forward", "backward"}
  BY DEF Travel, Types
<1>2. ASSUME NEW q, Walk(q, 0), NEW label \in {"forward", "backward"}, Goto(label),
             q = NULL \/ \E k \in 0..(n - 1) : q = c[k]
      PROVE  ListInv'
  BY <1>1, <1>2, Travels DEF Walk, Goto
<1>3. CASE pc = "start" /\ Walk(head, 0) /\ Goto("forward")
  BY <1>2, <1>3, Ends
<1>4. CASE pc = "forward" /\ TravelPoint = NULL /\ Walk(tail, 0) /\ Goto("backward")
  BY <1>2, <1>4, Ends
<1>5. CASE /\ pc = "forward" /\ TravelPoint # NULL
           /\ Walk(node[TravelPoint].next, 0) /\ Goto("forward")
  <2>1. PICK k \in 0..(n - 1) : TravelPoint = c[k]
    BY <1>5 DEF Where
  <2>2. QED
    BY <1>2, <1>5, <2>1, Neighbours
<1>6. CASE /\ pc = "backward" /\ TravelPoint # NULL
           /\ Walk(node[TravelPoint].prev, 0) /\ Goto("backward")
  <2>1. PICK k \in 0..(n - 1) : TravelPoint = c[k]
    BY <1>6 DEF Where
  <2>2. QED
    BY <1>2, <1>6, <2>1, Neighbours
<1>7. CASE Return(NULL)
  BY <1>1, <1>7, ReturnsUnchanged
<1>8. QED
  BY <1>3, <1>4, <1>5, <1>6, <1>7 DEF Travel

LEMMA FreeKeeps ==
  ASSUME Types, NEW n \in Nat, NEW c \in [0..(n - 1) -> Addr], Linking(c, n),
         FreeHead \/ FreeEnd
  PROVE  ListInv'
<1>1. newNode = NULL /\ pc \in {"start", "free"} /\ Op({"FreeDLlist"}) /\ Chain(c, n)
  BY DEF FreeHead, FreeEnd, Types, Linking
<1>2. CASE FreeHead
  <2>1. pc' = "free" /\ UNCHANGED <<call, newNode, index>>
    BY <1>2 DEF FreeHead, Goto, locals
  <2>2. Shrinks(n) /\ n > 0
    BY <1>1, <1>2, <2>1, FreeHeadShrinks
  <2>3. n - 1 \in Nat
    BY <2>2
  <2>4. Types'
    BY <1>1, <2>1, <2>2 DEF Types, Op, Shrinks
  <2>5. len' \in 0..Cardinality(Addr)
    BY <1>1, <1>2, ChainIsShort DEF FreeHead, Linking, Ended
  <2>6. QED
    BY <2>1, <2>2, <2>3, <2>4, <2>5 DEF Shrinks, ListInv, Linking
<1>3. CASE FreeEnd
  <2>1. head = NULL /\ tail' = NULL /\ len' = 0 /\ UNCHANGED <<head, node>> /\ Return(NULL)
    BY <1>3 DEF FreeEnd
  <2>2. n = 0
    <3>1. n > 0 => 0 \in 0..(n - 1) /\ head = c[0]
      BY <1>1 DEF Chain
    <3>2. QED
      BY <2>1, <3>1, Constants
  <2>3. Ended(c, n)'
    BY <2>1, <2>2 DEF Ended
  <2>4. newNode' = newNode
    BY <1>1, <2>1 DEF Return
  <2>5. Chain(c, n)'
    BY <1>1, <2>1, <2>4 DEF Chain
  <2>6. node' \in [Addr -> Nodes \cup {NULL}]
    BY <2>1 DEF Types
  <2>7. QED
    BY <2>1, <2>3, <2>5, <2>6, Returned
<1>4. QED
  BY <1>2, <1>3

LEMMA CallAndQueryKeep ==
  ASSUME Types, NEW n \in Nat, NEW c \in [0..(n - 1) -> Addr],
         Chain(c, n), Ended(c, n), Where(c, n), Call \/ Query
  PROVE  ListInv'
<1>1. newNode = NULL /\ UNCHANGED list /\ pc \in {"idle", "start"}
  BY DEF Call, Query, Types
<1>2. CASE Call
  <2>1. call' \in Calls /\ pc' = "start" /\ UNCHANGED locals
    BY <1>2 DEF Call
  <2>2. Types'
    BY <1>1, <2>1, Constants DEF Types, locals, list, Op
  <2>3. Where(c, n)'
    BY <2>1 DEF Where, locals
  <2>4. QED
    BY <1>1, <2>1, <2>2, <2>3, Moved DEF locals
<1>3. CASE Query
  <2>1. PICK v : Return(v)
    BY <1>3 DEF Query
  <2>2. QED
    BY <1>1, <2>1, ReturnsUnchanged
<1>4. QED
  BY <1>2, <1>3

LEMMA NextKeepsList == ListInv /\ [Next]_vars => ListInv'
<1> SUFFICES ASSUME ListInv, [Next]_vars
             PROVE  ListInv'
  OBVIOUS
<1>1. Types
  BY DEF ListInv
<1>2. PICK n \in Nat : \E c \in [0..(n - 1) -> Addr] : Linking(c, n)
  BY DEF ListInv
<1>3. PICK c \in [0..(n - 1) -> Addr] : Linking(c, n)
  BY <1>2
<1>4. CASE UNCHANGED vars
  <2>1. Types'
    BY <1>1, <1>4 DEF Types, Op, vars, list, locals
  <2>2. Linking(c, n)'
    BY <1>3, <1>4 DEF Linking, Chain, Ended, Where, Op, vars, list, locals
  <2>3. QED
    BY <2>1, <2>2 DEF ListInv
<1>5. CASE FreeHead \/ FreeEnd
  BY <1>1, <1>3, <1>5, FreeKeeps
<1>6. CASE Next /\ pc # "free"
  <2>1. Chain(c, n) /\ Ended(c, n) /\ Where(c, n)
    BY <1>3, <1>6 DEF Linking
  <2>2. CASE Call \/ Query
    BY <1>1, <2>1, <2>2, CallAndQueryKeep
  <2>3. CASE Insert \/ InsertAtEnd
    BY <1>1, <2>1, <2>3, InsertKeeps
  <2>4. CASE InsertInside
    BY <1>1, <2>1, <2>4, InsertInsideKeeps
  <2>5. CASE LinkBetween
    BY <1>1, <2>1, <2>5, LinkBetweenKeeps
  <2>6. CASE WalkOn
    BY <1>1, <2>1, <2>6, WalkOnKeeps
  <2>7. CASE SearchStart \/ SearchOn \/ SearchHit \/ SearchMiss
    BY <1>1, <2>1, <2>7, SearchKeeps
  <2>8. CASE DBRemove
    BY <1>1, <2>1, <2>8, RemoveKeeps
  <2>9. CASE IndexStart \/ ReadHere \/ WriteHere
    BY <1>1, <2>1, <2>9, IndexedKeeps
  <2>10. CASE FindByElement
    BY <1>1, <2>1, <2>10, FindKeeps
  <2>11. CASE Travel
    BY <1>1, <2>1, <2>11, TravelKeeps
  <2>12. QED
    BY <1>5, <1>6, <2>2, <2>3, <2>4, <2>5, <2>6, <2>7, <2>8, <2>9, <2>10, <2>11
       DEF Next, Step
<1>7. Next /\ pc = "free" => FreeHead \/ FreeEnd
  BY DEF Next, Step, Call, Insert, InsertAtEnd, InsertInside, LinkBetween, WalkOn,
         SearchStart, SearchOn, SearchHit, SearchMiss, DBRemove, RemoveStart,
         RemoveNothing, RemoveOnly, RemoveHead, RemoveTail, RemoveInside, Unlink,
         IndexStart, ReadHere, WriteHere, FindByElement, FindStart, Fill, FillEnd,
         Travel, Query
<1>8. QED
  BY <1>4, <1>5, <1>6, <1>7

LEMMA InitList == Init => ListInv
<1> SUFFICES ASSUME Init
             PROVE  ListInv
  OBVIOUS
<1>1. Types
  BY DEF Init, Types, Op, NoCall
<1>2. PICK c : c = [k \in 0..(0 - 1) |-> NULL]
  OBVIOUS
<1>3. c \in [0..(0 - 1) -> Addr]
  BY <1>2
<1>4. \A p \in Addr : node[p] = NULL /\ p # NULL
  BY Constants DEF Init
<1>5. Chain(c, 0)
  BY <1>3, <1>4 DEF Init, Chain
<1>6. Linking(c, 0)
  BY <1>5 DEF Init, Linking, Ended, Where
<1>7. QED
  BY <1>1, <1>3, <1>6 DEF ListInv

-----------------------------------------------------------------------------
(* What the invariant says                                                 *)

LEMMA NthOfChain ==
  ASSUME NEW n \in Nat, NEW c \in [0..(n - 1) -> Addr], Chain(c, n), Ended(c, n)
  PROVE  Nth = c
<1>1. len = n /\ (len > 0 => c[0] = head)
  BY DEF Chain, Ended
<1>2. \A k \in 1..(len - 1) : c[k] = node[c[k - 1]].next
  <2>1. ASSUME NEW k \in 1..(n - 1)
        PROVE  c[k] = node[c[k - 1]].next
    <3>1. k - 1 \in 0..(n - 1) /\ k - 1 # n - 1 /\ (k - 1) + 1 = k
      OBVIOUS
    <3>2. QED
      BY <3>1 DEF Chain
  <2>2. QED
    BY <1>1, <2>1
<1>3. QED
  BY <1>1, <1>2, NthIsTheChain

\* The nodes of a chain point to one another.
LEMMA LinksAreLive ==
  ASSUME Types, NEW n \in Nat, NEW c \in [0..(n - 1) -> Addr], Chain(c, n)
  PROVE  /\ head \in Live \cup {NULL}
         /\ \A p \in Live \ {newNode} :
              /\ node[p].next \in Live \cup {NULL}
              /\ node[p].prev \in Live \cup {NULL} \/ p = head
<1>1. \A k \in 0..(n - 1) : c[k] \in Live
  BY DEF Chain, Live
<1>2. head \in Live \cup {NULL}
  BY <1>1 DEF Chain
<1>3. ASSUME NEW p \in Live \ {newNode}
      PROVE  /\ node[p].next \in Live \cup {NULL}
             /\ node[p].prev \in Live \cup {NULL} \/ p = head
  <2>1. PICK k \in 0..(n - 1) : p = c[k]
    BY <1>3 DEF Chain, Live
  <2>2. node[p].next \in Live \cup {NULL}
    <3>1. k # n - 1 => k + 1 \in 0..(n - 1)
      OBVIOUS
    <3>2. node[p].next = IF k = n - 1 THEN NULL ELSE c[k + 1]
      BY <2>1 DEF Chain
    <3>3. QED
      BY <1>1, <3>1, <3>2
  <2>3. CASE k = 0
    BY <2>1, <2>2, <2>3 DEF Chain
  <2>4. CASE k # 0
    <3>1. k \in 1..(n - 1) /\ k - 1 \in 0..(n - 1)
      BY <2>4
    <3>2. node[p].prev = c[k - 1]
      BY <2>1, <3>1 DEF Chain
    <3>3. QED
      BY <1>1, <2>2, <3>1, <3>2
  <2>5. QED
    BY <2>3, <2>4
<1>4. QED
  BY <1>2, <1>3

LEMMA ListInvMeaning ==
  ASSUME ListInv
  PROVE  TypeOK /\ WellLinked /\ NothingLeaks
<1>1. Types
  BY DEF ListInv
<1>2. PICK n \in Nat : \E c \in [0..(n - 1) -> Addr] : Linking(c, n)
  BY DEF ListInv
<1>3. PICK c \in [0..(n - 1) -> Addr] : Linking(c, n)
  BY <1>2
<1>4. /\ call = NoCall \/ call \in Calls
      /\ pc = "idle" <=> call = NoCall
      /\ index \in Int
      /\ \A p \in Live : node[p] \in Nodes
  BY <1>1 DEF Types, Live
<1>5. CASE pc = "free"
  <2>1. len \in 0..Cardinality(Addr) /\ Chain(c, n)
    BY <1>3, <1>5 DEF Linking
  <2>2. QED
    BY <1>1, <1>4, <1>5, <2>1, LinksAreLive DEF TypeOK, WellLinked, NothingLeaks
<1>6. CASE pc # "free"
  <2>1. Chain(c, n) /\ Ended(c, n) /\ Where(c, n)
    BY <1>3, <1>6 DEF Linking
  <2>2. Nth = c /\ len = n /\ len \in 0..Cardinality(Addr)
    BY <2>1, NthOfChain, ChainIsShort DEF Ended
  <2>3. \A k \in 0..(n - 1) : c[k] \in Live
    BY <1>1, <2>1, ChainNodes, Constants DEF Live
  <2>4. {head, tail, TravelPoint, newNode} \subseteq Live \cup {NULL}
    <3>1. head \in Live \cup {NULL} /\ tail \in Live \cup {NULL}
      BY <2>1, <2>3, Ends
    <3>2. TravelPoint \in Live \cup {NULL}
      BY <2>1, <2>3 DEF Where
    <3>3. newNode \in Live \cup {NULL}
      BY <1>1, <2>1 DEF Types, Chain, Live
    <3>4. QED
      BY <3>1, <3>2, <3>3
  <2>5. TypeOK
    <3>1. \A p \in Live \ {newNode} : node[p].prev \in Live \cup {NULL} \/ p = head
      BY <1>1, <2>1, LinksAreLive
    <3>2. head \in Live => node[head].prev = NULL
      BY <2>1, Constants DEF Chain, Ended, Live
    <3>3. \A p \in Live \ {newNode} : node[p].prev \in Live \cup {NULL}
      BY <3>1, <3>2
    <3>4. QED
      BY <1>1, <1>4, <2>1, <2>2, <2>4, <3>3, LinksAreLive DEF TypeOK
  <2>6. WellLinked
    <3>1. CASE n = 0
      BY <2>1, <2>2, <3>1 DEF WellLinked, Chain, Ended
    <3>2. CASE n # 0
      <4>1. 0 \in 0..(n - 1) /\ n - 1 \in 0..(n - 1)
        BY <3>2
      <4>2. head = c[0] /\ tail = c[n - 1]
        BY <2>1, <3>2 DEF Chain, Ended
      <4>3. node[head].prev = NULL /\ node[tail].next = NULL
        BY <2>1, <3>2, <4>1, <4>2 DEF Chain, Ended
      <4>4. \A k \in 1..(n - 1) : node[c[k]].prev = c[k - 1]
        BY <2>1 DEF Chain
      <4>5. QED
        BY <2>2, <3>2, <4>2, <4>3, <4>4 DEF WellLinked
    <3>3. QED
      BY <3>1, <3>2
  <2>7. NothingLeaks
    <3>1. Live \subseteq Linked \cup ({newNode} \ {NULL})
      BY <2>1, <2>2, Constants DEF Live, Linked, Chain
    <3>2. Linked \subseteq Live
      BY <2>2, <2>3 DEF Linked
    <3>3. newNode # NULL => newNode \in Live
      BY <1>1, <2>1 DEF Types, Chain, Live
    <3>4. QED
      BY <3>1, <3>2, <3>3 DEF NothingLeaks
  <2>8. QED
    BY <2>5, <2>6, <2>7
<1>7. QED
  BY <1>5, <1>6

\* The list is a chain of distinct nodes in every state.
THEOREM ListInvariant == Spec => []ListInv
BY InitList, NextKeepsList, PTL DEF Spec

\* No pointer of the list, of a node in it or of a call dangles, whatever calls are
\* made on it and however many nodes there are; while the list is freed, none but
\* tail and the prev of the first node left.
THEOREM NothingDangles == Spec => []TypeOK
BY ListInvariant, ListInvMeaning, PTL

\* Forwards and backwards the list is the same chain between head and tail.
THEOREM ListIsWellLinked == Spec => []WellLinked
BY ListInvariant, ListInvMeaning, PTL

\* No call leaks a node, and none frees one that is still linked.
THEOREM NoNodeLeaks == Spec => []NothingLeaks
BY ListInvariant, ListInvMeaning, PTL
=============================================================================
