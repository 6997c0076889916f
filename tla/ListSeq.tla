------------------------------- MODULE ListSeq -------------------------------
(***************************************************************************)
(* What DoubleLinkList.h and Queue.h promise: a list is a sequence, and a  *)
(* call changes it as a whole. DoubleLinkList implements this module.      *)
(***************************************************************************)
EXTENDS Integers, SequencesExt

CONSTANT Calls  \* the calls that are made; records with a field op

VARIABLES seq,  \* what is in the list
          call  \* the call in progress

NoCall == [op |-> "none"]

Init == seq = <<>> /\ call = NoCall

Make(c) ==
  /\ call = NoCall
  /\ call' = c
  /\ UNCHANGED seq

\* Indices start with 0.
ValidIndex == call.index \in 0..(Len(seq) - 1)

\* t is what is left of s when every e is taken out, in the old order: its i-th
\* element was the one at from[i].
IsWithout(t, s, e) ==
  LET kept == {k \in DOMAIN s : s[k] # e}
  IN  /\ t \in Seq({s[k] : k \in kept})
      /\ \E from \in [DOMAIN t -> kept] :
           /\ \A k \in kept : \E i \in DOMAIN t : from[i] = k
           /\ \A i, k \in DOMAIN t : i < k => from[i] < from[k]
           /\ \A i \in DOMAIN t : t[i] = s[from[i]]

\* The sequence that every other call leaves. An index that is not valid
\* changes nothing.
Result ==
  CASE call.op \in {"DBInsertTail", "QPush"} -> Append(seq, call.element)
    [] call.op = "DBInsertHead" -> <<call.element>> \o seq
    [] call.op = "DBInsertByIndex" /\ call.index \in 0..Len(seq) ->
         InsertAt(seq, call.index + 1, call.element)
    [] call.op = "DBRemoveByIndex" /\ ValidIndex ->
         RemoveAt(seq, call.index + 1)
    [] call.op = "Pop" /\ seq # <<>> -> Tail(seq)
    [] call.op = "DBSeValueByIndex" /\ ValidIndex ->
         [seq EXCEPT ![call.index + 1] = call.element]
    [] call.op = "DBSeValueByElent" ->
         [k \in DOMAIN seq |->
            IF seq[k] = call.old THEN call.element ELSE seq[k]]
    [] call.op = "FreeDLlist" -> <<>>
    [] OTHER -> seq

Insertions == {"DBInsertTail", "DBInsertHead", "DBInsertByIndex", "QPush"}

\* An insertion does nothing when there is no memory.
Complete ==
  /\ call # NoCall
  /\ \/ call.op # "DBRemoveByElement" /\ seq' = Result
     \/ call.op = "DBRemoveByElement" /\ IsWithout(seq', seq, call.element)
     \/ call.op \in Insertions /\ UNCHANGED seq
  /\ call' = NoCall

Next == (\E c \in Calls : Make(c)) \/ Complete

Spec == Init /\ [][Next]_<<seq, call>>
=============================================================================
