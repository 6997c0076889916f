-------------------------- MODULE MCDoubleLinkList --------------------------
(* Small instances of DoubleLinkList for TLC. *)
EXTENDS DoubleLinkList, TLC

Index == -1..(Cardinality(Addr) + 1)

WithElement(ops) == [op : ops, element : Element]
WithIndex(ops) == [op : ops, index : Index]
WithBoth(ops) == [op : ops, index : Index, element : Element]

Replacements ==
  {c \in [op : {"DBSeValueByElent"}, old : Element, element : Element] :
     c.old # c.element}

AllCalls ==
  WithElement({"DBInsertTail", "QPush", "DBInsertHead", "DBRemoveByElement",
               "DBFindeFirstByElement", "DBFindByElement"})
    \cup WithIndex({"DBRemoveByIndex", "DBFindeByindex"})
    \cup WithBoth({"DBInsertByIndex", "DBSeValueByIndex"})
    \cup Replacements
    \cup [op : {"Pop", "DBTravel", "FreeDLlist", "GetDBlistLen", "IsQEmpty"}]
=============================================================================
