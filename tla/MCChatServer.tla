---------------------------- MODULE MCChatServer ----------------------------
(* Small instances of ChatServer for TLC. *)
EXTENDS ChatServer, TLC

CONSTANTS anna, bert, carl \* accounts

TwoFDs == {5, 6}
ThreeFDs == {5, 6, 7}
OnlyA == {anna}
OnlyB == {bert}
TwoAccounts == {anna, bert}
ThreeAccounts == {anna, bert, carl}

AllNames == Account \cup Group

HandlerSymmetry == Permutations(Worker)
=============================================================================
