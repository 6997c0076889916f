----------------------------- MODULE MCTcpServer -----------------------------
(* Small instances of TcpServer for TLC. *)
EXTENDS TcpServer, TLC

OneFD == {5}
TwoFDs == {5, 6}
NoEarlyReturn == {}
FirstReturns == {1}
Symmetry == Permutations(Worker)
=============================================================================
