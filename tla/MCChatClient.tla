---------------------------- MODULE MCChatClient ----------------------------
(* A small instance of ChatClient for TLC. *)
EXTENDS ChatClient

\* A flag with a text and the one of a GROUP_ADD that fails, which has none.
TwoFlags == {702, 10}
=============================================================================
