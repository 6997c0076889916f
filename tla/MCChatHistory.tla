--------------------------- MODULE MCChatHistory ---------------------------
(* Small instances of ChatHistory for TLC. *)
EXTENDS MCChatServer, ChatHistory
=============================================================================
