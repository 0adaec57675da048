--------------------------- MODULE MCChatSessions ---------------------------
(* ChatSessions on a small instance; the cfg gives the constants.          *)
EXTENDS ChatSessions
=============================================================================
