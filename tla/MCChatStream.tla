---------------------------- MODULE MCChatStream ----------------------------
(* Small instances of ChatStream for TLC.  Exchanges share nothing but the   *)
(* model-server client that is configured, so one of them is every one.      *)
EXTENDS ChatStream

CONSTANTS x1
=============================================================================
