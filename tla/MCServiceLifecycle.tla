------------------------- MODULE MCServiceLifecycle --------------------------
(* Small instances of ServiceLifecycle for TLC. *)
EXTENDS ServiceLifecycle

CONSTANTS chat1, chat2, auth1, client1

\* The chat server is started twice, or once and with a client.
OneServerTwiceOrClient == {{chat1, chat2, auth1}, {chat1, auth1, client1}}
=============================================================================
