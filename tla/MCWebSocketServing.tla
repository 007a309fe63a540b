------------------------- MODULE MCWebSocketServing -------------------------
(* Two workers, one thread that sends, one that closes; the client sends a   *)
(* message, a PING and a CLOSE.                                               *)
EXTENDS WebSocketServing

IncomingAll == <<"text", "ping", "close">>
=============================================================================
