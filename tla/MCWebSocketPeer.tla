--------------------------- MODULE MCWebSocketPeer ---------------------------
(* Small instances of WebSocketPeer.                                         *)
EXTENDS WebSocketPeer, TLC
=============================================================================
