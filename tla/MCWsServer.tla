----------------------------- MODULE MCWsServer -----------------------------
(* A request that is accepted, with two protocols of which the second is the *)
(* server's choice, and one that is refused.                                 *)
EXTENDS WsServer

MCSupported == <<"json", "raw">>

MCRequests ==
    {[method |-> "GET", upgrade |-> "websocket", connection |-> "keep-alive, upgrade",
      key |-> "k", version |-> v, protocols |-> {"raw", "xml"}] : v \in {"13", "12"}}
=============================================================================
