----------------------------- MODULE MCWsSession -----------------------------
(***************************************************************************)
(* Model-checking instance of WsSession: up to two application threads    *)
(* and a peer that sends a few frames, chosen so that whole messages,      *)
(* fragmented ones with a Ping in between, Close frames followed by data,  *)
(* frames out of sequence and frames over the limits all occur.            *)
(***************************************************************************)
EXTENDS WsSession

F(op, fin) == [op |-> op, fin |-> fin]

AllFrames ==
  {F("text", TRUE), F("text", FALSE), F("cont", FALSE), F("cont", TRUE),
   F("ping", TRUE), F("ping", FALSE), F("pong", TRUE), F("close", TRUE),
   F("malformed", TRUE), F("oversize", TRUE)}

ControlFrames == {F("ping", TRUE), F("close", TRUE)}
=============================================================================
