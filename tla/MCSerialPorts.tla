---------------------------- MODULE MCSerialPorts ----------------------------
(* Two callers of one port name; a line and an empty one; a length-prefixed  *)
(* frame, one that is too long, and a byte after it; raw bytes.              *)
EXTENDS SerialPorts, TLC

MCStream ==
    "line" :> <<65, 10, 10>> @@ "length" :> <<0, 1, 7, 0, 5, 9>> @@ "raw" :> <<7, 8>>

MCMaxCalls == "c1" :> 2 @@ "c2" :> 1
=============================================================================
