---------------------------- MODULE MCMediaSource ----------------------------
(* A packet of two units with start codes of three and four bytes, and one   *)
(* with bytes before its first start code and a start code at its end;       *)
(* frames of two planes, and a compressed one, which has no size.    *)
EXTENDS MediaSource

MCPayloads == {<<0, 0, 0, 1, 5, 0, 0, 1, 6, 0>>, <<9, 0, 0, 1, 5, 0, 0, 0, 1>>}

MCImages ==
    {[format |-> "NV12", width |-> 4, height |-> 2],
     [format |-> "MJPEG", width |-> 2, height |-> 2]}
=============================================================================
