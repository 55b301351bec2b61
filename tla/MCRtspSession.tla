---------------------------- MODULE MCRtspSession ----------------------------
(***************************************************************************)
(* A file of two frames: SPS, PPS and an IDR slice that needs three        *)
(* packets, then a delimiter and a slice that fits into one.               *)
(***************************************************************************)
EXTENDS RtspSession

MCFile == << [type |-> 7, size |-> 2], [type |-> 5, size |-> 6],
             [type |-> 9, size |-> 1], [type |-> 1, size |-> 3] >>
MCAsked == {<<"SETUP", "tcp">>, <<"SETUP", "multicast">>, <<"SETUP", "udp-no-port">>,
            <<"PLAY", "none">>, <<"PAUSE", "none">>, <<"TEARDOWN", "none">>}
=============================================================================
