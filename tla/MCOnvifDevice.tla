---------------------------- MODULE MCOnvifDevice ----------------------------
(* Clients that use the two spellings the device looks for, and one that does *)
(* not; zones to both sides of UTC, one half an hour off and two of half a    *)
(* day and more; times before, at and after midnight's carry.                 *)
EXTENDS OnvifDevice

MCForms == {[soap |-> "", wsa |-> ""], [soap |-> "SOAP-ENV", wsa |-> "wsa"],
            [soap |-> "s", wsa |-> "wsa"]}

MCZones == {-660, -210, 480, 719, 840}

MCTimes == {0, 719, 720, 1439}
=============================================================================
