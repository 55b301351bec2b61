----------------------------- MODULE MCSipAgent -----------------------------
(***************************************************************************)
(* Model-checking instance of SipAgent.  The constants of the .cfg files   *)
(* bound everything: one restart, cseq_ by its parity, and two handlers of *)
(* each timer in the queue of the io thread.                               *)
(***************************************************************************)
EXTENDS SipAgent
=============================================================================
