------------------------------ MODULE WsOutbox ------------------------------
(***************************************************************************)
(* What a WebSocket connection promises to the application that sends on   *)
(* it (ws::WsSession::SendText, SendBinary, SendPing, Close): the frames   *)
(* reach the socket in the order in which they were submitted, each at     *)
(* most once and none skipped, and a Close frame is the last one.  The     *)
(* connection may be shut at any time; frames still waiting are then lost. *)
(*                                                                         *)
(* WsSession implements this specification.                                *)
(***************************************************************************)
EXTENDS Naturals, Sequences

CONSTANT Items          \* the frames that can be submitted, [kind, id] records

VARIABLES
  submitted,            \* every frame submitted so far, oldest first
  wire,                 \* the frames written to the socket
  open                  \* the socket can still be written to

vars == <<submitted, wire, open>>

IsClose(item) == item.kind = "close"

Init ==
  /\ submitted = <<>>
  /\ wire = <<>>
  /\ open = TRUE

\* A caller, the heartbeat or the reply to a Ping hands a frame over.
Submit(item) ==
  /\ submitted' = Append(submitted, item)
  /\ UNCHANGED <<wire, open>>

\* The next frame in order goes out, unless a Close frame already has.
Transmit ==
  /\ open
  /\ Len(wire) < Len(submitted)
  /\ \A i \in 1..Len(wire) : ~ IsClose(wire[i])
  /\ wire' = Append(wire, submitted[Len(wire) + 1])
  /\ UNCHANGED <<submitted, open>>

Shut ==
  /\ open
  /\ open' = FALSE
  /\ UNCHANGED <<submitted, wire>>

Next ==
  \/ \E item \in Items : Submit(item)
  \/ Transmit
  \/ Shut

Spec == Init /\ [][Next]_vars
=============================================================================
