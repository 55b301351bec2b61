----------------------------- MODULE WsSession -----------------------------
(***************************************************************************)
(* One server-side WebSocket connection: ws::WsSession                     *)
(* (src/src/server/ws/ws_session.cpp) between its peer, the io thread of   *)
(* the WsServer and the application threads that send and close.           *)
(*                                                                         *)
(* Handlers run one at a time on the io thread of the server's own         *)
(* io_context.  Only the frame loop of ProcessFrameBuffer takes several    *)
(* steps (io = "frames"), because the application threads can change       *)
(* state_ while it runs; the other handlers touch nothing that another     *)
(* thread changes more than once.  Application threads reach the session   *)
(* through state_ and through functions posted to the strand.              *)
(*                                                                         *)
(* Bytes are abstracted to frames: a frame is its opcode class and its FIN *)
(* bit, its payload is its position in what the peer sent.  What the peer  *)
(* sent is chosen when the frame loop comes to it, so that frame_buf_ need *)
(* not be a variable: a read brings any number of frames.  Time is counted *)
(* in ticks, Interval of which make options_.heartbeat_interval.           *)
(***************************************************************************)
EXTENDS Naturals, Sequences

CONSTANTS
  Apps,                 \* application threads that may call Close
  ClientFrames,         \* the frames the peer may send
  MaxFrames,            \* bound: frames the peer sends
  MaxSends,             \* bound: SendText/SendBinary calls
  MaxMessage,           \* options_.max_message_bytes, in fragments
  Interval,             \* options_.heartbeat_interval, in ticks
  Timeout               \* options_.heartbeat_timeout, in ticks

States == {"Handshaking", "Active", "Closing", "Closed"}

\* "malformed": rejected by ParseHeader, or unmasked.  "oversize": larger than
\* max_message_bytes or than max_frame_buffer_bytes.
OpCodes == {"text", "binary", "cont", "close", "ping", "pong",
            "malformed", "oversize"}

Frame == [op : OpCodes, fin : BOOLEAN]

Item == [kind : {"data", "ping", "pong", "close"}, id : 0..(MaxFrames + MaxSends)]

Message == [frames : Seq(Nat), opcode : OpCodes, at : States]

\* SetSessionOptions never leaves the timeout below the interval.
ASSUME ConstantsAssumption ==
  /\ ClientFrames \subseteq Frame
  /\ MaxFrames \in Nat
  /\ MaxSends \in Nat
  /\ MaxMessage \in Nat \ {0}
  /\ Interval \in Nat \ {0}
  /\ Timeout \in Nat
  /\ Timeout >= Interval

VARIABLES
  state,                \* state_
  sock,                 \* socket_ is open
  rd,                   \* the outstanding async_read_some
  io,                   \* "frames" inside ProcessFrameBuffer, else "idle"
  received,             \* history: the frames the loop has parsed, oldest first
  msg_started,          \* msg_started_
  msg_opcode,           \* msg_opcode_
  msg_payload,          \* msg_payload_: positions of the fragments
  delivered,            \* the messages given to message_handler_
  posted,               \* EnqueueFrame functions waiting in the strand
  send_queue,           \* send_queue_
  writing,              \* writing_
  writes,               \* outstanding async_write operations
  written,              \* the outstanding write has put its frame on the socket
  submitted,            \* history: every frame handed to EnqueueFrame
  wire,                 \* history: every frame written to the socket
  sends,                \* how many of the submitted frames the caller sent
  peer,                 \* "up", "stalled" (alive, reads nothing) or "gone"
  timer,                \* ticks until heartbeat_timer_ expires, or Off
  idle,                 \* ticks since last_activity_
  awaiting_pong,        \* awaiting_pong_
  closes,               \* how often close_handler_ has been called
  app                   \* where each application thread is in Close

connVars  == <<state, sock, closes>>
readVars  == <<rd, io>>
msgVars   == <<msg_started, msg_opcode, msg_payload, delivered>>
queueVars == <<posted, submitted>>
writeVars == <<send_queue, writing, writes, written, wire>>
beatVars  == <<timer, idle, awaiting_pong>>
peerVars  == <<received, peer>>
appVars   == <<app, sends>>

vars == <<connVars, readVars, msgVars, queueVars, writeVars, beatVars,
          peerVars, appVars>>

Off == Interval + 1     \* heartbeat_timer_ is not waiting

CloseItem   == [kind |-> "close", id |-> 0]
PingItem    == [kind |-> "ping", id |-> 0]
PongItem(i) == [kind |-> "pong", id |-> i]
DataItem(i) == [kind |-> "data", id |-> i]

Init ==
  /\ state = "Handshaking" /\ sock = TRUE /\ closes = 0
  /\ rd = "handshake" /\ io = "idle"
  /\ msg_started = FALSE /\ msg_opcode = "text"
  /\ msg_payload = <<>> /\ delivered = <<>>
  /\ posted = <<>> /\ submitted = <<>>
  /\ send_queue = <<>> /\ writing = FALSE /\ writes = 0
  /\ written = FALSE /\ wire = <<>>
  /\ timer = Off /\ idle = 0 /\ awaiting_pong = FALSE
  /\ received = <<>> /\ peer = "up"
  /\ app = [a \in Apps |-> "idle"] /\ sends = 0

-----------------------------------------------------------------------------
(* Parts of handlers.                                                      *)

\* The compare-exchange of line 513 expects Closed, so it succeeds on a session
\* that is already closed, and on any other the exchange of line 515 returns a
\* state other than Closed: neither returns early, and the rest always runs.
DoClose ==
  /\ state' = "Closed"
  /\ sock' = FALSE
  /\ closes' = closes + 1
  /\ timer' = Off

EnqueueFrame(item) ==
  /\ posted' = Append(posted, item)
  /\ submitted' = Append(submitted, item)

RefreshHeartbeat ==
  /\ idle' = 0
  /\ awaiting_pong' = FALSE

\* Close called on the io thread.
Close ==
  IF state = "Active"
    THEN /\ state' = "Closing"
         /\ EnqueueFrame(CloseItem)
         /\ UNCHANGED <<sock, closes>>
    ELSE UNCHANGED <<connVars, queueVars>>

-----------------------------------------------------------------------------
(* Reading (DoReadHandshake, DoReadFrame, OnFrameData).                    *)

\* A valid upgrade request; frames may follow it in the same bytes.
HandshakeAccepted(more) ==
  /\ io = "idle" /\ rd = "handshake" /\ sock
  /\ state' = "Active"
  /\ RefreshHeartbeat
  /\ timer' = Interval
  /\ IF more THEN rd' = "none" /\ io' = "frames"
             ELSE rd' = "frame" /\ io' = "idle"
  /\ UNCHANGED <<sock, closes, msgVars, queueVars, writeVars, peerVars, appVars>>

\* A bad or too long request, or the 101 response cannot be written.
HandshakeRejected ==
  /\ io = "idle" /\ rd = "handshake" /\ sock
  /\ rd' = "none"
  /\ DoClose
  /\ UNCHANGED <<io, msgVars, queueVars, writeVars, idle,
                 awaiting_pong, peerVars, appVars>>

\* Also after the socket was closed: the read may have completed before, with
\* its handler still to run.
ReadFrames ==
  /\ io = "idle" /\ rd = "frame"
  /\ rd' = "none"
  /\ io' = "frames"
  /\ UNCHANGED <<connVars, msgVars, queueVars, writeVars, beatVars, peerVars,
                 appVars>>

\* The read completes with an error: the socket was closed here, or by the peer.
ReadFails ==
  /\ io = "idle" /\ rd # "none"
  /\ ~ sock \/ peer = "gone"
  /\ rd' = "none"
  /\ DoClose
  /\ UNCHANGED <<io, msgVars, queueVars, writeVars, idle,
                 awaiting_pong, peerVars, appVars>>

-----------------------------------------------------------------------------
(* The frame loop (ProcessFrameBuffer), one frame per step.                *)

\* The loop parses the next frame, f, and which becomes number Position.
Parse(f) ==
  /\ io = "frames"
  /\ Len(received) < MaxFrames
  /\ received' = Append(received, f)
  /\ UNCHANGED <<rd, peer>>

Position == Len(received) + 1

\* A Continuation frame that would take the message over the limit.
Overflows(f) ==
  /\ f.op = "cont"
  /\ Len(msg_payload) + 1 > MaxMessage

IsData(f) == f.op \in {"text", "binary", "cont"} /\ ~ Overflows(f)

\* A control frame in one piece; one that is fragmented, or longer than 125
\* bytes, has fin FALSE here.
IsControl(f) == f.op \in {"close", "ping", "pong"}

\* The loop looks at the state after a control frame, but not after a data frame.
AfterControlFrame == io' = IF state' = "Closed" THEN "idle" ELSE "frames"

FrameMalformed(f) ==
  /\ f.op = "malformed"
  /\ Parse(f)
  /\ io' = "idle"
  /\ DoClose
  /\ UNCHANGED <<msgVars, queueVars, writeVars, idle, awaiting_pong, appVars>>

FrameBadControl(f) ==
  /\ IsControl(f) /\ ~ f.fin
  /\ Parse(f)
  /\ io' = "idle"
  /\ RefreshHeartbeat
  /\ DoClose
  /\ UNCHANGED <<msgVars, queueVars, writeVars, appVars>>

FrameTooBig(f) ==
  /\ f.op = "oversize" \/ Overflows(f)
  /\ Parse(f)
  /\ io' = "idle"
  /\ Close
  /\ UNCHANGED <<msgVars, writeVars, beatVars, appVars>>

FrameClose(f) ==
  /\ f.op = "close" /\ f.fin
  /\ Parse(f)
  /\ RefreshHeartbeat
  /\ Close
  /\ AfterControlFrame
  /\ UNCHANGED <<msgVars, writeVars, timer, appVars>>

FramePing(f) ==
  /\ f.op = "ping" /\ f.fin
  /\ Parse(f)
  /\ RefreshHeartbeat
  /\ EnqueueFrame(PongItem(Position))
  /\ UNCHANGED connVars
  /\ AfterControlFrame
  /\ UNCHANGED <<msgVars, writeVars, timer, appVars>>

FramePong(f) ==
  /\ f.op = "pong" /\ f.fin
  /\ Parse(f)
  /\ RefreshHeartbeat
  /\ UNCHANGED connVars
  /\ AfterControlFrame
  /\ UNCHANGED <<msgVars, queueVars, writeVars, timer, appVars>>

\* HandleDataFrame closes the session, and the loop goes on.
FrameOutOfSequence(f) ==
  /\ IsData(f)
  /\ msg_started <=> (f.op # "cont")
  /\ Parse(f)
  /\ RefreshHeartbeat
  /\ DoClose
  /\ UNCHANGED <<io, msgVars, queueVars, writeVars, appVars>>

\* Mutant of FrameData: msg_payload_ is not cleared when a message is complete.
FrameDataKeeping(f) ==
  /\ IsData(f)
  /\ msg_started <=> (f.op = "cont")
  /\ Parse(f)
  /\ RefreshHeartbeat
  /\ LET fragments == Append(msg_payload, Position)
         opcode == IF msg_started THEN msg_opcode ELSE f.op
     IN  /\ msg_opcode' = opcode
         /\ msg_payload' = fragments
         /\ msg_started' = ~ f.fin
         /\ IF f.fin
              THEN delivered' = Append(delivered,
                     [frames |-> fragments, opcode |-> opcode, at |-> state])
              ELSE UNCHANGED delivered
  /\ UNCHANGED <<io, connVars, queueVars, writeVars, timer, appVars>>

\* The fragment is kept; FIN completes the message and delivers it.
FrameData(f) ==
  /\ IsData(f)
  /\ msg_started <=> (f.op = "cont")
  /\ Parse(f)
  /\ RefreshHeartbeat
  /\ LET fragments == Append(msg_payload, Position)
         opcode == IF msg_started THEN msg_opcode ELSE f.op
     IN  /\ msg_opcode' = opcode
         /\ IF f.fin
              THEN /\ delivered' = Append(delivered,
                       [frames |-> fragments, opcode |-> opcode, at |-> state])
                   /\ msg_started' = FALSE
                   /\ msg_payload' = <<>>
              ELSE /\ msg_started' = TRUE
                   /\ msg_payload' = fragments
                   /\ UNCHANGED delivered
  /\ UNCHANGED <<io, connVars, queueVars, writeVars, timer, appVars>>

\* The rest of the buffer holds no whole frame: read again, unless the session
\* is closing.
EndOfBuffer ==
  /\ io = "frames"
  /\ io' = "idle"
  /\ rd' = IF state \in {"Closed", "Closing"} THEN "none" ELSE "frame"
  /\ UNCHANGED <<connVars, msgVars, queueVars, writeVars, beatVars, peerVars,
                 appVars>>

-----------------------------------------------------------------------------
(* Writing (EnqueueFrame's posted function, DoWrite).                      *)

\* Mutant of RunPosted: a write is started for every frame.
RunPostedAlways ==
  /\ io = "idle" /\ posted # <<>>
  /\ posted' = Tail(posted)
  /\ send_queue' = Append(send_queue, Head(posted))
  /\ writing' = TRUE
  /\ writes' = writes + 1
  /\ UNCHANGED <<connVars, readVars, msgVars, submitted, written, wire,
                 beatVars, peerVars, appVars>>

\* Mutant of RunPosted: a Pong goes to the head of the queue.
RunPostedPongFirst ==
  /\ io = "idle" /\ posted # <<>>
  /\ posted' = Tail(posted)
  /\ send_queue' = IF Head(posted).kind = "pong"
                     THEN <<Head(posted)>> \o send_queue
                     ELSE Append(send_queue, Head(posted))
  /\ IF send_queue = <<>> /\ ~ writing
       THEN writing' = TRUE /\ writes' = writes + 1
       ELSE UNCHANGED <<writing, writes>>
  /\ UNCHANGED <<connVars, readVars, msgVars, submitted, written, wire,
                 beatVars, peerVars, appVars>>

RunPosted ==
  /\ io = "idle" /\ posted # <<>>
  /\ posted' = Tail(posted)
  /\ send_queue' = Append(send_queue, Head(posted))
  /\ IF send_queue = <<>> /\ ~ writing
       THEN writing' = TRUE /\ writes' = writes + 1
       ELSE UNCHANGED <<writing, writes>>
  /\ UNCHANGED <<connVars, readVars, msgVars, submitted, written, wire,
                 beatVars, peerVars, appVars>>

\* The frame of the outstanding write reaches the socket.
SocketWrites ==
  /\ writes > 0 /\ ~ written /\ sock
  /\ written' = TRUE
  /\ wire' = Append(wire, Head(send_queue))
  /\ UNCHANGED <<connVars, readVars, msgVars, queueVars, send_queue, writing,
                 writes, beatVars, peerVars, appVars>>

\* Mutant of WriteDone: a Close frame is handled like any other.
WriteDoneIgnoringClose ==
  /\ io = "idle" /\ writes > 0 /\ written
  /\ send_queue' = Tail(send_queue)
  /\ written' = FALSE
  /\ IF Tail(send_queue) # <<>>
       THEN UNCHANGED <<writing, writes>>
       ELSE writing' = FALSE /\ writes' = writes - 1
  /\ UNCHANGED <<connVars, timer, readVars, msgVars, queueVars, wire, idle,
                 awaiting_pong, peerVars, appVars>>

\* Mutant of WriteDone: the next frame is left for the next EnqueueFrame.
WriteDoneStopping ==
  /\ io = "idle" /\ writes > 0 /\ written
  /\ send_queue' = Tail(send_queue)
  /\ written' = FALSE
  /\ writing' = FALSE /\ writes' = writes - 1
  /\ IF Head(send_queue).kind = "close"
       THEN DoClose
       ELSE UNCHANGED <<connVars, timer>>
  /\ UNCHANGED <<readVars, msgVars, queueVars, wire, idle, awaiting_pong,
                 peerVars, appVars>>

\* The handler of a write that succeeded.  A Close frame ends the session.
WriteDone ==
  /\ io = "idle" /\ writes > 0 /\ written
  /\ send_queue' = Tail(send_queue)
  /\ written' = FALSE
  /\ IF Head(send_queue).kind = "close"
       THEN /\ writing' = FALSE /\ writes' = writes - 1
            /\ DoClose
       ELSE /\ IF Tail(send_queue) # <<>>
                 THEN UNCHANGED <<writing, writes>>
                 ELSE writing' = FALSE /\ writes' = writes - 1
            /\ UNCHANGED <<connVars, timer>>
  /\ UNCHANGED <<readVars, msgVars, queueVars, wire, idle, awaiting_pong,
                 peerVars, appVars>>

WriteFails ==
  /\ io = "idle" /\ writes > 0 /\ ~ written
  /\ ~ sock \/ peer = "gone"
  /\ send_queue' = Tail(send_queue)
  /\ writing' = FALSE
  /\ writes' = writes - 1
  /\ DoClose
  /\ UNCHANGED <<readVars, msgVars, queueVars, written, wire, idle,
                 awaiting_pong, peerVars, appVars>>

-----------------------------------------------------------------------------
(* The heartbeat (OnHeartbeatTimer).                                       *)

Tick ==
  /\ io = "idle" /\ timer \in 1..Interval
  /\ timer' = timer - 1
  /\ idle' = idle + 1
  /\ UNCHANGED <<connVars, readVars, msgVars, queueVars, writeVars,
                 awaiting_pong, peerVars, appVars>>

TimerStops ==
  /\ io = "idle" /\ timer = 0
  /\ state # "Active"
  /\ timer' = Off
  /\ UNCHANGED <<connVars, readVars, msgVars, queueVars, writeVars, idle,
                 awaiting_pong, peerVars, appVars>>

TimerCloses ==
  /\ io = "idle" /\ timer = 0
  /\ state = "Active" /\ awaiting_pong /\ idle >= Timeout
  /\ DoClose
  /\ UNCHANGED <<readVars, msgVars, queueVars, writeVars, idle, awaiting_pong,
                 peerVars, appVars>>

\* Mutant of TimerPings: the timer is not armed again after the Ping.
TimerPingsOnce ==
  /\ io = "idle" /\ timer = 0
  /\ state = "Active" /\ ~ awaiting_pong /\ idle >= Interval
  /\ awaiting_pong' = TRUE
  /\ EnqueueFrame(PingItem)
  /\ timer' = Off
  /\ UNCHANGED <<connVars, readVars, msgVars, writeVars, idle, peerVars, appVars>>

\* Mutant of TimerPings: awaiting_pong_ is not set.
TimerPingsAgain ==
  /\ io = "idle" /\ timer = 0
  /\ state = "Active" /\ ~ awaiting_pong /\ idle >= Interval
  /\ EnqueueFrame(PingItem)
  /\ timer' = Interval
  /\ UNCHANGED <<connVars, readVars, msgVars, writeVars, idle, awaiting_pong,
                 peerVars, appVars>>

TimerPings ==
  /\ io = "idle" /\ timer = 0
  /\ state = "Active" /\ ~ awaiting_pong /\ idle >= Interval
  /\ awaiting_pong' = TRUE
  /\ EnqueueFrame(PingItem)
  /\ timer' = Interval
  /\ UNCHANGED <<connVars, readVars, msgVars, writeVars, idle, peerVars, appVars>>

TimerRearms ==
  /\ io = "idle" /\ timer = 0
  /\ state = "Active"
  /\ idle < (IF awaiting_pong THEN Timeout ELSE Interval)
  /\ timer' = Interval
  /\ UNCHANGED <<connVars, readVars, msgVars, queueVars, writeVars, idle,
                 awaiting_pong, peerVars, appVars>>

-----------------------------------------------------------------------------
(* Application threads.                                                    *)

\* SendText or SendBinary: neither looks at the state.  The session is known to
\* the application from the open handler on.
AppSends ==
  /\ state # "Handshaking"
  /\ sends < MaxSends
  /\ sends' = sends + 1
  /\ EnqueueFrame(DataItem(sends + 1))
  /\ UNCHANGED <<connVars, readVars, msgVars, writeVars, beatVars, peerVars, app>>

\* Close tests the state ...
AppChecksState(a) ==
  /\ app[a] = "idle"
  /\ state = "Active"
  /\ app' = [app EXCEPT ![a] = "checked"]
  /\ UNCHANGED <<connVars, readVars, msgVars, queueVars, writeVars, beatVars,
                 peerVars, sends>>

\* ... and then sets it, whatever has become of it since.
AppCloses(a) ==
  /\ app[a] = "checked"
  /\ app' = [app EXCEPT ![a] = "done"]
  /\ state' = "Closing"
  /\ EnqueueFrame(CloseItem)
  /\ UNCHANGED <<sock, closes, readVars, msgVars, writeVars, beatVars, peerVars,
                 sends>>

-----------------------------------------------------------------------------
(* The peer.                                                               *)

PeerStalls ==
  /\ peer = "up"
  /\ peer' = "stalled"
  /\ UNCHANGED <<connVars, readVars, msgVars, queueVars, writeVars, beatVars,
                 received, appVars>>

PeerLeaves ==
  /\ peer # "gone"
  /\ peer' = "gone"
  /\ UNCHANGED <<connVars, readVars, msgVars, queueVars, writeVars, beatVars,
                 received, appVars>>

-----------------------------------------------------------------------------
ProcessFrame ==
  \/ \E f \in ClientFrames :
       \/ FrameMalformed(f)
       \/ FrameBadControl(f)
       \/ FrameTooBig(f)
       \/ FrameClose(f)
       \/ FramePing(f)
       \/ FramePong(f)
       \/ FrameOutOfSequence(f)
       \/ FrameData(f)
  \/ EndOfBuffer

TimerFires ==
  \/ TimerStops
  \/ TimerCloses
  \/ TimerPings
  \/ TimerRearms

Next ==
  \/ \E more \in BOOLEAN : HandshakeAccepted(more)
  \/ HandshakeRejected
  \/ ReadFrames
  \/ ReadFails
  \/ ProcessFrame
  \/ RunPosted
  \/ SocketWrites
  \/ WriteDone
  \/ WriteFails
  \/ Tick
  \/ TimerFires
  \/ AppSends
  \/ \E a \in Apps : AppChecksState(a) \/ AppCloses(a)
  \/ PeerStalls
  \/ PeerLeaves

Spec == Init /\ [][Next]_vars

\* The io thread runs its handlers in the order in which they became ready, so
\* each one runs however many reads come in between; an application thread that
\* has entered Close leaves it; time passes; a peer that reads takes what is
\* written to it; and a connection that is closed or gone holds only finitely
\* many bytes, so that a read from it fails in the end.
Fairness ==
  /\ WF_vars(ProcessFrame)
  /\ SF_vars(ReadFails)
  /\ SF_vars(RunPosted)
  /\ SF_vars(WriteDone)
  /\ SF_vars(WriteFails)
  /\ SF_vars(TimerFires)
  /\ SF_vars(Tick)
  /\ WF_vars(peer = "up" /\ SocketWrites)
  /\ \A a \in Apps : WF_vars(AppCloses(a))

FairSpec == Spec /\ Fairness

-----------------------------------------------------------------------------
(* Properties.                                                             *)

\* The variables have their types, and the history no more than its bound.
FlagTypes ==
  /\ sock \in BOOLEAN
  /\ msg_started \in BOOLEAN
  /\ writing \in BOOLEAN
  /\ written \in BOOLEAN
  /\ awaiting_pong \in BOOLEAN

ControlTypes ==
  /\ state \in States
  /\ rd \in {"none", "handshake", "frame"}
  /\ io \in {"idle", "frames"}
  /\ peer \in {"up", "stalled", "gone"}
  /\ app \in [Apps -> {"idle", "checked", "done"}]
  /\ closes \in Nat
  /\ writes \in Nat
  /\ sends \in Nat
  /\ timer \in 0..Off
  /\ idle \in Nat

MessageTypes ==
  /\ received \in Seq(ClientFrames)
  /\ Len(received) <= MaxFrames
  /\ msg_opcode \in OpCodes
  /\ msg_payload \in Seq(1..Len(received))
  /\ delivered \in Seq(Message)

QueueTypes ==
  /\ posted \in Seq(Item)
  /\ submitted \in Seq(Item)
  /\ send_queue \in Seq(Item)
  /\ wire \in Seq(Item)

TypeOK ==
  /\ FlagTypes
  /\ ControlTypes
  /\ MessageTypes
  /\ QueueTypes

\* At most one async_write is outstanding on the socket, however enqueueing,
\* write completions and the failure of a write follow each other: two would
\* interleave the bytes of two frames (EnqueueFrame, DoWrite).
SingleWriter == writes <= 1

\* Nothing is written after a Close frame, though the application may go on
\* sending and several closers may each enqueue one (RFC 6455 5.5.1; DoWrite).
NothingAfterClose ==
  \A i \in 1..Len(wire) : wire[i].kind = "close" => i = Len(wire)

\* A session that is Active is never deaf: between handlers its next read is
\* outstanding and its heartbeat timer is armed.
NeverDeaf ==
  state = "Active" /\ io = "idle" => rd = "frame" /\ timer # Off

\* Frames a and b of the history h follow each other in a message: only control
\* frames lie between them.
Consecutive(h, a, b) ==
  /\ a < b
  /\ \A k \in (a + 1)..(b - 1) : h[k].op \in {"ping", "pong"}

\* The frames of h at these positions are a message of this opcode, or the first
\* part of one: Continuations follow the first fragment in order, none after a
\* FIN, and no more of them than the limit allows.
Assembled(h, frames, opcode) ==
  /\ Len(frames) \in 1..MaxMessage
  /\ opcode \in {"text", "binary"}
  /\ h[frames[1]].op = opcode
  /\ \A j \in 1..(Len(frames) - 1) :
       /\ ~ h[frames[j]].fin
       /\ h[frames[j + 1]].op = "cont"
       /\ Consecutive(h, frames[j], frames[j + 1])

\* A message delivered by an Active session is exactly one message of the peer:
\* first fragment first, Continuations in order with only control frames
\* between them, the last one FIN, under the opcode of the first, within the
\* size limit (HandleDataFrame, DeliverMessage).
ReassemblyExact ==
  \A i \in 1..Len(delivered) :
    LET m == delivered[i]
    IN  m.at = "Active" =>
          /\ Assembled(received, m.frames, m.opcode)
          /\ received[m.frames[Len(m.frames)]].fin

\* A peer that says nothing is noticed: the timer first pings it, at the latest
\* two intervals after the last frame, and closes the session at the first later
\* expiry with heartbeat_timeout gone (OnHeartbeatTimer).  An Active session is
\* therefore never idle for an interval more than the greater of the two.
LongestWait == IF Timeout > 2 * Interval THEN Timeout ELSE 2 * Interval

IdleBounded == state = "Active" => idle < LongestWait + Interval

-----------------------------------------------------------------------------
(* The inductive invariants behind SingleWriter, NothingAfterClose and the     *)
(* refinement of WsOutbox (OutboxInv), behind NeverDeaf and IdleBounded        *)
(* (BeatInv), and behind ReassemblyExact (MessageInv).                         *)

\* A write is outstanding exactly while writing_ says so, and then its frame is
\* the head of the queue.
WriterInv ==
  /\ writes = IF writing THEN 1 ELSE 0
  /\ writes > 0 => send_queue # <<>>

\* The position in submitted just before the head of the send queue: a frame that
\* is on the wire stays in the queue until its write handler runs.
Before == Len(wire) - (IF written THEN 1 ELSE 0)

\* From position b on, s holds first the items of q and then those of p.
Aligned(s, b, q, p) ==
  /\ Len(s) = b + Len(q) + Len(p)
  /\ \A i \in 1..Len(q) : s[b + i] = q[i]
  /\ \A i \in 1..Len(p) : s[b + Len(q) + i] = p[i]

\* While the socket is open the frames submitted are those on the wire, then
\* those in the queue, then those posted, in this order.
Ordered == sock => Aligned(submitted, Before, send_queue, posted)

\* A Close frame on the wire is the last frame there, and as long as the socket
\* is open its write handler is still to run.
ClosePending ==
  \A i \in 1..Len(wire) :
    wire[i].kind = "close" =>
      /\ i = Len(wire)
      /\ sock => written /\ Head(send_queue).kind = "close"

OutboxInv ==
  /\ TypeOK
  /\ WriterInv
  /\ written => writing /\ Len(wire) > 0
  /\ Ordered
  /\ ClosePending

\* A timer that is armed has seen Elapsed ticks.  Without an outstanding Ping the
\* session was idle for less than an interval when the timer was armed, and with
\* one for less than LongestWait.
Elapsed == Interval - timer

BeatInv ==
  state = "Active" =>
    /\ timer # Off
    /\ io = "idle" => rd = "frame"
    /\ idle < (IF awaiting_pong THEN LongestWait ELSE Interval) + Elapsed

\* What an Active session has kept of a message is the beginning of one message
\* of the peer, and only control frames have come since its last fragment.
Underway ==
  state = "Active" =>
    IF msg_started
      THEN LET last == msg_payload[Len(msg_payload)]
           IN  /\ Assembled(received, msg_payload, msg_opcode)
               /\ ~ received[last].fin
               /\ Consecutive(received, last, Len(received) + 1)
      ELSE msg_payload = <<>>

\* No message is begun before the handshake, after which the session is Active.
Unbegun ==
  rd = "handshake" => io = "idle" /\ ~ msg_started /\ msg_payload = <<>>

\* The fragments of a delivered message are in the history.
Recorded ==
  \A i \in 1..Len(delivered) : delivered[i].frames \in Seq(1..Len(received))

MessageInv == Unbegun /\ Underway /\ Recorded /\ ReassemblyExact

-----------------------------------------------------------------------------
\* The session implements the ordered, at-most-once outbox of WsOutbox.
Outbox == INSTANCE WsOutbox WITH Items <- Item, open <- sock
OutboxSpec == Outbox!Spec

\* A Ping is answered with a Pong unless the connection goes down or the peer
\* stops reading: replies are not lost behind other frames in the queue.
PingAnswered ==
  \A i \in 1..MaxFrames :
    (\E j \in 1..Len(submitted) : submitted[j] = PongItem(i))
      ~> \/ \E j \in 1..Len(wire) : wire[j] = PongItem(i)
         \/ ~ sock
         \/ peer # "up"

\* Once a session is closing its connection goes down, whoever began it and
\* whatever is still queued before the Close frame, unless the peer has stopped
\* reading (Close, HandleControlFrame, DoWrite).  The state itself may stay
\* Closing: an application thread can set it on a session already closed.
CloseCompletes == state = "Closing" ~> ~ sock \/ peer = "stalled"

\* The close handler runs once: ws_session.cpp:512 promises that the
\* compare-exchange lets the closing sequence run only once.
CloseHandlerOnce == closes <= 1
=============================================================================
