-------------------------- MODULE WsSession_proofs --------------------------
(***************************************************************************)
(* Proofs about WsSession, for any number of application threads, any      *)
(* frames of the peer and any heartbeat options:                           *)
(*   - Typing, the type invariant;                                         *)
(*   - SingleWriterHolds, NothingAfterCloseHolds and OutboxRefined, from   *)
(*     the inductive invariant OutboxInv about the send queue;             *)
(*   - NeverDeafHolds and IdleBoundedHolds, from the inductive invariant   *)
(*     BeatInv about the heartbeat timer;                                  *)
(*   - ReassemblyExactHolds, from the inductive invariant MessageInv about *)
(*     the message under assembly.                                         *)
(***************************************************************************)
EXTENDS WsSession, TLAPS

USE DEF connVars, readVars, msgVars, queueVars, writeVars, beatVars, peerVars,
        appVars, vars

-----------------------------------------------------------------------------
(* Types, one group of variables at a time.                                *)

\* The flags stay Boolean.
LEMMA FlagStep ==
  ASSUME FlagTypes, Next
  PROVE  FlagTypes'
<1>1. ASSUME NEW more \in BOOLEAN, HandshakeAccepted(more) PROVE FlagTypes'
  BY <1>1 DEF FlagTypes, HandshakeAccepted, RefreshHeartbeat
<1>2. CASE HandshakeRejected
  BY <1>2 DEF FlagTypes, HandshakeRejected, DoClose
<1>3. CASE ReadFrames
  BY <1>3 DEF FlagTypes, ReadFrames
<1>4. CASE ReadFails
  BY <1>4 DEF FlagTypes, ReadFails, DoClose
<1>5. ASSUME NEW f \in ClientFrames, FrameMalformed(f) PROVE FlagTypes'
  BY <1>5 DEF FlagTypes, FrameMalformed, Parse, DoClose
<1>6. ASSUME NEW f \in ClientFrames, FrameBadControl(f) PROVE FlagTypes'
  BY <1>6 DEF FlagTypes, FrameBadControl, Parse, DoClose, RefreshHeartbeat
<1>7. ASSUME NEW f \in ClientFrames, FrameTooBig(f) PROVE FlagTypes'
  BY <1>7 DEF FlagTypes, FrameTooBig, Parse, Close, EnqueueFrame
<1>8. ASSUME NEW f \in ClientFrames, FrameClose(f) PROVE FlagTypes'
  BY <1>8 DEF FlagTypes, FrameClose, Parse, Close, EnqueueFrame, RefreshHeartbeat, AfterControlFrame
<1>9. ASSUME NEW f \in ClientFrames, FramePing(f) PROVE FlagTypes'
  BY <1>9 DEF FlagTypes, FramePing, Parse, EnqueueFrame, RefreshHeartbeat, AfterControlFrame
<1>10. ASSUME NEW f \in ClientFrames, FramePong(f) PROVE FlagTypes'
  BY <1>10 DEF FlagTypes, FramePong, Parse, RefreshHeartbeat, AfterControlFrame
<1>11. ASSUME NEW f \in ClientFrames, FrameOutOfSequence(f) PROVE FlagTypes'
  BY <1>11 DEF FlagTypes, FrameOutOfSequence, Parse, DoClose, RefreshHeartbeat
<1>12. ASSUME NEW f \in ClientFrames, FrameData(f) PROVE FlagTypes'
  BY <1>12 DEF FlagTypes, FrameData, Parse, RefreshHeartbeat
<1>13. CASE EndOfBuffer
  BY <1>13 DEF FlagTypes, EndOfBuffer
<1>14. CASE RunPosted
  BY <1>14 DEF FlagTypes, RunPosted
<1>15. CASE SocketWrites
  BY <1>15 DEF FlagTypes, SocketWrites
<1>16. CASE WriteDone
  BY <1>16 DEF FlagTypes, WriteDone, DoClose
<1>17. CASE WriteFails
  BY <1>17 DEF FlagTypes, WriteFails, DoClose
<1>18. CASE Tick
  BY <1>18 DEF FlagTypes, Tick
<1>19. CASE TimerStops
  BY <1>19 DEF FlagTypes, TimerStops
<1>20. CASE TimerCloses
  BY <1>20 DEF FlagTypes, TimerCloses, DoClose
<1>21. CASE TimerPings
  BY <1>21 DEF FlagTypes, TimerPings, EnqueueFrame
<1>22. CASE TimerRearms
  BY <1>22 DEF FlagTypes, TimerRearms
<1>23. CASE AppSends
  BY <1>23 DEF FlagTypes, AppSends, EnqueueFrame
<1>24. ASSUME NEW a \in Apps, AppChecksState(a) PROVE FlagTypes'
  BY <1>24 DEF FlagTypes, AppChecksState
<1>25. ASSUME NEW a \in Apps, AppCloses(a) PROVE FlagTypes'
  BY <1>25 DEF FlagTypes, AppCloses, EnqueueFrame
<1>26. CASE PeerStalls
  BY <1>26 DEF FlagTypes, PeerStalls
<1>27. CASE PeerLeaves
  BY <1>27 DEF FlagTypes, PeerLeaves
<1> QED
  BY <1>1, <1>2, <1>3, <1>4, <1>5, <1>6, <1>7, <1>8, <1>9,
     <1>10, <1>11, <1>12, <1>13, <1>14, <1>15, <1>16, <1>17, <1>18,
     <1>19, <1>20, <1>21, <1>22, <1>23, <1>24, <1>25, <1>26, <1>27
     DEF Next, ProcessFrame, TimerFires

\* States, places in handlers, counters and the timer stay in their ranges.
LEMMA ControlStep ==
  ASSUME ControlTypes, Next
  PROVE  ControlTypes'
<1>1. ASSUME NEW more \in BOOLEAN, HandshakeAccepted(more) PROVE ControlTypes'
  BY <1>1, ConstantsAssumption DEF ControlTypes, ConstantsAssumption, States, Off, HandshakeAccepted, RefreshHeartbeat
<1>2. CASE HandshakeRejected
  BY <1>2, ConstantsAssumption DEF ControlTypes, ConstantsAssumption, States, Off, HandshakeRejected, DoClose
<1>3. CASE ReadFrames
  BY <1>3, ConstantsAssumption DEF ControlTypes, ConstantsAssumption, States, Off, ReadFrames
<1>4. CASE ReadFails
  BY <1>4, ConstantsAssumption DEF ControlTypes, ConstantsAssumption, States, Off, ReadFails, DoClose
<1>5. ASSUME NEW f \in ClientFrames, FrameMalformed(f) PROVE ControlTypes'
  BY <1>5, ConstantsAssumption DEF ControlTypes, ConstantsAssumption, States, Off, FrameMalformed, Parse, DoClose
<1>6. ASSUME NEW f \in ClientFrames, FrameBadControl(f) PROVE ControlTypes'
  BY <1>6, ConstantsAssumption DEF ControlTypes, ConstantsAssumption, States, Off, FrameBadControl, Parse, DoClose, RefreshHeartbeat
<1>7. ASSUME NEW f \in ClientFrames, FrameTooBig(f) PROVE ControlTypes'
  BY <1>7, ConstantsAssumption DEF ControlTypes, ConstantsAssumption, States, Off, FrameTooBig, Parse, Close, EnqueueFrame
<1>8. ASSUME NEW f \in ClientFrames, FrameClose(f) PROVE ControlTypes'
  BY <1>8, ConstantsAssumption DEF ControlTypes, ConstantsAssumption, States, Off, FrameClose, Parse, Close, EnqueueFrame, RefreshHeartbeat, AfterControlFrame
<1>9. ASSUME NEW f \in ClientFrames, FramePing(f) PROVE ControlTypes'
  BY <1>9, ConstantsAssumption DEF ControlTypes, ConstantsAssumption, States, Off, FramePing, Parse, EnqueueFrame, RefreshHeartbeat, AfterControlFrame
<1>10. ASSUME NEW f \in ClientFrames, FramePong(f) PROVE ControlTypes'
  BY <1>10, ConstantsAssumption DEF ControlTypes, ConstantsAssumption, States, Off, FramePong, Parse, RefreshHeartbeat, AfterControlFrame
<1>11. ASSUME NEW f \in ClientFrames, FrameOutOfSequence(f) PROVE ControlTypes'
  BY <1>11, ConstantsAssumption DEF ControlTypes, ConstantsAssumption, States, Off, FrameOutOfSequence, Parse, DoClose, RefreshHeartbeat
<1>12. ASSUME NEW f \in ClientFrames, FrameData(f) PROVE ControlTypes'
  BY <1>12, ConstantsAssumption DEF ControlTypes, ConstantsAssumption, States, Off, FrameData, Parse, RefreshHeartbeat
<1>13. CASE EndOfBuffer
  BY <1>13, ConstantsAssumption DEF ControlTypes, ConstantsAssumption, States, Off, EndOfBuffer
<1>14. CASE RunPosted
  BY <1>14, ConstantsAssumption DEF ControlTypes, ConstantsAssumption, States, Off, RunPosted
<1>15. CASE SocketWrites
  BY <1>15, ConstantsAssumption DEF ControlTypes, ConstantsAssumption, States, Off, SocketWrites
<1>16. CASE WriteDone
  BY <1>16, ConstantsAssumption DEF ControlTypes, ConstantsAssumption, States, Off, WriteDone, DoClose
<1>17. CASE WriteFails
  BY <1>17, ConstantsAssumption DEF ControlTypes, ConstantsAssumption, States, Off, WriteFails, DoClose
<1>18. CASE Tick
  BY <1>18, ConstantsAssumption DEF ControlTypes, ConstantsAssumption, States, Off, Tick
<1>19. CASE TimerStops
  BY <1>19, ConstantsAssumption DEF ControlTypes, ConstantsAssumption, States, Off, TimerStops
<1>20. CASE TimerCloses
  BY <1>20, ConstantsAssumption DEF ControlTypes, ConstantsAssumption, States, Off, TimerCloses, DoClose
<1>21. CASE TimerPings
  BY <1>21, ConstantsAssumption DEF ControlTypes, ConstantsAssumption, States, Off, TimerPings, EnqueueFrame
<1>22. CASE TimerRearms
  BY <1>22, ConstantsAssumption DEF ControlTypes, ConstantsAssumption, States, Off, TimerRearms
<1>23. CASE AppSends
  BY <1>23, ConstantsAssumption DEF ControlTypes, ConstantsAssumption, States, Off, AppSends, EnqueueFrame
<1>24. ASSUME NEW a \in Apps, AppChecksState(a) PROVE ControlTypes'
  BY <1>24, ConstantsAssumption DEF ControlTypes, ConstantsAssumption, States, Off, AppChecksState
<1>25. ASSUME NEW a \in Apps, AppCloses(a) PROVE ControlTypes'
  BY <1>25, ConstantsAssumption DEF ControlTypes, ConstantsAssumption, States, Off, AppCloses, EnqueueFrame
<1>26. CASE PeerStalls
  BY <1>26, ConstantsAssumption DEF ControlTypes, ConstantsAssumption, States, Off, PeerStalls
<1>27. CASE PeerLeaves
  BY <1>27, ConstantsAssumption DEF ControlTypes, ConstantsAssumption, States, Off, PeerLeaves
<1> QED
  BY <1>1, <1>2, <1>3, <1>4, <1>5, <1>6, <1>7, <1>8, <1>9,
     <1>10, <1>11, <1>12, <1>13, <1>14, <1>15, <1>16, <1>17, <1>18,
     <1>19, <1>20, <1>21, <1>22, <1>23, <1>24, <1>25, <1>26, <1>27
     DEF Next, ProcessFrame, TimerFires

\* A received frame only lengthens the history that the fragments point into.
LEMMA MessageStep ==
  ASSUME MessageTypes, state \in States, Next
  PROVE  MessageTypes'
<1>1. ASSUME NEW more \in BOOLEAN, HandshakeAccepted(more) PROVE MessageTypes'
  BY <1>1, ConstantsAssumption DEF MessageTypes, HandshakeAccepted
<1>2. CASE HandshakeRejected
  BY <1>2, ConstantsAssumption DEF MessageTypes, HandshakeRejected
<1>3. CASE ReadFrames
  BY <1>3, ConstantsAssumption DEF MessageTypes, ReadFrames
<1>4. CASE ReadFails
  BY <1>4, ConstantsAssumption DEF MessageTypes, ReadFails
<1>5. ASSUME NEW f \in ClientFrames, FrameMalformed(f) PROVE MessageTypes'
  BY <1>5, ConstantsAssumption DEF MessageTypes, FrameMalformed, Parse
<1>6. ASSUME NEW f \in ClientFrames, FrameBadControl(f) PROVE MessageTypes'
  BY <1>6, ConstantsAssumption DEF MessageTypes, FrameBadControl, Parse
<1>7. ASSUME NEW f \in ClientFrames, FrameTooBig(f) PROVE MessageTypes'
  BY <1>7, ConstantsAssumption DEF MessageTypes, FrameTooBig, Parse
<1>8. ASSUME NEW f \in ClientFrames, FrameClose(f) PROVE MessageTypes'
  BY <1>8, ConstantsAssumption DEF MessageTypes, FrameClose, Parse
<1>9. ASSUME NEW f \in ClientFrames, FramePing(f) PROVE MessageTypes'
  BY <1>9, ConstantsAssumption DEF MessageTypes, FramePing, Parse
<1>10. ASSUME NEW f \in ClientFrames, FramePong(f) PROVE MessageTypes'
  BY <1>10, ConstantsAssumption DEF MessageTypes, FramePong, Parse
<1>11. ASSUME NEW f \in ClientFrames, FrameOutOfSequence(f) PROVE MessageTypes'
  BY <1>11, ConstantsAssumption DEF MessageTypes, FrameOutOfSequence, Parse
<1>12. ASSUME NEW f \in ClientFrames, FrameData(f) PROVE MessageTypes'
  <2> DEFINE fragments == Append(msg_payload, Position)
             opcode == IF msg_started THEN msg_opcode ELSE f.op
  <2>1. /\ received' \in Seq(ClientFrames)
        /\ Len(received') <= MaxFrames
        /\ Len(received') = Len(received) + 1
    BY <1>12, ConstantsAssumption DEF MessageTypes, FrameData, Parse
  <2>2. /\ fragments \in Seq(1..Len(received'))
        /\ msg_payload \in Seq(1..Len(received'))
        /\ fragments \in Seq(Nat)
    <3>1. Position \in 1..Len(received') /\ Position \in Nat
      BY <2>1 DEF Position, MessageTypes
    <3>2. msg_payload \in Seq(1..Len(received')) /\ msg_payload \in Seq(Nat)
      BY <2>1 DEF MessageTypes
    <3> QED
      BY <3>1, <3>2
  <2>3. opcode \in OpCodes
    BY <1>12, ConstantsAssumption
       DEF ConstantsAssumption, MessageTypes, FrameData, IsData, Frame, OpCodes
  <2>4. [frames |-> fragments, opcode |-> opcode, at |-> state] \in Message
    BY <2>2, <2>3 DEF Message
  <2>5. msg_opcode' \in OpCodes
    BY <1>12, <2>3 DEF FrameData
  <2>6. CASE f.fin
    <3>1. msg_payload' = <<>>
      BY <1>12, <2>6 DEF FrameData
    <3>2. delivered' = Append(delivered,
                         [frames |-> fragments, opcode |-> opcode, at |-> state])
      BY <1>12, <2>6 DEF FrameData
    <3>3. delivered' \in Seq(Message)
      BY <3>2, <2>4 DEF MessageTypes
    <3> QED
      BY <2>1, <2>5, <3>1, <3>3 DEF MessageTypes
  <2>7. CASE ~ f.fin
    <3>1. msg_payload' = fragments /\ delivered' = delivered
      BY <1>12, <2>7 DEF FrameData
    <3> QED
      BY <2>1, <2>2, <2>5, <3>1 DEF MessageTypes
  <2> QED
    BY <2>6, <2>7
<1>13. CASE EndOfBuffer
  BY <1>13, ConstantsAssumption DEF MessageTypes, EndOfBuffer
<1>14. CASE RunPosted
  BY <1>14, ConstantsAssumption DEF MessageTypes, RunPosted
<1>15. CASE SocketWrites
  BY <1>15, ConstantsAssumption DEF MessageTypes, SocketWrites
<1>16. CASE WriteDone
  BY <1>16, ConstantsAssumption DEF MessageTypes, WriteDone
<1>17. CASE WriteFails
  BY <1>17, ConstantsAssumption DEF MessageTypes, WriteFails
<1>18. CASE Tick
  BY <1>18, ConstantsAssumption DEF MessageTypes, Tick
<1>19. CASE TimerStops
  BY <1>19, ConstantsAssumption DEF MessageTypes, TimerStops
<1>20. CASE TimerCloses
  BY <1>20, ConstantsAssumption DEF MessageTypes, TimerCloses
<1>21. CASE TimerPings
  BY <1>21, ConstantsAssumption DEF MessageTypes, TimerPings
<1>22. CASE TimerRearms
  BY <1>22, ConstantsAssumption DEF MessageTypes, TimerRearms
<1>23. CASE AppSends
  BY <1>23, ConstantsAssumption DEF MessageTypes, AppSends
<1>24. ASSUME NEW a \in Apps, AppChecksState(a) PROVE MessageTypes'
  BY <1>24, ConstantsAssumption DEF MessageTypes, AppChecksState
<1>25. ASSUME NEW a \in Apps, AppCloses(a) PROVE MessageTypes'
  BY <1>25, ConstantsAssumption DEF MessageTypes, AppCloses
<1>26. CASE PeerStalls
  BY <1>26, ConstantsAssumption DEF MessageTypes, PeerStalls
<1>27. CASE PeerLeaves
  BY <1>27, ConstantsAssumption DEF MessageTypes, PeerLeaves
<1> QED
  BY <1>1, <1>2, <1>3, <1>4, <1>5, <1>6, <1>7, <1>8, <1>9,
     <1>10, <1>11, <1>12, <1>13, <1>14, <1>15, <1>16, <1>17, <1>18,
     <1>19, <1>20, <1>21, <1>22, <1>23, <1>24, <1>25, <1>26, <1>27
     DEF Next, ProcessFrame, TimerFires

-----------------------------------------------------------------------------
(* The send queue.                                                         *)

\* Every frame a handler submits is an Item.
LEMMA ItemTypes ==
  ASSUME TypeOK
  PROVE  /\ CloseItem \in Item
         /\ PingItem \in Item
         /\ Len(received) < MaxFrames => PongItem(Position) \in Item
         /\ sends < MaxSends => DataItem(sends + 1) \in Item
<1>1. MaxFrames \in Nat /\ MaxSends \in Nat /\ sends \in Nat /\ Len(received) \in Nat
  BY ConstantsAssumption
     DEF ConstantsAssumption, TypeOK, ControlTypes, MessageTypes
<1>2. CloseItem \in Item /\ PingItem \in Item
  BY <1>1 DEF Item, CloseItem, PingItem
<1>3. Len(received) < MaxFrames => PongItem(Position) \in Item
  BY <1>1 DEF Item, PongItem, Position
<1>4. sends < MaxSends => DataItem(sends + 1) \in Item
  BY <1>1 DEF Item, DataItem
<1> QED
  BY <1>2, <1>3, <1>4

\* What a step does to the queue and the socket: nothing but perhaps closing the
\* socket, or a submission, or one of the four steps of the writer.
Keeps == UNCHANGED <<queueVars, writeVars>> /\ sock' \in {sock, FALSE}

Submits(item) == EnqueueFrame(item) /\ UNCHANGED <<writeVars, sock>>

OutboxStep ==
  \/ Keeps
  \/ \E item \in Item : Submits(item)
  \/ RunPosted
  \/ SocketWrites
  \/ WriteDone
  \/ WriteFails

\* Close called on the io thread submits a Close frame or leaves the queues alone.
LEMMA CloseShape ==
  ASSUME TypeOK, Close, UNCHANGED writeVars
  PROVE  OutboxStep
<1>1. CASE state = "Active"
  BY <1>1, ItemTypes DEF Close, OutboxStep, Submits
<1>2. CASE state # "Active"
  BY <1>2 DEF Close, OutboxStep, Keeps
<1> QED
  BY <1>1, <1>2

\* What each step does to the queues: it submits a frame, runs a posted
\* function, writes, finishes a write, or leaves all of them alone.
LEMMA OutboxShapes ==
  ASSUME TypeOK, Next
  PROVE  OutboxStep
<1>1. ASSUME NEW more \in BOOLEAN, HandshakeAccepted(more) PROVE OutboxStep
  BY <1>1 DEF OutboxStep, Keeps, HandshakeAccepted, RefreshHeartbeat
<1>2. CASE HandshakeRejected
  BY <1>2 DEF OutboxStep, Keeps, HandshakeRejected, DoClose
<1>3. CASE ReadFrames
  BY <1>3 DEF OutboxStep, Keeps, ReadFrames
<1>4. CASE ReadFails
  BY <1>4 DEF OutboxStep, Keeps, ReadFails, DoClose
<1>5. ASSUME NEW f \in ClientFrames, FrameMalformed(f) PROVE OutboxStep
  BY <1>5 DEF OutboxStep, Keeps, FrameMalformed, Parse, DoClose
<1>6. ASSUME NEW f \in ClientFrames, FrameBadControl(f) PROVE OutboxStep
  BY <1>6 DEF OutboxStep, Keeps, FrameBadControl, Parse, DoClose, RefreshHeartbeat
<1>7. ASSUME NEW f \in ClientFrames, FrameTooBig(f) PROVE OutboxStep
  BY <1>7, CloseShape DEF FrameTooBig
<1>8. ASSUME NEW f \in ClientFrames, FrameClose(f) PROVE OutboxStep
  BY <1>8, CloseShape DEF FrameClose
<1>9. ASSUME NEW f \in ClientFrames, FramePing(f) PROVE OutboxStep
  BY <1>9, ItemTypes DEF FramePing, Parse, OutboxStep, Submits
<1>10. ASSUME NEW f \in ClientFrames, FramePong(f) PROVE OutboxStep
  BY <1>10 DEF OutboxStep, Keeps, FramePong, Parse, RefreshHeartbeat, AfterControlFrame
<1>11. ASSUME NEW f \in ClientFrames, FrameOutOfSequence(f) PROVE OutboxStep
  BY <1>11 DEF OutboxStep, Keeps, FrameOutOfSequence, Parse, DoClose, RefreshHeartbeat
<1>12. ASSUME NEW f \in ClientFrames, FrameData(f) PROVE OutboxStep
  BY <1>12 DEF OutboxStep, Keeps, FrameData, Parse, RefreshHeartbeat
<1>13. CASE EndOfBuffer
  BY <1>13 DEF OutboxStep, Keeps, EndOfBuffer
<1>14. CASE RunPosted
  BY <1>14 DEF OutboxStep
<1>15. CASE SocketWrites
  BY <1>15 DEF OutboxStep
<1>16. CASE WriteDone
  BY <1>16 DEF OutboxStep
<1>17. CASE WriteFails
  BY <1>17 DEF OutboxStep
<1>18. CASE Tick
  BY <1>18 DEF OutboxStep, Keeps, Tick
<1>19. CASE TimerStops
  BY <1>19 DEF OutboxStep, Keeps, TimerStops
<1>20. CASE TimerCloses
  BY <1>20 DEF OutboxStep, Keeps, TimerCloses, DoClose
<1>21. CASE TimerPings
  BY <1>21, ItemTypes DEF TimerPings, OutboxStep, Submits
<1>22. CASE TimerRearms
  BY <1>22 DEF OutboxStep, Keeps, TimerRearms
<1>23. CASE AppSends
  BY <1>23, ItemTypes DEF AppSends, OutboxStep, Submits
<1>24. ASSUME NEW a \in Apps, AppChecksState(a) PROVE OutboxStep
  BY <1>24 DEF OutboxStep, Keeps, AppChecksState
<1>25. ASSUME NEW a \in Apps, AppCloses(a) PROVE OutboxStep
  BY <1>25, ItemTypes DEF AppCloses, OutboxStep, Submits
<1>26. CASE PeerStalls
  BY <1>26 DEF OutboxStep, Keeps, PeerStalls
<1>27. CASE PeerLeaves
  BY <1>27 DEF OutboxStep, Keeps, PeerLeaves
<1> QED
  BY <1>1, <1>2, <1>3, <1>4, <1>5, <1>6, <1>7, <1>8, <1>9,
     <1>10, <1>11, <1>12, <1>13, <1>14, <1>15, <1>16, <1>17, <1>18,
     <1>19, <1>20, <1>21, <1>22, <1>23, <1>24, <1>25, <1>26, <1>27
     DEF Next, ProcessFrame, TimerFires

\* The queues stay sequences of Items.
LEMMA QueueStep ==
  ASSUME TypeOK, WriterInv, OutboxStep
  PROVE  QueueTypes' /\ WriterInv'
<1>1. CASE Keeps
  BY <1>1 DEF TypeOK, QueueTypes, WriterInv, Keeps
<1>2. ASSUME NEW item \in Item, Submits(item) PROVE QueueTypes' /\ WriterInv'
  BY <1>2 DEF TypeOK, QueueTypes, WriterInv, Submits, EnqueueFrame
<1>3. CASE RunPosted
  <2>1. QueueTypes'
    BY <1>3 DEF TypeOK, QueueTypes, RunPosted
  <2>2. send_queue' # <<>>
    BY <1>3 DEF TypeOK, QueueTypes, RunPosted
  <2>3. writes' = IF writing' THEN 1 ELSE 0
    BY <1>3 DEF WriterInv, RunPosted
  <2> QED
    BY <2>1, <2>2, <2>3 DEF WriterInv
<1>4. CASE SocketWrites
  BY <1>4 DEF TypeOK, QueueTypes, WriterInv, SocketWrites
<1>5. CASE WriteDone
  <2>1. QueueTypes'
    BY <1>5 DEF TypeOK, QueueTypes, WriterInv, WriteDone
  <2>2. writes' = IF writing' THEN 1 ELSE 0
    BY <1>5 DEF WriterInv, WriteDone
  <2>3. writes' > 0 => send_queue' # <<>>
    BY <1>5 DEF TypeOK, FlagTypes, WriterInv, WriteDone
  <2> QED
    BY <2>1, <2>2, <2>3 DEF WriterInv
<1>6. CASE WriteFails
  BY <1>6 DEF TypeOK, QueueTypes, WriterInv, WriteFails
<1> QED
  BY <1>1, <1>2, <1>3, <1>4, <1>5, <1>6 DEF OutboxStep

\* The initial state has the types, and no write.
LEMMA TypingInit ==
  ASSUME Init
  PROVE  TypeOK /\ WriterInv
<1>1. FlagTypes
  BY DEF Init, FlagTypes
<1>2. ControlTypes
  BY ConstantsAssumption DEF ConstantsAssumption, Init, ControlTypes, States, Off
<1>3. MessageTypes
  BY ConstantsAssumption DEF ConstantsAssumption, Init, MessageTypes, OpCodes
<1>4. QueueTypes /\ WriterInv
  BY DEF Init, QueueTypes, WriterInv
<1> QED
  BY <1>1, <1>2, <1>3, <1>4 DEF TypeOK

\* Every step keeps the types, and keeps writes and writing_ together.
LEMMA TypingStep ==
  ASSUME TypeOK /\ WriterInv, [Next]_vars
  PROVE  (TypeOK /\ WriterInv)'
<1>1. CASE Next
  <2>1. FlagTypes' /\ ControlTypes'
    BY <1>1, FlagStep, ControlStep DEF TypeOK
  <2>2. MessageTypes'
    BY <1>1, MessageStep DEF TypeOK, ControlTypes
  <2>3. QueueTypes' /\ WriterInv'
    BY <1>1, OutboxShapes, QueueStep
  <2> QED
    BY <2>1, <2>2, <2>3 DEF TypeOK
<1>2. CASE UNCHANGED vars
  BY <1>2 DEF TypeOK, FlagTypes, ControlTypes, MessageTypes, QueueTypes, WriterInv
<1> QED
  BY <1>1, <1>2

\* The variables have their types.  Popping send_queue_ in a write handler keeps
\* them only because a write is outstanding just while the queue holds its
\* frame (WriterInv), so that invariant comes along.
THEOREM Typing == Spec => [](TypeOK /\ WriterInv)
<1>1. Init => TypeOK /\ WriterInv
  BY TypingInit
<1>2. TypeOK /\ WriterInv /\ [Next]_vars => (TypeOK /\ WriterInv)'
  BY TypingStep
<1> QED
  BY <1>1, <1>2, PTL DEF Spec

\* At most one async_write is outstanding, whatever the order of submissions,
\* write completions, failures and closes (EnqueueFrame, DoWrite).
THEOREM SingleWriterHolds == Spec => []SingleWriter
<1>1. WriterInv => SingleWriter
  BY DEF WriterInv, SingleWriter
<1> QED
  BY <1>1, Typing, PTL

-----------------------------------------------------------------------------
(* The outbox.                                                             *)

\* A frame submitted and posted at once keeps the queues aligned.
LEMMA AlignedSubmit ==
  ASSUME NEW s \in Seq(Item), NEW q \in Seq(Item), NEW p \in Seq(Item),
         NEW b \in Nat, NEW item \in Item, Aligned(s, b, q, p)
  PROVE  Aligned(Append(s, item), b, q, Append(p, item))
<1> DEFINE t == Append(s, item)
           r == Append(p, item)
<1>1. /\ Len(t) = Len(s) + 1 /\ Len(r) = Len(p) + 1
      /\ Len(s) = b + Len(q) + Len(p)
      /\ Len(s) \in Nat /\ Len(q) \in Nat /\ Len(p) \in Nat
  BY DEF Aligned
<1>2. ASSUME NEW i \in 1..Len(q) PROVE t[b + i] = q[i]
  <2>1. b + i \in 1..Len(s)
    BY <1>1
  <2>2. t[b + i] = s[b + i]
    BY <2>1
  <2> QED
    BY <2>2 DEF Aligned
<1>3. ASSUME NEW i \in 1..Len(r) PROVE t[b + Len(q) + i] = r[i]
  <2>1. CASE i \in 1..Len(p)
    <3>1. b + Len(q) + i \in 1..Len(s)
      BY <1>1, <2>1
    <3>2. t[b + Len(q) + i] = s[b + Len(q) + i] /\ r[i] = p[i]
      BY <2>1, <3>1
    <3> QED
      BY <2>1, <3>2 DEF Aligned
  <2>2. CASE i = Len(p) + 1
    <3>1. b + Len(q) + i = Len(s) + 1
      BY <1>1, <2>2
    <3>2. t[Len(s) + 1] = item /\ r[Len(p) + 1] = item
      OBVIOUS
    <3> QED
      BY <2>2, <3>1, <3>2
  <2> QED
    BY <1>1, <2>1, <2>2
<1> QED
  BY <1>1, <1>2, <1>3 DEF Aligned

\* So does a posted frame that moves to the end of the send queue.
LEMMA AlignedRun ==
  ASSUME NEW s \in Seq(Item), NEW q \in Seq(Item), NEW p \in Seq(Item),
         NEW b \in Nat, p # <<>>, Aligned(s, b, q, p)
  PROVE  Aligned(s, b, Append(q, Head(p)), Tail(p))
<1> DEFINE t == Append(q, Head(p))
           r == Tail(p)
<1>1. /\ Len(t) = Len(q) + 1 /\ Len(r) = Len(p) - 1
      /\ Len(s) = b + Len(q) + Len(p)
      /\ Len(q) \in Nat /\ Len(p) \in Nat /\ Len(p) > 0
      /\ Head(p) = p[1] /\ Head(p) \in Item
  BY DEF Aligned
<1>2. ASSUME NEW i \in 1..Len(t) PROVE s[b + i] = t[i]
  <2>1. CASE i \in 1..Len(q)
    <3>1. t[i] = q[i]
      BY <1>1, <2>1
    <3> QED
      BY <2>1, <3>1 DEF Aligned
  <2>2. CASE i = Len(q) + 1
    <3>1. t[Len(q) + 1] = p[1]
      BY <1>1
    <3>2. s[b + Len(q) + 1] = p[1]
      BY <1>1 DEF Aligned
    <3>3. b + i = b + Len(q) + 1
      BY <1>1, <2>2
    <3> QED
      BY <2>2, <3>1, <3>2, <3>3
  <2> QED
    BY <1>1, <2>1, <2>2
<1>3. ASSUME NEW i \in 1..Len(r) PROVE s[b + Len(t) + i] = r[i]
  <2>1. i + 1 \in 1..Len(p) /\ b + Len(t) + i = b + Len(q) + (i + 1)
    BY <1>1
  <2>2. r[i] = p[i + 1]
    BY <1>1
  <2>3. s[b + Len(q) + (i + 1)] = p[i + 1]
    BY <2>1 DEF Aligned
  <2> QED
    BY <2>1, <2>2, <2>3
<1>4. Len(s) = b + Len(t) + Len(r)
  BY <1>1
<1> QED
  BY <1>2, <1>3, <1>4 DEF Aligned

\* So does the head of the queue when it leaves, with the position before it.
LEMMA AlignedDone ==
  ASSUME NEW s \in Seq(Item), NEW q \in Seq(Item), NEW p \in Seq(Item),
         NEW b \in Nat, q # <<>>, Aligned(s, b, q, p)
  PROVE  Aligned(s, b + 1, Tail(q), p)
BY DEF Aligned

\* The position before the head of the queue is a natural number.
LEMMA BeforeNat ==
  ASSUME OutboxInv
  PROVE  Before \in Nat
<1>1. CASE written
  BY <1>1 DEF OutboxInv, TypeOK, QueueTypes, Before
<1>2. CASE ~ written
  BY <1>2 DEF OutboxInv, TypeOK, QueueTypes, Before
<1> QED
  BY <1>1, <1>2

\* The outbox invariant holds initially.
LEMMA OutboxInit ==
  ASSUME Init
  PROVE  OutboxInv
<1>1. Before = 0
  BY DEF Init, Before
<1>2. Ordered
  BY <1>1 DEF Init, Ordered, Aligned
<1>3. ClosePending /\ ~ written
  BY DEF Init, ClosePending
<1> QED
  BY <1>2, <1>3, TypingInit DEF OutboxInv

\* The outbox part of the invariant, step by step.
OrderInv ==
  /\ written => writing /\ Len(wire) > 0
  /\ Ordered
  /\ ClosePending

\* Every step keeps the queues aligned, and a Close frame last on the wire.
LEMMA OrderStep ==
  ASSUME OutboxInv, OutboxStep
  PROVE  OrderInv'
<1> USE DEF OutboxInv, OrderInv
<1>a. Before \in Nat
  BY BeforeNat
<1>b. /\ submitted \in Seq(Item) /\ send_queue \in Seq(Item)
      /\ posted \in Seq(Item) /\ wire \in Seq(Item)
  BY DEF TypeOK, QueueTypes
<1>1. CASE Keeps
  <2>1. UNCHANGED <<queueVars, writeVars>> /\ (sock' => sock)
    <3>1. CASE sock' = sock
      BY <1>1, <3>1 DEF Keeps
    <3>2. CASE sock' = FALSE
      BY <1>1, <3>2 DEF Keeps
    <3> QED
      BY <1>1, <3>1, <3>2 DEF Keeps
  <2>2. Before' = Before
    BY <2>1 DEF Before
  <2>3. Ordered'
    BY <2>1, <2>2 DEF Ordered
  <2>4. ClosePending'
    BY <2>1 DEF ClosePending
  <2> QED
    BY <2>1, <2>3, <2>4
<1>2. ASSUME NEW item \in Item, Submits(item) PROVE OrderInv'
  <2>1. UNCHANGED <<writeVars, sock>>
    BY <1>2 DEF Submits
  <2>2. Before' = Before
    BY <2>1 DEF Before
  <2>3. Ordered'
    BY <1>2, <1>a, <1>b, <2>1, <2>2, AlignedSubmit DEF Submits, EnqueueFrame, Ordered
  <2>4. ClosePending'
    BY <2>1 DEF ClosePending
  <2> QED
    BY <2>1, <2>3, <2>4
<1>3. CASE RunPosted
  <2>1. /\ UNCHANGED <<sock, submitted, written, wire>>
        /\ posted # <<>> /\ posted' = Tail(posted)
        /\ send_queue' = Append(send_queue, Head(posted))
    BY <1>3 DEF RunPosted
  <2>2. Before' = Before
    BY <2>1 DEF Before
  <2>3. Ordered'
    BY <1>a, <1>b, <2>1, <2>2, AlignedRun DEF Ordered
  <2>4. ClosePending'
    <3>1. written => send_queue # <<>>
      BY DEF WriterInv
    <3>2. send_queue # <<>> => Head(send_queue') = Head(send_queue)
      BY <1>b, <2>1
    <3> QED
      BY <2>1, <3>1, <3>2 DEF ClosePending
  <2>5. written' => writing'
    BY <1>3 DEF RunPosted
  <2> QED
    BY <2>1, <2>3, <2>4, <2>5
<1>4. CASE SocketWrites
  <2>1. /\ sock /\ ~ written /\ written' = TRUE
        /\ wire' = Append(wire, Head(send_queue))
        /\ UNCHANGED <<queueVars, sock, send_queue, writing>>
        /\ writing /\ send_queue # <<>>
    BY <1>4 DEF SocketWrites, WriterInv
  <2>2. Head(send_queue) \in Item
    BY <1>b, <2>1
  <2>3. Len(wire') = Len(wire) + 1 /\ Len(wire) \in Nat
    BY <1>b, <2>1, <2>2
  <2>4. Before' = Before
    BY <2>1, <2>3 DEF Before
  <2>5. Ordered'
    BY <2>1, <2>4 DEF Ordered
  <2>6. \A i \in 1..Len(wire) : wire[i].kind # "close" /\ wire'[i] = wire[i]
    BY <1>b, <2>1, <2>2 DEF ClosePending
  <2>7. wire'[Len(wire')] = Head(send_queue')
    BY <1>b, <2>1, <2>2
  <2>8. ClosePending'
    BY <2>1, <2>3, <2>6, <2>7 DEF ClosePending
  <2> QED
    BY <2>1, <2>3, <2>5, <2>8
<1>5. CASE WriteDone
  <2>1. /\ written /\ written' = FALSE
        /\ send_queue # <<>> /\ send_queue' = Tail(send_queue)
        /\ UNCHANGED <<queueVars, wire>>
    BY <1>5 DEF WriteDone, WriterInv
  <2>2. Head(send_queue).kind = "close" => ~ sock'
    BY <1>5 DEF WriteDone, DoClose
  <2>3. sock' => sock
    BY <1>5 DEF WriteDone, DoClose
  <2>4. Before' = Before + 1
    BY <1>b, <2>1 DEF Before
  <2>5. Ordered'
    BY <1>a, <1>b, <2>1, <2>3, <2>4, AlignedDone DEF Ordered
  <2>6. ClosePending'
    BY <2>1, <2>2, <2>3 DEF ClosePending
  <2> QED
    BY <2>1, <2>5, <2>6
<1>6. CASE WriteFails
  BY <1>6 DEF WriteFails, DoClose, Ordered, ClosePending
<1> QED
  BY <1>1, <1>2, <1>3, <1>4, <1>5, <1>6 DEF OutboxStep

\* The outbox invariant holds always.
LEMMA OutboxInvariant == Spec => []OutboxInv
<1>1. Init => OutboxInv
  BY OutboxInit
<1>2. OutboxInv /\ [Next]_vars => OutboxInv'
  <2> SUFFICES ASSUME OutboxInv, [Next]_vars PROVE OutboxInv'
    OBVIOUS
  <2>1. (TypeOK /\ WriterInv)'
    BY TypingStep DEF OutboxInv
  <2>2. OrderInv'
    <3>1. CASE Next
      BY <3>1, <2>1, OutboxShapes, OrderStep DEF OutboxInv
    <3>2. CASE UNCHANGED vars
      BY <3>2 DEF OutboxInv, OrderInv, Ordered, Aligned, ClosePending, Before
    <3> QED
      BY <3>1, <3>2
  <2> QED
    BY <2>1, <2>2 DEF OutboxInv, OrderInv
<1> QED
  BY <1>1, <1>2, PTL DEF Spec

\* Nothing follows a Close frame on the wire, however many threads close the
\* session and go on sending (Close, DoWrite).
THEOREM NothingAfterCloseHolds == Spec => []NothingAfterClose
<1>1. OutboxInv => NothingAfterClose
  BY DEF OutboxInv, ClosePending, NothingAfterClose
<1> QED
  BY <1>1, OutboxInvariant, PTL

\* Under the invariant every step of the session submits, transmits or shuts
\* the abstract outbox, or leaves it alone.
LEMMA OutboxStepRefines ==
  ASSUME OutboxInv, OutboxStep
  PROVE  Outbox!Next \/ UNCHANGED Outbox!vars
<1> USE DEF Outbox!Next, Outbox!vars
<1>1. CASE Keeps
  <2>1. CASE sock' = sock
    BY <1>1, <2>1 DEF Keeps
  <2>2. CASE sock' # sock
    BY <1>1, <2>2 DEF Keeps, OutboxInv, TypeOK, FlagTypes, Outbox!Shut
  <2> QED
    BY <2>1, <2>2
<1>2. ASSUME NEW item \in Item, Submits(item) PROVE Outbox!Next
  BY <1>2 DEF Submits, EnqueueFrame, Outbox!Submit
<1>3. CASE RunPosted
  BY <1>3 DEF RunPosted
<1>4. CASE SocketWrites
  <2>1. /\ sock
        /\ wire' = Append(wire, Head(send_queue))
        /\ UNCHANGED <<submitted, sock>>
    BY <1>4 DEF SocketWrites
  <2>2. send_queue # <<>> /\ ~ written
    BY <1>4 DEF SocketWrites, OutboxInv, WriterInv
  <2>3. /\ Len(wire) < Len(submitted)
        /\ submitted[Len(wire) + 1] = Head(send_queue)
    <3>1. Before = Len(wire) /\ Len(wire) \in Nat
      BY <2>2 DEF OutboxInv, TypeOK, QueueTypes, Before
    <3>2. Aligned(submitted, Len(wire), send_queue, posted)
      BY <2>1, <3>1 DEF OutboxInv, Ordered
    <3> QED
      BY <2>2, <3>1, <3>2 DEF OutboxInv, TypeOK, QueueTypes, Aligned
  <2>4. \A i \in 1..Len(wire) : ~ Outbox!IsClose(wire[i])
    BY <2>1, <2>2 DEF OutboxInv, ClosePending, Outbox!IsClose
  <2> QED
    BY <2>1, <2>3, <2>4 DEF Outbox!Transmit
<1>5. CASE WriteDone
  <2>1. UNCHANGED <<submitted, wire>> /\ sock' \in {sock, FALSE}
    BY <1>5 DEF WriteDone, DoClose
  <2> QED
    BY <2>1 DEF OutboxInv, TypeOK, FlagTypes, Outbox!Shut
<1>6. CASE WriteFails
  <2>1. UNCHANGED <<submitted, wire>> /\ sock' = FALSE
    BY <1>6 DEF WriteFails, DoClose
  <2> QED
    BY <2>1 DEF OutboxInv, TypeOK, FlagTypes, Outbox!Shut
<1> QED
  BY <1>1, <1>2, <1>3, <1>4, <1>5, <1>6 DEF OutboxStep

\* The session implements WsOutbox: frames go out in the order of submission,
\* none twice, none skipped, and none after a Close frame.
THEOREM OutboxRefined == Spec => OutboxSpec
<1>1. Init => Outbox!Init
  BY DEF Init, Outbox!Init
<1>2. OutboxInv /\ [Next]_vars => [Outbox!Next]_(Outbox!vars)
  <2>1. ASSUME OutboxInv, Next PROVE [Outbox!Next]_(Outbox!vars)
    BY <2>1, OutboxShapes, OutboxStepRefines DEF OutboxInv
  <2>2. CASE UNCHANGED vars
    BY <2>2 DEF Outbox!vars
  <2> QED
    BY <2>1, <2>2
<1> QED
  BY <1>1, <1>2, OutboxInvariant, PTL DEF Spec, OutboxSpec, Outbox!Spec

-----------------------------------------------------------------------------
(* The heartbeat.                                                          *)

\* Every step keeps the heartbeat's bounds.
LEMMA BeatStep ==
  ASSUME TypeOK, BeatInv, Next
  PROVE  BeatInv'
<1>1. ASSUME NEW more \in BOOLEAN, HandshakeAccepted(more) PROVE BeatInv'
  BY <1>1, ConstantsAssumption DEF ConstantsAssumption, TypeOK, ControlTypes, BeatInv, LongestWait, Elapsed, Off, HandshakeAccepted, RefreshHeartbeat
<1>2. CASE HandshakeRejected
  BY <1>2, ConstantsAssumption DEF ConstantsAssumption, TypeOK, ControlTypes, BeatInv, LongestWait, Elapsed, Off, HandshakeRejected, DoClose
<1>3. CASE ReadFrames
  BY <1>3, ConstantsAssumption DEF ConstantsAssumption, TypeOK, ControlTypes, BeatInv, LongestWait, Elapsed, Off, ReadFrames
<1>4. CASE ReadFails
  BY <1>4, ConstantsAssumption DEF ConstantsAssumption, TypeOK, ControlTypes, BeatInv, LongestWait, Elapsed, Off, ReadFails, DoClose
<1>5. ASSUME NEW f \in ClientFrames, FrameMalformed(f) PROVE BeatInv'
  BY <1>5, ConstantsAssumption DEF ConstantsAssumption, TypeOK, ControlTypes, BeatInv, LongestWait, Elapsed, Off, FrameMalformed, Parse, DoClose
<1>6. ASSUME NEW f \in ClientFrames, FrameBadControl(f) PROVE BeatInv'
  BY <1>6, ConstantsAssumption DEF ConstantsAssumption, TypeOK, ControlTypes, BeatInv, LongestWait, Elapsed, Off, FrameBadControl, Parse, DoClose, RefreshHeartbeat
<1>7. ASSUME NEW f \in ClientFrames, FrameTooBig(f) PROVE BeatInv'
  BY <1>7, ConstantsAssumption DEF ConstantsAssumption, TypeOK, ControlTypes, BeatInv, LongestWait, Elapsed, Off, FrameTooBig, Parse, Close, EnqueueFrame
<1>8. ASSUME NEW f \in ClientFrames, FrameClose(f) PROVE BeatInv'
  BY <1>8, ConstantsAssumption DEF ConstantsAssumption, TypeOK, ControlTypes, BeatInv, LongestWait, Elapsed, Off, FrameClose, Parse, Close, EnqueueFrame, RefreshHeartbeat, AfterControlFrame
<1>9. ASSUME NEW f \in ClientFrames, FramePing(f) PROVE BeatInv'
  BY <1>9, ConstantsAssumption DEF ConstantsAssumption, TypeOK, ControlTypes, BeatInv, LongestWait, Elapsed, Off, FramePing, Parse, EnqueueFrame, RefreshHeartbeat, AfterControlFrame
<1>10. ASSUME NEW f \in ClientFrames, FramePong(f) PROVE BeatInv'
  BY <1>10, ConstantsAssumption DEF ConstantsAssumption, TypeOK, ControlTypes, BeatInv, LongestWait, Elapsed, Off, FramePong, Parse, RefreshHeartbeat, AfterControlFrame
<1>11. ASSUME NEW f \in ClientFrames, FrameOutOfSequence(f) PROVE BeatInv'
  BY <1>11, ConstantsAssumption DEF ConstantsAssumption, TypeOK, ControlTypes, BeatInv, LongestWait, Elapsed, Off, FrameOutOfSequence, Parse, DoClose, RefreshHeartbeat
<1>12. ASSUME NEW f \in ClientFrames, FrameData(f) PROVE BeatInv'
  BY <1>12, ConstantsAssumption DEF ConstantsAssumption, TypeOK, ControlTypes, BeatInv, LongestWait, Elapsed, Off, FrameData, Parse, RefreshHeartbeat
<1>13. CASE EndOfBuffer
  BY <1>13, ConstantsAssumption DEF ConstantsAssumption, TypeOK, ControlTypes, BeatInv, LongestWait, Elapsed, Off, EndOfBuffer
<1>14. CASE RunPosted
  BY <1>14, ConstantsAssumption DEF ConstantsAssumption, TypeOK, ControlTypes, BeatInv, LongestWait, Elapsed, Off, RunPosted
<1>15. CASE SocketWrites
  BY <1>15, ConstantsAssumption DEF ConstantsAssumption, TypeOK, ControlTypes, BeatInv, LongestWait, Elapsed, Off, SocketWrites
<1>16. CASE WriteDone
  BY <1>16, ConstantsAssumption DEF ConstantsAssumption, TypeOK, ControlTypes, BeatInv, LongestWait, Elapsed, Off, WriteDone, DoClose
<1>17. CASE WriteFails
  BY <1>17, ConstantsAssumption DEF ConstantsAssumption, TypeOK, ControlTypes, BeatInv, LongestWait, Elapsed, Off, WriteFails, DoClose
<1>18. CASE Tick
  BY <1>18, ConstantsAssumption DEF ConstantsAssumption, TypeOK, ControlTypes, BeatInv, LongestWait, Elapsed, Off, Tick
<1>19. CASE TimerStops
  BY <1>19, ConstantsAssumption DEF ConstantsAssumption, TypeOK, ControlTypes, BeatInv, LongestWait, Elapsed, Off, TimerStops
<1>20. CASE TimerCloses
  BY <1>20, ConstantsAssumption DEF ConstantsAssumption, TypeOK, ControlTypes, BeatInv, LongestWait, Elapsed, Off, TimerCloses, DoClose
<1>21. CASE TimerPings
  BY <1>21, ConstantsAssumption DEF ConstantsAssumption, TypeOK, ControlTypes, BeatInv, LongestWait, Elapsed, Off, TimerPings, EnqueueFrame
<1>22. CASE TimerRearms
  BY <1>22, ConstantsAssumption DEF ConstantsAssumption, TypeOK, ControlTypes, BeatInv, LongestWait, Elapsed, Off, TimerRearms
<1>23. CASE AppSends
  BY <1>23, ConstantsAssumption DEF ConstantsAssumption, TypeOK, ControlTypes, BeatInv, LongestWait, Elapsed, Off, AppSends, EnqueueFrame
<1>24. ASSUME NEW a \in Apps, AppChecksState(a) PROVE BeatInv'
  BY <1>24, ConstantsAssumption DEF ConstantsAssumption, TypeOK, ControlTypes, BeatInv, LongestWait, Elapsed, Off, AppChecksState
<1>25. ASSUME NEW a \in Apps, AppCloses(a) PROVE BeatInv'
  BY <1>25, ConstantsAssumption DEF ConstantsAssumption, TypeOK, ControlTypes, BeatInv, LongestWait, Elapsed, Off, AppCloses, EnqueueFrame
<1>26. CASE PeerStalls
  BY <1>26, ConstantsAssumption DEF ConstantsAssumption, TypeOK, ControlTypes, BeatInv, LongestWait, Elapsed, Off, PeerStalls
<1>27. CASE PeerLeaves
  BY <1>27, ConstantsAssumption DEF ConstantsAssumption, TypeOK, ControlTypes, BeatInv, LongestWait, Elapsed, Off, PeerLeaves
<1> QED
  BY <1>1, <1>2, <1>3, <1>4, <1>5, <1>6, <1>7, <1>8, <1>9,
     <1>10, <1>11, <1>12, <1>13, <1>14, <1>15, <1>16, <1>17, <1>18,
     <1>19, <1>20, <1>21, <1>22, <1>23, <1>24, <1>25, <1>26, <1>27
     DEF Next, ProcessFrame, TimerFires

\* The heartbeat's bounds hold always.
LEMMA BeatInvariant == Spec => []BeatInv
<1>1. Init => BeatInv
  BY DEF Init, BeatInv
<1>2. TypeOK /\ BeatInv /\ [Next]_vars => BeatInv'
  <2>1. CASE Next
    BY <2>1, BeatStep
  <2>2. CASE UNCHANGED vars
    BY <2>2 DEF BeatInv, Elapsed
  <2> QED
    BY <2>1, <2>2
<1> QED
  BY <1>1, <1>2, Typing, PTL DEF Spec

\* An Active session has its read outstanding between handlers and its heartbeat
\* timer armed (DoReadFrame, ArmHeartbeatTimer).
THEOREM NeverDeafHolds == Spec => []NeverDeaf
<1>1. BeatInv => NeverDeaf
  BY DEF BeatInv, NeverDeaf
<1> QED
  BY <1>1, BeatInvariant, PTL

\* A silent peer is noticed within the longer of the timeout and two intervals,
\* and one interval more (OnHeartbeatTimer).
THEOREM IdleBoundedHolds == Spec => []IdleBounded
<1>1. TypeOK /\ BeatInv => IdleBounded
  <2> SUFFICES ASSUME TypeOK, BeatInv, state = "Active"
               PROVE  idle < LongestWait + Interval
    BY DEF IdleBounded
  <2>1. /\ Interval \in Nat \ {0} /\ Timeout \in Nat /\ idle \in Nat
        /\ timer \in 0..Interval
    BY ConstantsAssumption
       DEF ConstantsAssumption, TypeOK, ControlTypes, BeatInv, Off
  <2>2. Interval <= LongestWait /\ LongestWait \in Nat
    BY <2>1 DEF LongestWait
  <2> QED
    BY <2>1, <2>2 DEF BeatInv, Elapsed
<1> QED
  BY <1>1, Typing, BeatInvariant, PTL
-----------------------------------------------------------------------------
(* Messages are reassembled exactly.                                       *)

\* A frame that is appended to a history changes no earlier position of it.
LEMMA EarlierFrames ==
  ASSUME NEW h \in Seq(ClientFrames), NEW f \in ClientFrames
  PROVE  /\ Append(h, f) \in Seq(ClientFrames)
         /\ Len(Append(h, f)) = Len(h) + 1
         /\ \A k \in 1..Len(h) : Append(h, f)[k] = h[k]
         /\ Append(h, f)[Len(h) + 1] = f
  OBVIOUS

\* Frames that followed each other still do so when another frame arrives.
LEMMA ConsecutiveLater ==
  ASSUME NEW h \in Seq(ClientFrames), NEW f \in ClientFrames,
         NEW a \in Nat, NEW b \in 1..(Len(h) + 1), Consecutive(h, a, b)
  PROVE  Consecutive(Append(h, f), a, b)
<1>1. \A k \in (a + 1)..(b - 1) : k \in 1..Len(h)
  OBVIOUS
<1> QED
  BY <1>1, EarlierFrames DEF Consecutive

\* So does a message, or a part of one, stay what it is.
LEMMA AssembledLater ==
  ASSUME NEW h \in Seq(ClientFrames), NEW f \in ClientFrames,
         NEW frames \in Seq(1..Len(h)), NEW opcode, Assembled(h, frames, opcode)
  PROVE  Assembled(Append(h, f), frames, opcode)
<1>1. Len(frames) \in 1..MaxMessage /\ opcode \in {"text", "binary"}
  BY DEF Assembled
<1>2. \A j \in 1..Len(frames) : frames[j] \in 1..Len(h) /\ frames[j] \in Nat
  OBVIOUS
<1>3. Append(h, f)[frames[1]].op = opcode
  BY <1>1, <1>2, EarlierFrames, ConstantsAssumption DEF Assembled, ConstantsAssumption
<1>4. ASSUME NEW j \in 1..(Len(frames) - 1)
      PROVE  /\ ~ Append(h, f)[frames[j]].fin
             /\ Append(h, f)[frames[j + 1]].op = "cont"
             /\ Consecutive(Append(h, f), frames[j], frames[j + 1])
  <2>1. j \in 1..Len(frames) /\ j + 1 \in 1..Len(frames)
    BY <1>1, ConstantsAssumption DEF ConstantsAssumption
  <2>2. /\ ~ h[frames[j]].fin
        /\ h[frames[j + 1]].op = "cont"
        /\ Consecutive(h, frames[j], frames[j + 1])
    BY DEF Assembled
  <2>3. Consecutive(Append(h, f), frames[j], frames[j + 1])
    BY <1>2, <2>1, <2>2, ConsecutiveLater
  <2> QED
    BY <1>2, <2>1, <2>2, <2>3, EarlierFrames
<1> QED
  BY <1>1, <1>3, <1>4 DEF Assembled

\* A Text or Binary frame begins a message.
LEMMA AssembledFirst ==
  ASSUME NEW h \in Seq(ClientFrames), NEW f \in ClientFrames,
         f.op \in {"text", "binary"}
  PROVE  Assembled(Append(h, f), <<Len(h) + 1>>, f.op)
  BY EarlierFrames, ConstantsAssumption DEF Assembled, ConstantsAssumption

\* A Continuation within the limit adds a fragment to it, if the last one had no
\* FIN and only control frames have come since.
LEMMA AssembledNext ==
  ASSUME NEW h \in Seq(ClientFrames), NEW f \in ClientFrames,
         NEW frames \in Seq(1..Len(h)), NEW opcode,
         Assembled(h, frames, opcode), ~ h[frames[Len(frames)]].fin,
         Consecutive(h, frames[Len(frames)], Len(h) + 1),
         f.op = "cont", Len(frames) + 1 <= MaxMessage
  PROVE  Assembled(Append(h, f), Append(frames, Len(h) + 1), opcode)
<1> DEFINE h2 == Append(h, f)
           frames2 == Append(frames, Len(h) + 1)
<1>1. Len(frames) \in Nat \ {0} /\ Len(frames) \in 1..MaxMessage
  BY ConstantsAssumption DEF Assembled, ConstantsAssumption
<1>2. /\ Len(frames2) = Len(frames) + 1
      /\ \A j \in 1..Len(frames) : frames2[j] = frames[j]
      /\ frames2[Len(frames) + 1] = Len(h) + 1
  OBVIOUS
<1>3. Assembled(h2, frames, opcode)
  BY AssembledLater
<1>4. /\ ~ h2[frames[Len(frames)]].fin
      /\ h2[Len(h) + 1].op = "cont"
  BY <1>1, EarlierFrames
<1>5. Consecutive(h2, frames[Len(frames)], Len(h) + 1)
  BY <1>1, ConsecutiveLater
<1>6. Len(frames2) \in 1..MaxMessage
  BY <1>1, <1>2, ConstantsAssumption DEF ConstantsAssumption
<1>7. opcode \in {"text", "binary"} /\ h2[frames2[1]].op = opcode
  BY <1>1, <1>2, <1>3 DEF Assembled
<1>8. ASSUME NEW j \in 1..(Len(frames2) - 1)
      PROVE  /\ ~ h2[frames2[j]].fin
             /\ h2[frames2[j + 1]].op = "cont"
             /\ Consecutive(h2, frames2[j], frames2[j + 1])
  <2>1. CASE j = Len(frames)
    BY <2>1, <1>1, <1>2, <1>4, <1>5
  <2>2. CASE j # Len(frames)
    <3>1. j \in 1..(Len(frames) - 1)
      BY <2>2, <1>1, <1>2
    <3>2. frames2[j] = frames[j] /\ frames2[j + 1] = frames[j + 1]
      BY <3>1, <1>1, <1>2
    <3> QED
      BY <3>1, <3>2, <1>3 DEF Assembled
  <2> QED
    BY <2>1, <2>2
<1> QED
  BY <1>6, <1>7, <1>8 DEF Assembled

\* What a step does to the message under way: nothing; or a frame is received that
\* is none of the message and that leaves the session Active only if it is a Ping
\* or a Pong; or the fragment of a data frame is kept.
Quiet ==
  /\ UNCHANGED <<msgVars, received>>
  /\ state' = "Active" => state = "Active" \/ rd = "handshake"
  /\ rd' = "handshake" => rd = "handshake" /\ io' = io

Passes(f) ==
  /\ io = "frames"
  /\ received' = Append(received, f)
  /\ UNCHANGED <<rd, msgVars>>
  /\ state' = "Active" => state = "Active" /\ f.op \in {"ping", "pong"}

MessageShape ==
  \/ Quiet
  \/ \E f \in ClientFrames : Passes(f) \/ FrameData(f)

LEMMA MessageShapes ==
  ASSUME TypeOK, Next
  PROVE  MessageShape
<1>1. ASSUME NEW more \in BOOLEAN, HandshakeAccepted(more) PROVE MessageShape
  BY <1>1 DEF MessageShape, Quiet, HandshakeAccepted
<1>2. CASE HandshakeRejected
  BY <1>2 DEF MessageShape, Quiet, HandshakeRejected, DoClose
<1>3. CASE ReadFrames
  BY <1>3 DEF MessageShape, Quiet, ReadFrames
<1>4. CASE ReadFails
  BY <1>4 DEF MessageShape, Quiet, ReadFails, DoClose
<1>5. ASSUME NEW f \in ClientFrames, FrameMalformed(f) PROVE MessageShape
  <2> Passes(f)
    BY <1>5 DEF Passes, FrameMalformed, Parse, DoClose
  <2> QED  BY DEF MessageShape
<1>6. ASSUME NEW f \in ClientFrames, FrameBadControl(f) PROVE MessageShape
  <2> Passes(f)
    BY <1>6 DEF Passes, FrameBadControl, Parse, DoClose
  <2> QED  BY DEF MessageShape
<1>7. ASSUME NEW f \in ClientFrames, FrameTooBig(f) PROVE MessageShape
  <2> Passes(f)
    BY <1>7 DEF Passes, FrameTooBig, Parse, Close
  <2> QED  BY DEF MessageShape
<1>8. ASSUME NEW f \in ClientFrames, FrameClose(f) PROVE MessageShape
  <2> Passes(f)
    BY <1>8 DEF Passes, FrameClose, Parse, Close
  <2> QED  BY DEF MessageShape
<1>9. ASSUME NEW f \in ClientFrames, FramePing(f) PROVE MessageShape
  <2> Passes(f)
    BY <1>9 DEF Passes, FramePing, Parse
  <2> QED  BY DEF MessageShape
<1>10. ASSUME NEW f \in ClientFrames, FramePong(f) PROVE MessageShape
  <2> Passes(f)
    BY <1>10 DEF Passes, FramePong, Parse
  <2> QED  BY DEF MessageShape
<1>11. ASSUME NEW f \in ClientFrames, FrameOutOfSequence(f) PROVE MessageShape
  <2> Passes(f)
    BY <1>11 DEF Passes, FrameOutOfSequence, Parse, DoClose
  <2> QED  BY DEF MessageShape
<1>12. ASSUME NEW f \in ClientFrames, FrameData(f) PROVE MessageShape
  BY <1>12 DEF MessageShape
<1>13. CASE EndOfBuffer
  BY <1>13 DEF MessageShape, Quiet, EndOfBuffer
<1>14. CASE RunPosted
  BY <1>14 DEF MessageShape, Quiet, RunPosted
<1>15. CASE SocketWrites
  BY <1>15 DEF MessageShape, Quiet, SocketWrites
<1>16. CASE WriteDone
  BY <1>16 DEF MessageShape, Quiet, WriteDone, DoClose
<1>17. CASE WriteFails
  BY <1>17 DEF MessageShape, Quiet, WriteFails, DoClose
<1>18. CASE Tick
  BY <1>18 DEF MessageShape, Quiet, Tick
<1>19. CASE TimerFires
  BY <1>19 DEF MessageShape, Quiet, TimerFires, TimerStops, TimerCloses,
               TimerPings, TimerRearms, DoClose
<1>20. CASE AppSends
  BY <1>20 DEF MessageShape, Quiet, AppSends
<1>21. ASSUME NEW a \in Apps, AppChecksState(a) \/ AppCloses(a) PROVE MessageShape
  BY <1>21 DEF MessageShape, Quiet, AppChecksState, AppCloses
<1>22. CASE PeerStalls \/ PeerLeaves
  BY <1>22 DEF MessageShape, Quiet, PeerStalls, PeerLeaves
<1> QED
  BY <1>1, <1>2, <1>3, <1>4, <1>5, <1>6, <1>7, <1>8, <1>9, <1>10, <1>11,
     <1>12, <1>13, <1>14, <1>15, <1>16, <1>17, <1>18, <1>19, <1>20, <1>21,
     <1>22 DEF Next, ProcessFrame

\* Before the handshake there is no message, and the frame loop does not run.
LEMMA UnbegunStep ==
  ASSUME Unbegun, MessageShape
  PROVE  Unbegun'
<1>1. CASE Quiet
  BY <1>1 DEF Unbegun, Quiet
<1>2. ASSUME NEW f \in ClientFrames, Passes(f) \/ FrameData(f) PROVE Unbegun'
  BY <1>2 DEF Unbegun, Passes, FrameData, Parse
<1> QED
  BY <1>1, <1>2 DEF MessageShape

\* The fragments kept, and those delivered, stay in a history that only grows; a
\* message is delivered as it was put together.
LEMMA RecordedStep ==
  ASSUME TypeOK, Recorded, MessageShape
  PROVE  Recorded'
<1>1. CASE Quiet
  BY <1>1 DEF Recorded, Quiet
<1>2. ASSUME NEW f \in ClientFrames, Passes(f) \/ FrameData(f) PROVE Recorded'
  <2>1. received' = Append(received, f) /\ received \in Seq(ClientFrames)
    BY <1>2 DEF Passes, FrameData, Parse, TypeOK, MessageTypes
  <2>2. Len(received') = Len(received) + 1 /\ Len(received) \in Nat
    BY <2>1
  <2>3. ASSUME NEW s \in Seq(1..Len(received))
        PROVE  s \in Seq(1..Len(received'))
    BY <2>2
  <2>4. CASE delivered' = delivered
    BY <2>3, <2>4 DEF Recorded
  <2>5. CASE delivered' # delivered
    <3> DEFINE fragments == Append(msg_payload, Position)
               opcode == IF msg_started THEN msg_opcode ELSE f.op
               m == [frames |-> fragments, opcode |-> opcode, at |-> state]
    <3>1. delivered' = Append(delivered, m)
      BY <1>2, <2>5 DEF Passes, FrameData
    <3>2. delivered \in Seq(Message) /\ msg_payload \in Seq(1..Len(received))
      BY DEF TypeOK, MessageTypes
    <3>3. fragments \in Seq(1..Len(received'))
      BY <2>2, <3>2 DEF Position
    <3>4. m.frames = fragments
      OBVIOUS
    <3>5. ASSUME NEW i \in 1..Len(delivered')
          PROVE  delivered'[i].frames \in Seq(1..Len(received'))
      <4> HIDE DEF m
      <4>1. i \in 1..Len(delivered) => delivered'[i] = delivered[i]
        BY <3>1, <3>2
      <4>2. i \notin 1..Len(delivered) => delivered'[i] = m
        BY <3>1, <3>2
      <4> QED
        BY <2>3, <3>3, <3>4, <4>1, <4>2 DEF Recorded
    <3> QED
      BY <3>5 DEF Recorded
  <2> QED
    BY <2>4, <2>5
<1> QED
  BY <1>1, <1>2 DEF MessageShape

\* The fragment of a data frame, added to what an Active session has kept, is the
\* beginning of one message, or all of it.
LEMMA FragmentAdded ==
  ASSUME TypeOK, Underway, state = "Active", NEW f \in ClientFrames, FrameData(f)
  PROVE  Assembled(Append(received, f), Append(msg_payload, Position),
                   IF msg_started THEN msg_opcode ELSE f.op)
<1>1. received \in Seq(ClientFrames) /\ msg_payload \in Seq(1..Len(received))
  BY DEF TypeOK, MessageTypes
<1>2. CASE msg_started
  <2>1. f.op = "cont" /\ Len(msg_payload) + 1 <= MaxMessage
    BY <1>1, <1>2, ConstantsAssumption
       DEF FrameData, IsData, Overflows, ConstantsAssumption
  <2>2. /\ Assembled(received, msg_payload, msg_opcode)
        /\ ~ received[msg_payload[Len(msg_payload)]].fin
        /\ Consecutive(received, msg_payload[Len(msg_payload)], Len(received) + 1)
    BY <1>2 DEF Underway
  <2> QED
    BY <1>1, <1>2, <2>1, <2>2, AssembledNext DEF Position
<1>3. CASE ~ msg_started
  <2>1. f.op \in {"text", "binary"}
    BY <1>3, ConstantsAssumption
       DEF FrameData, IsData, ConstantsAssumption, Frame
  <2>2. Append(msg_payload, Position) = <<Len(received) + 1>>
    BY <1>1, <1>3 DEF Underway, Position
  <2> QED
    BY <1>1, <1>3, <2>1, <2>2, AssembledFirst
<1> QED
  BY <1>2, <1>3

\* What is kept of a message stays its beginning.
LEMMA UnderwayStep ==
  ASSUME TypeOK, Unbegun, Underway, MessageShape
  PROVE  Underway'
<1> SUFFICES ASSUME state' = "Active" PROVE Underway'
  BY DEF Underway
<1>1. received \in Seq(ClientFrames) /\ msg_payload \in Seq(1..Len(received))
  BY DEF TypeOK, MessageTypes
<1>2. CASE Quiet /\ rd = "handshake"
  BY <1>2 DEF Quiet, Unbegun, Underway
<1>3. CASE Quiet /\ rd # "handshake"
  BY <1>3 DEF Quiet, Underway
<1>4. ASSUME NEW f \in ClientFrames, Passes(f) PROVE Underway'
  <2> DEFINE last == msg_payload[Len(msg_payload)]
  <2>1. /\ state = "Active" /\ f.op \in {"ping", "pong"}
        /\ received' = Append(received, f)
        /\ UNCHANGED msgVars
    BY <1>4 DEF Passes
  <2>2. CASE ~ msg_started
    BY <2>1, <2>2 DEF Underway
  <2>3. CASE msg_started
    <3>1. /\ Assembled(received, msg_payload, msg_opcode)
          /\ ~ received[last].fin
          /\ Consecutive(received, last, Len(received) + 1)
      BY <2>1, <2>3 DEF Underway
    <3>2. last \in 1..Len(received) /\ last \in Nat
      BY <1>1, <3>1, ConstantsAssumption DEF Assembled, ConstantsAssumption
    <3>3. Assembled(received', msg_payload, msg_opcode)
      BY <1>1, <2>1, <3>1, AssembledLater
    <3>4. ~ received'[last].fin
      BY <1>1, <2>1, <3>1, <3>2, EarlierFrames
    <3>5. Consecutive(received', last, Len(received') + 1)
      <4>1. Consecutive(received', last, Len(received) + 1)
        BY <1>1, <2>1, <3>1, <3>2, ConsecutiveLater
      <4>2. /\ Len(received') = Len(received) + 1
            /\ received'[Len(received) + 1] = f
        BY <1>1, <2>1, EarlierFrames
      <4> QED
        BY <1>1, <2>1, <3>2, <4>1, <4>2 DEF Consecutive
    <3> QED
      BY <2>1, <2>3, <3>3, <3>4, <3>5 DEF Underway
  <2> QED
    BY <2>2, <2>3
<1>5. ASSUME NEW f \in ClientFrames, FrameData(f) PROVE Underway'
  <2>1. state = "Active" /\ received' = Append(received, f)
    BY <1>5 DEF FrameData, Parse
  <2>2. CASE f.fin
    BY <1>5, <2>2 DEF FrameData, Underway
  <2>3. CASE ~ f.fin
    <3> DEFINE fragments == Append(msg_payload, Position)
               opcode == IF msg_started THEN msg_opcode ELSE f.op
    <3>1. msg_started' /\ msg_payload' = fragments /\ msg_opcode' = opcode
      BY <1>5, <2>3 DEF FrameData
    <3>2. Assembled(received', fragments, opcode)
      BY <1>5, <2>1, FragmentAdded
    <3>3. fragments[Len(fragments)] = Len(received) + 1
      BY <1>1 DEF Position
    <3>4. /\ received'[Len(received) + 1] = f
          /\ Len(received') = Len(received) + 1
      BY <1>1, <2>1, EarlierFrames
    <3>5. Consecutive(received', Len(received) + 1, Len(received') + 1)
      BY <1>1, <3>4 DEF Consecutive
    <3> HIDE DEF fragments, opcode
    <3> QED
      BY <2>3, <3>1, <3>2, <3>3, <3>4, <3>5 DEF Underway
  <2> QED
    BY <2>2, <2>3
<1> QED
  BY <1>2, <1>3, <1>4, <1>5 DEF MessageShape

\* What was delivered stays a message of the peer, and what an Active session
\* delivers is one.
LEMMA ReassemblyStep ==
  ASSUME TypeOK, Underway, Recorded, ReassemblyExact, MessageShape
  PROVE  ReassemblyExact'
<1>1. /\ received \in Seq(ClientFrames) /\ msg_payload \in Seq(1..Len(received))
      /\ delivered \in Seq(Message)
  BY DEF TypeOK, MessageTypes
<1>2. CASE Quiet
  BY <1>2 DEF Quiet, ReassemblyExact
<1>3. ASSUME NEW f \in ClientFrames, Passes(f) \/ FrameData(f)
      PROVE  ReassemblyExact'
  <2>1. received' = Append(received, f)
    BY <1>3 DEF Passes, FrameData, Parse
  <2>2. ASSUME NEW i \in 1..Len(delivered), delivered[i].at = "Active"
        PROVE  LET m == delivered[i]
               IN  /\ Assembled(received', m.frames, m.opcode)
                   /\ received'[m.frames[Len(m.frames)]].fin
    <3> DEFINE m == delivered[i]
    <3>1. m.frames \in Seq(1..Len(received))
      BY DEF Recorded
    <3>2. Assembled(received, m.frames, m.opcode)
      BY <2>2 DEF ReassemblyExact
    <3>3. received[m.frames[Len(m.frames)]].fin
      BY <2>2 DEF ReassemblyExact
    <3> HIDE DEF m
    <3>4. m.frames[Len(m.frames)] \in 1..Len(received)
      BY <3>1, <3>2, ConstantsAssumption DEF Assembled, ConstantsAssumption
    <3>5. Assembled(received', m.frames, m.opcode)
      BY <1>1, <2>1, <3>1, <3>2, AssembledLater
    <3>6. received'[m.frames[Len(m.frames)]].fin
      BY <1>1, <2>1, <3>3, <3>4, EarlierFrames
    <3> QED
      BY <3>5, <3>6 DEF m
  <2>3. CASE delivered' = delivered
    BY <2>2, <2>3 DEF ReassemblyExact
  <2>4. CASE delivered' # delivered
    <3> DEFINE fragments == Append(msg_payload, Position)
               opcode == IF msg_started THEN msg_opcode ELSE f.op
               m == [frames |-> fragments, opcode |-> opcode, at |-> state]
    <3>1. FrameData(f) /\ f.fin /\ delivered' = Append(delivered, m)
      BY <1>3, <2>4 DEF Passes, FrameData
    <3>2. state = "Active" => Assembled(received', fragments, opcode)
      BY <2>1, <3>1, FragmentAdded
    <3>3. received'[fragments[Len(fragments)]].fin
      BY <1>1, <2>1, <3>1, EarlierFrames DEF Position
    <3>4. m.frames = fragments /\ m.opcode = opcode /\ m.at = state
      OBVIOUS
    <3>5. ASSUME NEW i \in 1..Len(delivered'), delivered'[i].at = "Active"
          PROVE  /\ Assembled(received', delivered'[i].frames, delivered'[i].opcode)
                 /\ received'[delivered'[i].frames[Len(delivered'[i].frames)]].fin
      <4> HIDE DEF m, fragments, opcode
      <4>1. i \in 1..Len(delivered) => delivered'[i] = delivered[i]
        BY <1>1, <3>1
      <4>2. i \notin 1..Len(delivered) => delivered'[i] = m
        BY <1>1, <3>1
      <4>3. CASE i \in 1..Len(delivered)
        BY <2>2, <3>5, <4>1, <4>3
      <4>4. CASE i \notin 1..Len(delivered)
        BY <3>2, <3>3, <3>4, <3>5, <4>2, <4>4
      <4> QED
        BY <4>3, <4>4
    <3> QED
      BY <3>5 DEF ReassemblyExact
  <2> QED
    BY <2>3, <2>4
<1> QED
  BY <1>2, <1>3 DEF MessageShape

\* MessageInv is an invariant.
LEMMA MessageInvariant == Spec => []MessageInv
<1>1. Init => MessageInv
  BY DEF Init, MessageInv, Unbegun, Underway, Recorded, ReassemblyExact
<1>2. TypeOK /\ MessageInv /\ [Next]_vars => MessageInv'
  <2> SUFFICES ASSUME TypeOK, MessageInv, [Next]_vars PROVE MessageInv'
    OBVIOUS
  <2>1. CASE Next
    BY <2>1, MessageShapes, UnbegunStep, UnderwayStep, RecordedStep,
       ReassemblyStep DEF MessageInv
  <2>2. CASE UNCHANGED vars
    BY <2>2 DEF MessageInv, Unbegun, Underway, Recorded, ReassemblyExact
  <2> QED
    BY <2>1, <2>2
<1> QED
  BY <1>1, <1>2, Typing, PTL DEF Spec

\* Every message an Active session delivers is exactly one message of the peer, in
\* whatever frames it came and whatever control frames came in between
\* (HandleDataFrame, DeliverMessage).
THEOREM ReassemblyExactHolds == Spec => []ReassemblyExact
<1>1. MessageInv => ReassemblyExact
  BY DEF MessageInv
<1> QED
  BY <1>1, MessageInvariant, PTL
=============================================================================
