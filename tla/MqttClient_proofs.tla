-------------------------- MODULE MqttClient_proofs --------------------------
(***************************************************************************)
(* That the invariants MqttClient checks hold for any number of publishes  *)
(* and of failures.  MqttInv, their conjunction with what a step needs of  *)
(* the queue and of the socket, is inductive.  The queue enters only       *)
(* through ConnectQueued and DisconnectQueued, which the first lemmas      *)
(* follow through an append and a removal.                                 *)
(***************************************************************************)
EXTENDS MqttClient, SequenceTheorems, TLAPS

Functions == {"connect", "publish", "subscribe", "disconnect"}

QueueOK == queue \in Seq(Item)

\* A step is an action or a stutter: Next with its groups of actions opened.
LEMMA Steps ==
  ASSUME [Next]_vars
  PROVE  \/ UNCHANGED vars
         \/ StartThread
         \/ PostConnect
         \/ Publish
         \/ Disconnect
         \/ PostDisconnect
         \/ Release
         \/ RunConnect
         \/ RunPublish
         \/ RunSubscribe
         \/ RunDisconnect
         \/ IoEnds
         \/ ConnectOk
         \/ ConnectFails
         \/ ReadFails
         \/ ConnAckAccepted
         \/ ConnAckRefused
         \/ \E n \in Publishes : PubAck(n)
         \/ \E n \in Publishes : PubRec(n)
         \/ \E n \in Publishes : PubComp(n)
         \/ ReconnectFires
         \/ KeepAliveFires
         \/ ReconnectExpires
         \/ KeepAliveExpires
         \/ TcpConnects
         \/ TcpFails
         \/ TcpBreaks
         \/ \E n \in Publishes : BrokerReceives(n)
BY DEF Next, Caller, RunPosted, ConnectEnds, ReadsPacket, Timers, Network

\* Posting a function adds it, and nothing else, to what is queued; the first
\* attempt stays the first as long as it is posted to an empty queue.
LEMMA QueueAppend ==
  ASSUME queue \in Seq(Item), NEW item, item.do \in Functions,
         queue' = Append(queue, item)
  PROVE  /\ (ConnectQueued' <=> ConnectQueued \/ item.do = "connect")
         /\ (DisconnectQueued' <=> DisconnectQueued \/ item.do = "disconnect")
         /\ FirstOnly /\ (item.do = "connect" => queue = <<>>) => FirstOnly'
<1>1. /\ Len(queue') = Len(queue) + 1
      /\ Len(queue) \in Nat
      /\ queue'[Len(queue) + 1] = item
      /\ \A i \in 1..Len(queue) : queue'[i] = queue[i]
      BY DEF Item, Functions
<1>2. \A f \in Functions :
        (\E i \in 1..Len(queue') : queue'[i].do = f)
          <=> (\E i \in 1..Len(queue) : queue[i].do = f) \/ item.do = f
  <2> SUFFICES ASSUME NEW f \in Functions
               PROVE  (\E i \in 1..Len(queue') : queue'[i].do = f)
                        <=> (\E i \in 1..Len(queue) : queue[i].do = f) \/ item.do = f
      OBVIOUS
  <2>1. ASSUME NEW i \in 1..Len(queue'), queue'[i].do = f
        PROVE  (\E j \in 1..Len(queue) : queue[j].do = f) \/ item.do = f
    <3>1. CASE i = Len(queue) + 1
        BY <1>1, <2>1, <3>1
    <3>2. CASE i \in 1..Len(queue)
        BY <1>1, <2>1, <3>2
    <3> QED
        BY <1>1, <2>1, <3>1, <3>2
  <2>2. ASSUME NEW i \in 1..Len(queue), queue[i].do = f
        PROVE  \E j \in 1..Len(queue') : queue'[j].do = f
    <3>1. i \in 1..Len(queue') /\ queue'[i].do = f
        BY <1>1, <2>2
    <3> QED
        BY <3>1
  <2>3. ASSUME item.do = f
        PROVE  \E j \in 1..Len(queue') : queue'[j].do = f
    <3>1. Len(queue') \in 1..Len(queue') /\ queue'[Len(queue')].do = f
        BY <1>1, <2>3
    <3> QED
        BY <3>1
  <2> QED
      BY <2>1, <2>2, <2>3
<1>3. ASSUME FirstOnly, item.do = "connect" => queue = <<>>
      PROVE  FirstOnly'
  <2> SUFFICES ASSUME NEW i \in 2..Len(queue')
               PROVE  queue'[i].do # "connect"
      BY DEF FirstOnly
  <2>1. CASE i \in 2..Len(queue)
      BY <1>1, <1>3, <2>1 DEF FirstOnly
  <2>2. CASE i = Len(queue) + 1
    <3>1. queue # <<>>
        BY <1>1, <2>2
    <3> QED
        BY <1>1, <1>3, <2>2, <3>1
  <2> QED
      BY <1>1, <2>1, <2>2
<1> QED
    BY <1>2, <1>3 DEF InQueue, ConnectQueued, DisconnectQueued, Functions

\* Taking a function removes at most it, and the first attempt for good.
LEMMA QueueTail ==
  ASSUME queue \in Seq(Item), queue # <<>>, queue' = Tail(queue), FirstOnly
  PROVE  /\ FirstOnly' /\ ~ ConnectQueued'
         /\ DisconnectQueued' => DisconnectQueued
         /\ DisconnectQueued /\ Head(queue).do # "disconnect" => DisconnectQueued'
         /\ Head(queue).do = "connect" => ConnectQueued
         /\ ConnectQueued => Head(queue).do = "connect"
         /\ Head(queue) \in Item
<1>1. /\ Len(queue) \in Nat \ {0}
      /\ Len(queue') = Len(queue) - 1
      /\ \A i \in 1..Len(queue') : queue'[i] = queue[i + 1]
      /\ Head(queue) = queue[1]
      /\ queue[1] \in Item
      BY HeadTailProperties, EmptySeq
<1>2. FirstOnly' /\ ~ ConnectQueued'
  <2>1. \A i \in 1..Len(queue') : i + 1 \in 2..Len(queue)
      BY <1>1
  <2>2. \A i \in 1..Len(queue') : queue'[i].do # "connect"
      BY <1>1, <2>1 DEF FirstOnly
  <2> QED
      BY <1>1, <2>2 DEF FirstOnly, ConnectQueued, InQueue
<1>3. DisconnectQueued' => DisconnectQueued
      BY <1>1 DEF DisconnectQueued, InQueue
<1>4. DisconnectQueued /\ Head(queue).do # "disconnect" => DisconnectQueued'
  <2> SUFFICES ASSUME NEW i \in 1..Len(queue), queue[i].do = "disconnect",
                      Head(queue).do # "disconnect"
               PROVE  \E j \in 1..Len(queue') : queue'[j].do = "disconnect"
      BY DEF DisconnectQueued, InQueue
  <2>1. i - 1 \in 1..Len(queue')
      BY <1>1
  <2>2. queue'[i - 1].do = "disconnect"
      BY <1>1, <2>1
  <2> QED
      BY <2>1, <2>2
<1>5. Head(queue).do = "connect" => ConnectQueued
      BY <1>1 DEF ConnectQueued, InQueue
<1>6. ConnectQueued => Head(queue).do = "connect"
  <2> SUFFICES ASSUME NEW i \in 1..Len(queue), queue[i].do = "connect"
               PROVE  Head(queue).do = "connect"
      BY DEF ConnectQueued, InQueue
  <2>1. i = 1
      BY <1>1 DEF FirstOnly
  <2> QED
      BY <1>1, <2>1
<1> QED
    BY <1>1, <1>2, <1>3, <1>4, <1>5, <1>6

\* A step that leaves the queue alone leaves what is said of it.
LEMMA QueueSame ==
  ASSUME queue' = queue
  PROVE  /\ (ConnectQueued' <=> ConnectQueued)
         /\ (DisconnectQueued' <=> DisconnectQueued)
         /\ FirstOnly' = FirstOnly
BY DEF ConnectQueued, DisconnectQueued, InQueue, FirstOnly

\* Nothing is queued in an empty queue.
LEMMA QueueEmpty ==
  /\ queue = <<>> => ~ ConnectQueued /\ ~ DisconnectQueued /\ FirstOnly
  /\ queue' = <<>> => ~ ConnectQueued' /\ ~ DisconnectQueued' /\ FirstOnly'
BY DEF ConnectQueued, DisconnectQueued, InQueue, FirstOnly

\* A step keeps the type of the queue.
LEMMA QueueType ==
  ASSUME TypeOK, [Next]_vars
  PROVE  QueueOK'
<1> USE ConstantsAssumption
<1>1. queue \in Seq(Item) /\ published \in Nat
      BY DEF TypeOK
<1> DEFINE Moves == \/ queue' \in {queue, <<>>}
                    \/ queue # <<>> /\ queue' = Tail(queue)
                    \/ \E f \in Functions : Posts(f)
<1>2. ASSUME published' = published, Moves
      PROVE  QueueOK'
  <2>1. Item' = Item
      BY <1>2 DEF Item
  <2>2. CASE queue' \in {queue, <<>>}
      BY <1>1, <2>1, <2>2, EmptySeq DEF QueueOK
  <2>3. CASE queue # <<>> /\ queue' = Tail(queue)
      BY <1>1, <2>1, <2>3, HeadTailProperties DEF QueueOK
  <2>4. ASSUME NEW f \in Functions, Posts(f)
        PROVE  QueueOK'
    <3>1. [do |-> f, n |-> 0] \in Item
        BY <1>1 DEF Item, Functions
    <3> QED
        BY <1>1, <2>1, <2>4, <3>1, AppendProperties DEF QueueOK, Posts
  <2> QED
      BY <1>2, <2>2, <2>3, <2>4
<1>3. ASSUME Publish
      PROVE  QueueOK'
  <2>1. published' \in Nat /\ published <= published'
      BY <1>1, <1>3 DEF Publish
  <2>2. /\ Item \subseteq Item'
        /\ [do |-> "publish", n |-> published'] \in Item'
      BY <1>1, <2>1 DEF Item
  <2>3. queue \in Seq(Item')
      BY <1>1, <2>2, ElementOfSeq, SeqDef
  <2> QED
      BY <1>3, <2>2, <2>3, AppendProperties DEF QueueOK, Publish
<1>4. \/ Publish
      \/ published' = published /\ Moves
      BY Steps DEF StartThread, PostConnect, Disconnect, PostDisconnect, Release,
           RunConnect, RunPublish, RunSubscribe, RunDisconnect,
           IoEnds, ConnectOk, ConnectFails, ReadFails,
           ConnAckAccepted, ConnAckRefused, PubAck, PubRec,
           PubComp, ReconnectFires, KeepAliveFires,
           ReconnectExpires, KeepAliveExpires, TcpConnects,
           TcpFails, TcpBreaks, BrokerReceives, Takes,
           TakesToSend, Functions, vars, callerVars, linkVars,
           onlineVars, pubVars, timerVars
<1> HIDE DEF Moves
<1> QED
    BY <1>2, <1>3, <1>4

\* A step keeps the types.
LEMMA TypeStep ==
  ASSUME TypeOK, Lifecycle, [Next]_vars
  PROVE  TypeOK'
<1> USE ConstantsAssumption DEF TypeOK, Publishes
<1>a. queue # <<>> => Head(queue).n \in 0..published
  <2>1. queue # <<>> => Head(queue) \in Item
      BY HeadTailProperties
  <2> QED
      BY <2>1 DEF Item
<1>c. Fault => faults' \in 0..MaxFaults
      BY DEF Fault
<1>b. queue' \in Seq(Item')
      BY QueueType DEF QueueOK
<1>1. CASE StartThread
      BY <1>1, <1>a, <1>b, <1>c DEF StartThread, callerVars, linkVars, onlineVars, pubVars,
           timerVars
<1>2. CASE PostConnect
      BY <1>2, <1>a, <1>b, <1>c DEF PostConnect, Posts, callerVars, linkVars, onlineVars,
           pubVars, timerVars
<1>3. CASE Publish
      BY <1>3, <1>a, <1>b, <1>c DEF Publish, callerVars, linkVars, onlineVars, pubVars,
           timerVars
<1>4. CASE Disconnect
      BY <1>4, <1>a, <1>b, <1>c DEF Disconnect, callerVars, linkVars, onlineVars, pubVars,
           timerVars
<1>5. CASE PostDisconnect
      BY <1>5, <1>a, <1>b, <1>c DEF PostDisconnect, Posts, callerVars, linkVars, onlineVars,
           pubVars, timerVars
<1>6. CASE Release
  <2>1. io' \in {"none", "running", "ended", "crashed"}
      BY <1>6 DEF Release
  <2>2. UNCHANGED <<conn, sock, onlineVars, connected, timerVars>>
        \/ (conn' = "none" /\ reconnect' = {} /\ keepalive' = {} /\ CloseSocket)
      BY <1>6 DEF Release
  <2> QED
      BY <1>6, <1>b, <2>1, <2>2
         DEF Release, CloseSocket, Offline, onlineVars, timerVars, pubVars
<1>7. CASE RunConnect
  <2>1. PICK wait \in SUBSET {"waiting", "due"} : DoConnect(wait)
      BY <1>7 DEF RunConnect
  <2>2. faults' \in 0..MaxFaults
      BY <1>c, <2>1 DEF DoConnect
  <2>3. reconnect' \subseteq {"waiting", "due"}
      BY <2>1 DEF DoConnect, ScheduleReconnect, Arm
  <2>4. conn' \in {"none", "trying", "made", "failed"}
        /\ sock' \in {"closed", "connecting", "open", "dead"}
      BY <2>1 DEF DoConnect
  <2>5. UNCHANGED onlineVars \/ Offline
      BY <2>1 DEF DoConnect
  <2> QED
      BY <1>7, <1>b, <2>2, <2>3, <2>4, <2>5
         DEF RunConnect, Offline, callerVars, onlineVars, pubVars
<1>8. CASE RunPublish
      BY <1>8, <1>a, <1>b, <1>c DEF RunPublish, Premature, Runs, Takes, TakesToSend,
           callerVars, linkVars, onlineVars, pubVars, timerVars
<1>9. CASE RunSubscribe
      BY <1>9, <1>a, <1>b, <1>c DEF RunSubscribe, Premature, Runs, Takes, TakesToSend,
           callerVars, linkVars, onlineVars, pubVars, timerVars
<1>10. CASE RunDisconnect
      BY <1>10, <1>a, <1>b, <1>c DEF RunDisconnect, Offline, CloseSocket, Runs, Takes,
           callerVars, linkVars, onlineVars, pubVars, timerVars
<1>11. CASE IoEnds
      BY <1>11, <1>a, <1>b, <1>c DEF IoEnds, Runs, callerVars, linkVars, onlineVars, pubVars,
           timerVars
<1>12. CASE ConnectOk
      BY <1>12, <1>a, <1>b, <1>c DEF ConnectOk, Runs, callerVars, linkVars, onlineVars, pubVars,
           timerVars
<1>13. CASE ConnectFails
      BY <1>13, <1>a, <1>b, <1>c DEF ConnectFails, Arm, SeesStopped, SeesRunning,
           ScheduleReconnect, Runs, callerVars, linkVars, onlineVars,
           pubVars, timerVars
<1>14. CASE ReadFails
      BY <1>14, <1>a, <1>b, <1>c DEF ReadFails, Arm, SeesStopped, SeesRunning,
           ScheduleReconnect, Runs, callerVars, linkVars, onlineVars,
           pubVars, timerVars
<1>15. CASE ConnAckAccepted
      BY <1>15, <1>a, <1>b, <1>c DEF ConnAckAccepted, Arm, Runs, Reads, Posts, callerVars,
           linkVars, onlineVars, pubVars, timerVars
<1>16. CASE ConnAckRefused
      BY <1>16, <1>a, <1>b, <1>c DEF ConnAckRefused, Offline, CloseSocket, Arm,
           SeesStopped, SeesRunning, ScheduleReconnect, Runs, Reads,
           callerVars, linkVars, onlineVars, pubVars, timerVars
<1>17. CASE \E n \in Publishes : PubAck(n)
      BY <1>17, <1>a, <1>b, <1>c DEF PubAck, Runs, Reads, callerVars, linkVars, onlineVars,
           pubVars, timerVars
<1>18. CASE \E n \in Publishes : PubRec(n)
      BY <1>18, <1>a, <1>b, <1>c DEF PubRec, Runs, Reads, callerVars, linkVars, onlineVars,
           pubVars, timerVars
<1>19. CASE \E n \in Publishes : PubComp(n)
      BY <1>19, <1>a, <1>b, <1>c DEF PubComp, Runs, Reads, callerVars, linkVars, onlineVars,
           pubVars, timerVars
<1>20. CASE ReconnectFires
  <2>1. CASE \E wait \in SUBSET {"waiting", "due"} : DoConnect(wait)
    <3>1. PICK wait \in SUBSET {"waiting", "due"} : DoConnect(wait)
        BY <2>1
    <3>2. faults' \in 0..MaxFaults
        BY <1>c, <3>1 DEF DoConnect
    <3>3. reconnect' \subseteq {"waiting", "due"}
        BY <3>1 DEF DoConnect, ScheduleReconnect, Arm
    <3>4. conn' \in {"none", "trying", "made", "failed"}
          /\ sock' \in {"closed", "connecting", "open", "dead"}
        BY <3>1 DEF DoConnect
    <3>5. UNCHANGED onlineVars \/ Offline
        BY <3>1 DEF DoConnect
    <3> QED
        BY <1>20, <1>b, <3>2, <3>3, <3>4, <3>5
           DEF ReconnectFires, Offline, callerVars, onlineVars, pubVars
  <2>2. CASE reconnect' = reconnect \ {"due"} /\ UNCHANGED <<conn, sock, onlineVars, faults>>
      BY <1>20, <1>b, <2>2 DEF ReconnectFires, onlineVars, callerVars, pubVars
  <2> QED
      BY <1>20, <2>1, <2>2 DEF ReconnectFires
<1>21. CASE KeepAliveFires
  <2>1. faults' \in 0..MaxFaults
      BY <1>21, <1>c DEF KeepAliveFires
  <2>2. keepalive' \subseteq {"waiting", "due"}
      BY <1>21 DEF KeepAliveFires
  <2>3. sock' \in {"closed", "connecting", "open", "dead"}
      BY <1>21 DEF KeepAliveFires
  <2> QED
      BY <1>21, <1>b, <2>1, <2>2, <2>3
         DEF KeepAliveFires, callerVars, linkVars, onlineVars, pubVars
<1>22. CASE ReconnectExpires
      BY <1>22, <1>a, <1>b, <1>c DEF ReconnectExpires, callerVars, linkVars, onlineVars,
           pubVars, timerVars
<1>23. CASE KeepAliveExpires
      BY <1>23, <1>a, <1>b, <1>c DEF KeepAliveExpires, callerVars, linkVars, onlineVars,
           pubVars, timerVars
<1>24. CASE TcpConnects
      BY <1>24, <1>a, <1>b, <1>c DEF TcpConnects, callerVars, linkVars, onlineVars, pubVars,
           timerVars
<1>25. CASE TcpFails
      BY <1>25, <1>a, <1>b, <1>c DEF TcpFails, callerVars, linkVars, onlineVars, pubVars,
           timerVars
<1>26. CASE TcpBreaks
      BY <1>26, <1>a, <1>b, <1>c DEF TcpBreaks, Offline, callerVars, linkVars,
           onlineVars, pubVars, timerVars
<1>27. CASE \E n \in Publishes : BrokerReceives(n)
      BY <1>27, <1>a, <1>b, <1>c DEF BrokerReceives, callerVars, linkVars, onlineVars, pubVars,
           timerVars
<1>28. CASE UNCHANGED vars
      BY <1>28, <1>a, <1>b, <1>c DEF vars, callerVars, linkVars,
           onlineVars, pubVars, timerVars
<1> QED
      BY <1>1, <1>2, <1>3, <1>4, <1>5, <1>6, <1>7, <1>8, <1>9, <1>10,
         <1>11, <1>12, <1>13, <1>14, <1>15, <1>16, <1>17, <1>18, <1>19,
         <1>20, <1>21, <1>22, <1>23, <1>24, <1>25, <1>26, <1>27, <1>28,
         Steps

\* A step keeps the order of things on the link: what the queue holds, what is
\* under way, and that a stopped client stays down.
LEMMA LinkStep ==
  ASSUME MqttInv, [Next]_vars
  PROVE  /\ Lifecycle' /\ Link' /\ Order'
         /\ SingleChain' /\ NeverIdle' /\ StaysDown'
<1> USE DEF MqttInv, TypeOK, Lifecycle, Link, Order, SingleChain, NeverIdle, StaysDown
<1>a. queue \in Seq(Item)
      OBVIOUS
<1>1. CASE StartThread
  <2>1. /\ (ConnectQueued' <=> ConnectQueued)
        /\ (DisconnectQueued' <=> DisconnectQueued)
        /\ FirstOnly'
      BY <1>1, QueueSame DEF StartThread
  <2> QED
      BY <1>1, <2>1 DEF StartThread, callerVars, linkVars, onlineVars,
         pubVars, timerVars
<1>2. CASE PostConnect
  <2>1. /\ (ConnectQueued' <=> TRUE)
        /\ (DisconnectQueued' <=> DisconnectQueued)
        /\ FirstOnly'
    <3>1. queue' = Append(queue, [do |-> "connect", n |-> 0])
        BY <1>2 DEF PostConnect, Posts
    <3>2. [do |-> "connect", n |-> 0].do = "connect"
        OBVIOUS
    <3> QED
        BY <1>a, <1>2, <3>1, <3>2, QueueAppend DEF Functions, PostConnect
  <2> QED
      BY <1>2, <2>1 DEF PostConnect, Posts, callerVars, linkVars,
         onlineVars, pubVars, timerVars
<1>3. CASE Publish
  <2>1. /\ (ConnectQueued' <=> ConnectQueued)
        /\ (DisconnectQueued' <=> DisconnectQueued)
        /\ FirstOnly'
    <3>1. queue' = Append(queue, [do |-> "publish", n |-> published'])
        BY <1>3 DEF Publish, Posts
    <3>2. [do |-> "publish", n |-> published'].do = "publish"
        OBVIOUS
    <3> QED
        BY <1>a, <1>3, <3>1, <3>2, QueueAppend DEF Functions
  <2> QED
      BY <1>3, <2>1 DEF Publish, callerVars, linkVars, onlineVars,
         pubVars, timerVars
<1>4. CASE Disconnect
  <2>1. /\ (ConnectQueued' <=> ConnectQueued)
        /\ (DisconnectQueued' <=> DisconnectQueued)
        /\ FirstOnly'
      BY <1>4, QueueSame DEF Disconnect
  <2> QED
      BY <1>4, <2>1 DEF Disconnect, callerVars, linkVars, onlineVars,
         pubVars, timerVars
<1>5. CASE PostDisconnect
  <2>1. /\ (ConnectQueued' <=> ConnectQueued)
        /\ (DisconnectQueued' <=> TRUE)
        /\ FirstOnly'
    <3>1. queue' = Append(queue, [do |-> "disconnect", n |-> 0])
        BY <1>5 DEF PostDisconnect, Posts
    <3>2. [do |-> "disconnect", n |-> 0].do = "disconnect"
        OBVIOUS
    <3> QED
        BY <1>a, <1>5, <3>1, <3>2, QueueAppend DEF Functions
  <2> QED
      BY <1>5, <2>1 DEF PostDisconnect, Posts, callerVars, linkVars,
         onlineVars, pubVars, timerVars
<1>6. CASE Release
  <2>1. \/ /\ (ConnectQueued' <=> ConnectQueued)
           /\ (DisconnectQueued' <=> DisconnectQueued)
           /\ FirstOnly' /\ reading
        \/ ~ ConnectQueued' /\ FirstOnly' /\ ~ reading
      BY <1>6, QueueSame, QueueEmpty DEF Release
  <2> QED
      BY <1>6, <2>1 DEF Release, Offline, CloseSocket, Runs, callerVars,
         linkVars, onlineVars, pubVars, timerVars
<1>7. CASE RunConnect
  <2>1. /\ FirstOnly' /\ ~ ConnectQueued'
        /\ (DisconnectQueued' <=> DisconnectQueued)
        /\ ConnectQueued
      BY <1>a, <1>7, QueueTail DEF RunConnect, Takes
  <2>2. /\ conn = "none" /\ ~ reading /\ reconnect = {}
        /\ session = "none" /\ sock # "connecting"
      BY <2>1
  <2>3. UNCHANGED <<main, io, stopped, reading, connected>>
      BY <1>7 DEF RunConnect, callerVars
  <2>4. CASE /\ ScheduleReconnect(reconnect)
             /\ UNCHANGED <<conn, sock, onlineVars>>
    <3>1. /\ reconnect' # {"waiting", "due"}
          /\ ~ stopped => reconnect' # {}
      <4>1. \/ stopped /\ reconnect' = reconnect
            \/ reconnect' = reconnect \union {"waiting"}
          BY <2>4 DEF ScheduleReconnect, Arm, SeesStopped
      <4>2. "due" \notin reconnect' /\ (~ stopped => "waiting" \in reconnect')
          BY <2>2, <4>1
      <4> HIDE DEF MqttInv, TypeOK, Lifecycle, Link, Order, SingleChain, NeverIdle, StaysDown
      <4> QED
          BY <4>2
    <3>2. NeverIdle' /\ SingleChain'
        BY <2>1, <2>2, <2>3, <2>4, <3>1
    <3>3. Lifecycle' /\ Link' /\ Order' /\ StaysDown'
        BY <1>7, <2>1, <2>2, <2>3, <2>4 DEF RunConnect, Takes, onlineVars
    <3> QED
        BY <3>2, <3>3
  <2>5. CASE /\ conn' = "trying" /\ sock' = "connecting"
             /\ reconnect' = reconnect /\ Offline
      BY <1>7, <2>1, <2>2, <2>3, <2>5 DEF RunConnect, Takes, Offline
  <2> QED
      BY <1>7, <2>4, <2>5 DEF RunConnect, DoConnect
<1>8. CASE RunPublish
  <2>1. /\ FirstOnly' /\ ~ ConnectQueued'
        /\ (DisconnectQueued' <=> DisconnectQueued)
        /\ ~ ConnectQueued
      BY <1>a, <1>8, QueueTail DEF RunPublish, Takes, TakesToSend
  <2> QED
      BY <1>8, <2>1 DEF RunPublish, Premature, Runs, Takes, TakesToSend,
         callerVars, linkVars, onlineVars, pubVars, timerVars
<1>9. CASE RunSubscribe
  <2>1. /\ FirstOnly' /\ ~ ConnectQueued'
        /\ (DisconnectQueued' <=> DisconnectQueued)
        /\ ~ ConnectQueued
      BY <1>a, <1>9, QueueTail DEF RunSubscribe, Takes, TakesToSend
  <2> QED
      BY <1>9, <2>1 DEF RunSubscribe, Premature, Runs, Takes, TakesToSend,
         callerVars, linkVars, onlineVars, pubVars, timerVars
<1>10. CASE RunDisconnect
  <2>1. /\ FirstOnly' /\ ~ ConnectQueued'
        /\ DisconnectQueued' => DisconnectQueued
        /\ ~ ConnectQueued
      BY <1>a, <1>10, QueueTail DEF RunDisconnect, Takes
  <2> QED
      BY <1>10, <2>1 DEF RunDisconnect, Offline, CloseSocket, Runs, Takes,
         callerVars, linkVars, onlineVars, pubVars, timerVars
<1>11. CASE IoEnds
  <2>1. /\ (ConnectQueued' <=> ConnectQueued)
        /\ (DisconnectQueued' <=> DisconnectQueued)
        /\ FirstOnly'
      BY <1>11, QueueSame DEF IoEnds
  <2> QED
      BY <1>11, <2>1 DEF IoEnds, Runs, callerVars, linkVars, onlineVars,
         pubVars, timerVars
<1>12. CASE ConnectOk
  <2>1. /\ (ConnectQueued' <=> ConnectQueued)
        /\ (DisconnectQueued' <=> DisconnectQueued)
        /\ FirstOnly'
      BY <1>12, QueueSame DEF ConnectOk
  <2> QED
      BY <1>12, <2>1 DEF ConnectOk, Runs, callerVars, linkVars,
         onlineVars, pubVars, timerVars
<1>13. CASE ConnectFails
  <2>1. /\ (ConnectQueued' <=> ConnectQueued)
        /\ (DisconnectQueued' <=> DisconnectQueued)
        /\ FirstOnly'
      BY <1>13, QueueSame DEF ConnectFails
  <2> QED
      BY <1>13, <2>1 DEF ConnectFails, Arm, SeesStopped, SeesRunning,
         ScheduleReconnect, Runs, callerVars, linkVars, onlineVars,
         pubVars, timerVars
<1>14. CASE ReadFails
  <2>1. /\ (ConnectQueued' <=> ConnectQueued)
        /\ (DisconnectQueued' <=> DisconnectQueued)
        /\ FirstOnly'
      BY <1>14, QueueSame DEF ReadFails
  <2>2. /\ conn = "none" /\ ~ ConnectQueued /\ reconnect \in {{}, {"waiting"}}
        /\ session = "none" /\ sock # "connecting" /\ reading
      BY <1>14 DEF ReadFails
  <2>3. /\ reconnect' # {"waiting", "due"}
        /\ ~ stopped => reconnect' # {}
      BY <1>14, <2>2 DEF ReadFails, ScheduleReconnect, Arm, SeesStopped, SeesRunning
  <2>4. /\ reading' = FALSE /\ (io' = "running" => io = "running")
        /\ UNCHANGED <<main, stopped, queue, conn, sock, session, connected>>
      BY <1>14 DEF ReadFails, callerVars, onlineVars, Runs
  <2>5. NeverIdle' /\ SingleChain'
      BY <2>1, <2>2, <2>3, <2>4
  <2>6. Lifecycle' /\ Link' /\ Order' /\ StaysDown'
      BY <2>1, <2>2, <2>4
  <2> QED
      BY <2>5, <2>6
<1>15. CASE ConnAckAccepted
  <2>1. /\ (ConnectQueued' <=> ConnectQueued)
        /\ (DisconnectQueued' <=> DisconnectQueued)
        /\ FirstOnly'
    <3>1. queue' = Append(queue, [do |-> "subscribe", n |-> 0])
        BY <1>15 DEF ConnAckAccepted, Posts
    <3>2. [do |-> "subscribe", n |-> 0].do = "subscribe"
        OBVIOUS
    <3> QED
        BY <1>a, <1>15, <3>1, <3>2, QueueAppend DEF Functions
  <2> QED
      BY <1>15, <2>1 DEF ConnAckAccepted, Arm, Runs, Reads, Posts,
         callerVars, linkVars, onlineVars, pubVars, timerVars
<1>16. CASE ConnAckRefused
  <2>1. /\ (ConnectQueued' <=> ConnectQueued)
        /\ (DisconnectQueued' <=> DisconnectQueued)
        /\ FirstOnly'
      BY <1>16, QueueSame DEF ConnAckRefused
  <2>2. /\ conn = "none" /\ ~ ConnectQueued /\ reconnect = {} /\ reading
      BY <1>16 DEF ConnAckRefused, Reads
  <2>3. reconnect' \in {{}, {"waiting"}}
      BY <1>16, <2>2 DEF ConnAckRefused, ScheduleReconnect, Arm
  <2>4. /\ sock' = "closed" /\ session' = "none" /\ connected' = FALSE
        /\ UNCHANGED <<main, io, stopped, queue, conn, reading>>
      BY <1>16 DEF ConnAckRefused, CloseSocket, Offline, callerVars, linkVars
  <2> QED
      BY <2>1, <2>2, <2>3, <2>4
<1>17. CASE \E n \in Publishes : PubAck(n)
  <2>1. /\ (ConnectQueued' <=> ConnectQueued)
        /\ (DisconnectQueued' <=> DisconnectQueued)
        /\ FirstOnly'
      BY <1>17, QueueSame DEF PubAck
  <2> QED
      BY <1>17, <2>1 DEF PubAck, Runs, Reads, callerVars, linkVars,
         onlineVars, pubVars, timerVars
<1>18. CASE \E n \in Publishes : PubRec(n)
  <2>1. /\ (ConnectQueued' <=> ConnectQueued)
        /\ (DisconnectQueued' <=> DisconnectQueued)
        /\ FirstOnly'
      BY <1>18, QueueSame DEF PubRec
  <2> QED
      BY <1>18, <2>1 DEF PubRec, Runs, Reads, callerVars, linkVars,
         onlineVars, pubVars, timerVars
<1>19. CASE \E n \in Publishes : PubComp(n)
  <2>1. /\ (ConnectQueued' <=> ConnectQueued)
        /\ (DisconnectQueued' <=> DisconnectQueued)
        /\ FirstOnly'
      BY <1>19, QueueSame DEF PubComp
  <2> QED
      BY <1>19, <2>1 DEF PubComp, Runs, Reads, callerVars, linkVars,
         onlineVars, pubVars, timerVars
<1>20. CASE ReconnectFires
  <2>1. /\ (ConnectQueued' <=> ConnectQueued)
        /\ (DisconnectQueued' <=> DisconnectQueued)
        /\ FirstOnly'
      BY <1>20, QueueSame DEF ReconnectFires
  <2> QED
      BY <1>20, <2>1 DEF ReconnectFires, Offline, Fault, Arm, SeesStopped,
         SeesRunning, ScheduleReconnect, DoConnect, Runs, callerVars,
         linkVars, onlineVars, pubVars, timerVars
<1>21. CASE KeepAliveFires
  <2>1. /\ (ConnectQueued' <=> ConnectQueued)
        /\ (DisconnectQueued' <=> DisconnectQueued)
        /\ FirstOnly'
      BY <1>21, QueueSame DEF KeepAliveFires
  <2> QED
      BY <1>21, <2>1 DEF KeepAliveFires, Fault, Premature, Runs,
         callerVars, linkVars, onlineVars, pubVars, timerVars
<1>22. CASE ReconnectExpires
  <2>1. /\ (ConnectQueued' <=> ConnectQueued)
        /\ (DisconnectQueued' <=> DisconnectQueued)
        /\ FirstOnly'
      BY <1>22, QueueSame DEF ReconnectExpires
  <2> QED
      BY <1>22, <2>1 DEF ReconnectExpires, callerVars, linkVars,
         onlineVars, pubVars, timerVars
<1>23. CASE KeepAliveExpires
  <2>1. /\ (ConnectQueued' <=> ConnectQueued)
        /\ (DisconnectQueued' <=> DisconnectQueued)
        /\ FirstOnly'
      BY <1>23, QueueSame DEF KeepAliveExpires
  <2> QED
      BY <1>23, <2>1 DEF KeepAliveExpires, callerVars, linkVars,
         onlineVars, pubVars, timerVars
<1>24. CASE TcpConnects
  <2>1. /\ (ConnectQueued' <=> ConnectQueued)
        /\ (DisconnectQueued' <=> DisconnectQueued)
        /\ FirstOnly'
      BY <1>24, QueueSame DEF TcpConnects
  <2> QED
      BY <1>24, <2>1 DEF TcpConnects, callerVars, linkVars, onlineVars,
         pubVars, timerVars
<1>25. CASE TcpFails
  <2>1. /\ (ConnectQueued' <=> ConnectQueued)
        /\ (DisconnectQueued' <=> DisconnectQueued)
        /\ FirstOnly'
      BY <1>25, QueueSame DEF TcpFails
  <2> QED
      BY <1>25, <2>1 DEF TcpFails, Fault, callerVars, linkVars,
         onlineVars, pubVars, timerVars
<1>26. CASE TcpBreaks
  <2>1. /\ (ConnectQueued' <=> ConnectQueued)
        /\ (DisconnectQueued' <=> DisconnectQueued)
        /\ FirstOnly'
      BY <1>26, QueueSame DEF TcpBreaks
  <2> QED
      BY <1>26, <2>1 DEF TcpBreaks, Offline, Fault, callerVars, linkVars,
         onlineVars, pubVars, timerVars
<1>27. CASE \E n \in Publishes : BrokerReceives(n)
  <2>1. /\ (ConnectQueued' <=> ConnectQueued)
        /\ (DisconnectQueued' <=> DisconnectQueued)
        /\ FirstOnly'
      BY <1>27, QueueSame DEF BrokerReceives
  <2> QED
      BY <1>27, <2>1 DEF BrokerReceives, callerVars, linkVars, onlineVars,
         pubVars, timerVars
<1>28. CASE UNCHANGED vars
      BY <1>28 DEF vars, ConnectQueued, DisconnectQueued, InQueue,
           FirstOnly, callerVars, linkVars, onlineVars, pubVars,
           timerVars
<1> QED
      BY <1>1, <1>2, <1>3, <1>4, <1>5, <1>6, <1>7, <1>8, <1>9, <1>10,
         <1>11, <1>12, <1>13, <1>14, <1>15, <1>16, <1>17, <1>18, <1>19,
         <1>20, <1>21, <1>22, <1>23, <1>24, <1>25, <1>26, <1>27, <1>28,
         Steps

\* A step keeps the keep-alive timer of an accepted connection.
LEMMA KeptStep ==
  ASSUME MqttInv, [Next]_vars
  PROVE  KeptAlive'
<1>1. CASE ConnAckAccepted
      BY <1>1 DEF ConnAckAccepted, KeptAlive, Arm
<1>2. CASE KeepAliveFires
      BY <1>2 DEF KeepAliveFires, MqttInv, KeptAlive, Link, onlineVars
<1>3. CASE KeepAliveExpires
      BY <1>3 DEF KeepAliveExpires, KeptAlive
<1>4. CASE Release
      BY <1>4 DEF Release, MqttInv, KeptAlive, onlineVars, timerVars, Runs
<1>5. CASE ConnectOk
      BY <1>5 DEF ConnectOk, MqttInv, KeptAlive, timerVars
<1>6. CASE StartThread
      BY <1>6 DEF StartThread, MqttInv, Lifecycle, Link, KeptAlive, onlineVars
<1>7. ASSUME keepalive' = keepalive, session' = session \/ session' = "none",
             io' = io \/ io' # "running"
      PROVE  KeptAlive'
      BY <1>7 DEF MqttInv, KeptAlive
<1>8. \/ ConnAckAccepted \/ KeepAliveFires \/ KeepAliveExpires \/ Release
      \/ ConnectOk \/ StartThread
      \/ /\ keepalive' = keepalive
         /\ session' = session \/ session' = "none"
         /\ io' = io \/ io' # "running"
  <2>1. CASE \/ PostConnect \/ Publish \/ Disconnect \/ PostDisconnect \/ IoEnds
             \/ UNCHANGED vars
      BY <2>1 DEF PostConnect, Publish, Disconnect, PostDisconnect,
                 IoEnds, vars, callerVars, linkVars, onlineVars,
                 pubVars, timerVars
  <2>2. CASE RunConnect \/ RunPublish \/ RunSubscribe \/ RunDisconnect
      BY <2>2 DEF RunConnect, RunPublish, RunSubscribe, RunDisconnect,
                 DoConnect, Offline, CloseSocket, callerVars, linkVars,
                 onlineVars, pubVars, timerVars
  <2>3. CASE ConnectFails \/ ReadFails \/ ConnAckRefused
      BY <2>3 DEF ConnectFails, ReadFails, ConnAckRefused, CloseSocket,
                 Offline, callerVars, linkVars, onlineVars, pubVars,
                 timerVars
  <2>4. CASE \E n \in Publishes : PubAck(n) \/ PubRec(n) \/ PubComp(n) \/ BrokerReceives(n)
      BY <2>4 DEF PubAck, PubRec, PubComp, BrokerReceives, callerVars,
                 linkVars, onlineVars, pubVars, timerVars
  <2>5. CASE \/ ReconnectFires \/ ReconnectExpires
             \/ TcpConnects \/ TcpFails \/ TcpBreaks
      BY <2>5 DEF ReconnectFires, ReconnectExpires, TcpConnects,
                 TcpFails, TcpBreaks, DoConnect, Offline, callerVars,
                 linkVars, onlineVars, pubVars, timerVars
  <2> QED
      BY <2>1, <2>2, <2>3, <2>4, <2>5, Steps
<1> QED
    BY <1>1, <1>2, <1>3, <1>4, <1>5, <1>6, <1>7, <1>8

\* A step forgets no publish that has not reached the broker.
LEMMA ForgetStep ==
  ASSUME MqttInv, [Next]_vars
  PROVE  Released' /\ NoneForgotten'
<1> USE DEF MqttInv, TypeOK, Released, NoneForgotten
<1>1. ASSUME NEW n \in Publishes, PubAck(n) \/ PubRec(n) \/ PubComp(n) \/ BrokerReceives(n)
      PROVE  Released' /\ NoneForgotten'
  <2>1. CASE PubAck(n)
      BY <2>1 DEF PubAck, onlineVars
  <2>2. CASE PubRec(n)
      BY <2>2 DEF PubRec, pubVars
  <2>3. CASE PubComp(n)
      BY <2>3 DEF PubComp, onlineVars
  <2>4. CASE BrokerReceives(n)
      BY <2>4 DEF BrokerReceives, onlineVars
  <2> QED
      BY <1>1, <2>1, <2>2, <2>3, <2>4
<1>2. CASE RunPublish
      BY <1>2 DEF RunPublish
<1>3. ASSUME UNCHANGED pubVars, released' \subseteq released
      PROVE  Released' /\ NoneForgotten'
      BY <1>3 DEF pubVars
<1>4. \/ RunPublish
      \/ \E n \in Publishes : PubAck(n) \/ PubRec(n) \/ PubComp(n) \/ BrokerReceives(n)
      \/ UNCHANGED pubVars /\ released' \subseteq released
  <2>1. CASE \/ StartThread \/ PostConnect \/ Publish \/ Disconnect \/ PostDisconnect
             \/ IoEnds \/ UNCHANGED vars \/ Release
      BY <2>1 DEF StartThread, PostConnect, Publish, Disconnect,
                 PostDisconnect, IoEnds, Release, CloseSocket, Offline,
                 vars, callerVars, linkVars, onlineVars, pubVars,
                 timerVars
  <2>2. CASE RunConnect \/ RunSubscribe \/ RunDisconnect
      BY <2>2 DEF RunConnect, RunSubscribe, RunDisconnect, DoConnect,
                 Offline, CloseSocket, callerVars, linkVars, onlineVars,
                 pubVars, timerVars
  <2>3. CASE \/ ConnectOk \/ ConnectFails \/ ReadFails \/ ConnAckAccepted \/ ConnAckRefused
      BY <2>3 DEF ConnectOk, ConnectFails, ReadFails, ConnAckAccepted,
                 ConnAckRefused, CloseSocket, Offline, callerVars,
                 linkVars, onlineVars, pubVars, timerVars
  <2>5. CASE \/ ReconnectFires \/ KeepAliveFires \/ ReconnectExpires \/ KeepAliveExpires
             \/ TcpConnects \/ TcpFails \/ TcpBreaks
      BY <2>5 DEF ReconnectFires, KeepAliveFires, ReconnectExpires,
                 KeepAliveExpires, TcpConnects, TcpFails, TcpBreaks,
                 DoConnect, Offline, callerVars, linkVars, onlineVars,
                 pubVars, timerVars
  <2> QED
      BY <2>1, <2>2, <2>3, <2>5, Steps
<1> QED
    BY <1>1, <1>2, <1>3, <1>4

\* MqttInv is inductive.
LEMMA MqttInvariant == Spec => []MqttInv
<1>1. Init => MqttInv
  <2> SUFFICES ASSUME Init PROVE MqttInv
      OBVIOUS
  <2>1. queue \in Seq(Item)
      BY EmptySeq DEF Init
  <2>2. FirstOnly /\ ~ ConnectQueued /\ ~ DisconnectQueued
      BY QueueEmpty DEF Init
  <2>3. published \in 0..MaxPublishes /\ faults \in 0..MaxFaults
      BY ConstantsAssumption DEF Init
  <2>4. TypeOK
      BY <2>1, <2>3 DEF Init, TypeOK
  <2>5. /\ Lifecycle
        /\ Link
        /\ Order /\ NeverIdle
        /\ SingleChain
    <3>1. Lifecycle
        BY DEF Init, Lifecycle
    <3>2. Link
        BY DEF Init, Link
    <3>3. Order /\ NeverIdle
        BY <2>2 DEF Init, Order, NeverIdle
    <3>4. SingleChain
        BY <2>2 DEF Init, SingleChain
    <3> QED
        BY <3>1, <3>2, <3>3, <3>4
  <2>6. KeptAlive /\ StaysDown /\ Released /\ NoneForgotten
      BY DEF Init, KeptAlive, StaysDown, Released, NoneForgotten
  <2> QED
      BY <2>4, <2>5, <2>6 DEF MqttInv
<1>2. MqttInv /\ [Next]_vars => MqttInv'
      BY TypeStep, LinkStep, KeptStep, ForgetStep DEF MqttInv
<1> QED
    BY <1>1, <1>2, PTL DEF Spec

\* The types of MqttClient hold for every number of publishes and failures.
THEOREM MqttTyping == Spec => []TypeOK
<1>1. MqttInv => TypeOK
      BY DEF MqttInv
<1> QED
    BY <1>1, MqttInvariant, PTL

\* At no time do two attempts, or an attempt and a read loop, share the socket.
THEOREM SingleChainHolds == Spec => []SingleChain
<1>1. MqttInv => SingleChain
      BY DEF MqttInv
<1> QED
    BY <1>1, MqttInvariant, PTL

\* A client that runs and was not stopped always has its next attempt ahead.
THEOREM NeverIdleHolds == Spec => []NeverIdle
<1>1. MqttInv => NeverIdle
      BY DEF MqttInv
<1> QED
    BY <1>1, MqttInvariant, PTL

\* The keep-alive timer is armed for every accepted connection.
THEOREM KeptAliveHolds == Spec => []KeptAlive
<1>1. MqttInv => KeptAlive
      BY DEF MqttInv
<1> QED
    BY <1>1, MqttInvariant, PTL

\* A client whose Disconnect has run does not come up again.
THEOREM StaysDownHolds == Spec => []StaysDown
<1>1. MqttInv => StaysDown
      BY DEF MqttInv
<1> QED
    BY <1>1, MqttInvariant, PTL

\* A publish the broker does not have is never dropped.
THEOREM NoneForgottenHolds == Spec => []NoneForgotten
<1>1. MqttInv => NoneForgotten
      BY DEF MqttInv
<1> QED
    BY <1>1, MqttInvariant, PTL
=============================================================================
