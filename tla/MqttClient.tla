----------------------------- MODULE MqttClient -----------------------------
(***************************************************************************)
(* The connection of the camera to an MQTT broker: mqtt::MqttClient        *)
(* (src/src/mqtt/mqtt_client.cpp) as mqtt::MqttManager (mqtt_manager.cpp)  *)
(* uses it: one Start, publishes of QoS 1 and 2, one Stop.                 *)
(*                                                                         *)
(* One io thread runs all handlers.  Functions posted to it run in order;  *)
(* a connection attempt, the read loop and the two timers each leave at    *)
(* most one operation outstanding, and the thread ends when there is none  *)
(* left.  The caller's thread posts, sets stopped_ and, in Stop, lets go   *)
(* of the client: an outstanding read holds the other reference to it.     *)
(*                                                                         *)
(* A packet is its type and, for a PUBLISH, the number of the publish;     *)
(* packet identifiers do not repeat within the bound.  flight, released    *)
(* and subscribed say what has been sent on the current TCP connection.    *)
(* Writes are synchronous: while a connection is being made they wait for  *)
(* it, and a broker drops a connection whose first packet is no CONNECT.   *)
(* The status messages of the manager are left out.                        *)
(***************************************************************************)
EXTENDS Naturals, Sequences

CONSTANTS
  MaxPublishes,         \* bound: publishes of the application
  QoS2,                 \* those of them that are EXACTLY_ONCE
  MaxFaults             \* bound: failures of the network and the broker

ASSUME ConstantsAssumption ==
  /\ MaxPublishes \in Nat
  /\ QoS2 \subseteq 1..MaxPublishes
  /\ MaxFaults \in Nat

Publishes == 1..MaxPublishes

VARIABLES
  main,                 \* the caller of Start and Stop
  io,                   \* the io thread
  stopped,              \* stopped_
  queue,                \* functions posted to the io thread
  conn,                 \* the outstanding async_connect
  sock,                 \* socket_
  reading,              \* the outstanding async_read of the read loop
  session,              \* this connection at the broker
  connected,            \* connected_
  reconnect,            \* reconnect_timer_: its wait, and an expired one's handler
  keepalive,            \* keep_alive_timer_, likewise
  published,            \* how many publishes were accepted
  handled,              \* those of them whose posted function has run
  pending,              \* pending_publishes_
  flight,               \* publishes sent on this connection
  released,             \* those of them with a PUBREL
  subscribed,           \* SUBSCRIBE was sent on this connection
  delivered,            \* history: publishes that reached the broker
  faults                \* failures so far

callerVars == <<main, published>>
linkVars   == <<conn, reading>>
onlineVars == <<session, flight, released, subscribed>>
pubVars    == <<handled, pending, delivered>>
timerVars  == <<reconnect, keepalive>>

vars == <<callerVars, io, stopped, queue, linkVars, sock, onlineVars, connected,
          timerVars, pubVars, faults>>

Init ==
  /\ main = "new" /\ io = "none" /\ stopped = FALSE /\ queue = <<>>
  /\ conn = "none" /\ sock = "closed" /\ reading = FALSE
  /\ session = "none" /\ connected = FALSE
  /\ reconnect = {} /\ keepalive = {}
  /\ published = 0 /\ handled = {} /\ pending = {}
  /\ flight = {} /\ released = {} /\ subscribed = FALSE
  /\ delivered = {} /\ faults = 0

-----------------------------------------------------------------------------
(* Parts of handlers.                                                      *)

Runs == io = "running"

\* What was sent on a connection is gone with it.
Offline ==
  /\ session' = "none"
  /\ flight' = {} /\ released' = {}
  /\ subscribed' = FALSE

CloseSocket ==
  /\ sock' = "closed"
  /\ connected' = FALSE
  /\ Offline

Fault == faults < MaxFaults /\ faults' = faults + 1

\* expires_after aborts the wait that is outstanding, not a handler that is due.
Arm(timer) == timer \union {"waiting"}

Posts(function) == queue' = Append(queue, [do |-> function, n |-> 0])

InQueue(function) == \E i \in 1..Len(queue) : queue[i].do = function

ConnectQueued == InQueue("connect")
DisconnectQueued == InQueue("disconnect")

\* A handler that runs while Disconnect does may have seen stopped_ clear.
SeesStopped == stopped
SeesRunning == ~ stopped \/ main = "stopping" \/ DisconnectQueued

\* wait is what is left of the timer's wait and of its handlers.
ScheduleReconnect(wait) ==
  \/ SeesStopped /\ reconnect' = wait
  \/ SeesRunning /\ reconnect' = Arm(wait)

\* The name cannot be resolved, or an attempt begins; that closes the old socket.
DoConnect(wait) ==
  \/ /\ Fault
     /\ ScheduleReconnect(wait)
     /\ UNCHANGED <<conn, sock, onlineVars>>
  \/ /\ conn' = "trying"
     /\ sock' = "connecting"
     /\ reconnect' = wait
     /\ Offline
     /\ UNCHANGED faults

\* A packet other than CONNECT would be the first of its connection.
Premature == sock = "open" /\ session = "none"

-----------------------------------------------------------------------------
(* The caller: MqttManager::Start and Stop, and the application.           *)

\* Connect starts the io thread ...
StartThread ==
  /\ main = "new"
  /\ main' = "starting"
  /\ io' = "running"
  /\ UNCHANGED <<published, stopped, queue, linkVars, sock, onlineVars, connected,
                 timerVars, pubVars, faults>>

\* ... and then gives it something to do.
PostConnect ==
  /\ main = "starting"
  /\ main' = "up"
  /\ Posts("connect")
  /\ UNCHANGED <<published, io, stopped, linkVars, sock, onlineVars, connected,
                 timerVars, pubVars, faults>>

\* A publish of QoS 1 or 2 is accepted whether or not there is a connection.
Publish ==
  /\ main = "up" /\ published < MaxPublishes
  /\ published' = published + 1
  /\ queue' = Append(queue, [do |-> "publish", n |-> published'])
  /\ UNCHANGED <<main, io, stopped, linkVars, sock, onlineVars, connected,
                 timerVars, pubVars, faults>>

\* Disconnect, on the caller's thread.
Disconnect ==
  /\ main = "up"
  /\ main' = "stopping"
  /\ stopped' = TRUE
  /\ reconnect' = reconnect \ {"waiting"}
  /\ UNCHANGED <<published, io, queue, linkVars, sock, onlineVars, connected,
                 keepalive, pubVars, faults>>

PostDisconnect ==
  /\ main = "stopping"
  /\ main' = "posted"
  /\ Posts("disconnect")
  /\ UNCHANGED <<published, io, stopped, linkVars, sock, onlineVars, connected,
                 timerVars, pubVars, faults>>

\* client_.reset(): without an outstanding read this was the last reference, and
\* the destructor closes the socket, stops the io_context and joins the thread; a
\* connect handler running meanwhile gets no shared_from_this() and throws.
Release ==
  /\ main = "posted"
  /\ main' = "down"
  /\ IF reading
       THEN UNCHANGED <<io, queue, conn, sock, onlineVars, connected, timerVars>>
       ELSE /\ io' \in {"ended"} \union {c \in {"crashed"} : Runs /\ conn = "made"}
            /\ queue' = <<>> /\ conn' = "none"
            /\ reconnect' = {} /\ keepalive' = {}
            /\ CloseSocket
  /\ UNCHANGED <<published, stopped, reading, pubVars, faults>>

-----------------------------------------------------------------------------
(* The io thread: posted functions.                                        *)

Takes(function) ==
  /\ Runs /\ queue # <<>> /\ Head(queue).do = function
  /\ queue' = Tail(queue)

RunConnect ==
  /\ Takes("connect")
  /\ DoConnect(reconnect)
  /\ UNCHANGED <<callerVars, io, stopped, reading, connected, keepalive, pubVars>>

\* A write waits while the connection is being made.
TakesToSend(function) == Takes(function) /\ sock # "connecting"

\* Mutant of RunPublish: a publish is not kept when nothing can be sent.
RunPublishOnline ==
  /\ TakesToSend("publish")
  /\ handled' = handled \union {Head(queue).n}
  /\ pending' = IF session = "none" THEN pending ELSE pending \union {Head(queue).n}
  /\ flight' = IF session = "none" THEN flight ELSE flight \union {Head(queue).n}
  /\ sock' = IF Premature THEN "dead" ELSE sock
  /\ UNCHANGED <<callerVars, io, stopped, linkVars, session, released,
                 subscribed, connected, timerVars, delivered, faults>>

\* The packet is written if the socket can take it, and the publish kept.
RunPublish ==
  /\ TakesToSend("publish")
  /\ handled' = handled \union {Head(queue).n}
  /\ pending' = pending \union {Head(queue).n}
  /\ flight' = IF session = "none" THEN flight ELSE flight \union {Head(queue).n}
  /\ sock' = IF Premature THEN "dead" ELSE sock
  /\ UNCHANGED <<callerVars, io, stopped, linkVars, session, released,
                 subscribed, connected, timerVars, delivered, faults>>

RunSubscribe ==
  /\ TakesToSend("subscribe")
  /\ subscribed' = (subscribed \/ session # "none")
  /\ sock' = IF Premature THEN "dead" ELSE sock
  /\ UNCHANGED <<callerVars, io, stopped, linkVars, session, flight,
                 released, connected, timerVars, pubVars, faults>>

RunDisconnect ==
  /\ Takes("disconnect")
  /\ connected => sock # "connecting"
  /\ CloseSocket
  /\ UNCHANGED <<callerVars, io, stopped, linkVars, timerVars, pubVars, faults>>

\* run() returns when nothing is queued and nothing is outstanding.
IoEnds ==
  /\ Runs /\ queue = <<>> /\ conn = "none" /\ ~ reading
  /\ reconnect = {} /\ keepalive = {}
  /\ io' = "ended"
  /\ UNCHANGED <<callerVars, stopped, queue, linkVars, sock, onlineVars, connected,
                 timerVars, pubVars, faults>>

-----------------------------------------------------------------------------
(* The io thread: connecting and reading.                                  *)

\* The handler of a connection that was made; Disconnect may have closed it since.
ConnectOk ==
  /\ Runs /\ conn = "made"
  /\ conn' = "none"
  /\ reading' = TRUE
  /\ session' = IF sock = "open" THEN "asked" ELSE session
  /\ UNCHANGED <<callerVars, io, stopped, queue, sock, flight, released,
                 subscribed, connected, timerVars, pubVars, faults>>

\* Mutant of ConnectFails: the attempt is given up.
ConnectFailsForGood ==
  /\ Runs /\ conn = "failed"
  /\ conn' = "none"
  /\ UNCHANGED <<callerVars, io, stopped, queue, reading, sock, onlineVars,
                 connected, timerVars, pubVars, faults>>

ConnectFails ==
  /\ Runs /\ conn = "failed"
  /\ conn' = "none"
  /\ ScheduleReconnect(reconnect)
  /\ UNCHANGED <<callerVars, io, stopped, queue, reading, sock, onlineVars,
                 connected, keepalive, pubVars, faults>>

\* Mutant of ReadFails: the loop reads on after scheduling the next attempt.
ReadFailsReadsOn ==
  /\ Runs /\ reading /\ sock \in {"closed", "dead"}
  /\ ScheduleReconnect(reconnect)
  /\ UNCHANGED <<callerVars, io, stopped, queue, linkVars, sock, onlineVars,
                 connected, keepalive, pubVars, faults>>

\* connected_ stays as it was.  Once the caller has let go of the client the read
\* held the last reference: the destructor joins the thread it runs on.
ReadFails ==
  /\ Runs /\ reading /\ sock \in {"closed", "dead"}
  /\ reading' = FALSE
  /\ ScheduleReconnect(reconnect)
  /\ io' = IF main = "down" THEN "crashed" ELSE io
  /\ UNCHANGED <<callerVars, stopped, queue, conn, sock, onlineVars, connected,
                 keepalive, pubVars, faults>>

\* A packet of the broker has been read.
Reads == Runs /\ reading /\ sock = "open"

\* Mutant of ConnAckAccepted: the timer is started with the first connection only.
ConnAckAcceptedOnce ==
  /\ Reads /\ session = "asked"
  /\ session' = "accepted"
  /\ connected' = TRUE
  /\ keepalive' = IF connected THEN keepalive \ {"waiting"} ELSE Arm(keepalive)
  /\ Posts("subscribe")
  /\ io' = IF main = "down" THEN "crashed" ELSE io
  /\ UNCHANGED <<callerVars, stopped, linkVars, sock, flight, released,
                 subscribed, reconnect, pubVars, faults>>

\* Mutant of ConnAckAccepted: the manager subscribes with the first connection.
ConnAckAcceptedUnsubscribed ==
  /\ Reads /\ session = "asked"
  /\ session' = "accepted"
  /\ connected' = TRUE
  /\ keepalive' = Arm(keepalive)
  /\ IF connected THEN UNCHANGED queue ELSE Posts("subscribe")
  /\ io' = IF main = "down" THEN "crashed" ELSE io
  /\ UNCHANGED <<callerVars, stopped, linkVars, sock, flight, released,
                 subscribed, reconnect, pubVars, faults>>

\* The manager's callback subscribes through client_, which Stop has reset.
ConnAckAccepted ==
  /\ Reads /\ session = "asked"
  /\ session' = "accepted"
  /\ connected' = TRUE
  /\ keepalive' = Arm(keepalive)
  /\ Posts("subscribe")
  /\ io' = IF main = "down" THEN "crashed" ELSE io
  /\ UNCHANGED <<callerVars, stopped, linkVars, sock, flight, released,
                 subscribed, reconnect, pubVars, faults>>

\* The read loop goes on with the closed socket, where it fails.
ConnAckRefused ==
  /\ Reads /\ session = "asked"
  /\ Fault
  /\ CloseSocket
  /\ ScheduleReconnect(reconnect) \/ UNCHANGED reconnect
  /\ UNCHANGED <<callerVars, io, stopped, queue, linkVars, keepalive, pubVars>>

PubAck(n) ==
  /\ Reads /\ session = "accepted"
  /\ n \in (flight \intersect delivered) \ QoS2
  /\ pending' = pending \ {n}
  /\ UNCHANGED <<callerVars, io, stopped, queue, linkVars, sock, onlineVars,
                 connected, timerVars, handled, delivered, faults>>

PubRec(n) ==
  /\ Reads /\ session = "accepted"
  /\ n \in flight \intersect delivered \intersect QoS2
  /\ released' = released \union {n}
  /\ UNCHANGED <<callerVars, io, stopped, queue, linkVars, sock, session, flight,
                 subscribed, connected, timerVars, pubVars, faults>>

PubComp(n) ==
  /\ Reads /\ session = "accepted"
  /\ n \in released
  /\ pending' = pending \ {n}
  /\ UNCHANGED <<callerVars, io, stopped, queue, linkVars, sock, onlineVars,
                 connected, timerVars, handled, delivered, faults>>

-----------------------------------------------------------------------------
(* The io thread: timers.                                                  *)

\* Mutant of ReconnectFires: a stopped client reconnects.
ReconnectFiresStopped ==
  /\ Runs /\ "due" \in reconnect
  /\ DoConnect(reconnect \ {"due"})
  /\ UNCHANGED <<callerVars, io, stopped, queue, reading, connected, keepalive,
                 pubVars>>

ReconnectFires ==
  /\ Runs /\ "due" \in reconnect
  /\ \/ SeesRunning /\ DoConnect(reconnect \ {"due"})
     \/ /\ SeesStopped
        /\ reconnect' = reconnect \ {"due"}
        /\ UNCHANGED <<conn, sock, onlineVars, faults>>
  /\ UNCHANGED <<callerVars, io, stopped, queue, reading, connected, keepalive,
                 pubVars>>

\* connected_ may be that of an earlier connection.  That the PINGREQ overtakes
\* the CONNECT of the next one counts as a failure.
KeepAliveFires ==
  /\ Runs /\ "due" \in keepalive
  /\ \/ ~ connected /\ keepalive' = keepalive \ {"due"} /\ UNCHANGED <<sock, faults>>
     \/ /\ connected /\ sock # "connecting"
        /\ keepalive' = {"waiting"}
        /\ IF Premature THEN Fault /\ sock' = "dead" ELSE UNCHANGED <<sock, faults>>
  /\ UNCHANGED <<callerVars, io, stopped, queue, linkVars, onlineVars, connected,
                 reconnect, pubVars>>

\* The interval is seconds: a handler that is ready runs before it is over.
ReconnectExpires ==
  /\ "waiting" \in reconnect
  /\ ~ (reading /\ sock = "closed")
  /\ reconnect' = (reconnect \ {"waiting"}) \union {"due"}
  /\ UNCHANGED <<callerVars, io, stopped, queue, linkVars, sock, onlineVars,
                 connected, keepalive, pubVars, faults>>

KeepAliveExpires ==
  /\ "waiting" \in keepalive
  /\ keepalive' = (keepalive \ {"waiting"}) \union {"due"}
  /\ UNCHANGED <<callerVars, io, stopped, queue, linkVars, sock, onlineVars,
                 connected, reconnect, pubVars, faults>>

-----------------------------------------------------------------------------
(* The network and the broker.                                             *)

TcpConnects ==
  /\ conn = "trying" /\ sock = "connecting"
  /\ conn' = "made" /\ sock' = "open"
  /\ UNCHANGED <<callerVars, io, stopped, queue, reading, onlineVars, connected,
                 timerVars, pubVars, faults>>

\* No server, or the socket was closed under the attempt.
TcpFails ==
  /\ conn = "trying"
  /\ \/ sock = "connecting" /\ Fault
     \/ sock = "closed" /\ UNCHANGED faults
  /\ conn' = "failed" /\ sock' = "closed"
  /\ UNCHANGED <<callerVars, io, stopped, queue, reading, onlineVars, connected,
                 timerVars, pubVars>>

TcpBreaks ==
  /\ sock = "open" /\ Fault
  /\ sock' = "dead"
  /\ Offline
  /\ UNCHANGED <<callerVars, io, stopped, queue, linkVars, connected, timerVars,
                 pubVars>>

BrokerReceives(n) ==
  /\ sock = "open" /\ session = "accepted"
  /\ n \in flight \ delivered
  /\ delivered' = delivered \union {n}
  /\ UNCHANGED <<callerVars, io, stopped, queue, linkVars, sock, onlineVars,
                 connected, timerVars, handled, pending, faults>>

-----------------------------------------------------------------------------
Caller ==
  \/ StartThread
  \/ PostConnect
  \/ Publish
  \/ Disconnect
  \/ PostDisconnect
  \/ Release

RunPosted == RunConnect \/ RunPublish \/ RunSubscribe \/ RunDisconnect

ConnectEnds == ConnectOk \/ ConnectFails

ReadsPacket ==
  \/ ConnAckAccepted
  \/ ConnAckRefused
  \/ \E n \in Publishes : PubAck(n) \/ PubRec(n) \/ PubComp(n)

Timers ==
  \/ ReconnectFires
  \/ KeepAliveFires
  \/ ReconnectExpires
  \/ KeepAliveExpires

Network ==
  \/ TcpConnects
  \/ TcpFails
  \/ TcpBreaks
  \/ \E n \in Publishes : BrokerReceives(n)

Next ==
  \/ Caller
  \/ RunPosted
  \/ IoEnds
  \/ ConnectEnds
  \/ ReadFails
  \/ ReadsPacket
  \/ Timers
  \/ Network

Spec == Init /\ [][Next]_vars

\* The io thread gets round to every handler that is ready and every wait
\* expires.  The broker can be reached in the end, since faults are bounded: an
\* attempt then succeeds, a CONNECT is accepted, a PUBLISH received.
Fairness ==
  /\ WF_vars(RunPosted)
  /\ WF_vars(ConnectEnds)
  /\ WF_vars(ReadFails)
  /\ WF_vars(ReconnectFires)
  /\ WF_vars(ReconnectExpires)
  /\ WF_vars(TcpConnects)
  /\ WF_vars(ConnAckAccepted)
  /\ WF_vars(\E n \in Publishes : BrokerReceives(n))

FairSpec == Spec /\ Fairness

-----------------------------------------------------------------------------
(* Properties.                                                             *)

Item == [do : {"connect", "publish", "subscribe", "disconnect"}, n : 0..published]

\* The variables have their types.
TypeOK ==
  /\ main \in {"new", "starting", "up", "stopping", "posted", "down"}
  /\ io \in {"none", "running", "ended", "crashed"}
  /\ stopped \in BOOLEAN
  /\ queue \in Seq(Item)
  /\ conn \in {"none", "trying", "made", "failed"}
  /\ sock \in {"closed", "connecting", "open", "dead"}
  /\ reading \in BOOLEAN
  /\ session \in {"none", "asked", "accepted"}
  /\ connected \in BOOLEAN
  /\ reconnect \subseteq {"waiting", "due"}
  /\ keepalive \subseteq {"waiting", "due"}
  /\ published \in 0..MaxPublishes
  /\ handled \subseteq 0..published
  /\ pending \subseteq handled
  /\ flight \subseteq handled
  /\ released \subseteq flight \intersect QoS2
  /\ subscribed \in BOOLEAN
  /\ delivered \subseteq handled
  /\ faults \in 0..MaxFaults

\* Only one thing at a time is under way towards a connection or on it: the first
\* attempt that is queued, an attempt, a read loop, a wait for the next attempt.
\* Two would close each other's socket, and two read loops would tear packets
\* apart.  Only after a refused CONNECT the wait begins before the read has
\* failed (ParseConnAck closes and schedules, HandlePacket's caller reads on).
SingleChain ==
  /\ ConnectQueued => conn = "none" /\ ~ reading /\ reconnect = {}
  /\ conn # "none" => ~ reading /\ reconnect = {}
  /\ reading /\ reconnect # {} => reconnect = {"waiting"} /\ sock = "closed"
  /\ reconnect # {"waiting", "due"}

\* A client that has not been stopped never gives up, whatever fails: something
\* is under way as long as its io thread runs.
NeverIdle ==
  main = "up" /\ io = "running" =>
    ConnectQueued \/ conn # "none" \/ reading \/ reconnect # {}

\* A connection the broker has accepted is kept alive, although connected_ and
\* the timer may be left from an earlier one.
KeptAlive == session = "accepted" /\ io = "running" => keepalive # {}

\* Once Disconnect's function has run the client stays down, even if the
\* reconnect timer expired, or was armed again, while Disconnect was called.
StaysDown ==
  main \in {"posted", "down"} /\ ~ DisconnectQueued =>
    sock = "closed" /\ ~ connected

\* A publish is dropped from pending_publishes_ only once the broker has it.
NoneForgotten == handled \subseteq pending \union delivered

\* What the proofs of these invariants need besides: nothing is under way before
\* Connect has posted anything ...
Lifecycle ==
  /\ stopped <=> main \in {"stopping", "posted", "down"}
  /\ main \in {"new", "starting"} =>
       queue = <<>> /\ conn = "none" /\ ~ reading /\ reconnect = {}

\* ... a session belongs to the open socket that is read from, and a socket that
\* is being connected to the attempt that will be told of it ...
Link ==
  /\ session # "none" => sock = "open" /\ reading
  /\ session = "accepted" => connected
  /\ sock = "connecting" => conn = "trying"

FirstOnly == \A i \in 2..Len(queue) : queue[i].do # "connect"

\* ... and the first attempt is posted before anything else, so before Disconnect.
Order ==
  /\ FirstOnly
  /\ main \in {"posted", "down"} /\ ConnectQueued => DisconnectQueued

\* A PUBREL answers a PUBREC, which answers a PUBLISH that was received.
Released == released \subseteq delivered

MqttInv ==
  /\ TypeOK
  /\ Lifecycle
  /\ Link
  /\ Order
  /\ SingleChain
  /\ NeverIdle
  /\ KeptAlive
  /\ StaysDown
  /\ Released
  /\ NoneForgotten

\* However often the connection fails, the client is connected again in the end.
Recovers == main = "up" /\ io = "running" ~> session = "accepted" \/ stopped

\* On every connection the broker accepts the manager subscribes again: the
\* subscription posted by its callback does not end up on another connection.
Resubscribes == session = "accepted" ~> subscribed \/ session # "accepted" \/ stopped

\* mqtt_manager.h:65 says that Stop disconnects: it does not end the process.
StopSurvives == io # "crashed"
=============================================================================
