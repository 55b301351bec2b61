--------------------------- MODULE WsServer_proofs ---------------------------
(***************************************************************************)
(* What holds of the server for every number of clients, requests and      *)
(* restarts.  Typing gives the sets the variables range over; TableInv     *)
(* says that a session that is open, or may yet be, is in the table or was *)
(* out of Stop's reach; JoinInv says that a server with a thread of its    *)
(* own is never stopped or destroyed while that thread runs.               *)
(***************************************************************************)
EXTENDS WsServer, TLAPS

States == {"none", "handshaking", "active", "closing", "closed"}

Typing ==
    /\ accept \in [pc : {"none", "pending", "done", "failed", "again"}, client : Clients \cup {"none"}]
    /\ accept.pc = "done" => accept.client \in Clients
    /\ sessions \subseteq Clients
    /\ state \in [Clients -> States]
    /\ owns \in BOOLEAN /\ undefined \in BOOLEAN

\* An open session, or one in its handshake, is listed or late.
TableInv ==
    \A c \in Clients : state[c] \in {"handshaking", "active"} => c \in sessions \cup late

\* The thread of a server that stopped has ended, or never began.
JoinInv == owns /\ ctl \in {"stopped", "destroyed"} => io # "running"

ServerInv == Typing /\ TableInv /\ JoinInv /\ OwnServerSafe

\* The types are inductive.
LEMMA TypingStep ==
  ASSUME Typing, [Next]_vars
  PROVE  Typing'
<1> USE DEF Typing
<1>1. CASE Start
  BY <1>1 DEF Start, NoAccept, States
<1>2. CASE StopClears
  BY <1>2 DEF StopClears, NoAccept, States
<1>3. CASE StopClosesAcceptor
  BY <1>3 DEF StopClosesAcceptor, Aborted, NoAccept, States
<1>4. CASE StopCloses
  BY <1>4 DEF StopCloses, Closed, NoAccept, States
<1>5. CASE StopReturns
  BY <1>5 DEF StopReturns, Joined, NoAccept, States
<1>6. CASE Destroy
  BY <1>6 DEF Destroy, NoAccept, States
<1>7. CASE AcceptHandler
  BY <1>7 DEF AcceptHandler, Handler, AddSession, NoAccept, States
<1>8. CASE AcceptFails
  BY <1>8 DEF AcceptFails, Handler, NoAccept, States
<1>9. CASE AcceptAgain
  BY <1>9 DEF AcceptAgain, Handler, NoAccept, States
<1>10. CASE RunReturns
  BY <1>10 DEF RunReturns, NoAccept, States
<1>11. ASSUME NEW c \in Clients, NEW r \in Requests, HandshakeRead(c, r) PROVE Typing'
  BY <1>11 DEF HandshakeRead, Handler, DoClose, RemoveSession, NoAccept, States
<1>12. ASSUME NEW c \in Clients, ReadFails(c) PROVE Typing'
  BY <1>12 DEF ReadFails, Handler, DoClose, RemoveSession, NoAccept, States
<1>13. ASSUME NEW c \in Clients, HeartbeatTimeout(c) PROVE Typing'
  BY <1>13 DEF HeartbeatTimeout, Handler, DoClose, RemoveSession, NoAccept, States
<1>14. ASSUME NEW c \in Clients, Close(c) PROVE Typing'
  BY <1>14 DEF Close, Handler, NoAccept, States
<1>15. ASSUME NEW c \in Clients, CloseWritten(c) PROVE Typing'
  BY <1>15 DEF CloseWritten, Handler, DoClose, RemoveSession, NoAccept, States
<1>16. ASSUME NEW c \in Clients, AcceptCompletes(c) PROVE Typing'
  BY <1>16 DEF AcceptCompletes, NoAccept, States
<1>17. ASSUME NEW c \in Clients, Connects(c) PROVE Typing'
  BY <1>17 DEF Connects, NoAccept, States
<1>18. ASSUME NEW c \in Clients, Leaves(c) PROVE Typing'
  BY <1>18 DEF Leaves, NoAccept, States
<1>19. CASE UNCHANGED vars
  BY <1>19 DEF vars
<1> QED
  BY <1>1, <1>2, <1>3, <1>4, <1>5, <1>6, <1>7, <1>8, <1>9, <1>10, <1>11, <1>12, <1>13, <1>14, <1>15, <1>16, <1>17, <1>18, <1>19 DEF Next, Control, Io, Network

\* No handler, and no step of Stop, loses an open session.
LEMMA TableStep ==
  ASSUME Typing, TableInv, [Next]_vars
  PROVE  TableInv'
<1> USE DEF Typing
<1> USE DEF TableInv
<1>1. CASE Start
  BY <1>1 DEF Start, NoAccept, States
<1>2. CASE StopClears
  BY <1>2 DEF StopClears, NoAccept, States
<1>3. CASE StopClosesAcceptor
  BY <1>3 DEF StopClosesAcceptor, Aborted, NoAccept, States
<1>4. CASE StopCloses
  BY <1>4 DEF StopCloses, Closed, NoAccept, States
<1>5. CASE StopReturns
  BY <1>5 DEF StopReturns, Joined, NoAccept, States
<1>6. CASE Destroy
  BY <1>6 DEF Destroy, NoAccept, States
<1>7. CASE AcceptHandler
  BY <1>7 DEF AcceptHandler, Handler, AddSession, NoAccept, States
<1>8. CASE AcceptFails
  BY <1>8 DEF AcceptFails, Handler, NoAccept, States
<1>9. CASE AcceptAgain
  BY <1>9 DEF AcceptAgain, Handler, NoAccept, States
<1>10. CASE RunReturns
  BY <1>10 DEF RunReturns, NoAccept, States
<1>11. ASSUME NEW c \in Clients, NEW r \in Requests, HandshakeRead(c, r) PROVE TableInv'
  BY <1>11 DEF HandshakeRead, Handler, DoClose, RemoveSession, NoAccept, States
<1>12. ASSUME NEW c \in Clients, ReadFails(c) PROVE TableInv'
  BY <1>12 DEF ReadFails, Handler, DoClose, RemoveSession, NoAccept, States
<1>13. ASSUME NEW c \in Clients, HeartbeatTimeout(c) PROVE TableInv'
  BY <1>13 DEF HeartbeatTimeout, Handler, DoClose, RemoveSession, NoAccept, States
<1>14. ASSUME NEW c \in Clients, Close(c) PROVE TableInv'
  BY <1>14 DEF Close, Handler, NoAccept, States
<1>15. ASSUME NEW c \in Clients, CloseWritten(c) PROVE TableInv'
  BY <1>15 DEF CloseWritten, Handler, DoClose, RemoveSession, NoAccept, States
<1>16. ASSUME NEW c \in Clients, AcceptCompletes(c) PROVE TableInv'
  BY <1>16 DEF AcceptCompletes, NoAccept, States
<1>17. ASSUME NEW c \in Clients, Connects(c) PROVE TableInv'
  BY <1>17 DEF Connects, NoAccept, States
<1>18. ASSUME NEW c \in Clients, Leaves(c) PROVE TableInv'
  BY <1>18 DEF Leaves, NoAccept, States
<1>19. CASE UNCHANGED vars
  BY <1>19 DEF vars
<1> QED
  BY <1>1, <1>2, <1>3, <1>4, <1>5, <1>6, <1>7, <1>8, <1>9, <1>10, <1>11, <1>12, <1>13, <1>14, <1>15, <1>16, <1>17, <1>18, <1>19 DEF Next, Control, Io, Network

\* The thread does not start again under a server that has stopped.
LEMMA JoinStep ==
  ASSUME JoinInv, [Next]_vars
  PROVE  JoinInv'
<1> USE DEF JoinInv
<1>1. CASE Start
  BY <1>1 DEF Start, NoAccept, States
<1>2. CASE StopClears
  BY <1>2 DEF StopClears, NoAccept, States
<1>3. CASE StopClosesAcceptor
  BY <1>3 DEF StopClosesAcceptor, Aborted, NoAccept, States
<1>4. CASE StopCloses
  BY <1>4 DEF StopCloses, Closed, NoAccept, States
<1>5. CASE StopReturns
  BY <1>5 DEF StopReturns, Joined, NoAccept, States
<1>6. CASE Destroy
  BY <1>6 DEF Destroy, NoAccept, States
<1>7. CASE AcceptHandler
  BY <1>7 DEF AcceptHandler, Handler, AddSession, NoAccept, States
<1>8. CASE AcceptFails
  BY <1>8 DEF AcceptFails, Handler, NoAccept, States
<1>9. CASE AcceptAgain
  BY <1>9 DEF AcceptAgain, Handler, NoAccept, States
<1>10. CASE RunReturns
  BY <1>10 DEF RunReturns, NoAccept, States
<1>11. ASSUME NEW c \in Clients, NEW r \in Requests, HandshakeRead(c, r) PROVE JoinInv'
  BY <1>11 DEF HandshakeRead, Handler, DoClose, RemoveSession, NoAccept, States
<1>12. ASSUME NEW c \in Clients, ReadFails(c) PROVE JoinInv'
  BY <1>12 DEF ReadFails, Handler, DoClose, RemoveSession, NoAccept, States
<1>13. ASSUME NEW c \in Clients, HeartbeatTimeout(c) PROVE JoinInv'
  BY <1>13 DEF HeartbeatTimeout, Handler, DoClose, RemoveSession, NoAccept, States
<1>14. ASSUME NEW c \in Clients, Close(c) PROVE JoinInv'
  BY <1>14 DEF Close, Handler, NoAccept, States
<1>15. ASSUME NEW c \in Clients, CloseWritten(c) PROVE JoinInv'
  BY <1>15 DEF CloseWritten, Handler, DoClose, RemoveSession, NoAccept, States
<1>16. ASSUME NEW c \in Clients, AcceptCompletes(c) PROVE JoinInv'
  BY <1>16 DEF AcceptCompletes, NoAccept, States
<1>17. ASSUME NEW c \in Clients, Connects(c) PROVE JoinInv'
  BY <1>17 DEF Connects, NoAccept, States
<1>18. ASSUME NEW c \in Clients, Leaves(c) PROVE JoinInv'
  BY <1>18 DEF Leaves, NoAccept, States
<1>19. CASE UNCHANGED vars
  BY <1>19 DEF vars
<1> QED
  BY <1>1, <1>2, <1>3, <1>4, <1>5, <1>6, <1>7, <1>8, <1>9, <1>10, <1>11, <1>12, <1>13, <1>14, <1>15, <1>16, <1>17, <1>18, <1>19 DEF Next, Control, Io, Network

\* A handler that runs on the server's own thread finds the server alive.
LEMMA OwnServerStep ==
  ASSUME Typing, JoinInv, OwnServerSafe, [Next]_vars
  PROVE  OwnServerSafe'
<1> USE DEF Typing, JoinInv
<1> USE DEF OwnServerSafe
<1>1. CASE Start
  BY <1>1 DEF Start, NoAccept, States
<1>2. CASE StopClears
  BY <1>2 DEF StopClears, NoAccept, States
<1>3. CASE StopClosesAcceptor
  BY <1>3 DEF StopClosesAcceptor, Aborted, NoAccept, States
<1>4. CASE StopCloses
  BY <1>4 DEF StopCloses, Closed, NoAccept, States
<1>5. CASE StopReturns
  BY <1>5 DEF StopReturns, Joined, NoAccept, States
<1>6. CASE Destroy
  BY <1>6 DEF Destroy, NoAccept, States
<1>7. CASE AcceptHandler
  BY <1>7 DEF AcceptHandler, Handler, AddSession, NoAccept, States
<1>8. CASE AcceptFails
  BY <1>8 DEF AcceptFails, Handler, NoAccept, States
<1>9. CASE AcceptAgain
  BY <1>9 DEF AcceptAgain, Handler, NoAccept, States
<1>10. CASE RunReturns
  BY <1>10 DEF RunReturns, NoAccept, States
<1>11. ASSUME NEW c \in Clients, NEW r \in Requests, HandshakeRead(c, r) PROVE OwnServerSafe'
  BY <1>11 DEF HandshakeRead, Handler, DoClose, RemoveSession, NoAccept, States
<1>12. ASSUME NEW c \in Clients, ReadFails(c) PROVE OwnServerSafe'
  BY <1>12 DEF ReadFails, Handler, DoClose, RemoveSession, NoAccept, States
<1>13. ASSUME NEW c \in Clients, HeartbeatTimeout(c) PROVE OwnServerSafe'
  BY <1>13 DEF HeartbeatTimeout, Handler, DoClose, RemoveSession, NoAccept, States
<1>14. ASSUME NEW c \in Clients, Close(c) PROVE OwnServerSafe'
  BY <1>14 DEF Close, Handler, NoAccept, States
<1>15. ASSUME NEW c \in Clients, CloseWritten(c) PROVE OwnServerSafe'
  BY <1>15 DEF CloseWritten, Handler, DoClose, RemoveSession, NoAccept, States
<1>16. ASSUME NEW c \in Clients, AcceptCompletes(c) PROVE OwnServerSafe'
  BY <1>16 DEF AcceptCompletes, NoAccept, States
<1>17. ASSUME NEW c \in Clients, Connects(c) PROVE OwnServerSafe'
  BY <1>17 DEF Connects, NoAccept, States
<1>18. ASSUME NEW c \in Clients, Leaves(c) PROVE OwnServerSafe'
  BY <1>18 DEF Leaves, NoAccept, States
<1>19. CASE UNCHANGED vars
  BY <1>19 DEF vars
<1> QED
  BY <1>1, <1>2, <1>3, <1>4, <1>5, <1>6, <1>7, <1>8, <1>9, <1>10, <1>11, <1>12, <1>13, <1>14, <1>15, <1>16, <1>17, <1>18, <1>19 DEF Next, Control, Io, Network

\* The invariant holds at first and is kept by every step.
THEOREM ServerInvariant == Spec => []ServerInv
<1>1. Init => ServerInv
  <2> SUFFICES ASSUME Init PROVE ServerInv
    OBVIOUS
  <2>1. Typing
    BY DEF Init, Typing, NoAccept, States
  <2>2. TableInv
    BY DEF Init, TableInv
  <2>3. JoinInv /\ OwnServerSafe
    BY DEF Init, JoinInv, OwnServerSafe
  <2> QED BY <2>1, <2>2, <2>3 DEF ServerInv
<1>2. ServerInv /\ [Next]_vars => ServerInv'
  BY TypingStep, TableStep, JoinStep, OwnServerStep DEF ServerInv
<1> QED BY <1>1, <1>2, PTL DEF Spec

\* WsServer::Broadcast reaches every open session but those Stop has missed
\* (AddSession, RemoveSession, Stop).
THEOREM OpenIsListedHolds == Spec => []OpenIsListed
<1>1. ServerInv => OpenIsListed
  BY DEF ServerInv, Typing, TableInv, OpenIsListed, Listeners
<1> QED BY <1>1, ServerInvariant, PTL

\* A server with a thread of its own can be destroyed after Stop: the join
\* in WsServer::Stop leaves no handler to use it.
THEOREM OwnServerSafeHolds == Spec => []OwnServerSafe
<1>1. ServerInv => OwnServerSafe
  BY DEF ServerInv
<1> QED BY <1>1, ServerInvariant, PTL
=============================================================================
