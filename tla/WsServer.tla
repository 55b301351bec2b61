------------------------------ MODULE WsServer ------------------------------
(***************************************************************************)
(* ws::WsServer (src/src/server/ws/ws_server.cpp): the accept loop, the    *)
(* table of sessions, Broadcast and Stop, over sessions that are reduced   *)
(* to what the server sees of them: the handshake, the close and the       *)
(* operations that keep the io thread busy.  WsSession models one of them  *)
(* in full.                                                                *)
(*                                                                         *)
(* One thread (ctl) starts, stops and destroys the server; the io thread   *)
(* runs the handlers, one at a time.  The server has an io_context of its  *)
(* own, whose thread Stop joins, or one that somebody else runs.  Session  *)
(* ids, 32 random bits, are taken to be distinct: a session is its client. *)
(***************************************************************************)
EXTENDS Naturals, Sequences, FiniteSets, SequencesExt

CONSTANTS Clients,   \* peers that may connect, once each
          Requests,  \* the handshake requests they may send
          Supported, \* SetSupportedSubProtocols
          MaxStarts  \* calls of Start

RequestFields == {"method", "upgrade", "connection", "key", "version", "protocols"}

ASSUME RequestAssumption == \A r \in Requests : DOMAIN r = RequestFields
ASSUME SupportedAssumption == Supported \in Seq(STRING)
ASSUME StartsAssumption == MaxStarts \in Nat

VARIABLES owns,     \* owns_io_context_
          running,  \* running_
          acceptor, \* acceptor_ is open
          accept,   \* the outstanding async_accept: [pc, client]
          sessions, \* sessions_
          state,    \* state_ of each client's session; "none" before it
          protocol, \* subprotocol_
          reading,  \* sessions whose async_read_some is outstanding
          closing,  \* sessions whose Close frame is queued
          sock,     \* sessions whose socket_ is open
          peer,     \* each client: "away", "connecting", "up", "stalled", "gone"
          late,     \* sessions that Stop's Close did not reach
          ctl,      \* what the controlling thread is doing
          starts,   \* how often it has called Start
          io,       \* the io thread: "none", "running", "ended"
          undefined \* a handler has used the server after its destruction

vars == <<owns, running, acceptor, accept, sessions, state, protocol, reading, closing,
          sock, peer, late, ctl, starts, io, undefined>>

NoAccept == [pc |-> "none", client |-> "none"]

Init ==
    /\ owns \in BOOLEAN
    /\ running = FALSE /\ acceptor = TRUE /\ accept = NoAccept
    /\ sessions = {} /\ state = [c \in Clients |-> "none"]
    /\ protocol = [c \in Clients |-> "none"]
    /\ reading = {} /\ closing = {} /\ sock = {}
    /\ peer = [c \in Clients |-> "away"]
    /\ late = {} /\ ctl = "idle" /\ starts = 0
    /\ io = IF owns THEN "none" ELSE "running"
    /\ undefined = FALSE

-----------------------------------------------------------------------------
(* The handshake                                                           *)

\* A missing header is "" here.  Substrings count: "keep-alive, Upgrade".
IsWebSocketUpgrade(r) ==
    /\ r.method = "GET"
    /\ r.upgrade = "websocket" /\ r.connection \in {"upgrade", "keep-alive, upgrade"}
    /\ r.key # ""
    /\ r.version \in {"", "13", "8", "7"}

\* The first protocol of the server's list that the client asks for.
NegotiateSubProtocol(r) ==
    LET both == SelectSeq(Supported, LAMBDA p : p \in r.protocols)
    IN IF both = <<>> THEN "none" ELSE both[1]

-----------------------------------------------------------------------------
(* Parts of handlers                                                       *)

\* A handler runs on the io thread; with a server that is gone, what it does
\* to the server is undefined, and nothing more is said.
Handler == io = "running" /\ ~undefined

RemoveSession(c) == sessions \ {c}

\* DoClose, from whatever state: also the second time, see WsSession.
DoClose(c) ==
    /\ state' = [state EXCEPT ![c] = "closed"]
    /\ sock' = sock \ {c}
    /\ sessions' = RemoveSession(c)
    /\ undefined' = (ctl = "destroyed")

-----------------------------------------------------------------------------
(* The controlling thread                                                  *)

\* Start: an accept, and the server's own thread.  An io_context that has run
\* out of work before is not restarted, and run() returns at once.
Start ==
    /\ ctl \in {"idle", "stopped"} /\ starts < MaxStarts
    /\ starts' = starts + 1
    /\ running' = TRUE
    /\ accept' = [NoAccept EXCEPT !.pc = IF acceptor THEN "pending" ELSE "failed"]
    /\ io' = IF owns /\ io = "none" THEN "running" ELSE io
    /\ ctl' = "started"
    /\ UNCHANGED <<owns, acceptor, sessions, state, protocol, reading, closing, sock, peer,
                   late, undefined>>

\* Stop and the destructor.
StopClears ==
    /\ ctl = "started" /\ ctl' = "closing" /\ running' = FALSE
    /\ UNCHANGED <<owns, acceptor, accept, sessions, state, protocol, reading, closing, sock,
                   peer, late, starts, io, undefined>>

\* Mutant of Aborted: the accept is left outstanding.
AbortedNot(a) == a

\* acceptor_.close: an accept that has not completed is aborted.
Aborted(a) == IF a.pc = "pending" THEN [a EXCEPT !.pc = "failed"] ELSE a

StopClosesAcceptor ==
    /\ ctl = "closing" /\ ctl' = "emptying"
    /\ acceptor' = FALSE
    /\ accept' = Aborted(accept)
    /\ UNCHANGED <<owns, running, sessions, state, protocol, reading, closing, sock, peer,
                   late, starts, io, undefined>>

\* Close acts on an active session only.
Closed == {c \in sessions : state[c] = "active"}

\* Under sessions_mutex_: Close on each session, and the table is emptied.
StopCloses ==
    /\ ctl = "emptying" /\ ctl' = "joining"
    /\ state' = [c \in Clients |-> IF c \in Closed THEN "closing" ELSE state[c]]
    /\ closing' = closing \cup Closed
    /\ sessions' = {}
    /\ late' = late \cup {c \in sessions : state[c] = "handshaking"}
    /\ UNCHANGED <<owns, running, acceptor, accept, protocol, reading, sock, peer, starts,
                   io, undefined>>

\* Mutant of Joined: Stop does not wait for the thread.
JoinedNot == TRUE

\* Stop joins the server's own thread, and only that.
Joined == owns => io = "ended"

StopReturns ==
    /\ ctl = "joining" /\ Joined /\ ctl' = "stopped"
    /\ UNCHANGED <<owns, running, acceptor, accept, sessions, state, protocol, reading, closing,
                   sock, peer, late, starts, io, undefined>>

\* The server's owner has no use for it any more.
Destroy ==
    /\ ctl = "stopped" /\ ctl' = "destroyed"
    /\ UNCHANGED <<owns, running, acceptor, accept, sessions, state, protocol, reading, closing,
                   sock, peer, late, starts, io, undefined>>

\* BroadcastText and BroadcastBinary: who is sent it.
Listeners == {c \in sessions : state[c] = "active"}

-----------------------------------------------------------------------------
(* Accepting                                                               *)

\* The system completes the accept; its handler is queued.
AcceptCompletes(c) ==
    /\ peer[c] = "connecting" /\ accept.pc = "pending"
    /\ peer' = [peer EXCEPT ![c] = "up"]
    /\ accept' = [pc |-> "done", client |-> c]
    /\ UNCHANGED <<owns, running, acceptor, sessions, state, protocol, reading, closing, sock,
                   late, ctl, starts, io, undefined>>

\* Mutant of AddSession: the session is started, not added.
AddSessionNot(c) == sessions

AddSession(c) == sessions \cup {c}

\* AddSession and WsSession::Start, also after Stop has emptied the table.
AcceptHandler ==
    LET c == accept.client
    IN /\ Handler /\ accept.pc = "done"
       /\ accept' = [NoAccept EXCEPT !.pc = "again"]
       /\ sessions' = AddSession(c)
       /\ state' = [state EXCEPT ![c] = "handshaking"]
       /\ reading' = reading \cup {c} /\ sock' = sock \cup {c}
       /\ late' = IF ctl \in {"idle", "started", "closing", "emptying"} THEN late ELSE late \cup {c}
       /\ undefined' = (ctl = "destroyed")
       /\ UNCHANGED <<owns, running, acceptor, protocol, closing, peer, ctl, starts, io>>

AcceptFails ==
    /\ Handler /\ accept.pc = "failed"
    /\ accept' = [NoAccept EXCEPT !.pc = "again"]
    /\ undefined' = (ctl = "destroyed")
    /\ UNCHANGED <<owns, running, acceptor, sessions, state, protocol, reading, closing, sock,
                   peer, late, ctl, starts, io>>

\* The end of the handler; on a closed acceptor the next accept fails, too.
AcceptAgain ==
    /\ Handler /\ accept.pc = "again"
    /\ accept' = [NoAccept EXCEPT !.pc =
                     IF ~running THEN "none" ELSE IF acceptor THEN "pending" ELSE "failed"]
    /\ undefined' = (ctl = "destroyed")
    /\ UNCHANGED <<owns, running, acceptor, sessions, state, protocol, reading, closing, sock,
                   peer, late, ctl, starts, io>>

-----------------------------------------------------------------------------
(* Sessions                                                                *)

\* A request that is whole.  The first part of one is stored, and the read
\* goes on: no step.  A refused one is answered 400.
HandshakeRead(c, r) ==
    /\ Handler /\ c \in reading /\ state[c] = "handshaking" /\ peer[c] = "up"
    /\ IF IsWebSocketUpgrade(r)
       THEN /\ state' = [state EXCEPT ![c] = "active"]
            /\ protocol' = [protocol EXCEPT ![c] = NegotiateSubProtocol(r)]
            /\ undefined' = (ctl = "destroyed")
            /\ UNCHANGED <<reading, sessions, sock>>
       ELSE DoClose(c) /\ reading' = reading \ {c} /\ UNCHANGED protocol
    /\ UNCHANGED <<owns, running, acceptor, accept, closing, peer, late, ctl, starts, io>>

\* The socket is closed, here or by the peer.
ReadFails(c) ==
    /\ Handler /\ c \in reading /\ (c \notin sock \/ peer[c] = "gone")
    /\ DoClose(c) /\ reading' = reading \ {c}
    /\ UNCHANGED <<owns, running, acceptor, accept, protocol, closing, peer, late, ctl, starts,
                   io>>

\* An open session whose peer answers no Ping.
HeartbeatTimeout(c) ==
    /\ Handler /\ state[c] = "active" /\ peer[c] # "up"
    /\ DoClose(c)
    /\ UNCHANGED <<owns, running, acceptor, accept, protocol, reading, closing, peer, late, ctl,
                   starts, io>>

\* The application, or the peer's Close frame, closes an open session.
Close(c) ==
    /\ Handler /\ state[c] = "active"
    /\ state' = [state EXCEPT ![c] = "closing"]
    /\ closing' = closing \cup {c}
    /\ UNCHANGED <<owns, running, acceptor, accept, sessions, protocol, reading, sock, peer,
                   late, ctl, starts, io, undefined>>

\* The Close frame is written, or cannot be; a peer that reads nothing holds it.
CloseWritten(c) ==
    /\ Handler /\ c \in closing /\ (peer[c] # "stalled" \/ c \notin sock)
    /\ closing' = closing \ {c}
    /\ DoClose(c)
    /\ UNCHANGED <<owns, running, acceptor, accept, protocol, reading, peer, late, ctl, starts,
                   io>>

\* run() returns: the work guard is gone, and nothing is outstanding.
RunReturns ==
    /\ owns /\ io = "running" /\ ctl = "joining"
    /\ accept.pc = "none" /\ reading = {} /\ closing = {}
    /\ io' = "ended"
    /\ UNCHANGED <<owns, running, acceptor, accept, sessions, state, protocol, reading, closing,
                   sock, peer, late, ctl, starts, undefined>>

-----------------------------------------------------------------------------
(* The clients                                                             *)

Connects(c) ==
    /\ peer[c] = "away" /\ acceptor
    /\ peer' = [peer EXCEPT ![c] = "connecting"]
    /\ UNCHANGED <<owns, running, acceptor, accept, sessions, state, protocol, reading, closing,
                   sock, late, ctl, starts, io, undefined>>

\* It closes the connection, or stops reading.
Leaves(c) ==
    /\ \/ peer[c] \in {"connecting", "up", "stalled"} /\ peer' = [peer EXCEPT ![c] = "gone"]
       \/ peer[c] = "up" /\ peer' = [peer EXCEPT ![c] = "stalled"]
    /\ UNCHANGED <<owns, running, acceptor, accept, sessions, state, protocol, reading, closing,
                   sock, late, ctl, starts, io, undefined>>

-----------------------------------------------------------------------------

Control == Start \/ StopClears \/ StopClosesAcceptor \/ StopCloses \/ StopReturns \/ Destroy

Io ==
    \/ AcceptHandler \/ AcceptFails \/ AcceptAgain \/ RunReturns
    \/ \E c \in Clients :
          \/ \E r \in Requests : HandshakeRead(c, r)
          \/ ReadFails(c) \/ HeartbeatTimeout(c) \/ Close(c) \/ CloseWritten(c)

Network == \E c \in Clients : AcceptCompletes(c) \/ Connects(c) \/ Leaves(c)

Next == Control \/ Io \/ Network

Spec == Init /\ [][Next]_vars

\* Stop goes on when it can, and the io thread runs what is ready to run.
Fairness ==
    /\ WF_vars(StopClosesAcceptor) /\ WF_vars(StopCloses) /\ WF_vars(StopReturns)
    /\ WF_vars(AcceptHandler) /\ WF_vars(AcceptFails) /\ WF_vars(AcceptAgain)
    /\ WF_vars(RunReturns)
    /\ \A c \in Clients : WF_vars(ReadFails(c)) /\ WF_vars(CloseWritten(c))

FairSpec == Spec /\ Fairness

-----------------------------------------------------------------------------
(* Properties                                                              *)

\* No open session is lost: a broadcast reaches each, except those that were
\* still in their handshake, or admitted, when Stop had been through the table.
OpenIsListed == {c \in Clients : state[c] = "active"} \subseteq Listeners \cup late

\* The handlers of a server with its own thread never use it after it is gone,
\* in whatever order they end: Stop has joined the thread.
OwnServerSafe == owns => ~undefined

\* Stop returns: what can hold it is a session that its Close did not reach,
\* and a peer that reads nothing while it is owed a Close frame.
StopIsHeldOnlyBy ==
    []<>(ctl # "joining" \/ \E c \in reading : c \in late \/ peer[c] = "stalled")
=============================================================================
