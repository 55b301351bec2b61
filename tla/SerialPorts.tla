----------------------------- MODULE SerialPorts -----------------------------
(***************************************************************************)
(* SerialManager with its ports and their framing protocols (src/serial).  *)
(*                                                                         *)
(* Callers - the HTTP server's thread, whose routes open, close, write and *)
(* list ports, and any other thread of the application - share a map of    *)
(* ports under mutex_.  One io thread opens the devices, reads them and    *)
(* runs the receive callbacks, which may call Send.  The io_context has no *)
(* work guard: run() returns when no function is queued and no read is     *)
(* outstanding, and what is posted afterwards never runs.                  *)
(*                                                                         *)
(* Send's posted function holds the port's write_mutex_ when it calls      *)
(* DoWrite, which takes it again: the io thread is stuck there, and the    *)
(* write path after that point cannot be reached.                          *)
(***************************************************************************)
EXTENDS Integers, Sequences, FiniteSets, SequencesExt, FiniteSetsExt, Functions

CONSTANTS Callers,   \* threads that use the manager
          Names,     \* names of ports
          Protocols, \* protocols that a port may be opened with
          Stream,    \* per protocol, the bytes that its device sends
          FieldSize, Offset, BigEndian, MaxFrame, \* SerialConfig of "length"
          MaxCalls   \* per caller, the calls it makes at most

Newline == 10
Byte == 0 .. 255

ASSUME CallerAssumption == "free" \notin Callers
ASSUME ProtocolAssumption ==
    /\ Protocols \subseteq {"line", "length", "raw"}
    /\ Stream \in [Protocols -> Seq(Byte)]
ASSUME LengthAssumption ==
    FieldSize \in {1, 2, 4} /\ Offset \in Nat /\ BigEndian \in BOOLEAN /\ MaxFrame \in Nat
ASSUME BoundAssumption == MaxCalls \in [Callers -> Nat]

VARIABLES running, \* SerialManager::running_
          ctx,     \* io_ctx_: "none", "runs", "ended" (out of work or stopped)
          io,      \* the io thread
          queue,   \* functions posted to the io thread
          ports,   \* ports_: name -> port, 0 if there is none
          port,    \* the port objects made so far
          mutex,   \* who holds SerialManager::mutex_: a caller, "io" or "free"
          call,    \* per caller, the call it is in
          calls,   \* per caller, how many calls it has made
          fate     \* "ok", "terminated", "undefined" (destroyed object used)

vars == <<running, ctx, io, queue, ports, port, mutex, call, calls, fate>>

-----------------------------------------------------------------------------
(* Framing: what a protocol makes of its buffer, as the frames that are    *)
(* complete, the rest that stays, and whether bytes were thrown away.      *)

LineFrames[b \in Seq(Byte)] ==
    LET n == Min({i \in DOMAIN b : b[i] = Newline})
        next == LineFrames[SubSeq(b, n + 1, Len(b))]
    IN IF Newline \notin Range(b) THEN [frames |-> <<>>, rest |-> b, lost |-> FALSE]
       ELSE [next EXCEPT !.frames = <<SubSeq(b, 1, n - 1)>> \o @]

\* The length field of the frame at the start of b.
PayloadLen(b) ==
    LET At(k) == b[Offset + (IF BigEndian THEN k ELSE FieldSize + 1 - k)]
    IN CASE FieldSize = 1 -> At(1)
         [] FieldSize = 2 -> 256 * At(1) + At(2)
         [] FieldSize = 4 -> 256 * (256 * (256 * At(1) + At(2)) + At(3)) + At(4)

\* A frame that is too long empties the buffer, whatever follows it there.
LengthFrames[b \in Seq(Byte)] ==
    LET n == Offset + FieldSize + PayloadLen(b)
        next == LengthFrames[SubSeq(b, n + 1, Len(b))]
    IN IF Len(b) < Offset + FieldSize THEN [frames |-> <<>>, rest |-> b, lost |-> FALSE]
       ELSE IF PayloadLen(b) > MaxFrame THEN [frames |-> <<>>, rest |-> <<>>, lost |-> TRUE]
       ELSE IF Len(b) < n THEN [frames |-> <<>>, rest |-> b, lost |-> FALSE]
       ELSE [next EXCEPT !.frames = <<SubSeq(b, 1, n)>> \o @]

\* Mutant of OnData: the rest of a line is dropped with its read.
OnDataForgetting(protocol, b) ==
    CASE protocol = "line" -> [LineFrames[b] EXCEPT !.rest = <<>>]
      [] protocol = "length" -> LengthFrames[b]
      [] OTHER -> [frames |-> <<b>>, rest |-> <<>>, lost |-> FALSE]

OnData(protocol, b) ==
    CASE protocol = "line" -> LineFrames[b]
      [] protocol = "length" -> LengthFrames[b]
      [] OTHER -> [frames |-> <<b>>, rest |-> <<>>, lost |-> FALSE]

-----------------------------------------------------------------------------
(* Ports                                                                   *)

\* A port: its device ("new", "open", "closed"), whether the object still
\* exists, its outstanding read ("none", "pending", "done" - the handler is
\* queued with bytes), its protocol's buffer and all it has received.
NewPort(n, p) ==
    [name |-> n, state |-> "new", alive |-> TRUE, read |-> "none", protocol |-> p,
     got |-> 0, buf |-> <<>>, frames |-> <<>>]

IsOpen(p) == port[p].state = "open"

\* SerialPort::Close on a record: a pending read is cancelled, a handler that
\* is queued with its bytes is not.
Closed(x) ==
    [x EXCEPT !.state = "closed", !.read = IF @ = "pending" THEN "none" ELSE @]

\* The destructor closes the port.
Destroyed(x) == [Closed(x) EXCEPT !.alive = FALSE]

\* Close takes write_mutex_, which a stuck io thread holds.
Blocked(p) == io.pc = "stuck" /\ io.port = p

Idle == [op |-> "idle"]

IoNone == [pc |-> "none"]

Init ==
    /\ running = FALSE
    /\ ctx = "none"
    /\ io = IoNone
    /\ queue = <<>>
    /\ ports = [n \in Names |-> 0]
    /\ port = <<>>
    /\ mutex = "free"
    /\ call = [c \in Callers |-> Idle]
    /\ calls = [c \in Callers |-> 0]
    /\ fate = "ok"

-----------------------------------------------------------------------------
(* Calls.  A call begins outside the lock, takes the mutex, and returns.   *)

\* Mutant of WaitEnds: Open waits for its future without a deadline.
WaitEndsReady(c) == call[c].op = "opening" /\ call[c].result # "none"

\* One second has passed.
WaitEnds(c) == call[c].op = "opening"

Opening(x, p) == [op |-> "opening", name |-> x.name, port |-> p, result |-> "none"]

\* What a call waits for: mutex_, the write_mutex_ of the ports that it closes
\* or writes, the deadline of Open, the end of the io thread.
CanStep(c) ==
    LET x == call[c]
    IN CASE x.op \in {"open", "delete", "close", "send", "query", "stop"} -> mutex = "free"
         [] x.op \in {"locked", "closing", "sending"} -> ports[x.name] = 0 \/ ~Blocked(ports[x.name])
         [] x.op = "opening" -> WaitEnds(c)
         [] x.op = "stopping" -> \A n \in Names : ports[n] = 0 \/ ~Blocked(ports[n])
         [] x.op = "joining" -> io.pc = "done"
         [] OTHER -> FALSE

Returns(c) == call' = [call EXCEPT ![c] = Idle] /\ mutex' = "free"

Begins(c, x) ==
    /\ call[c] = Idle /\ calls[c] < MaxCalls[c]
    /\ call' = [call EXCEPT ![c] = x]
    /\ calls' = [calls EXCEPT ![c] = @ + 1]

\* The HTTP route starts a manager that does not run, and opens; a thread that
\* a Stop has not joined yet must not be overwritten.
OpenBegins(c, n, p) ==
    /\ Begins(c, [op |-> "open", name |-> n, protocol |-> p])
    /\ IF running THEN UNCHANGED <<running, ctx, io, queue, fate>>
       ELSE IF io.pc # "none" THEN fate' = "terminated" /\ UNCHANGED <<running, ctx, io, queue>>
       ELSE /\ running' = TRUE /\ ctx' = "runs" /\ io' = [pc |-> "starting"]
            /\ queue' = <<>> /\ UNCHANGED fate
    /\ UNCHANGED <<ports, port, mutex>>

\* Open has tested running_ before it waits for the lock ...
OpenLocks(c) ==
    /\ call[c].op = "open" /\ mutex = "free"
    /\ mutex' = c
    /\ call' = [call EXCEPT ![c].op = "locked"]
    /\ UNCHANGED <<running, ctx, io, queue, ports, port, calls, fate>>

\* Mutant of OldClosed: the port of the same name stays open.
OldStaysOpen(old) == port

OldClosed(old) == IF old = 0 THEN port ELSE [port EXCEPT ![old] = Closed(@)]

\* ... so a Stop in between has destroyed the io_context.  The port of that
\* name is closed, a new one is made and its Open is posted.
OpenPosts(c) ==
    LET n == call[c].name
        old == ports[n]
        made == Append(OldClosed(old), NewPort(n, call[c].protocol))
    IN /\ call[c].op = "locked" /\ CanStep(c)
       /\ IF ctx = "none"
          THEN fate' = "undefined" /\ UNCHANGED <<port, queue, call>>
          ELSE /\ port' = made
               /\ queue' = Append(queue, [fn |-> "open", port |-> Len(made), caller |-> c])
               /\ call' = [call EXCEPT ![c] = Opening(call[c], Len(made))]
               /\ UNCHANGED fate
       /\ UNCHANGED <<running, ctx, io, ports, mutex, calls>>

\* The future is ready: an opened port replaces the one in the map.
OpenReturns(c) ==
    LET x == call[c]
        gone == IF x.result = "ok" THEN ports[x.name] ELSE x.port
    IN /\ x.op = "opening" /\ CanStep(c) /\ x.result # "none"
       /\ ports' = IF x.result = "ok" THEN [ports EXCEPT ![x.name] = x.port] ELSE ports
       /\ port' = IF gone = 0 THEN port ELSE [port EXCEPT ![gone] = Destroyed(@)]
       /\ Returns(c)
       /\ UNCHANGED <<running, ctx, io, queue, calls, fate>>

\* Open gives up: the port and the promise on its stack are gone, the posted
\* function still refers to them.
OpenTimesOut(c) ==
    /\ call[c].op = "opening" /\ CanStep(c) /\ call[c].result = "none"
    /\ port' = [port EXCEPT ![call[c].port] = Destroyed(@)]
    /\ Returns(c)
    /\ UNCHANGED <<running, ctx, io, queue, ports, calls, fate>>

CallBegins(c, op, n) ==
    /\ Begins(c, [op |-> op, name |-> n])
    /\ UNCHANGED <<running, ctx, io, queue, ports, port, mutex, fate>>

\* The DELETE route closes a port that it has found open, in a second call.
DeleteTests(c) ==
    LET p == ports[call[c].name]
    IN /\ call[c].op = "delete" /\ mutex = "free"
       /\ call' = [call EXCEPT ![c] = IF p # 0 /\ IsOpen(p) THEN [@ EXCEPT !.op = "close"] ELSE Idle]
       /\ UNCHANGED <<running, ctx, io, queue, ports, port, mutex, calls, fate>>

\* Close posts a function with the raw pointer ...
ClosePosts(c) ==
    LET p == ports[call[c].name]
    IN /\ call[c].op = "close" /\ mutex = "free"
       /\ IF p = 0 THEN Returns(c) /\ UNCHANGED queue
          ELSE /\ mutex' = c
               /\ queue' = Append(queue, [fn |-> "close", port |-> p])
               /\ call' = [call EXCEPT ![c].op = "closing"]
       /\ UNCHANGED <<running, ctx, io, ports, port, calls, fate>>

\* ... and destroys the port.
CloseErases(c) ==
    LET n == call[c].name
    IN /\ call[c].op = "closing" /\ CanStep(c)
       /\ port' = [port EXCEPT ![ports[n]] = Destroyed(@)]
       /\ ports' = [ports EXCEPT ![n] = 0]
       /\ Returns(c)
       /\ UNCHANGED <<running, ctx, io, queue, calls, fate>>

SendLocks(c) ==
    LET p == ports[call[c].name]
    IN /\ call[c].op = "send" /\ mutex = "free"
       /\ IF p = 0 \/ ~IsOpen(p) THEN Returns(c)
          ELSE mutex' = c /\ call' = [call EXCEPT ![c].op = "sending"]
       /\ UNCHANGED <<running, ctx, io, queue, ports, port, calls, fate>>

\* The data is queued under write_mutex_ and a write is posted.
SendPosts(c) ==
    LET p == ports[call[c].name]
    IN /\ call[c].op = "sending" /\ CanStep(c)
       /\ queue' = Append(queue, [fn |-> "write", port |-> p])
       /\ Returns(c)
       /\ UNCHANGED <<running, ctx, io, ports, port, calls, fate>>

\* IsOpen, the status and the names of the ports, the registration of handlers.
Queries(c) ==
    /\ call[c].op = "query" /\ mutex = "free"
    /\ Returns(c)
    /\ UNCHANGED <<running, ctx, io, queue, ports, port, calls, fate>>

StopBegins(c) ==
    /\ running /\ Begins(c, [op |-> "stop"])
    /\ running' = FALSE
    /\ UNCHANGED <<ctx, io, queue, ports, port, mutex, fate>>

StopLocks(c) ==
    /\ call[c].op = "stop" /\ mutex = "free"
    /\ mutex' = c
    /\ call' = [call EXCEPT ![c].op = "stopping"]
    /\ UNCHANGED <<running, ctx, io, queue, ports, port, calls, fate>>

\* Every port is closed and destroyed, and the io_context stopped.
StopCloses(c) ==
    /\ call[c].op = "stopping" /\ CanStep(c)
    /\ port' = [p \in DOMAIN port |-> IF p \in Range(ports) THEN Destroyed(port[p]) ELSE port[p]]
    /\ ports' = [n \in Names |-> 0]
    /\ ctx' = "ended"
    /\ call' = [call EXCEPT ![c].op = "joining"]
    /\ UNCHANGED <<running, io, queue, mutex, calls, fate>>

StopJoins(c) ==
    /\ call[c].op = "joining" /\ CanStep(c)
    /\ io' = IoNone /\ ctx' = "none" /\ queue' = <<>>
    /\ Returns(c)
    /\ UNCHANGED <<running, ports, port, calls, fate>>

-----------------------------------------------------------------------------
(* The io thread                                                           *)

HasWork == queue # <<>> \/ \E p \in DOMAIN port : port[p].read # "none"

\* run() is entered, and returns when the context is stopped or has no work.
IoRuns ==
    /\ io.pc = "starting" /\ io' = [pc |-> "loop"]
    /\ UNCHANGED <<running, ctx, queue, ports, port, mutex, call, calls, fate>>

IoEnds ==
    /\ io.pc = "loop" /\ (ctx = "ended" \/ ~HasWork)
    /\ io' = [pc |-> "done"] /\ ctx' = "ended"
    /\ UNCHANGED <<running, queue, ports, port, mutex, call, calls, fate>>

Pops(fn) ==
    /\ io.pc = "loop" /\ ctx = "runs" /\ queue # <<>> /\ Head(queue).fn = fn
    /\ queue' = Tail(queue)
    /\ UNCHANGED <<running, ctx, ports, mutex, calls>>

\* The device opens or does not; the first read starts.
RunsOpen ==
    LET f == Head(queue)
    IN /\ Pops("open") /\ UNCHANGED io
       /\ IF ~port[f.port].alive THEN fate' = "undefined" /\ UNCHANGED <<port, call>>
          ELSE /\ \E ok \in BOOLEAN :
                    /\ port' = IF ok THEN [port EXCEPT ![f.port].state = "open",
                                                       ![f.port].read = "pending"] ELSE port
                    /\ call' = [call EXCEPT ![f.caller].result = IF ok THEN "ok" ELSE "failed"]
               /\ UNCHANGED fate

RunsClose ==
    LET p == Head(queue).port
    IN /\ Pops("close") /\ UNCHANGED <<io, call>>
       /\ IF port[p].alive THEN port' = [port EXCEPT ![p] = Closed(@)] /\ UNCHANGED fate
          ELSE fate' = "undefined" /\ UNCHANGED port

\* The function locks write_mutex_ and calls DoWrite, which locks it.
RunsWrite ==
    LET p == Head(queue).port
    IN /\ Pops("write") /\ UNCHANGED <<port, call>>
       /\ IF port[p].alive THEN io' = [pc |-> "stuck", port |-> p] /\ UNCHANGED fate
          ELSE fate' = "undefined" /\ UNCHANGED io

\* Bytes arrive; the read's handler is queued.
BytesArrive(p) ==
    /\ port[p].read = "pending" /\ port[p].got < Len(Stream[port[p].protocol])
    /\ port' = [port EXCEPT ![p].read = "done"]
    /\ UNCHANGED <<running, ctx, io, queue, ports, mutex, call, calls, fate>>

\* OnRead takes k bytes and hands out the frames they complete; a callback may
\* call Send, for the name its port has in the map.
Reads(p, k, sends) ==
    LET x == port[p]
        data == SubSeq(Stream[x.protocol], x.got + 1, x.got + k)
        f == OnData(x.protocol, x.buf \o data)
        y == IF x.state # "open" THEN [x EXCEPT !.read = "none"]
             ELSE [x EXCEPT !.read = "pending", !.got = @ + k, !.buf = f.rest,
                            !.frames = @ \o f.frames]
    IN /\ io.pc = "loop" /\ ctx = "runs" /\ x.read = "done"
       /\ x.got + k <= Len(Stream[x.protocol])
       /\ sends => x.state = "open" /\ f.frames # <<>>
       /\ IF ~x.alive THEN fate' = "undefined" /\ UNCHANGED <<port, io>>
          ELSE /\ port' = [port EXCEPT ![p] = IF sends THEN [y EXCEPT !.read = "none"] ELSE y]
               /\ io' = IF sends THEN [pc |-> "callback", port |-> p] ELSE io
               /\ UNCHANGED fate
       /\ UNCHANGED <<running, ctx, queue, ports, mutex, call, calls>>

\* The callback's Send gets the mutex and posts; OnRead then reads on, if the
\* port is still there and open.
CallbackSends ==
    LET p == io.port
    IN /\ io.pc = "callback" /\ mutex = "free"
       /\ queue' = IF p \in Range(ports) /\ IsOpen(p)
                   THEN Append(queue, [fn |-> "write", port |-> p]) ELSE queue
       /\ io' = [pc |-> "loop"]
       /\ IF port[p].alive
          THEN /\ port' = IF IsOpen(p) THEN [port EXCEPT ![p].read = "pending"] ELSE port
               /\ UNCHANGED fate
          ELSE fate' = "undefined" /\ UNCHANGED port
       /\ UNCHANGED <<running, ctx, ports, mutex, call, calls>>

\* A read fails: the device is gone, and the port closes itself; it stays in
\* the map.
ReadFails(p) ==
    /\ io.pc = "loop" /\ ctx = "runs" /\ port[p].read = "pending"
    /\ port' = [port EXCEPT ![p] = Closed(@)]
    /\ UNCHANGED <<running, ctx, io, queue, ports, mutex, call, calls, fate>>

-----------------------------------------------------------------------------

CallSteps(c) ==
    \/ OpenLocks(c) \/ OpenPosts(c) \/ OpenReturns(c) \/ OpenTimesOut(c)
    \/ DeleteTests(c) \/ ClosePosts(c) \/ CloseErases(c)
    \/ SendLocks(c) \/ SendPosts(c)
    \/ Queries(c)
    \/ StopLocks(c) \/ StopCloses(c) \/ StopJoins(c)

IoSteps ==
    \/ IoRuns \/ IoEnds
    \/ RunsOpen \/ RunsClose \/ RunsWrite \/ CallbackSends
    \/ \E p \in DOMAIN port : \E k \in 1 .. Len(Stream[port[p].protocol]), sends \in BOOLEAN :
          Reads(p, k, sends)

Step ==
    \/ \E c \in Callers :
          \/ \E n \in Names : \/ \E p \in Protocols : OpenBegins(c, n, p)
                              \/ \E op \in {"close", "delete", "send", "query"} : CallBegins(c, op, n)
          \/ StopBegins(c)
          \/ CallSteps(c)
    \/ IoSteps
    \/ \E p \in DOMAIN port : BytesArrive(p) \/ ReadFails(p)

Next == fate = "ok" /\ Step

Spec == Init /\ [][Next]_vars

\* The values that the record of a call may step to.
Steps(c) ==
    LET x == call[c]
        To(op) == [x EXCEPT !.op = op]
    IN {Idle} \cup
       CASE x.op = "open" -> {To("locked")}
         [] x.op = "locked" -> {Opening(x, Len(port) + 1)}
         [] x.op = "delete" -> {To("close")}
         [] x.op = "close" -> {To("closing")}
         [] x.op = "send" -> {To("sending")}
         [] x.op = "stop" -> {To("stopping")}
         [] x.op = "stopping" -> {To("joining")}
         [] OTHER -> {}

\* A thread that can step does: mutexes are handed on, deadlines pass, and the
\* io thread enters and leaves run().  Nothing is asked of the devices, nor of
\* the functions that are posted.
Fairness ==
    /\ \A c \in Callers :
          SF_call(fate = "ok" /\ CanStep(c) /\ call' \in {[call EXCEPT ![c] = x] : x \in Steps(c)})
    /\ WF_io(fate = "ok" /\ io.pc = "starting" /\ io' = [pc |-> "loop"])
    /\ WF_io(fate = "ok" /\ io.pc = "loop" /\ ctx = "ended" /\ io' = [pc |-> "done"])

FairSpec == Spec /\ Fairness

-----------------------------------------------------------------------------
(* Properties                                                              *)

\* However the bytes of a device are cut into reads, a port hands out the
\* frames of what it has read, no other and none twice; once a frame that is
\* too long has emptied a buffer, the frames before it are all that is certain,
\* since what is thrown away with it depends on the reads.
FramesExact ==
    \A p \in DOMAIN port :
        LET x == port[p]
            read == SubSeq(Stream[x.protocol], 1, x.got)
            whole == OnData(x.protocol, read)
        IN IF x.protocol = "raw" THEN FlattenSeq(x.frames) = read
           ELSE IF whole.lost THEN IsPrefix(whole.frames, x.frames)
           ELSE x.frames = whole.frames

\* However calls of several threads and the io thread interleave, at most one
\* port object has the device of a name open, and a device that is open can be
\* reached by its name or belongs to an Open that has not returned.
OneReader ==
    \A p \in DOMAIN port : port[p].state = "open" =>
        /\ \A q \in DOMAIN port : port[q].state = "open" /\ port[q].name = port[p].name => q = p
        /\ \/ ports[port[p].name] = p
           \/ \E c \in Callers : call[c].op = "opening" /\ call[c].port = p

\* The ways in which the io thread keeps a call waiting for ever: it holds a
\* write_mutex_ in DoWrite, or its callback waits for the mutex_ that a Stop
\* holds while it joins it.
IoDeadlocked ==
    \/ io.pc = "stuck"
    \/ io.pc = "callback" /\ \E c \in Callers : call[c].op = "joining"

\* Every call of the manager returns, an Open whose function never runs too,
\* unless the io thread is deadlocked in one of the two ways above.
CallsReturn ==
    \A c \in Callers :
        call[c] # Idle ~> (call[c] = Idle \/ fate # "ok" \/ IoDeadlocked)
=============================================================================
