----------------------------- MODULE RtspSession -----------------------------
(***************************************************************************)
(* One RTSP connection with the RTP stream it carries: RtspSession and     *)
(* AsioTCPSession, AsioRtpTransport with its pacing timer, H264Source      *)
(* (RFC 6184 packetization) and RawH264NALSource (the file it plays).      *)
(* The read handler and the timer handler both run on the one thread of    *)
(* RtspManager's io_context, so a handler is one action.                   *)
(*                                                                         *)
(* Bytes are abstracted to tokens: a request is its request line and the   *)
(* rest of its header block, an interleaved frame its 4-byte head and its  *)
(* body.  A read may end after any token.  Clients put CSeq first in the   *)
(* header block, so that block starts with 'C'.                            *)
(***************************************************************************)
EXTENDS Integers, Sequences, FiniteSets, FiniteSetsExt, SequencesExt, TLC

Methods == {"OPTIONS", "DESCRIBE", "SETUP", "PLAY", "PAUSE", "TEARDOWN",
            "GET_PARAMETER", "SET_PARAMETER", "RECORD"}
Transports == {"tcp", "udp", "udp-no-port", "multicast", "other"}

CONSTANTS File,        \* the NAL units of the video file: [type, size]; <<>> = no file
          MaxPayload,  \* MAX_RTP_PAYLOAD_SIZE
          Asked,       \* the requests this client uses: <<method, transport>>
          MaxReq,      \* bound: requests the client sends
          MaxNet,      \* bound: tokens in flight to the server
          MaxQueued    \* bound: expiries waiting for the io thread

ASSUME PayloadAssumption == MaxPayload \in Nat /\ MaxPayload > 2
ASSUME FileAssumption == File \in Seq([type : 0 .. 31, size : Nat \ {0}])
ASSUME AskedAssumption == Asked \subseteq Methods \X (Transports \cup {"none"})
ASSUME BoundAssumption == MaxReq \in Nat /\ MaxNet \in Nat /\ MaxQueued \in Nat

VARIABLES s,      \* the session object, its transport and its source
          queued, \* OnTimer callbacks of expired waits that the io thread has to run,
                  \* each with the transport (s.gen) whose pointer it holds
          sock,   \* the connection: "open", "lost" (peer gone), "closed" (no read left)
          net,    \* tokens written by the client and not yet read
          buf,    \* read_buffer_
          asked,  \* requests sent so far; the CSeq of the last one
          fate    \* "ok", "terminated" (exception left run()), "undefined" (freed object used)

vars == <<s, queued, sock, net, buf, asked, fate>>

States == {"INIT", "READY", "PLAYING", "PAUSED", "TEARDOWN"}

Line(m) == [kind |-> "line", m |-> m]
Rest(n, tr) == [kind |-> "rest", cseq |-> n, tr |-> tr]
FrameHead == [kind |-> "head"]
FrameBody == [kind |-> "body"]
NoReply == [status |-> 0, cseq |-> 0]

-----------------------------------------------------------------------------
(* RawH264NALSource: s.nal is nal_index_ (from 1), s.eof eof_reached_.     *)

IsVcl(i) == File[i].type \in 1 .. 5

\* Where the frame that starts at unit i ends: before the next slice once it
\* holds one, or at the end of the file.
FrameEnd(i) ==
    Min({j \in i + 1 .. Len(File) : IsVcl(j) /\ \E k \in i .. j - 1 : IsVcl(k)}
        \cup {Len(File) + 1})

\* The units of that frame: an access unit delimiter is dropped unless it
\* comes first.
FrameUnits(i) == {k \in i .. FrameEnd(i) - 1 : k = i \/ File[k].type # 9}

HasMoreData(x) == ~x.eof /\ x.nal <= Len(File)

Reset(x) == [x EXCEPT !.nal = 1, !.eof = FALSE]

-----------------------------------------------------------------------------
(* H264Source::HandleFrame: a unit of at most MaxPayload bytes is one      *)
(* packet; a longer one loses its header byte and is cut into FU-A         *)
(* fragments of MaxPayload - 2 bytes.                                      *)

\* The loop's number of full fragments before the last one.
FullFragments(n) ==
    Min({k \in 0 .. n : (n - 1) - k * (MaxPayload - 2) + 2 <= MaxPayload})

\* Mutant of Fragments: only full fragments are sent, the rest of the
\* unit is dropped.
FragmentsShort(n) ==
    IF n <= MaxPayload
    THEN <<[pos |-> 0, len |-> n, start |-> TRUE, end |-> TRUE]>>
    ELSE LET step == MaxPayload - 2
             k == (n - 1) \div step
         IN [i \in 1 .. k |->
                [pos |-> 1 + (i - 1) * step, len |-> step,
                 start |-> i = 1, end |-> i = k]]

Fragments(n) ==
    IF n <= MaxPayload
    THEN <<[pos |-> 0, len |-> n, start |-> TRUE, end |-> TRUE]>>
    ELSE LET k == FullFragments(n)
             step == MaxPayload - 2
         IN [i \in 1 .. k + 1 |->
                [pos |-> 1 + (i - 1) * step,
                 len |-> IF i <= k THEN step ELSE n - 1 - k * step,
                 start |-> i = 1, end |-> i = k + 1]]

PacketsOf(i) ==
    [j \in 1 .. Len(Fragments(File[i].size)) |->
        [nal |-> i, frag |-> Fragments(File[i].size)[j]]]

\* The packets of the frame that starts at unit i: those of its units in turn.
FramePackets(i) ==
    LET upTo[k \in i - 1 .. FrameEnd(i) - 1] ==
            IF k < i THEN <<>>
            ELSE IF k \in FrameUnits(i) THEN upTo[k - 1] \o PacketsOf(k)
            ELSE upTo[k - 1]
    IN upTo[FrameEnd(i) - 1]

-----------------------------------------------------------------------------
(* RtspSession::FeedNextNALFrame and ProduceNextPacket                     *)

ReadNextFrame(x) ==
    IF HasMoreData(x)
    THEN [packets |-> FramePackets(x.nal), src |-> [x EXCEPT !.nal = FrameEnd(x.nal)]]
    ELSE [packets |-> <<>>, src |-> [x EXCEPT !.eof = TRUE]]

Enqueue(read) ==
    [read.src EXCEPT !.queue = @ \o [j \in DOMAIN read.packets |->
                                       [ts |-> read.src.frame, nal |-> read.packets[j].nal,
                                        frag |-> read.packets[j].frag]],
                     !.frame = @ + 1]

\* Mutant of FeedNextNALFrame: the file is not played again after its end.
FeedNextNALFrameOnce(x) ==
    LET first == ReadNextFrame(x)
    IN IF first.packets # <<>> THEN Enqueue(first) ELSE first.src

FeedNextNALFrame(x) ==
    LET first == ReadNextFrame(x)
    IN IF File = <<>> THEN x
       ELSE IF first.packets # <<>> THEN Enqueue(first)
       ELSE Enqueue(ReadNextFrame(Reset([first.src EXCEPT !.frame = 0])))

\* What the receiver has of the unit it is assembling, once p has arrived.
Received(p) == [nal |-> p.nal, ts |-> p.ts, got |-> p.frag.pos + p.frag.len]

SendRtpPacket(x, p) ==
    [x EXCEPT !.sent = p, !.parity = ~@, !.rx = <<Received(p)>>]

\* The packet the provider returns goes out; without one nothing is sent.
SendNext(x) ==
    LET y == IF x.queue = <<>> THEN FeedNextNALFrame(x) ELSE x
    IN IF y.queue = <<>> THEN y
       ELSE SendRtpPacket([y EXCEPT !.queue = Tail(@)], Head(y.queue))

-----------------------------------------------------------------------------
(* AsioRtpTransport.  A wait on the timer is armed until it expires or is  *)
(* cancelled; an expired one is a queued callback, which cancel() and      *)
(* expires_after() no longer reach.                                        *)

StartEventLoop(x) ==
    IF x.loop THEN x ELSE [x EXCEPT !.loop = TRUE, !.armed = TRUE]

\* Mutant of StopEventLoop: the wait is cancelled and the flag is left set.
StopEventLoopKeepFlag(x) == [x EXCEPT !.armed = FALSE]

StopEventLoop(x) == [x EXCEPT !.loop = FALSE, !.armed = FALSE]

\* Mutant of SetPlaying: stopping leaves is_playing set.
SetPlayingSticky(x, on) ==
    CASE on /\ ~x.playing -> StartEventLoop([x EXCEPT !.playing = TRUE])
      [] ~on /\ x.playing -> StopEventLoop([x EXCEPT !.garbage = FALSE])
      [] OTHER -> x

SetPlaying(x, on) ==
    CASE on /\ ~x.playing -> StartEventLoop([x EXCEPT !.playing = TRUE])
      [] ~on /\ x.playing -> StopEventLoop([x EXCEPT !.playing = FALSE, !.garbage = FALSE])
      [] OTHER -> x

\* A transport is made and replaces the old one, whose destructor cancels the
\* timer: a callback that is queued already keeps the pointer to it.
\* MediaChannelInfo::is_playing has no initializer: the new flag is `garbage`.
NewTransport(x, garbage) ==
    [x EXCEPT !.transport = TRUE, !.gen = @ + 1, !.playing = garbage,
              !.garbage = garbage, !.loop = FALSE, !.armed = FALSE]

OnTimer(x) ==
    IF x.playing /\ x.loop THEN [SendNext(x) EXCEPT !.armed = TRUE] ELSE x

-----------------------------------------------------------------------------
(* The request handlers                                                    *)

Reply(x, status) == [x EXCEPT !.out = [status |-> status, cseq |-> x.cseq]]

HandleSetup(x, tr, garbage) ==
    CASE tr = "udp-no-port" -> Reply([x EXCEPT !.mode = "udp"], 400)
      [] tr \in {"tcp", "udp"} ->
            Reply(NewTransport([x EXCEPT !.mode = tr, !.state = "READY"], garbage), 200)
      [] tr = "multicast" -> Reply([x EXCEPT !.mode = tr, !.state = "READY"], 200)
      [] OTHER -> Reply(x, 400)

\* With a transport PLAY rewinds the file, sends SPS and PPS and starts the
\* timer; packets queued by an earlier PLAY stay in the queue.
HandlePlay(x) ==
    LET playing == [x EXCEPT !.state = "PLAYING"]
        rewound == [(IF HasMoreData(x) THEN Reset(playing) ELSE playing)
                        EXCEPT !.frame = 0, !.rx = <<>>]
    IN IF x.state # "READY" THEN Reply(x, 400)
       ELSE IF x.transport THEN Reply(SetPlaying(rewound, TRUE), 200)
       ELSE Reply(playing, 200)

\* Mutant of HandleTeardown: the stream is left to the closing connection.
HandleTeardownKeepsStream(x) == Reply([x EXCEPT !.state = "TEARDOWN"], 200)

HandleTeardown(x) ==
    LET y == [x EXCEPT !.state = "TEARDOWN"]
    IN Reply(IF x.transport THEN SetPlaying(y, FALSE) ELSE y, 200)

HandlePause(x) ==
    LET y == [x EXCEPT !.state = "PAUSED"]
    IN IF x.state # "PLAYING" THEN Reply(x, 400)
       ELSE Reply(IF x.transport THEN SetPlaying(y, FALSE) ELSE y, 200)

Dispatch(x, m, tr, garbage) ==
    CASE m = "SETUP" -> HandleSetup(x, tr, garbage)
      [] m = "PLAY" -> HandlePlay(x)
      [] m = "PAUSE" -> HandlePause(x)
      [] m = "TEARDOWN" -> HandleTeardown(x)
      [] m = "RECORD" -> Reply(x, 405)
      [] OTHER -> Reply(x, 200)

ParseRtspRequestLine(t) == t.kind = "line" /\ t.m \in Methods

\* The blank line does not end the header block (it still holds its '\r'), so a
\* header block that follows in the same buffer overrides the first: the last
\* CSeq and the last Transport count.
ParseHeaders(b) ==
    LET heads == {i \in DOMAIN b : b[i].kind = "rest"}
        named == {i \in heads : b[i].tr # "none"}
    IN [cseq |-> IF heads = {} THEN 0 ELSE b[Max(heads)].cseq,
        tr |-> IF named = {} THEN "none" ELSE b[Max(named)].tr]

\* The whole buffer is one request.
HandleRtspRequest(x, b, garbage) ==
    LET h == ParseHeaders(b)
        y == IF h.cseq = 0 THEN x ELSE [x EXCEPT !.cseq = h.cseq]
    IN IF ParseRtspRequestLine(b[1]) THEN Dispatch(y, b[1].m, h.tr, garbage)
       ELSE [x EXCEPT !.out = [status |-> 400, cseq |-> -1]]

\* Mutant of KnownFirstByte: 'P' is not looked for.
KnownFirstByteNoP(t) ==
    t.kind = "line" /\ t.m \notin {"GET_PARAMETER", "RECORD", "PLAY", "PAUSE"}

\* ProcessInterleavedData looks at the first byte for O, D, S, P or T.
KnownFirstByte(t) == t.kind = "line" /\ t.m \notin {"GET_PARAMETER", "RECORD"}

\* Whole interleaved frames at the start of the buffer are consumed.
DropFrames(b) ==
    LET whole == {k \in 0 .. Len(b) \div 2 : \A i \in 1 .. k : b[2 * i - 1].kind = "head"}
    IN SubSeq(b, 2 * Max(whole) + 1, Len(b))

\* OnBytes: the request to handle, as the tokens of its buffer (<<>> if none),
\* and what is left in the buffer.
Consume(x, b) ==
    LET r == DropFrames(b)
    IN IF x.state \notin {"PLAYING", "READY"} THEN [request |-> b, left |-> <<>>]
       ELSE IF r = <<>> \/ r[1].kind = "head" THEN [request |-> <<>>, left |-> r]
       ELSE [request |-> IF KnownFirstByte(r[1]) THEN r ELSE <<>>, left |-> <<>>]

-----------------------------------------------------------------------------

\* LoadVideoFile reads the first frame for its parameter sets and rewinds.
LoadVideoFile(x) == Reset(ReadNextFrame(x).src)

\* The server accepts a connection and makes its session.
OnCreateSession ==
    LoadVideoFile([state |-> "INIT", cseq |-> 0, mode |-> "tcp", out |-> NoReply,
                   transport |-> FALSE, playing |-> FALSE, garbage |-> FALSE,
                   gen |-> 0, loop |-> FALSE, armed |-> FALSE,
                   nal |-> 1, eof |-> FALSE, frame |-> 0, queue |-> <<>>,
                   sent |-> <<>>, parity |-> FALSE, rx |-> <<>>])

Init ==
    /\ s = OnCreateSession
    /\ queued = <<>>
    /\ sock = "open"
    /\ net = <<>>
    /\ buf = <<>>
    /\ asked = 0
    /\ fate = "ok"

\* The client writes a request.
ClientRequest(m, tr) ==
    /\ sock = "open" /\ asked < MaxReq /\ Len(net) + 2 <= MaxNet
    /\ asked' = asked + 1
    /\ net' = net \o <<Line(m), Rest(asked + 1, tr)>>
    /\ UNCHANGED <<s, queued, sock, buf, fate>>

\* The client writes an RTCP report on the interleaved channel.
ClientRtcp ==
    /\ sock = "open" /\ s.transport /\ s.mode = "tcp" /\ net = <<>>
    /\ net' = <<FrameHead, FrameBody>>
    /\ UNCHANGED <<s, queued, sock, buf, asked, fate>>

ClientGone ==
    /\ sock = "open"
    /\ sock' = "lost"
    /\ UNCHANGED <<s, queued, net, buf, asked, fate>>

\* A read completes with the first n tokens.  After a reset remote_endpoint()
\* throws in SETUP, and nothing catches the exception below the io thread.
Read(n, garbage) ==
    LET got == Consume(s, buf \o SubSeq(net, 1, n))
        next == IF got.request = <<>> THEN [s EXCEPT !.out = NoReply]
                ELSE HandleRtspRequest(s, got.request, garbage)
        asksPeer == next.state = "READY" /\ got.request # <<>> /\ next.out.status = 200
                    /\ got.request[1] = Line("SETUP")
    IN /\ sock \in {"open", "lost"} /\ n <= Len(net)
       /\ net' = SubSeq(net, n + 1, Len(net))
       /\ buf' = got.left
       /\ \/ s' = next /\ fate' = fate
          \/ sock = "lost" /\ asksPeer /\ s' = s /\ fate' = "terminated"
       /\ UNCHANGED <<queued, sock, asked>>

\* The read fails: OnClose and the close handler only log, and the session is
\* kept alive by its own close handler.  Nothing touches the transport.
ReadError ==
    /\ sock = "lost"
    /\ sock' = "closed"
    /\ net' = <<>>
    /\ UNCHANGED <<s, queued, buf, asked, fate>>

\* The pacing timer expires and its callback is queued.
Expire ==
    /\ s.armed /\ Len(queued) < MaxQueued
    /\ queued' = Append(queued, s.gen)
    /\ s' = [s EXCEPT !.armed = FALSE]
    /\ UNCHANGED <<sock, net, buf, asked, fate>>

\* The io thread runs the oldest callback; the transport it points to may have
\* been replaced, and destroyed, since it was queued.
Tick ==
    /\ queued # <<>>
    /\ queued' = Tail(queued)
    /\ IF Head(queued) = s.gen
       THEN s' = OnTimer(s) /\ fate' = fate
       ELSE s' = s /\ fate' = "undefined"
    /\ UNCHANGED <<sock, net, buf, asked>>

Step ==
    \/ \E q \in Asked : ClientRequest(q[1], q[2])
    \/ ClientRtcp
    \/ ClientGone
    \/ \E n \in 1 .. Len(net), garbage \in BOOLEAN : Read(n, garbage)
    \/ ReadError
    \/ Expire
    \/ Tick

Next == fate = "ok" /\ Step

\* A wait that is armed expires, and the io thread runs what is queued.
Fairness ==
    /\ WF_queued(fate = "ok" /\ s.armed /\ Len(queued) < MaxQueued /\ queued' = Append(queued, s.gen))
    /\ WF_queued(fate = "ok" /\ queued # <<>> /\ queued' = Tail(queued))

Spec == Init /\ [][Next]_vars
FairSpec == Spec /\ Fairness

-----------------------------------------------------------------------------
(* Properties                                                              *)

PacketType ==
    [nal : 1 .. Len(File), ts : Nat,
     frag : [pos : Nat, len : Nat, start : BOOLEAN, end : BOOLEAN]]

\* The types of the variables.
TypeOK ==
    /\ s.state \in States
    /\ s.cseq \in 0 .. MaxReq
    /\ s.mode \in {"tcp", "udp", "multicast"}
    /\ {s.transport, s.playing, s.garbage, s.loop, s.armed, s.eof} \subseteq BOOLEAN
    /\ s.gen \in 0 .. MaxReq /\ Range(queued) \subseteq 1 .. s.gen
    /\ Len(queued) <= MaxQueued /\ s.nal \in 1 .. Len(File) + 1 /\ s.frame \in Nat
    /\ s.queue \in Seq(PacketType)
    /\ sock \in {"open", "lost", "closed"}
    /\ fate \in {"ok", "terminated", "undefined"}
    /\ asked \in 0 .. MaxReq

\* While the transport's loop flag is set, a wait is armed or its callback is
\* queued: no order of PAUSE, SETUP and PLAY around an old expiry leaves the
\* flag without a timer (SetPlaying, StartEventLoop, OnTimer).
LoopHasTimer == s.loop => s.armed \/ s.gen \in Range(queued)

\* A session in PLAYING with a transport has its loop running, unless the
\* transport was born with is_playing set, which makes PLAY a no-op.
PlayingHasLoop ==
    s.state = "PLAYING" /\ s.transport /\ ~s.garbage => s.loop

Sends == s'.parity # s.parity

\* No media packet leaves in PAUSED or TEARDOWN, nor before the first PLAY: a
\* callback that was queued before the request was handled sends nothing after
\* it.  (READY is no such state: a SETUP for multicast, which has no transport
\* of its own, leaves the old one playing.)
SilentWhenStopped ==
    [][Sends => s.state \in {"PLAYING", "READY"}]_vars

SizeOf(i) == File[i].size

\* The units of the file that are sent: all but the access unit delimiters
\* behind the first unit.
Kept == {i \in 1 .. Len(File) : i = 1 \/ File[i].type # 9}

\* The one after unit i, or the end of the file.
NextKept(i) == Min({j \in Kept : j > i} \cup {Len(File) + 1})

\* A receiver that has r of a unit is sent p.
Follows(p, r) ==
    IF r.got < SizeOf(r.nal)
    THEN p.nal = r.nal /\ p.frag.pos = r.got /\ p.ts = r.ts
    ELSE p.frag.start /\ p.nal \in {1, NextKept(r.nal)}

\* From one PLAY to the next the receiver gets every unit whole, in file order
\* and from its first fragment on: the next packet continues the unit at hand
\* with its timestamp, or starts the following unit or the file.
StreamInOrder ==
    [][Sends /\ s.rx # <<>> => Follows(s'.sent, s.rx[1])]_vars

Alone(m) == Len(net) = 2 /\ net[1] = Line(m) /\ net[2].kind = "rest"

AnswersWhole(ms) ==
    (\E m \in ms : Alone(m)) /\ buf = <<>> /\ net' = <<>> /\ sock' = sock /\ fate' = "ok"
    => s'.out.status # 0 /\ s'.out.cseq = net[2].cseq

\* A request that arrives whole, alone and on an empty buffer is answered in
\* that step with its own CSeq, whatever state the session is in.
Answered == [][AnswersWhole(Methods \ {"GET_PARAMETER", "RECORD"})]_vars

\* A stream that plays a file keeps sending: from any state in which the loop
\* runs, another packet leaves or the loop is stopped by a request.
StreamFlows ==
    \A p \in BOOLEAN :
        s.loop /\ s.parity = p /\ File # <<>>
            ~> s.parity # p \/ ~s.loop \/ fate # "ok"

=============================================================================
