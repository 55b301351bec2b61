----------------------------- MODULE MediaSource -----------------------------
(***************************************************************************)
(* The media layer (src/media): packets and frames that share buffers by   *)
(* reference counts, and NALSourceAdapter, the bounded queue through which *)
(* an application's thread hands packets to a reader, which takes each     *)
(* apart into NAL units.                                                   *)
(*                                                                         *)
(* The application has a MediaPacket, a MediaFrame and their C structs.    *)
(* It pushes a packet only when nothing else of its own refers to the      *)
(* packet's buffer: counts are plain integers.  In SetBuffer it gives away *)
(* the reference that it has from media_buffer_create.                     *)
(***************************************************************************)
EXTENDS Integers, Sequences, FiniteSets, SequencesExt, FiniteSetsExt, Functions

CONSTANTS Payloads,   \* contents of packets, as bytes
          Images,     \* [format, width, height] of frames
          MaxBuffers, \* buffers created
          MaxPackets, \* packets pushed
          MaxRefs,    \* references to a buffer, lost ones included
          MaxCalls,   \* calls of Open, Close, Reset, SetEndOfStream
          Limits      \* what max_queue_size_ is set to

ASSUME PayloadAssumption == Payloads \subseteq Seq(0 .. 255)
ASSUME ImageAssumption ==
    \A im \in Images : DOMAIN im = {"format", "width", "height"}
                       /\ im.width \in Nat \ {0} /\ im.height \in Nat \ {0}
ASSUME BoundAssumption ==
    MaxBuffers \in Nat /\ MaxRefs \in Nat /\ MaxPackets \in Nat /\ MaxCalls \in Nat /\ Limits \subseteq Nat

VARIABLES buf,    \* buffers made: [refs, data]; no reference, no buffer
          obj,    \* the application's four objects
          queue,  \* packet_queue_: packets with their number
          limit,  \* max_queue_size_
          eos,    \* end_of_stream_
          app,    \* what the application's thread is doing
          calls,  \* how many calls of the adapter it has made
          reader, \* what the reader is doing, and its packet
          pushed, \* contents of the packets pushed so far
          got,    \* the frames read so far: [id, units]
          dropped,\* the packets that ClearQueue has dropped
          missed  \* an end of stream was signalled between a test and its wait

vars == <<buf, obj, queue, limit, eos, app, calls, reader, pushed, got, dropped, missed>>

-----------------------------------------------------------------------------
(* Buffers and the objects that refer to them                              *)

\* In a struct or an object, 0 stands for no buffer.
Times(b, s) == Cardinality({i \in DOMAIN s : s[i] = b})

\* A reference more, or less, for each buffer in s.
Ref(bs, s) == [b \in DOMAIN bs |-> [bs[b] EXCEPT !.refs = @ + Times(b, s)]]

Unref(bs, s) == [b \in DOMAIN bs |-> [bs[b] EXCEPT !.refs = @ - Times(b, s)]]

NewBuffer(data) == [refs |-> 1, data |-> data]

\* Sizes of a frame's planes; none for a format that has no case, and one of
\* no bytes for a compressed one.
PlaneSizes(im) ==
    LET w == im.width
        h == im.height
    IN CASE im.format \in {"I420", "YV12"} ->
              <<w * h, (w \div 2) * (h \div 2), (w \div 2) * (h \div 2)>>
         [] im.format \in {"NV12", "NV21"} -> <<w * h, w * (h \div 2)>>
         [] im.format \in {"YUYV", "UYVY"} -> <<w * h * 2>>
         [] im.format \in {"RGB24", "BGR24"} -> <<w * h * 3>>
         [] im.format \in {"RGBA", "BGRA"} -> <<w * h * 4>>
         [] im.format \in {"MJPEG", "H264", "H265"} -> <<0>>
         [] OTHER -> <<>>

\* own: the buffers of the C struct; wrap: those of the adapters of a C++
\* object; planes: num_planes of a frame; the one buffer of a packet is a plane.
Blank(slots, im) ==
    [own |-> [i \in 1 .. slots |-> 0], wrap |-> <<>>,
     planes |-> IF slots = 1 THEN 1 ELSE 0, image |-> im]

Slots(x) == IF x \in {"packet", "c_packet"} THEN 1 ELSE 4

Fresh(x, im) == Blank(Slots(x), im)

\* What a C++ object gives back at its end: its struct's buffers and its adapters'.
Refs(h) == h.own \o h.wrap

\* Clear: the references of the C struct are given back.
Cleared(h) == [h EXCEPT !.own = [i \in DOMAIN @ |-> 0]]

\* Mutant of CopyRefs: the copy is shallow.
CopyRefsNone(bs, from) == bs

\* A copy takes a reference for each plane; what the target had is overwritten.
CopyRefs(bs, from) == Ref(bs, SubSeq(from.own, 1, from.planes))

Copied(from, to) ==
    [to EXCEPT !.own = [i \in DOMAIN @ |-> IF i <= from.planes THEN from.own[i] ELSE @[i]],
               !.planes = from.planes, !.image = from.image]

-----------------------------------------------------------------------------
(* NAL units                                                               *)

IsAt(data, i, code) ==
    i + Len(code) - 1 <= Len(data) /\ SubSeq(data, i, i + Len(code) - 1) = code

\* Mutant of CodeLength: a start code is taken for one of three bytes.
CodeLengthThree(data, i) == 3

CodeLength(data, i) ==
    CASE IsAt(data, i, <<0, 0, 0, 1>>) -> 4
      [] IsAt(data, i, <<0, 0, 1>>) -> 3
      [] OTHER -> 0

\* The first start code at or after i; Len + 1 if there is none.
FindStartCode(data, i) ==
    Min({j \in i .. Len(data) : \E c \in {<<0, 0, 0, 1>>, <<0, 0, 1>>} : IsAt(data, j, c)}
        \cup {Len(data) + 1})

\* The units of data from position i on, each as its bytes.
UnitsFrom(data) ==
    LET units[i \in 1 .. Len(data) + 1] ==
            LET code == FindStartCode(data, i)
                first == code + CodeLength(data, code)
                next == FindStartCode(data, first)
            IN IF i > Len(data) \/ code > Len(data) THEN <<>>
               ELSE (IF next > first THEN <<SubSeq(data, first, next - 1)>> ELSE <<>>)
                        \o units[next]
    IN units[1]

\* A packet without a buffer has no units.
ParseNALUnits(h) == IF h.wrap = <<>> THEN <<>> ELSE UnitsFrom(buf[h.wrap[1]].data)

-----------------------------------------------------------------------------

\* The objects an application works with: packets, or frames, which share
\* nothing with packets.
Works == {{"packet", "c_packet"}, {"frame", "c_frame"}}
Cpp == [packet |-> "c_packet", frame |-> "c_frame"]
NoImage == [format |-> "none", width |-> 1, height |-> 1]

\* A reader that is not in a call.
Away == [pc |-> "idle", id |-> 0, packet |-> Fresh("packet", NoImage)]

Init ==
    /\ buf = <<>>
    /\ obj \in {[x \in work |-> Fresh(x, NoImage)] : work \in Works}
    /\ queue = <<>>
    /\ limit \in Limits
    /\ eos = FALSE
    /\ app = "idle"
    /\ calls = 0
    /\ reader = Away
    /\ pushed = <<>>
    /\ got = <<>>
    /\ dropped = {}
    /\ missed = FALSE

Media(x, h, bs) ==
    /\ app = "idle"
    /\ \A b \in DOMAIN bs : bs[b].refs <= MaxRefs
    /\ obj' = [obj EXCEPT ![x] = h]
    /\ buf' = bs
    /\ UNCHANGED <<queue, limit, eos, app, calls, reader, pushed, got, dropped, missed>>

-----------------------------------------------------------------------------
(* Operations on packets and frames                                        *)

\* A buffer of the packet; the old one is given back first, and the adapter of
\* a MediaPacket replaced.  media_packet_set_data does the same with data of
\* the caller's.
AllocPacket(x, data) ==
    LET h == obj[x]
        b == Len(buf) + 1
        made == Append(Unref(buf, h.own), NewBuffer(data))
    IN /\ x \in {"packet", "c_packet"} /\ Len(buf) < MaxBuffers
       /\ IF x = "packet"
          THEN Media(x, [h EXCEPT !.own = <<b>>, !.wrap = <<b>>],
                     Unref(Ref(made, <<b>>), h.wrap))
          ELSE Media(x, [h EXCEPT !.own = <<b>>], made)

\* malloc fails: the old buffer is gone, the old adapter is not.
AllocPacketFails(x) ==
    /\ x \in {"packet", "c_packet"}
    /\ Media(x, Cleared(obj[x]), Unref(buf, obj[x].own))

\* The application changes the geometry of an empty frame only.
MayBe(h, im) == im = h.image \/ \A i \in DOMAIN h.own : h.own[i] = 0

\* A buffer per plane.  What the frame had is overwritten, not given back.
AllocFrame(x, im) ==
    LET h == obj[x]
        sizes == PlaneSizes(im)
        n == Len(sizes)
    IN /\ x \in {"frame", "c_frame"} /\ n > 0 /\ 0 \notin Range(sizes) /\ MayBe(h, im)
       /\ Len(buf) + n <= MaxBuffers
       /\ Media(x, [h EXCEPT !.own = [i \in 1 .. 4 |-> IF i <= n THEN Len(buf) + i ELSE @[i]],
                             !.planes = n, !.image = im],
                buf \o [i \in 1 .. n |-> NewBuffer(<<>>)])

\* Plane k cannot be made, for want of memory or because it has no bytes: the
\* planes before it are released, and num_planes stays what it was.
AllocFrameFails(x, im, k) ==
    LET h == obj[x]
    IN /\ x \in {"frame", "c_frame"} /\ k <= Len(PlaneSizes(im)) /\ MayBe(h, im)
       /\ Media(x, [h EXCEPT !.own = [i \in 1 .. 4 |-> IF i <= k THEN 0 ELSE @[i]],
                             !.image = im], buf)

\* ToCStruct, media_packet_copy, media_frame_copy.
Copy(x, y) ==
    /\ x # y /\ y \in {"c_packet", "c_frame"}
    /\ Media(y, Copied(obj[x], obj[y]), CopyRefs(buf, obj[x]))

\* FromCStruct: the object is cleared, takes references of its own and makes
\* adapters, which take theirs.  A frame keeps its old adapters before them.
FromCStruct(x) ==
    LET from == obj[Cpp[x]]
        planes == FlattenSeq([i \in 1 .. from.planes |->
                                 IF from.own[i] = 0 THEN <<>> ELSE <<from.own[i]>>])
        bs == Ref(CopyRefs(Unref(buf, obj[x].own), from), planes)
        h == Copied(from, Cleared(obj[x]))
    IN IF x = "packet" THEN Media(x, [h EXCEPT !.wrap = planes], Unref(bs, obj[x].wrap))
       ELSE /\ Len(obj[x].wrap \o planes) <= 4
            /\ Media(x, [h EXCEPT !.wrap = @ \o planes], bs)

\* SetBuffer and SetPlaneBuffer with a new buffer in an adapter: one reference
\* is the adapter's, the other the one the caller had.
SetBuffer(x, i, data) ==
    LET h == obj[x]
        b == Len(buf) + 1
        old == IF i <= Len(h.wrap) THEN <<h.wrap[i]>> ELSE <<>>
        wrap == [k \in 1 .. Max({i, Len(h.wrap)}) |->
                    IF k = i THEN b ELSE IF k <= Len(h.wrap) THEN h.wrap[k] ELSE 0]
    IN /\ x \in DOMAIN obj /\ Len(buf) < MaxBuffers
       /\ i = 1 \/ i <= Len(PlaneSizes(h.image))
       /\ Media(x, [h EXCEPT !.own[i] = b, !.wrap = wrap],
                Unref(Append(buf, [NewBuffer(data) EXCEPT !.refs = 2]), old))

\* media_packet_clear and media_frame_clear, on a C struct.
Clear(x) ==
    /\ x \in {"c_packet", "c_frame"}
    /\ Media(x, Cleared(obj[x]), Unref(buf, obj[x].own))

\* A C++ object is destroyed and made anew, or a new one is moved into it.
Remake(x) ==
    /\ x \in {"packet", "frame"}
    /\ Media(x, Fresh(x, obj[x].image), Unref(buf, Refs(obj[x])))

-----------------------------------------------------------------------------
(* NALSourceAdapter.  Its mutex is held by a reader in "tested"; every     *)
(* other critical section is one step.                                     *)

Unlocked == reader.pc # "tested" /\ app # "stuck"

Woken == [reader EXCEPT !.pc = IF @ = "waiting" THEN "woken" ELSE @]

\* Mutant of Notified: the reader is not told.
NotifiedNever == reader

\* notify_one and notify_all: there is one reader.
Notified == Woken

\* PushPacket; the packet is the queue's from now on, or refused.
PushPacket ==
    LET h == obj["packet"]
    IN /\ "packet" \in DOMAIN obj /\ app = "idle" /\ Unlocked /\ Len(pushed) < MaxPackets
       /\ \A b \in Range(Refs(h)) \ {0} : buf[b].refs = Times(b, Refs(h))
       /\ Len(queue) < limit
       /\ pushed' = Append(pushed, IF h.wrap = <<>> THEN <<>> ELSE buf[h.wrap[1]].data)
       /\ queue' = Append(queue, [id |-> Len(pushed'), packet |-> h])
       /\ obj' = [obj EXCEPT !["packet"] = Fresh("packet", NoImage)]
       /\ reader' = Notified
       /\ UNCHANGED <<buf, limit, eos, app, calls, got, dropped, missed>>

SetMaxQueueSize(n) ==
    /\ app = "idle" /\ limit' = n /\ n # limit
    /\ UNCHANGED <<buf, obj, queue, eos, app, calls, reader, pushed, got, dropped, missed>>

Called(next) == calls < MaxCalls /\ calls' = calls + 1 /\ app' = next

\* What the packets of a queue refer to.
Queued(q) == FlattenSeq([i \in DOMAIN q |-> Refs(q[i].packet)])

\* The packets of the queue are destroyed, the reader is told.
ClearsQueue ==
    /\ Unlocked
    /\ buf' = Unref(buf, Queued(queue))
    /\ dropped' = dropped \cup {queue[i].id : i \in DOMAIN queue}
    /\ queue' = <<>>
    /\ reader' = Notified
    /\ UNCHANGED <<obj, limit, pushed, got, missed>>

\* Open resets the flag and clears; Close clears and resets; Reset clears.
Open == app = "idle" /\ Called("opening") /\ eos' = FALSE
        /\ UNCHANGED <<buf, obj, queue, limit, reader, pushed, got, dropped, missed>>

OpenClears == app = "opening" /\ ClearsQueue /\ app' = "idle" /\ UNCHANGED <<eos, calls>>

Close == app = "idle" /\ Called("closing") /\ ClearsQueue /\ UNCHANGED eos

CloseResets == app = "closing" /\ app' = "idle" /\ eos' = FALSE
        /\ UNCHANGED <<buf, obj, queue, limit, calls, reader, pushed, got, dropped, missed>>

Reset == app = "idle" /\ Called("idle") /\ ClearsQueue /\ UNCHANGED eos

\* The flag is set without the mutex, and then the reader is notified.
SetEndOfStream == app = "idle" /\ Called("ending") /\ eos' = TRUE
        /\ UNCHANGED <<buf, obj, queue, limit, reader, pushed, got, dropped, missed>>

EndNotifies ==
    /\ app = "ending" /\ app' = "idle"
    /\ reader' = Notified
    /\ missed' = (missed \/ reader.pc = "tested")
    /\ UNCHANGED <<buf, obj, queue, limit, eos, calls, pushed, got, dropped>>

\* operator= holds both mutexes when it calls Close, which takes its own.
MoveAssign == app = "idle" /\ Unlocked /\ Called("stuck")
        /\ UNCHANGED <<buf, obj, queue, limit, eos, reader, pushed, got, dropped, missed>>

-----------------------------------------------------------------------------
(* The reader                                                              *)

ReadNextFrame ==
    /\ reader.pc = "idle" /\ reader' = [reader EXCEPT !.pc = "woken"]
    /\ UNCHANGED <<buf, obj, queue, limit, eos, app, calls, pushed, got, dropped, missed>>

Takes == [pc |-> "parsing", id |-> Head(queue).id, packet |-> Head(queue).packet]

\* The predicate of the wait, under the mutex: a packet is taken, the stream
\* has ended, or the reader goes to sleep.
Tests ==
    /\ reader.pc = "woken" /\ Unlocked
    /\ IF queue # <<>> THEN reader' = Takes /\ queue' = Tail(queue)
       ELSE /\ reader' = [reader EXCEPT !.pc = IF eos THEN "idle" ELSE "tested"]
            /\ UNCHANGED queue
    /\ UNCHANGED <<buf, obj, limit, eos, app, calls, pushed, got, dropped, missed>>

Sleeps ==
    /\ reader.pc = "tested" /\ reader' = [reader EXCEPT !.pc = "waiting"]
    /\ UNCHANGED <<buf, obj, queue, limit, eos, app, calls, pushed, got, dropped, missed>>

\* TryReadNextFrame does not wait.
TryReadNextFrame ==
    /\ reader.pc = "idle" /\ Unlocked /\ queue # <<>>
    /\ reader' = Takes /\ queue' = Tail(queue)
    /\ UNCHANGED <<buf, obj, limit, eos, app, calls, pushed, got, dropped, missed>>

\* The units are copied out and the packet is destroyed.
Parses ==
    LET h == reader.packet
    IN /\ reader.pc = "parsing"
       /\ got' = Append(got, [id |-> reader.id, units |-> ParseNALUnits(h)])
       /\ buf' = Unref(buf, Refs(h))
       /\ reader' = Away
       /\ UNCHANGED <<obj, queue, limit, eos, app, calls, pushed, dropped, missed>>

-----------------------------------------------------------------------------

MediaStep ==
    \/ \E x \in DOMAIN obj :
          \/ \E data \in Payloads : AllocPacket(x, data)
          \/ AllocPacketFails(x)
          \/ \E im \in Images : AllocFrame(x, im) \/ \E k \in 1 .. 4 : AllocFrameFails(x, im, k)
          \/ \E y \in DOMAIN obj : Copy(x, y)
          \/ Clear(x) \/ Remake(x)
    \/ \E x \in DOMAIN obj \cap DOMAIN Cpp : FromCStruct(x)
    \/ \E data \in Payloads : SetBuffer("packet", 1, data)
    \/ \E i \in 1 .. 4 : SetBuffer("frame", i, <<>>)

AppStep ==
    \/ PushPacket
    \/ \E n \in Limits : SetMaxQueueSize(n)
    \/ Open \/ OpenClears \/ Close \/ CloseResets \/ Reset
    \/ SetEndOfStream \/ EndNotifies
    \/ MoveAssign

ReaderStep == ReadNextFrame \/ TryReadNextFrame \/ Tests \/ Sleeps \/ Parses

Next == MediaStep \/ AppStep \/ ReaderStep

Spec == Init /\ [][Next]_vars

\* A reader that can go on does, and SetEndOfStream gets to its notification.
Fairness ==
    /\ WF_reader(Tests)
    /\ WF_reader(Sleeps)
    /\ WF_reader(reader.pc = "parsing" /\ reader' = Away)
    /\ WF_app(app = "ending" /\ app' = "idle")

FairSpec == Spec /\ Fairness

-----------------------------------------------------------------------------
(* Properties                                                              *)

\* Everything that refers to a buffer has a reference of its own, wherever
\* packets and frames were copied, cleared, refilled or queued: no buffer is
\* released while a struct, an adapter, the queue or the reader has it.
References ==
    \A x \in DOMAIN obj \cap DOMAIN Cpp, b \in DOMAIN buf :
        buf[b].refs >= Times(b, Refs(obj[x])) + Times(b, Refs(obj[Cpp[x]]))
                         + Times(b, Refs(reader.packet)) + Times(b, Queued(queue))

\* What is between start codes: the first and the last byte of each unit.
Spans(d) ==
    LET Follows(i) == i > 3 /\ IsAt(d, i - 3, <<0, 0, 1>>)
        Bounds(i) == i > Len(d) \/ IsAt(d, i, <<0, 0, 1>>) \/ IsAt(d, i, <<0, 0, 0, 1>>)
    IN {s \in (DOMAIN d) \X (DOMAIN d) :
           /\ Follows(s[1]) /\ s[1] <= s[2] /\ Bounds(s[2] + 1)
           /\ \A k \in s[1] .. s[2] : ~Bounds(k)}

\* us are the units of d in their order.
AreUnits(us, d) ==
    /\ Len(us) = Cardinality(Spans(d))
    /\ \A s \in Spans(d) :
          us[Cardinality({r \in Spans(d) : r[1] <= s[1]})] = SubSeq(d, s[1], s[2])

\* The frame that a reader takes for the packet it is handed: the packets come
\* in the order they were pushed, each at most once and none skipped but by a
\* ClearQueue, and their units are the bytes between start codes.
FramesInOrder ==
    LET ids == [i \in DOMAIN got |-> got[i].id]
               \o (IF reader.pc = "parsing" THEN <<reader.id>> ELSE <<>>)
               \o [i \in DOMAIN queue |-> queue[i].id]
    IN /\ \A i \in DOMAIN ids : \A j \in DOMAIN ids : i < j => ids[i] < ids[j]
       /\ Range(ids) \cup dropped = DOMAIN pushed
       /\ Range(ids) \cap dropped = {}
       /\ \A i \in DOMAIN got : AreUnits(got[i].units, pushed[got[i].id])

\* A reader that has a packet to take, or whose stream has ended, returns,
\* unless the end was signalled between its test and its wait, or the adapter
\* deadlocked in operator=.
ReaderReturns ==
    reader.pc # "idle" /\ (queue # <<>> \/ eos)
        ~> reader.pc = "idle" \/ (queue = <<>> /\ ~eos) \/ missed \/ app = "stuck"
=============================================================================
