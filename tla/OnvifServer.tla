----------------------------- MODULE OnvifServer -----------------------------
(***************************************************************************)
(* The HTTP server (src/server/http) with the ONVIF services behind it     *)
(* (src/onvif), whose SOAP operations are POSTs to three of its routes.    *)
(*                                                                         *)
(* http::Server::run is called by main: one thread reads, parses, runs     *)
(* every handler and writes.  PullMessages waits on a condition variable   *)
(* inside its handler, so while it waits nothing else of the server moves; *)
(* the application's PushEvent is the only other thread.                   *)
(*                                                                         *)
(* A request on the wire is two or three tokens: its request line, its     *)
(* header block and its body, if it has one.  A read ends after any token. *)
(* A body is one line of several words without a newline.                  *)
(***************************************************************************)
EXTENDS Naturals, Sequences, FiniteSets, SequencesExt, FiniteSetsExt

CONSTANTS Clients,   \* connections, one HTTP client each
          Asked,     \* per client, the requests it may send
          MaxReq,    \* per client, how many requests
          MaxSubs,   \* subscriptions created
          MaxEvents  \* events pushed

RequestAssumption ==
    \A c \in Clients : \A r \in Asked[c] :
                     /\ DOMAIN r = {"line", "method", "path", "len", "op", "sub", "limit"}
                     /\ r.line \in BOOLEAN
                     /\ r.len \in {"none", "body", "bad"}
                     /\ r.sub \in 0 .. MaxSubs
                     /\ r.limit \in Nat
ASSUME RequestAssumption
ASSUME BoundAssumption == MaxReq \in [Clients -> Nat] /\ MaxSubs \in Nat /\ MaxEvents \in Nat

VARIABLES conn,    \* per client: its socket, its session's parser and answer
          net,     \* per client: tokens that wait to be read
          phase,   \* per client: what its session is waiting for
          sent,    \* per client: how many requests it has sent
          last,    \* per client: the last one, until an answer arrives
          got,     \* per client: how many answers it has received
          polite,  \* per client: its requests parse, and each waited for the last answer
          io,      \* what the server's thread is doing
          subs,    \* subscriptions_ : id -> subscription; every entry is active
          created, \* subscriptions created so far
          pushed,  \* events pushed so far; an event is its number
          fate     \* "ok", "terminated" (exception left run()), "undefined"

vars == <<conn, net, phase, sent, last, got, polite, io, subs, created, pushed, fate>>

-----------------------------------------------------------------------------
(* The parser.  A parser is its state and its buffer_, as tokens.          *)

Token(k, i, r) == [kind |-> k, id |-> i, req |-> r]

\* The tokens of a client's i-th request.
Tokens(i, r) ==
    <<Token("line", i, r), Token("head", i, r)>>
        \o (IF r.len = "body" THEN <<Token("body", i, r)>> ELSE <<>>)

NewParser == [state |-> "METHOD", buf |-> <<>>, at |-> <<>>]

\* The request line.  Without a newline the parser waits; a body left over
\* from an earlier request, or a header, does not parse.
FeedLine(p) ==
    IF p.buf = <<>> \/ (Len(p.buf) = 1 /\ p.buf[1].kind = "body") THEN p
    ELSE IF p.buf[1].kind = "line" /\ p.buf[1].req.line
         THEN [state |-> "HEADER_KEY", buf |-> Tail(p.buf), at |-> p.buf[1]]
         ELSE [p EXCEPT !.state = "ERROR"]

\* The header lines, up to the empty one.
FeedHeaders(p) ==
    IF p.state # "HEADER_KEY" \/ p.buf = <<>> THEN p
    ELSE [p EXCEPT !.state = "BODY"]

\* The body; the header block is in the buffer until now only for its
\* Content-Length, which std::stoul may reject with an exception.
FeedBody(p) ==
    IF p.state # "BODY" THEN p
    ELSE CASE p.buf[1].req.len = "none" -> [p EXCEPT !.state = "DONE", !.buf = Tail(@)]
           [] p.buf[1].req.len = "bad" -> [p EXCEPT !.state = "THROWN"]
           [] OTHER -> IF Len(p.buf) < 2 THEN p
                       ELSE [p EXCEPT !.state = "DONE", !.buf = SubSeq(@, 3, Len(@))]

Feed(p, data) ==
    LET q == [p EXCEPT !.buf = @ \o data]
    IN IF p.state \in {"DONE", "ERROR"} THEN p
       ELSE FeedBody(FeedHeaders(IF q.state = "METHOD" THEN FeedLine(q) ELSE q))

-----------------------------------------------------------------------------
(* The router and the operations of the three services                     *)

Device == "/onvif/device_service"
Media == "/onvif/media_service"
Events == "/onvif/events_service"

\* The routes of main and of OnvifManager::RegisterRoutes.
Routes ==
    {<<"POST", Device>>, <<"POST", Media>>, <<"POST", Events>>, <<"POST", "/echo">>}
        \cup ({"GET"} \X {"/", "/hello", "/json"})

DeviceOperations ==
    {"GetCapabilities", "GetDeviceInformation", "GetSystemDateAndTime",
     "GetServices", "GetScopes", "GetHostname"}

\* GetSnapshotUri has a handler, which answers with a fault.
MediaOperations ==
    {"GetProfiles", "GetProfile", "GetStreamUri", "GetVideoSources",
     "GetVideoSourceConfigurations", "GetVideoEncoderConfigurations",
     "GetAudioSources", "GetAudioSourceConfigurations",
     "GetAudioEncoderConfigurations"}

Answer(i, status, fault) == [req |-> i, status |-> status, fault |-> fault]

\* The requests whose answer depends on nothing but the request; SOAP answers
\* and faults alike are 200.
Stateless(i, r) ==
    IF <<r.method, r.path>> \in Routes
    THEN Answer(i, 200, \/ r.path = Device /\ r.op \notin DeviceOperations
                        \/ r.path = Media /\ r.op \notin MediaOperations
                        \/ r.path = Events /\ r.op # "GetEventProperties")
    ELSE Answer(i, IF \E m \in {"GET", "POST"} : <<m, r.path>> \in Routes THEN 405 ELSE 404,
                FALSE)

\* The requests that reach the subscriptions.
Stateful(r) ==
    /\ <<r.method, r.path>> = <<"POST", Events>>
    /\ r.op \in {"CreatePullPointSubscription", "PullMessages", "Unsubscribe"}

-----------------------------------------------------------------------------
(* The subscriptions                                                       *)

Idle == [pc |-> "idle"]

\* A new subscription; `given` is the last event it has handed out, or the
\* last one pushed before it was created.
NewSubscription == [expired |-> FALSE, pending |-> <<>>, given |-> pushed]

Without(f, ids) == [i \in DOMAIN f \ ids |-> f[i]]

RemoveExpired(f) == Without(f, {i \in DOMAIN f : f[i].expired})

\* Mutant of PushTo: an event goes to the subscriptions that wait for one.
PushToEmpty(f, e) ==
    [i \in DOMAIN f |-> IF f[i].pending # <<>> THEN f[i]
                        ELSE [f[i] EXCEPT !.pending = Append(@, e)]]

\* Every subscription gets the event.
PushTo(f, e) == [i \in DOMAIN f |-> [f[i] EXCEPT !.pending = Append(@, e)]]

\* At most n messages leave the front of the queue.
Pop(x, n) ==
    LET k == Min({n, Len(x.pending)})
    IN [x EXCEPT !.pending = SubSeq(@, k + 1, Len(@)),
                 !.given = IF k = 0 THEN @ ELSE x.pending[k]]

-----------------------------------------------------------------------------
(* Clients and connections                                                 *)

Init ==
    /\ conn = [c \in Clients |-> [sock |-> "new", parser |-> NewParser, answer |-> <<>>]]
    /\ net = [c \in Clients |-> <<>>]
    /\ phase = [c \in Clients |-> "none"]
    /\ sent = [c \in Clients |-> 0]
    /\ last = [c \in Clients |-> <<>>]
    /\ got = [c \in Clients |-> 0]
    /\ polite = [c \in Clients |-> TRUE]
    /\ io = Idle
    /\ subs = <<>>
    /\ created = 0
    /\ pushed = 0
    /\ fate = "ok"

\* A client sends a request, whether or not its last one was answered.
Send(c, r) ==
    /\ conn[c].sock # "gone" /\ sent[c] < MaxReq[c]
    /\ sent' = [sent EXCEPT ![c] = @ + 1]
    /\ last' = [last EXCEPT ![c] = <<r>>]
    /\ net' = [net EXCEPT ![c] = @ \o Tokens(sent'[c], r)]
    /\ polite' = [polite EXCEPT ![c] = @ /\ r.line /\ got[c] = sent[c]]
    /\ UNCHANGED <<conn, phase, got, io, subs, created, pushed, fate>>

Leave(c) ==
    /\ conn[c].sock # "gone"
    /\ conn' = [conn EXCEPT ![c].sock = "gone"]
    /\ UNCHANGED <<net, phase, sent, last, got, polite, io, subs, created, pushed, fate>>

\* The acceptor takes a connection and starts its session; remote_endpoint()
\* throws in start() when the peer has reset it meanwhile.
Accept(c) ==
    /\ io = Idle /\ phase[c] = "none"
    /\ \/ /\ phase' = [phase EXCEPT ![c] = "reading"]
          /\ conn' = [conn EXCEPT ![c].sock = IF @ = "new" THEN "open" ELSE @]
          /\ UNCHANGED fate
       \/ conn[c].sock = "gone" /\ fate' = "terminated" /\ UNCHANGED <<conn, phase>>
    /\ UNCHANGED <<net, sent, last, got, polite, io, subs, created, pushed>>

\* do_write: the answer is on its way; q is the parser that the read has left.
Writes(c, q, a) ==
    /\ conn' = [conn EXCEPT ![c].parser = q, ![c].answer = <<a>>]
    /\ phase' = [phase EXCEPT ![c] = "writing"]

\* The handlers of the events service, on request i of client c.
Create(c, i, q) ==
    /\ created < MaxSubs
    /\ created' = created + 1
    /\ subs' = [j \in DOMAIN RemoveExpired(subs) \cup {created'} |->
                    IF j = created' THEN NewSubscription ELSE subs[j]]
    /\ Writes(c, q, Answer(i, 200, FALSE))
    /\ UNCHANGED <<io, fate>>

Unsubscribe(c, i, q, id) ==
    /\ subs' = Without(subs, {id})
    /\ Writes(c, q, Answer(i, 200, FALSE))
    /\ UNCHANGED <<io, created, fate>>

\* PullMessages names its subscription, or takes the first in the map.
Pull(c, i, q, r) ==
    /\ \/ /\ \E id \in (IF r.sub # 0 THEN {r.sub} ELSE DOMAIN subs) :
                io' = [pc |-> "lookup", c |-> c, req |-> i, sub |-> id, limit |-> r.limit]
          /\ conn' = [conn EXCEPT ![c].parser = q]
          /\ phase' = [phase EXCEPT ![c] = "handling"]
       \/ /\ r.sub = 0 /\ subs = <<>>
          /\ Writes(c, q, Answer(i, 200, TRUE))
          /\ UNCHANGED io
    /\ UNCHANGED <<subs, created, fate>>

Dispatch(c, q) ==
    LET i == q.at.id
        r == q.at.req
    IN CASE ~Stateful(r) ->
              /\ Writes(c, q, Stateless(i, r))
              /\ UNCHANGED <<io, subs, created, fate>>
         [] Stateful(r) /\ r.op = "CreatePullPointSubscription" -> Create(c, i, q)
         [] Stateful(r) /\ r.op = "PullMessages" -> Pull(c, i, q, r)
         [] Stateful(r) /\ r.op = "Unsubscribe" -> Unsubscribe(c, i, q, r.sub)

\* The read handler of Session::do_read, with n tokens.
Read(c, n) ==
    LET q == Feed(conn[c].parser, SubSeq(net[c], 1, n))
    IN /\ io = Idle /\ phase[c] = "reading" /\ n <= Len(net[c])
       /\ net' = [net EXCEPT ![c] = SubSeq(@, n + 1, Len(@))]
       /\ CASE q.state = "ERROR" ->
                 /\ Writes(c, q, Answer(0, 400, FALSE))
                 /\ UNCHANGED <<io, subs, created, fate>>
            [] q.state = "THROWN" ->
                 /\ fate' = "terminated" /\ UNCHANGED <<conn, phase, io, subs, created>>
            [] q.state = "DONE" -> Dispatch(c, q)
            [] OTHER ->
                 /\ conn' = [conn EXCEPT ![c].parser = q]
                 /\ UNCHANGED <<phase, io, subs, created, fate>>
       /\ UNCHANGED <<sent, last, got, polite, pushed>>

\* A read or a write fails and the session is not kept alive any longer.
SessionEnds(c) ==
    /\ io = Idle /\ conn[c].sock = "gone" /\ phase[c] \in {"reading", "writing"}
    /\ phase' = [phase EXCEPT ![c] = "ended"]
    /\ net' = [net EXCEPT ![c] = <<>>]
    /\ conn' = [conn EXCEPT ![c].parser = NewParser, ![c].answer = <<>>]
    /\ UNCHANGED <<sent, last, got, polite, io, subs, created, pushed, fate>>

\* Mutant of Reset: the parser is not reset.
ResetNothing(q) == q

\* Parser::reset drops what the buffer still holds.
Reset(q) == NewParser

\* The answer is out, and the session reads on with a parser that is reset.
WriteDone(c) ==
    /\ io = Idle /\ phase[c] = "writing" /\ conn[c].sock = "open"
    /\ got' = [got EXCEPT ![c] = @ + 1]
    /\ last' = [last EXCEPT ![c] = <<>>]
    /\ phase' = [phase EXCEPT ![c] = "reading"]
    /\ conn' = [conn EXCEPT ![c].parser = Reset(@), ![c].answer = <<>>]
    /\ UNCHANGED <<net, sent, polite, io, subs, created, pushed, fate>>

-----------------------------------------------------------------------------
(* PullMessages, on the server's thread: the map is locked to find the     *)
(* subscription and no longer afterwards.                                  *)

\* The handler returns.
Replies(fault) ==
    /\ io' = Idle
    /\ Writes(io.c, conn[io.c].parser, Answer(io.req, 200, fault))

FindSubscription ==
    /\ io.pc = "lookup"
    /\ IF io.sub \in DOMAIN subs
       THEN io' = [io EXCEPT !.pc = "found"] /\ UNCHANGED <<conn, phase>>
       ELSE Replies(TRUE)
    /\ UNCHANGED <<net, sent, last, got, polite, subs, created, pushed, fate>>

\* Mutant of WaitEnds: the wait has no deadline.
WaitEndsNotified ==
    io.pc = "found" /\ io.sub \in DOMAIN subs /\ subs[io.sub].pending # <<>>

\* wait_until returns: at once if events are pending, after a notification, or
\* at its deadline.
WaitEnds == io.pc = "found"

\* The events are taken; the subscription, its mutex and its condition variable
\* may have been destroyed during the wait.
PullWakes ==
    /\ WaitEnds
    /\ IF io.sub \in DOMAIN subs
       THEN /\ subs' = [subs EXCEPT ![io.sub] = Pop(@, io.limit)]
            /\ io' = [io EXCEPT !.pc = "popped"]
            /\ UNCHANGED fate
       ELSE fate' = "undefined" /\ UNCHANGED <<subs, io>>
    /\ UNCHANGED <<conn, net, phase, sent, last, got, polite, created, pushed>>

\* The answer states the subscription's termination time, read from it again.
PullReplies ==
    /\ io.pc = "popped"
    /\ IF io.sub \in DOMAIN subs
       THEN Replies(FALSE) /\ UNCHANGED fate
       ELSE fate' = "undefined" /\ UNCHANGED <<conn, phase, io>>
    /\ UNCHANGED <<net, sent, last, got, polite, subs, created, pushed>>

-----------------------------------------------------------------------------
(* The application's thread and the clock                                  *)

PushEvent ==
    /\ pushed < MaxEvents
    /\ pushed' = pushed + 1
    /\ subs' = PushTo(RemoveExpired(subs), pushed')
    /\ UNCHANGED <<conn, net, phase, sent, last, got, polite, io, created, fate>>

\* The termination time of a subscription passes.
Expires(id) ==
    /\ id \in DOMAIN subs /\ ~subs[id].expired
    /\ subs' = [subs EXCEPT ![id].expired = TRUE]
    /\ UNCHANGED <<conn, net, phase, sent, last, got, polite, io, created, pushed, fate>>

-----------------------------------------------------------------------------

ServerStep ==
    \/ \E c \in Clients :
          \/ Accept(c) \/ SessionEnds(c) \/ WriteDone(c)
          \/ \E n \in 1 .. Len(net[c]) : Read(c, n)
    \/ FindSubscription \/ PullWakes \/ PullReplies

Step ==
    \/ \E c \in Clients : Leave(c) \/ \E r \in Asked[c] : Send(c, r)
    \/ ServerStep
    \/ PushEvent
    \/ \E id \in 1 .. MaxSubs : Expires(id)

Next == fate = "ok" /\ Step

Spec == Init /\ [][Next]_vars

\* The thread in run() runs what is ready, each session in its turn, and a
\* handler's waits end.
Fairness ==
    /\ WF_io(fate = "ok" /\ io.pc \in {"lookup", "popped"} /\ io' \in {Idle, [io EXCEPT !.pc = "found"]})
    /\ WF_io(fate = "ok" /\ WaitEnds /\ io' = [io EXCEPT !.pc = "popped"])
    /\ \A c \in Clients :
        /\ SF_phase(fate = "ok" /\ io = Idle /\ phase[c] \in {"none", "writing"}
                        /\ phase' = [phase EXCEPT ![c] = "reading"])
        /\ SF_net(fate = "ok" /\ io = Idle /\ phase[c] = "reading"
                    /\ \E n \in 1 .. Len(net[c]) :
                          net' = [net EXCEPT ![c] = SubSeq(@, n + 1, Len(@))])

FairSpec == Spec /\ Fairness

-----------------------------------------------------------------------------
(* Properties                                                              *)

\* A client that waits for each answer, and sends nothing malformed, gets
\* exactly one answer to each request, in order and the right one, however its bytes are cut into reads
\* (Parser::feed, Session::do_read, do_write, Router::dispatch).
Answers ==
    [][\A c \in Clients : got'[c] # got[c] /\ polite[c] =>
          LET a == conn[c].answer[1]
          IN /\ last[c] # <<>> /\ got'[c] = sent[c]
             /\ IF Stateful(last[c][1]) THEN a.req = sent[c] /\ a.status = 200
                ELSE a = Stateless(sent[c], last[c][1])]_vars

\* A subscription holds exactly the events pushed after the last one it handed
\* out: none is lost, repeated or overtaken on its way to a pull, whatever
\* message limits, other subscriptions and expiries come between.
PendingExact ==
    \A id \in DOMAIN subs :
        subs[id].pending = [k \in 1 .. pushed - subs[id].given |-> subs[id].given + k]

\* A client that waits is answered, or leaves: a PullMessages that blocks the
\* only thread delays the others and no more.
Served ==
    \A c \in Clients :
        got[c] < sent[c] ~> got[c] >= sent[c] \/ ~polite[c] \/ conn[c].sock = "gone" \/ fate # "ok"
=============================================================================
