----------------------------- MODULE Onvif_proofs -----------------------------
(***************************************************************************)
(* What holds of the events service for every number of clients, requests, *)
(* subscriptions and events: a subscription's queue is exact.  The queue   *)
(* itself is inductive with its types; that a pull's message limit is a    *)
(* number rests on every request being one of the clients', from the wire  *)
(* through the parser's buffer to the handler.                             *)
(*                                                                         *)
(* And what holds of the HTTP sessions: a client that waits for each       *)
(* answer gets the right one.  The invariant, DialogueInv, follows its     *)
(* request from the wire into the parser, halfway through it, into a       *)
(* handler that waits and out again as an answer.                          *)
(*                                                                         *)
(* And, of OnvifDevice, what the device's answers let a client rely on,    *)
(* for every port, time zone, time of day and way of writing envelopes:    *)
(* both invariants are inductive once the requests are known to be of the  *)
(* services' form.                                                         *)
(***************************************************************************)
EXTENDS OnvifServer, OnvifDevice, TLAPS

-----------------------------------------------------------------------------
(* Queues of events                                                        *)

\* The events g + 1 .. p, in a queue.
Run(g, p) == [k \in 1 .. p - g |-> g + k]

\* A queue that follows the event g and ends with the event p.
Exact(x, p) ==
    /\ x.given \in 0 .. p
    /\ x.pending = Run(x.given, p)

\* A run is a sequence of that many events.
LEMMA RunSeq ==
  ASSUME NEW p \in Nat, NEW g \in 0 .. p
  PROVE  Run(g, p) \in Seq(Nat) /\ Len(Run(g, p)) = p - g
  BY DEF Run

\* One more event prolongs a run.
LEMMA RunAppends ==
  ASSUME NEW p \in Nat, NEW g \in 0 .. p
  PROVE  Append(Run(g, p), p + 1) = Run(g, p + 1)
  BY RunSeq DEF Run

\* Without its first k events a run is the run after the k-th.
LEMMA RunDrops ==
  ASSUME NEW p \in Nat, NEW g \in 0 .. p, NEW k \in 0 .. p - g
  PROVE  SubSeq(Run(g, p), k + 1, Len(Run(g, p))) = Run(g + k, p)
  BY RunSeq DEF Run

\* The least of two numbers.
LEMMA MinOfTwo ==
  ASSUME NEW a \in Nat, NEW b \in Nat
  PROVE  Min({a, b}) = IF a <= b THEN a ELSE b
  BY DEF Min

\* What PullMessages leaves is exact if what it found was.
LEMMA PopExact ==
  ASSUME NEW p \in Nat, NEW x, NEW n \in Nat, Exact(x, p), DOMAIN x = {"expired", "pending", "given"},
         x = [expired |-> x.expired, pending |-> x.pending, given |-> x.given]
  PROVE  Exact(Pop(x, n), p)
<1> DEFINE k == Min({n, Len(x.pending)})
<1>1. Len(x.pending) = p - x.given /\ x.given \in 0 .. p
  BY RunSeq DEF Exact
<1>2. k \in 0 .. p - x.given
  <2>1. p - x.given \in Nat
    BY <1>1
  <2>2. k = IF n <= p - x.given THEN n ELSE p - x.given
    BY <1>1, <2>1, MinOfTwo
  <2> QED BY <2>1, <2>2
<1>3. Pop(x, n).pending = SubSeq(x.pending, k + 1, Len(x.pending))
  BY DEF Pop
<1>4. Pop(x, n).given = IF k = 0 THEN x.given ELSE x.pending[k]
  BY DEF Pop
<1> HIDE DEF k
<1>5. Pop(x, n).given = x.given + k
  <2>1. k # 0 => x.pending[k] = x.given + k
    BY <1>1, <1>2 DEF Exact, Run
  <2> QED BY <1>1, <1>2, <1>4, <2>1
<1>6. Pop(x, n).pending = Run(x.given + k, p)
  <2>1. x.pending = Run(x.given, p)
    BY DEF Exact
  <2> QED BY <1>1, <1>2, <1>3, <2>1, RunDrops
<1> QED BY <1>1, <1>2, <1>5, <1>6 DEF Exact

-----------------------------------------------------------------------------
(* Requests, from the wire to a handler                                    *)

AnyRequest == UNION {Asked[c] : c \in Clients}

Toks == [kind : {"line", "head", "body"}, id : Nat, req : AnyRequest]

\* A parser that has seen a request line has a request; one that waits for the
\* body still has the headers.
Parsers ==
    {p \in [state : {"METHOD", "HEADER_KEY", "BODY", "DONE", "ERROR", "THROWN"},
            buf : Seq(Toks), at : Toks \cup {<<>>}] :
        /\ p.state \notin {"METHOD", "ERROR"} => p.at \in Toks
        /\ p.state = "BODY" => p.buf # <<>>}

\* A request's fields that the handlers compute with.
LEMMA RequestTypes == \A r \in AnyRequest : r.limit \in Nat /\ r.sub \in Nat
<1> SUFFICES ASSUME NEW c \in Clients, NEW r \in Asked[c]
             PROVE  r.limit \in Nat /\ r.sub \in Nat
  BY DEF AnyRequest
<1>1. r.sub \in 0 .. MaxSubs /\ r.limit \in Nat
  BY RequestAssumption DEF RequestAssumption
<1> QED BY <1>1, BoundAssumption

\* The request line is taken off the buffer.
LEMMA FeedLineTypes ==
  ASSUME NEW p \in Parsers, p.state = "METHOD"
  PROVE  FeedLine(p) \in Parsers
<1>1. CASE p.buf = <<>> \/ (Len(p.buf) = 1 /\ p.buf[1].kind = "body")
  BY <1>1 DEF FeedLine
<1>2. CASE ~(p.buf = <<>> \/ (Len(p.buf) = 1 /\ p.buf[1].kind = "body"))
  <2>1. p.buf[1] \in Toks /\ Tail(p.buf) \in Seq(Toks)
    BY <1>2 DEF Parsers
  <2>2. FeedLine(p) \in {[state |-> "HEADER_KEY", buf |-> Tail(p.buf), at |-> p.buf[1]],
                        [p EXCEPT !.state = "ERROR"]}
    BY <1>2 DEF FeedLine
  <2> QED BY <2>1, <2>2 DEF Parsers
<1> QED BY <1>1, <1>2

\* Headers are needed until the body has been measured.
LEMMA FeedHeadersTypes ==
  ASSUME NEW p \in Parsers
  PROVE  FeedHeaders(p) \in Parsers
  BY DEF FeedHeaders, Parsers

\* The body ends a request.
LEMMA FeedBodyTypes ==
  ASSUME NEW p \in Parsers
  PROVE  FeedBody(p) \in Parsers
<1>1. CASE p.state # "BODY"
  BY <1>1 DEF FeedBody
<1>2. CASE p.state = "BODY"
  <2>1. p.buf \in Seq(Toks) /\ p.buf # <<>> /\ p.at \in Toks
    BY <1>2 DEF Parsers
  <2>2. Tail(p.buf) \in Seq(Toks)
    BY <2>1
  <2>3. Len(p.buf) >= 2 => SubSeq(p.buf, 3, Len(p.buf)) \in Seq(Toks)
    BY <2>1
  <2>4. \/ FeedBody(p) = p
        \/ FeedBody(p) = [p EXCEPT !.state = "DONE", !.buf = Tail(@)]
        \/ FeedBody(p) = [p EXCEPT !.state = "THROWN"]
        \/ Len(p.buf) >= 2 /\ FeedBody(p) = [p EXCEPT !.state = "DONE", !.buf = SubSeq(@, 3, Len(@))]
    BY <1>2, <2>1 DEF FeedBody
  <2> QED BY <2>1, <2>2, <2>3, <2>4 DEF Parsers
<1> QED BY <1>1, <1>2

\* A read leaves a parser.
LEMMA FeedTypes ==
  ASSUME NEW p \in Parsers, NEW data \in Seq(Toks)
  PROVE  Feed(p, data) \in Parsers
<1> DEFINE q == [p EXCEPT !.buf = @ \o data]
<1>1. CASE p.state \in {"DONE", "ERROR"}
  BY <1>1 DEF Feed
<1>2. CASE p.state \notin {"DONE", "ERROR"}
  <2>1. p.buf \o data \in Seq(Toks) /\ (p.buf # <<>> => p.buf \o data # <<>>)
    BY DEF Parsers
  <2>2. q \in Parsers
    BY <2>1 DEF Parsers
  <2> HIDE DEF q
  <2>3. (IF q.state = "METHOD" THEN FeedLine(q) ELSE q) \in Parsers
    BY <2>2, FeedLineTypes
  <2>4. Feed(p, data) = FeedBody(FeedHeaders(IF q.state = "METHOD" THEN FeedLine(q) ELSE q))
    BY <1>2 DEF Feed, q
  <2> QED BY <2>3, <2>4, FeedHeadersTypes, FeedBodyTypes
<1> QED BY <1>1, <1>2

-----------------------------------------------------------------------------
(* The invariant                                                           *)

Subs == [expired : BOOLEAN, pending : Seq(Nat), given : Nat]

Conns == [sock : {"new", "open", "gone"}, parser : Parsers,
          answer : Seq([req : Nat, status : Nat, fault : BOOLEAN])]

Pulls == [pc : {"lookup", "found", "popped"}, c : Clients, req : Nat, sub : Nat, limit : Nat]

Typing ==
    /\ conn \in [Clients -> Conns]
    /\ net \in [Clients -> Seq(Toks)]
    /\ sent \in [Clients -> Nat]
    /\ io \in {Idle} \cup Pulls

SubsInv ==
    /\ created \in Nat /\ pushed \in Nat
    /\ DOMAIN subs \subseteq Nat
    /\ subs \in [DOMAIN subs -> Subs]
    /\ \A id \in DOMAIN subs : Exact(subs[id], pushed)

ServerInv == Typing /\ SubsInv

\* A parser that has a request.
LEMMA ReadRequest ==
  ASSUME Typing, NEW c \in Clients, NEW n \in 1 .. Len(net[c])
  PROVE  LET q == Feed(conn[c].parser, SubSeq(net[c], 1, n))
         IN /\ q \in Parsers
            /\ q.state = "DONE" => q.at.id \in Nat /\ q.at.req \in AnyRequest
<1>1. SubSeq(net[c], 1, n) \in Seq(Toks)
  BY DEF Typing
<1>2. conn[c].parser \in Parsers
  BY DEF Typing, Conns
<1>3. Feed(conn[c].parser, SubSeq(net[c], 1, n)) \in Parsers
  BY <1>1, <1>2, FeedTypes
<1> QED BY <1>3 DEF Parsers, Toks

\* Writes keeps the types of the connections.
LEMMA WritesTypes ==
  ASSUME Typing, NEW c \in Clients, NEW q \in Parsers,
         NEW a \in [req : Nat, status : Nat, fault : BOOLEAN], Writes(c, q, a)
  PROVE  conn' \in [Clients -> Conns]
<1>1. <<a>> \in Seq([req : Nat, status : Nat, fault : BOOLEAN])
  OBVIOUS
<1>2. [conn[c] EXCEPT !.parser = q, !.answer = <<a>>] \in Conns
  BY <1>1 DEF Typing, Conns
<1>3. conn' = [conn EXCEPT ![c] = [conn[c] EXCEPT !.parser = q, !.answer = <<a>>]]
  BY DEF Writes, Typing
<1> QED BY <1>2, <1>3 DEF Typing

\* The answer to a request that reaches no subscription.
LEMMA StatelessType ==
  ASSUME NEW i \in Nat, NEW r
  PROVE  Stateless(i, r) \in [req : Nat, status : Nat, fault : BOOLEAN]
  BY DEF Stateless, Answer

\* The read handler, up to what Dispatch does to the subscriptions.
LEMMA DispatchStep ==
  ASSUME ServerInv, NEW c \in Clients, NEW q \in Parsers,
         q.at.id \in Nat, q.at.req \in AnyRequest, Dispatch(c, q), UNCHANGED <<sent, pushed>>
  PROVE  conn' \in [Clients -> Conns] /\ io' \in {Idle} \cup Pulls /\ SubsInv'
<1> DEFINE i == q.at.id
           r == q.at.req
<1> USE DEF ServerInv
<1>1. CASE ~Stateful(r)
  <2>1. Writes(c, q, Stateless(i, r)) /\ UNCHANGED <<io, subs, created>>
    BY <1>1 DEF Dispatch
  <2>2. conn' \in [Clients -> Conns]
    BY <2>1, StatelessType, WritesTypes
  <2> QED BY <2>1, <2>2 DEF SubsInv, Typing
<1>2. CASE Create(c, i, q)
  <2>1. conn' \in [Clients -> Conns]
    <3>1. Writes(c, q, Answer(i, 200, FALSE)) BY <1>2 DEF Create
    <3>2. Answer(i, 200, FALSE) \in [req : Nat, status : Nat, fault : BOOLEAN] BY DEF Answer
    <3> QED BY <3>1, <3>2, WritesTypes
  <2>2. io' = io /\ created' = created + 1
    BY <1>2 DEF Create
  <2>3. subs' = [j \in DOMAIN RemoveExpired(subs) \cup {created'} |->
                    IF j = created' THEN NewSubscription ELSE subs[j]]
    BY <1>2 DEF Create
  <2>4. DOMAIN RemoveExpired(subs) \subseteq DOMAIN subs
    BY DEF RemoveExpired, Without
  <2>5. NewSubscription \in Subs /\ Exact(NewSubscription, pushed)
    BY DEF NewSubscription, Subs, Exact, Run, SubsInv
  <2>6. \A j \in DOMAIN subs' : subs'[j] \in Subs /\ Exact(subs'[j], pushed)
    BY <2>3, <2>4, <2>5 DEF SubsInv
  <2>7. subs' \in [DOMAIN subs' -> Subs] /\ DOMAIN subs' \subseteq Nat
    BY <2>2, <2>3, <2>4, <2>6 DEF SubsInv
  <2> QED BY <2>1, <2>2, <2>6, <2>7 DEF SubsInv, Typing
<1>3. CASE Pull(c, i, q, r)
  <2>1. conn' \in [Clients -> Conns]
    <3>1. CASE Writes(c, q, Answer(i, 200, TRUE))
      <4>1. Answer(i, 200, TRUE) \in [req : Nat, status : Nat, fault : BOOLEAN] BY DEF Answer
      <4> QED BY <3>1, <4>1, WritesTypes
    <3>2. CASE conn' = [conn EXCEPT ![c].parser = q]
      BY <3>2 DEF Typing, Conns
    <3> QED BY <1>3, <3>1, <3>2 DEF Pull
  <2>2. io' \in {Idle} \cup Pulls
    <3>1. r.limit \in Nat /\ r.sub \in Nat BY RequestTypes
    <3>2. CASE io' = io
      BY <3>2 DEF Typing
    <3>3. ASSUME NEW id \in (IF r.sub # 0 THEN {r.sub} ELSE DOMAIN subs),
                 io' = [pc |-> "lookup", c |-> c, req |-> i, sub |-> id, limit |-> r.limit]
          PROVE  io' \in Pulls
      <4>1. id \in Nat BY <3>1 DEF SubsInv
      <4> QED BY <3>1, <3>3, <4>1 DEF Pulls
    <3> QED BY <1>3, <3>2, <3>3 DEF Pull
  <2> QED BY <1>3, <2>1, <2>2 DEF Pull, SubsInv
<1>4. CASE Unsubscribe(c, i, q, r.sub)
  <2>1. conn' \in [Clients -> Conns]
    <3>1. Writes(c, q, Answer(i, 200, FALSE)) BY <1>4 DEF Unsubscribe
    <3>2. Answer(i, 200, FALSE) \in [req : Nat, status : Nat, fault : BOOLEAN] BY DEF Answer
    <3> QED BY <3>1, <3>2, WritesTypes
  <2> QED BY <1>4, <2>1 DEF Unsubscribe, Without, SubsInv, Typing
<1> QED BY <1>1, <1>2, <1>3, <1>4 DEF Dispatch, Stateful

\* The end of a handler writes its answer.
LEMMA RepliesTypes ==
  ASSUME Typing, io \in Pulls, NEW fault \in BOOLEAN, Replies(fault)
  PROVE  conn' \in [Clients -> Conns] /\ io' = Idle
<1>1. conn[io.c].parser \in Parsers
  BY DEF Typing, Conns, Pulls
<1>2. Answer(io.req, 200, fault) \in [req : Nat, status : Nat, fault : BOOLEAN]
  BY DEF Answer, Pulls
<1>3. io.c \in Clients
  BY DEF Pulls
<1> QED BY <1>1, <1>2, <1>3, WritesTypes DEF Replies

\* A session that starts over has a parser of no request.
LEMMA NewParserType == NewParser \in Parsers
  BY DEF NewParser, Parsers

\* It has no answer to write either.
LEMMA StartsOver ==
  ASSUME Typing, NEW c \in Clients,
         conn' = [conn EXCEPT ![c].parser = NewParser, ![c].answer = <<>>]
  PROVE  conn' \in [Clients -> Conns]
<1>1. [conn[c] EXCEPT !.parser = NewParser, !.answer = <<>>] \in Conns
  <2>1. conn[c] \in Conns
    BY DEF Typing
  <2>2. <<>> \in Seq([req : Nat, status : Nat, fault : BOOLEAN])
    OBVIOUS
  <2> QED BY <2>1, <2>2, NewParserType DEF Conns
<1>2. conn' = [conn EXCEPT ![c] = [conn[c] EXCEPT !.parser = NewParser, !.answer = <<>>]]
  BY DEF Typing
<1> QED BY <1>1, <1>2 DEF Typing

\* A pull changes a subscription's queue and no more.
LEMMA PopFields ==
  ASSUME NEW x \in Subs, NEW n
  PROVE  \E pending, given : Pop(x, n) = [expired |-> x.expired, pending |-> pending, given |-> given]
<1> DEFINE k == Min({n, Len(x.pending)})
           p == SubSeq(x.pending, k + 1, Len(x.pending))
           g == IF k = 0 THEN x.given ELSE x.pending[k]
<1>1. Pop(x, n) = [x EXCEPT !.pending = p, !.given = g]
  BY DEF Pop
<1> HIDE DEF p, g
<1>2. Pop(x, n) = [expired |-> x.expired, pending |-> p, given |-> g]
  BY <1>1 DEF Subs
<1> QED BY <1>2

\* Steps that keep the subscriptions, or touch one of them.
LEMMA ServerStepKeeps ==
  ASSUME ServerInv, Step
  PROVE  ServerInv'
<1> USE DEF ServerInv
<1>1. ASSUME NEW c \in Clients, Leave(c) PROVE ServerInv'
  BY <1>1 DEF Leave, Typing, SubsInv, Conns
<1>2. ASSUME NEW c \in Clients, NEW r \in Asked[c], Send(c, r) PROVE ServerInv'
  <2>1. sent[c] + 1 \in Nat /\ sent' = [sent EXCEPT ![c] = @ + 1]
    BY <1>2 DEF Send, Typing
  <2>2. Tokens(sent'[c], r) \in Seq(Toks)
    <3>1. r \in AnyRequest /\ sent'[c] \in Nat
      BY <2>1 DEF AnyRequest, Typing
    <3>2. \A k \in {"line", "head", "body"} : Token(k, sent'[c], r) \in Toks
      BY <3>1 DEF Token, Toks
    <3>3. <<Token("line", sent'[c], r), Token("head", sent'[c], r)>> \in Seq(Toks)
      BY <3>2
    <3>4. (IF r.len = "body" THEN <<Token("body", sent'[c], r)>> ELSE <<>>) \in Seq(Toks)
      BY <3>2
    <3> QED BY <3>3, <3>4 DEF Tokens
  <2>3. net' \in [Clients -> Seq(Toks)]
    BY <1>2, <2>2 DEF Send, Typing
  <2> QED BY <1>2, <2>1, <2>3 DEF Send, Typing, SubsInv
<1>3. ASSUME NEW c \in Clients, Accept(c) PROVE ServerInv'
  <2>1. CASE conn' = [conn EXCEPT ![c].sock = IF @ = "new" THEN "open" ELSE @]
    <3>1. (IF conn[c].sock = "new" THEN "open" ELSE conn[c].sock) \in {"new", "open", "gone"}
      BY DEF Typing, Conns
    <3>2. conn' \in [Clients -> Conns]
      BY <2>1, <3>1 DEF Typing, Conns
    <3> QED BY <1>3, <3>2 DEF Accept, Typing, SubsInv
  <2>2. CASE conn' = conn
    BY <1>3, <2>2 DEF Accept, Typing, SubsInv
  <2> QED BY <1>3, <2>1, <2>2 DEF Accept
<1>4. ASSUME NEW c \in Clients, SessionEnds(c) PROVE ServerInv'
  <2>1. conn' \in [Clients -> Conns]
    BY <1>4, StartsOver DEF SessionEnds
  <2>2. net' \in [Clients -> Seq(Toks)]
    BY <1>4 DEF SessionEnds, Typing
  <2> QED BY <1>4, <2>1, <2>2 DEF SessionEnds, Typing, SubsInv
<1>5. ASSUME NEW c \in Clients, WriteDone(c) PROVE ServerInv'
  <2>1. conn' \in [Clients -> Conns]
    BY <1>5, StartsOver DEF WriteDone, Reset
  <2> QED BY <1>5, <2>1 DEF WriteDone, Typing, SubsInv
<1>6. ASSUME NEW c \in Clients, NEW n \in 1 .. Len(net[c]), Read(c, n) PROVE ServerInv'
  <2> DEFINE q == Feed(conn[c].parser, SubSeq(net[c], 1, n))
  <2>1. q \in Parsers /\ (q.state = "DONE" => q.at.id \in Nat /\ q.at.req \in AnyRequest)
    BY ReadRequest
  <2>2. net' \in [Clients -> Seq(Toks)] /\ sent' = sent /\ pushed' = pushed
    BY <1>6 DEF Read, Typing
  <2>3. \/ Writes(c, q, Answer(0, 400, FALSE)) /\ UNCHANGED <<io, subs, created>>
        \/ UNCHANGED <<conn, io, subs, created>>
        \/ q.state = "DONE" /\ Dispatch(c, q)
        \/ conn' = [conn EXCEPT ![c].parser = q] /\ UNCHANGED <<io, subs, created>>
    BY <1>6 DEF Read
  <2> HIDE DEF q
  <2>4. CASE Writes(c, q, Answer(0, 400, FALSE)) /\ UNCHANGED <<io, subs, created>>
    <3>1. Answer(0, 400, FALSE) \in [req : Nat, status : Nat, fault : BOOLEAN]
      BY DEF Answer
    <3>2. conn' \in [Clients -> Conns]
      BY <2>1, <2>4, <3>1, WritesTypes
    <3> QED BY <2>2, <2>4, <3>2 DEF Typing, SubsInv
  <2>5. CASE UNCHANGED <<conn, io, subs, created>>
    BY <2>2, <2>5 DEF Typing, SubsInv
  <2>6. CASE q.state = "DONE" /\ Dispatch(c, q)
    <3>1. conn' \in [Clients -> Conns] /\ io' \in {Idle} \cup Pulls /\ SubsInv'
      BY <2>1, <2>2, <2>6, DispatchStep
    <3> QED BY <2>2, <3>1 DEF Typing
  <2>7. CASE conn' = [conn EXCEPT ![c].parser = q] /\ UNCHANGED <<io, subs, created>>
    <3>1. conn' \in [Clients -> Conns]
      BY <2>1, <2>7 DEF Typing, Conns
    <3> QED BY <2>2, <2>7, <3>1 DEF Typing, SubsInv
  <2> QED BY <2>3, <2>4, <2>5, <2>6, <2>7
<1>7. CASE FindSubscription
  <2>1. io \in Pulls
    BY <1>7 DEF FindSubscription, Typing, Idle
  <2>2. CASE io' = [io EXCEPT !.pc = "found"] /\ UNCHANGED <<conn, phase>>
    BY <1>7, <2>1, <2>2 DEF FindSubscription, Typing, SubsInv, Pulls
  <2>3. CASE Replies(TRUE)
    <3>1. conn' \in [Clients -> Conns] /\ io' = Idle
      BY <2>1, <2>3, RepliesTypes
    <3> QED BY <1>7, <3>1 DEF FindSubscription, Typing, SubsInv
  <2> QED BY <1>7, <2>2, <2>3 DEF FindSubscription
<1>8. CASE PullWakes
  <2>1. io \in Pulls
    BY <1>8 DEF PullWakes, WaitEnds, Typing, Idle
  <2>2. CASE UNCHANGED <<subs, io>>
    BY <1>8, <2>2 DEF PullWakes, Typing, SubsInv
  <2>3. CASE /\ io.sub \in DOMAIN subs
             /\ subs' = [subs EXCEPT ![io.sub] = Pop(@, io.limit)]
             /\ io' = [io EXCEPT !.pc = "popped"]
    <3> DEFINE x == subs[io.sub]
    <3>1. x \in Subs /\ Exact(x, pushed) /\ io.limit \in Nat /\ pushed \in Nat
      BY <2>1, <2>3 DEF SubsInv, Pulls
    <3>2. Exact(Pop(x, io.limit), pushed)
      BY <3>1, PopExact DEF Subs
    <3>3. Pop(x, io.limit) \in Subs
      <4>1. PICK pending, given :
                Pop(x, io.limit) = [expired |-> x.expired, pending |-> pending, given |-> given]
        BY <3>1, PopFields
      <4>2. given \in Nat /\ pending \in Seq(Nat)
        BY <3>1, <3>2, <4>1, RunSeq DEF Exact
      <4> QED BY <3>1, <4>1, <4>2 DEF Subs
    <3>4. SubsInv'
      BY <1>8, <2>3, <3>2, <3>3 DEF PullWakes, SubsInv
    <3>5. io' \in Pulls
      BY <2>1, <2>3 DEF Pulls
    <3> QED BY <1>8, <3>4, <3>5 DEF PullWakes, Typing
  <2> QED BY <1>8, <2>2, <2>3 DEF PullWakes
<1>9. CASE PullReplies
  <2>1. io \in Pulls
    BY <1>9 DEF PullReplies, Typing, Idle
  <2>2. CASE UNCHANGED <<conn, phase, io>>
    BY <1>9, <2>2 DEF PullReplies, Typing, SubsInv
  <2>3. CASE Replies(FALSE)
    <3>1. conn' \in [Clients -> Conns] /\ io' = Idle
      BY <2>1, <2>3, RepliesTypes
    <3> QED BY <1>9, <3>1 DEF PullReplies, Typing, SubsInv
  <2> QED BY <1>9, <2>2, <2>3 DEF PullReplies
<1>10. CASE PushEvent
  <2>1. pushed' = pushed + 1 /\ subs' = PushTo(RemoveExpired(subs), pushed')
    BY <1>10 DEF PushEvent
  <2>2. DOMAIN subs' \subseteq DOMAIN subs
    BY <2>1 DEF PushTo, RemoveExpired, Without
  <2>3. \A id \in DOMAIN subs' : subs'[id] = [subs[id] EXCEPT !.pending = Append(@, pushed + 1)]
    BY <2>1 DEF PushTo, RemoveExpired, Without
  <2>4. \A id \in DOMAIN subs' : subs'[id] \in Subs /\ Exact(subs'[id], pushed')
    <3> SUFFICES ASSUME NEW id \in DOMAIN subs'
                 PROVE  subs'[id] \in Subs /\ Exact(subs'[id], pushed')
      OBVIOUS
    <3>1. subs[id] \in Subs /\ Exact(subs[id], pushed) /\ pushed \in Nat
      BY <2>2 DEF SubsInv
    <3>2. subs'[id] = [expired |-> subs[id].expired, pending |-> Append(subs[id].pending, pushed + 1),
                       given |-> subs[id].given]
      BY <2>3, <3>1 DEF Subs
    <3>3. Append(subs[id].pending, pushed + 1) = Run(subs[id].given, pushed + 1)
      BY <3>1, RunAppends DEF Exact
    <3>4. Append(subs[id].pending, pushed + 1) \in Seq(Nat)
      BY <3>1 DEF Subs
    <3>5. subs[id].given \in 0 .. pushed /\ pushed' = pushed + 1
      BY <2>1, <3>1 DEF Exact
    <3>6. subs[id].given \in 0 .. pushed'
      BY <3>1, <3>5
    <3>7. subs'[id] \in Subs
      BY <3>1, <3>2, <3>4 DEF Subs
    <3>8. subs'[id].given = subs[id].given /\ subs'[id].pending = Run(subs[id].given, pushed')
      BY <3>2, <3>3, <3>5
    <3> QED BY <3>6, <3>7, <3>8 DEF Exact
  <2>5. subs' = [id \in DOMAIN subs' |-> subs'[id]]
    BY <2>1 DEF PushTo
  <2>6. SubsInv'
    BY <1>10, <2>1, <2>2, <2>4, <2>5 DEF PushEvent, SubsInv
  <2> QED BY <1>10, <2>6 DEF PushEvent, Typing
<1>11. ASSUME NEW id \in 1 .. MaxSubs, Expires(id) PROVE ServerInv'
  <2>1. subs' = [subs EXCEPT ![id].expired = TRUE] /\ id \in DOMAIN subs
    BY <1>11 DEF Expires
  <2>2. [subs[id] EXCEPT !.expired = TRUE] \in Subs /\ Exact([subs[id] EXCEPT !.expired = TRUE], pushed)
    BY <2>1 DEF SubsInv, Subs, Exact
  <2>3. SubsInv'
    BY <1>11, <2>1, <2>2 DEF Expires, SubsInv
  <2> QED BY <1>11, <2>3 DEF Expires, Typing
<1> QED BY <1>1, <1>2, <1>3, <1>4, <1>5, <1>6, <1>7, <1>8, <1>9, <1>10, <1>11
        DEF Step, ServerStep

\* The invariant of the theorem below.
THEOREM ServerInvariant == Spec => []ServerInv
<1>1. Init => ServerInv
  <2> SUFFICES ASSUME Init PROVE ServerInv
    OBVIOUS
  <2>1. Typing
    BY NewParserType DEF Init, Typing, Conns
  <2>2. SubsInv
    BY DEF Init, SubsInv
  <2> QED BY <2>1, <2>2 DEF ServerInv
<1>2. ServerInv /\ [Next]_vars => ServerInv'
  <2>1. CASE Next
    BY <2>1, ServerStepKeeps DEF Next
  <2>2. CASE UNCHANGED vars
    BY <2>2 DEF vars, ServerInv, Typing, SubsInv
  <2> QED BY <2>1, <2>2
<1> QED BY <1>1, <1>2, PTL DEF Spec

\* EventsService hands every event to every subscription that exists when it
\* is pushed, once and in order (PushEvent, HandlePullMessages).
THEOREM PendingExactHolds == Spec => []PendingExact
<1>1. ServerInv => PendingExact
  BY DEF ServerInv, SubsInv, Exact, Run, PendingExact
<1> QED BY <1>1, ServerInvariant, PTL
-----------------------------------------------------------------------------
(* A client that waits for each answer                                     *)

\* The parser that has read the first m tokens of a request and not yet all.
Halfway(toks, m) ==
    IF m = 0 THEN NewParser
    ELSE [state |-> IF m = 1 THEN "HEADER_KEY" ELSE "BODY",
          buf |-> SubSeq(toks, 2, m), at |-> toks[1]]

\* A parser p, and what it has still to read, n.
Unread(p, n, toks) ==
    \E m \in 0 .. Len(toks) - 1 :
        p = Halfway(toks, m) /\ n = SubSeq(toks, m + 1, Len(toks))

\* An answer to the i-th request, r, as Answers demands.
Right(a, i, r) ==
    IF Stateful(r) THEN a.req = i /\ a.status = 200 ELSE a = Stateless(i, r)

\* Between requests nothing of one is left anywhere.
Quiet(c) ==
    /\ last[c] = <<>> /\ net[c] = <<>>
    /\ phase[c] \in {"none", "reading"}
    /\ conn[c].parser = NewParser

\* The last request r is on its way to the server, with a handler that waits, or
\* its answer is written.
Underway(c, r) ==
    \/ phase[c] \in {"none", "reading"} /\ Unread(conn[c].parser, net[c], Tokens(sent[c], r))
    \/ /\ phase[c] = "handling" /\ net[c] = <<>>
       /\ io.pc # "idle" /\ io.c = c /\ io.req = sent[c] /\ Stateful(r)
    \/ /\ phase[c] = "writing" /\ net[c] = <<>>
       /\ Right(conn[c].answer[1], sent[c], r)

\* What a client that waits for its answers finds: it has none to wait for, or it
\* waits for the one to its last request.
Dialogue(c) ==
    IF got[c] = sent[c] THEN Quiet(c)
    ELSE /\ sent[c] = got[c] + 1
         /\ \E r \in Asked[c] : last[c] = <<r>> /\ r.line /\ Underway(c, r)

\* A request is its line, its headers and perhaps its body.
LEMMA TokensShape ==
  ASSUME NEW i \in Nat, NEW r \in AnyRequest
  PROVE  LET toks == Tokens(i, r)
         IN /\ toks \in Seq(Toks)
            /\ Len(toks) = IF r.len = "body" THEN 3 ELSE 2
            /\ \A k \in 1 .. Len(toks) : toks[k].id = i /\ toks[k].req = r
            /\ toks[1].kind = "line" /\ toks[2].kind = "head"
<1>1. \A k \in {"line", "head", "body"} : Token(k, i, r) \in Toks
  BY DEF Token, Toks
<1>2. <<Token("line", i, r), Token("head", i, r)>> \in Seq(Toks)
  BY <1>1
<1>3. (IF r.len = "body" THEN <<Token("body", i, r)>> ELSE <<>>) \in Seq(Toks)
  BY <1>1
<1>4. Tokens(i, r) \in Seq(Toks) /\ Len(Tokens(i, r)) = IF r.len = "body" THEN 3 ELSE 2
  BY <1>2, <1>3 DEF Tokens
<1>5. Tokens(i, r)[1] = Token("line", i, r) /\ Tokens(i, r)[2] = Token("head", i, r)
  BY <1>2, <1>3 DEF Tokens
<1>6. r.len = "body" => Tokens(i, r)[3] = Token("body", i, r)
  BY <1>2, <1>3 DEF Tokens
<1>7. \A k \in 1 .. Len(Tokens(i, r)) : k = 1 \/ k = 2 \/ (k = 3 /\ r.len = "body")
  BY <1>4
<1> QED BY <1>4, <1>5, <1>6, <1>7 DEF Token

\* A second read takes up where the first one stopped.
LEMMA ReadsOn ==
  ASSUME NEW s \in Seq(Toks), NEW m \in 0 .. Len(s), NEW n \in 1 .. Len(s) - m
  PROVE  LET rest == SubSeq(s, m + 1, Len(s))
         IN /\ Len(rest) = Len(s) - m
            /\ SubSeq(rest, 1, n) = SubSeq(s, m + 1, m + n)
            /\ SubSeq(rest, n + 1, Len(rest)) = SubSeq(s, m + n + 1, Len(s))
<1> DEFINE rest == SubSeq(s, m + 1, Len(s))
<1>1. /\ rest \in Seq(Toks) /\ Len(rest) = Len(s) - m
      /\ \A k \in 1 .. Len(rest) : rest[k] = s[m + k]
  OBVIOUS
<1>2. SubSeq(rest, 1, n) = SubSeq(s, m + 1, m + n)
  BY <1>1
<1>3. SubSeq(rest, n + 1, Len(rest)) = SubSeq(s, m + n + 1, Len(s))
  BY <1>1
<1> QED BY <1>1, <1>2, <1>3

\* A sequence from its first token to its last.
LEMMA WholeSeq ==
  ASSUME NEW s \in Seq(Toks)
  PROVE  SubSeq(s, 1, Len(s)) = s
<1>1. /\ SubSeq(s, 1, Len(s)) \in Seq(Toks) /\ Len(SubSeq(s, 1, Len(s))) = Len(s)
      /\ \A j \in 1 .. Len(s) : SubSeq(s, 1, Len(s))[j] = s[j]
  OBVIOUS
<1> QED BY <1>1

\* What was read of s before and what is read now, but for the first token.
LEMMA Buffers ==
  ASSUME NEW s \in Seq(Toks), NEW m \in 1 .. Len(s), NEW k \in m .. Len(s)
  PROVE  SubSeq(s, 2, m) \o SubSeq(s, m + 1, k) = SubSeq(s, 2, k)
<1>1. Len(SubSeq(s, 2, m)) = m - 1 /\ Len(SubSeq(s, m + 1, k)) = k - m
  OBVIOUS
<1>2. SubSeq(s, 2, m) \in Seq(Toks) /\ SubSeq(s, m + 1, k) \in Seq(Toks)
  OBVIOUS
<1> QED BY <1>1, <1>2

\* The first tokens of s: the first of all, and the others.
LEMMA FirstTokens ==
  ASSUME NEW s \in Seq(Toks), NEW k \in 1 .. Len(s)
  PROVE  LET data == SubSeq(s, 1, k)
         IN /\ data \in Seq(Toks) /\ Len(data) = k /\ data[1] = s[1]
            /\ Tail(data) = SubSeq(s, 2, k)
<1> DEFINE data == SubSeq(s, 1, k)
<1>1. /\ data \in Seq(Toks) /\ Len(data) = k
      /\ \A j \in 1 .. k : data[j] = s[j]
  OBVIOUS
<1>2. Tail(data) = SubSeq(s, 2, k)
  BY <1>1
<1> QED BY <1>1, <1>2

\* The three ways a request announces its body.
LEMMA LengthTypes == \A r \in AnyRequest : r.len \in {"none", "body", "bad"}
  BY RequestAssumption DEF RequestAssumption, AnyRequest

\* A parser between two tokens takes up what its buffer holds and what was read.
LEMMA FeedOn ==
  ASSUME NEW state \in {"HEADER_KEY", "BODY"}, NEW buf \in Seq(Toks), NEW at \in Toks,
         NEW data \in Seq(Toks)
  PROVE  Feed([state |-> state, buf |-> buf, at |-> at], data)
           = FeedBody(FeedHeaders([state |-> state, buf |-> buf \o data, at |-> at]))
<1> DEFINE p == [state |-> state, buf |-> buf, at |-> at]
           all == buf \o data
<1>1. all \in Seq(Toks) /\ p.buf \o data = all
  OBVIOUS
<1> HIDE DEF all
<1>2. [p EXCEPT !.buf = all] = [state |-> state, buf |-> all, at |-> at]
  BY <1>1
<1>3. [p EXCEPT !.buf = p.buf \o data] = [p EXCEPT !.buf = all]
  BY <1>1
<1>4. [p EXCEPT !.buf = p.buf \o data] = [state |-> state, buf |-> all, at |-> at]
  BY <1>2, <1>3
<1>5. p.state \notin {"DONE", "ERROR"} /\ [state |-> state, buf |-> all, at |-> at].state # "METHOD"
  OBVIOUS
<1> QED BY <1>4, <1>5 DEF all, Feed

\* A parser that has the request line, with what its buffer holds and what was
\* read after it.
LEMMA FeedAfterLine ==
  ASSUME NEW toks \in Seq(Toks), NEW m \in Nat, NEW k \in Nat, 1 <= m, m < k, k <= Len(toks),
         NEW state \in {"HEADER_KEY", "BODY"}, m = 1 <=> state = "HEADER_KEY"
  PROVE  Feed(Halfway(toks, m), SubSeq(toks, m + 1, k))
           = FeedBody(FeedHeaders([state |-> state, buf |-> SubSeq(toks, 2, k), at |-> toks[1]]))
<1> DEFINE had == SubSeq(toks, 2, m)
           data == SubSeq(toks, m + 1, k)
           one == toks[1]
<1>1. m \in 1 .. Len(toks) /\ k \in m .. Len(toks) /\ 1 \in 1 .. Len(toks)
  OBVIOUS
<1>2. had \o data = SubSeq(toks, 2, k)
  BY <1>1, Buffers
<1>3. had \in Seq(Toks)
  BY <1>1
<1>4. data \in Seq(Toks)
  BY <1>1
<1>5. one \in Toks /\ state \in {"HEADER_KEY", "BODY"}
  BY <1>1
<1>6. Halfway(toks, m) = [state |-> state, buf |-> had, at |-> one]
  <2>1. m # 0 /\ (IF m = 1 THEN "HEADER_KEY" ELSE "BODY") = state
    OBVIOUS
  <2> QED BY <2>1 DEF Halfway
<1> HIDE DEF had, data, one
<1>7. Feed([state |-> state, buf |-> had, at |-> one], data)
        = FeedBody(FeedHeaders([state |-> state, buf |-> had \o data, at |-> one]))
  BY <1>3, <1>4, <1>5, FeedOn
<1>8. Feed(Halfway(toks, m), data)
        = FeedBody(FeedHeaders([state |-> state, buf |-> SubSeq(toks, 2, k), at |-> one]))
  BY <1>2, <1>6, <1>7
<1> QED BY <1>8 DEF data, one

\* A parser that starts with the request line, and what was read after it.
LEMMA FeedFromLine ==
  ASSUME NEW toks \in Seq(Toks), NEW k \in Nat, 1 <= k, k <= Len(toks),
         toks[1].kind = "line", toks[1].req.line
  PROVE  Feed(NewParser, SubSeq(toks, 1, k))
           = FeedBody(FeedHeaders([state |-> "HEADER_KEY", buf |-> SubSeq(toks, 2, k), at |-> toks[1]]))
<1> DEFINE data == SubSeq(toks, 1, k)
<1>1. k \in 1 .. Len(toks)
  OBVIOUS
<1>2. data \in Seq(Toks) /\ Len(data) = k /\ data[1] = toks[1] /\ Tail(data) = SubSeq(toks, 2, k)
  BY <1>1, FirstTokens
<1> HIDE DEF data
<1>3. data # <<>> /\ data[1].kind # "body"
  BY <1>2
<1>4. [NewParser EXCEPT !.buf = @ \o data] = [state |-> "METHOD", buf |-> data, at |-> <<>>]
  <2>1. <<>> \o data = data
    BY <1>2
  <2> QED BY <1>2, <2>1 DEF NewParser
<1>5. FeedLine([state |-> "METHOD", buf |-> data, at |-> <<>>])
        = [state |-> "HEADER_KEY", buf |-> Tail(data), at |-> data[1]]
  BY <1>2, <1>3 DEF FeedLine
<1>6. NewParser.state = "METHOD"
  BY DEF NewParser
<1> QED BY <1>2, <1>4, <1>5, <1>6 DEF Feed, data

\* Halfway through a request a read of some more of its tokens leaves the parser
\* further on, or with the whole request, or an exception.
LEMMA FeedTokens ==
  ASSUME NEW toks \in Seq(Toks), NEW r \in AnyRequest, r.line,
         \A j \in 1 .. Len(toks) : toks[j].req = r, toks[1].kind = "line",
         NEW m \in Nat, NEW k \in Nat, m < k, k <= Len(toks),
         NEW L \in Nat, L = Len(toks), L = IF r.len = "body" THEN 3 ELSE 2
  PROVE  LET q == Feed(Halfway(toks, m), SubSeq(toks, m + 1, k))
         IN \/ k < L /\ q = Halfway(toks, k)
            \/ k = L /\ q.state = "DONE" /\ q.at = toks[1]
            \/ q.state = "THROWN"
<1> DEFINE q == Feed(Halfway(toks, m), SubSeq(toks, m + 1, k))
           buf == SubSeq(toks, 2, k)
           one == toks[1]
           h == [state |-> "HEADER_KEY", buf |-> buf, at |-> one]
           b == [state |-> "BODY", buf |-> buf, at |-> one]
<1>1. one.req = r /\ toks[2].req = r
  <2>1. 1 \in 1 .. Len(toks) /\ 2 \in 1 .. Len(toks)
    OBVIOUS
  <2> QED BY <2>1
<1>2. Len(buf) = k - 1 /\ (k > 1 => buf # <<>> /\ buf[1] = toks[2])
  <2>1. k \in 1 .. Len(toks)
    OBVIOUS
  <2>2. Len(buf) = k - 1 /\ \A j \in 1 .. k - 1 : buf[j] = toks[j + 1]
    BY <2>1
  <2> HIDE DEF buf
  <2>3. ASSUME k > 1 PROVE buf # <<>> /\ buf[1] = toks[2]
    <3>1. Len(buf) # 0
      BY <2>2, <2>3
    <3>2. 1 \in 1 .. k - 1 /\ 1 + 1 = 2
      BY <2>3
    <3> QED BY <2>2, <3>1, <3>2
  <2> QED BY <2>2, <2>3
<1>3. q = IF m <= 1 THEN FeedBody(FeedHeaders(h)) ELSE FeedBody(FeedHeaders(b))
  <2>1. CASE m = 0
    <3>1. q = Feed(NewParser, SubSeq(toks, 1, k))
      BY <2>1 DEF Halfway
    <3>2. toks[1].req.line /\ 1 <= k
      BY <1>1, <2>1
    <3>3. q = FeedBody(FeedHeaders(h))
      BY <3>1, <3>2, FeedFromLine
    <3> QED BY <2>1, <3>3
  <2>2. CASE m = 1
    <3>1. Feed(Halfway(toks, m), SubSeq(toks, m + 1, k))
            = FeedBody(FeedHeaders([state |-> "HEADER_KEY", buf |-> SubSeq(toks, 2, k), at |-> toks[1]]))
      <4>1. 1 <= m /\ (m = 1 <=> "HEADER_KEY" = "HEADER_KEY")
        BY <2>2
      <4> QED BY <4>1, FeedAfterLine
    <3> QED BY <2>2, <3>1
  <2>3. CASE m > 1
    <3>1. Feed(Halfway(toks, m), SubSeq(toks, m + 1, k))
            = FeedBody(FeedHeaders([state |-> "BODY", buf |-> SubSeq(toks, 2, k), at |-> toks[1]]))
      <4>1. 1 <= m /\ (m = 1 <=> "BODY" = "HEADER_KEY")
        BY <2>3
      <4> QED BY <4>1, FeedAfterLine
    <3> QED BY <2>3, <3>1
  <2> QED BY <2>1, <2>2, <2>3
<1>4. CASE k = 1
  <2>1. m = 0 /\ buf = <<>>
    BY <1>2, <1>4
  <2>2. FeedBody(FeedHeaders(h)) = h
    BY <2>1 DEF FeedHeaders, FeedBody
  <2>3. h = Halfway(toks, k)
    BY <1>4, <2>1 DEF Halfway
  <2> QED BY <1>3, <1>4, <2>1, <2>2, <2>3
<1>5. CASE k # 1
  <2>1. k = 2 \/ k = 3
    BY <1>5
  <2>2. q = FeedBody(b)
    <3>1. buf # <<>>
      BY <1>2, <2>1
    <3> HIDE DEF buf, one
    <3>2. FeedHeaders(h) = b /\ FeedHeaders(b) = b
      BY <3>1 DEF FeedHeaders
    <3> QED BY <1>3, <3>2
  <2>3. b.buf[1].req = r /\ Len(b.buf) = k - 1 /\ b.state = "BODY" /\ b.at = one
    BY <1>1, <1>2, <2>1
  <2> HIDE DEF b, q
  <2>4. CASE r.len = "none"
    <3>1. q.state = "DONE" /\ q.at = one
      BY <2>2, <2>3, <2>4 DEF FeedBody, b
    <3>2. k = L
      BY <2>1, <2>4
    <3> QED BY <3>1, <3>2 DEF q
  <2>5. CASE r.len = "bad"
    <3>1. q.state = "THROWN"
      BY <2>2, <2>3, <2>5 DEF FeedBody, b
    <3> QED BY <3>1 DEF q
  <2>6. CASE r.len = "body" /\ k = 2
    <3>1. q = b
      BY <2>2, <2>3, <2>6 DEF FeedBody
    <3>2. b = Halfway(toks, k)
      BY <2>6 DEF Halfway, b
    <3> QED BY <2>6, <3>1, <3>2 DEF q
  <2>7. CASE r.len = "body" /\ k = 3
    <3>1. q.state = "DONE" /\ q.at = one
      BY <2>2, <2>3, <2>7 DEF FeedBody, b
    <3> QED BY <2>7, <3>1 DEF q
  <2> QED BY <2>1, <2>4, <2>5, <2>6, <2>7, LengthTypes
<1> QED BY <1>4, <1>5

\* The same of a request on the wire.
LEMMA FeedRequest ==
  ASSUME NEW i \in Nat, NEW r \in AnyRequest, r.line, NEW p, NEW s,
         Unread(p, s, Tokens(i, r)), NEW n \in 1 .. Len(s)
  PROVE  LET q == Feed(p, SubSeq(s, 1, n))
             rest == SubSeq(s, n + 1, Len(s))
         IN \/ q.state \notin {"DONE", "ERROR", "THROWN"} /\ Unread(q, rest, Tokens(i, r))
            \/ q.state = "DONE" /\ q.at.id = i /\ q.at.req = r /\ rest = <<>>
            \/ q.state = "THROWN"
<1> DEFINE toks == Tokens(i, r)
           L == Len(toks)
           rest == SubSeq(s, n + 1, Len(s))
<1>1. /\ toks \in Seq(Toks) /\ L = IF r.len = "body" THEN 3 ELSE 2
      /\ \A k \in 1 .. Len(toks) : toks[k].id = i /\ toks[k].req = r
      /\ toks[1].kind = "line"
  BY TokensShape
<1>2. PICK m \in 0 .. L - 1 : p = Halfway(toks, m) /\ s = SubSeq(toks, m + 1, L)
  BY DEF Unread
<1> HIDE DEF toks
<1>3. L \in Nat /\ m \in Nat /\ m < L
  BY <1>1, <1>2
<1>4. Len(s) = L - m
  BY <1>1, <1>2, <1>3
<1>5. n \in Nat /\ n \in 1 .. L - m
  BY <1>3, <1>4
<1> DEFINE k == m + n
           q == Feed(Halfway(toks, m), SubSeq(toks, m + 1, k))
<1>6. SubSeq(s, 1, n) = SubSeq(toks, m + 1, k) /\ rest = SubSeq(toks, k + 1, L)
  BY <1>1, <1>2, <1>3, <1>5, ReadsOn
<1>7. k \in Nat /\ m < k /\ k <= L
  BY <1>3, <1>5
<1> HIDE DEF k
<1>8. \/ k < L /\ q = Halfway(toks, k)
      \/ k = L /\ q.state = "DONE" /\ q.at = toks[1]
      \/ q.state = "THROWN"
  BY <1>1, <1>3, <1>7, FeedTokens
<1>9. Feed(p, SubSeq(s, 1, n)) = q
  BY <1>2, <1>6
<1>10. CASE k < L /\ q = Halfway(toks, k)
  <2>1. q.state \notin {"DONE", "ERROR", "THROWN"}
    BY <1>3, <1>7, <1>10 DEF Halfway
  <2>2. k \in 0 .. L - 1
    BY <1>3, <1>7, <1>10
  <2>3. Unread(q, rest, toks)
    BY <1>6, <1>10, <2>2 DEF Unread
  <2> QED BY <1>9, <2>1, <2>3 DEF toks
<1>11. CASE k = L /\ q.state = "DONE" /\ q.at = toks[1]
  <2>1. rest = <<>>
    BY <1>1, <1>3, <1>6, <1>11
  <2>2. q.at.id = i /\ q.at.req = r
    <3>1. 1 \in 1 .. Len(toks)
      BY <1>3
    <3> QED BY <1>1, <1>11, <3>1
  <2> QED BY <1>9, <1>11, <2>1, <2>2
<1>12. CASE q.state = "THROWN"
  BY <1>9, <1>12
<1> QED BY <1>8, <1>10, <1>11, <1>12

\* The types of what the clients count and of what sessions wait for.
Ledger ==
    /\ got \in [Clients -> Nat] /\ polite \in [Clients -> BOOLEAN]
    /\ DOMAIN last = Clients /\ DOMAIN phase = Clients

\* The handlers of the three services write an answer to the request they were
\* given, or leave it to the wait of PullMessages.
LEMMA DispatchShape ==
  ASSUME NEW c, NEW q, Dispatch(c, q)
  PROVE  \/ \E a : Writes(c, q, a) /\ Right(a, q.at.id, q.at.req) /\ io' = io
         \/ /\ Stateful(q.at.req)
            /\ conn' = [conn EXCEPT ![c].parser = q]
            /\ phase' = [phase EXCEPT ![c] = "handling"]
            /\ io'.pc = "lookup" /\ io'.c = c /\ io'.req = q.at.id
<1> DEFINE i == q.at.id
           r == q.at.req
           Done == \E a : Writes(c, q, a) /\ Right(a, i, r) /\ io' = io
<1>1. CASE ~Stateful(r)
  <2>1. Writes(c, q, Stateless(i, r)) /\ io' = io
    BY <1>1 DEF Dispatch
  <2>2. Right(Stateless(i, r), i, r)
    BY <1>1 DEF Right
  <2> QED BY <2>1, <2>2
<1>2. CASE Stateful(r)
  <2>1. ASSUME NEW fault \in BOOLEAN PROVE Right(Answer(i, 200, fault), i, r)
    BY <1>2 DEF Right, Answer
  <2>2. CASE Create(c, i, q)
    BY <2>1, <2>2 DEF Create
  <2>3. CASE Unsubscribe(c, i, q, r.sub)
    BY <2>1, <2>3 DEF Unsubscribe
  <2>4. CASE Pull(c, i, q, r)
    <3>1. CASE Writes(c, q, Answer(i, 200, TRUE)) /\ io' = io
      BY <2>1, <3>1
    <3>2. CASE ~(Writes(c, q, Answer(i, 200, TRUE)) /\ io' = io)
      <4>1. /\ conn' = [conn EXCEPT ![c].parser = q]
            /\ phase' = [phase EXCEPT ![c] = "handling"]
        BY <2>4, <3>2 DEF Pull
      <4>2. PICK id : io' = [pc |-> "lookup", c |-> c, req |-> i, sub |-> id, limit |-> r.limit]
        BY <2>4, <3>2 DEF Pull
      <4>3. io'.pc = "lookup" /\ io'.c = c /\ io'.req = i
        BY <4>2
      <4> QED BY <1>2, <4>1, <4>3
    <3> QED BY <3>1, <3>2
  <2> QED BY <1>2, <2>2, <2>3, <2>4 DEF Dispatch, Stateful
<1> QED BY <1>1, <1>2

\* A read hands over a whole request, or nothing yet; or it ends in an answer 400
\* or in an exception.
LEMMA ReadShape ==
  ASSUME NEW c, NEW n, Read(c, n)
  PROVE  LET q == Feed(conn[c].parser, SubSeq(net[c], 1, n))
         IN /\ io = Idle /\ phase[c] = "reading"
            /\ net' = [net EXCEPT ![c] = SubSeq(@, n + 1, Len(@))]
            /\ UNCHANGED <<sent, last, got, polite>>
            /\ \/ q.state = "ERROR" /\ Writes(c, q, Answer(0, 400, FALSE)) /\ io' = io
               \/ q.state = "THROWN" /\ fate' = "terminated"
               \/ q.state = "DONE" /\ Dispatch(c, q)
               \/ /\ q.state \notin {"ERROR", "THROWN", "DONE"}
                  /\ conn' = [conn EXCEPT ![c].parser = q]
                  /\ UNCHANGED <<phase, io>>
  BY DEF Read

\* A step that leaves a client's request where it is.
LEMMA Untouched ==
  ASSUME NEW c \in Clients, Dialogue(c),
         net'[c] = net[c], phase'[c] = phase[c], sent'[c] = sent[c],
         last'[c] = last[c], got'[c] = got[c],
         conn'[c].parser = conn[c].parser, conn'[c].answer = conn[c].answer,
         io.pc # "idle" /\ io.c = c => io'.pc # "idle" /\ io'.c = c /\ io'.req = io.req
  PROVE  Dialogue(c)'
<1>1. CASE got[c] = sent[c]
  BY <1>1 DEF Dialogue, Quiet
<1>2. CASE got[c] # sent[c]
  <2>1. PICK r \in Asked[c] : last[c] = <<r>> /\ r.line /\ Underway(c, r)
    BY <1>2 DEF Dialogue
  <2>2. Underway(c, r)'
    BY <2>1 DEF Underway
  <2> QED BY <1>2, <2>1, <2>2 DEF Dialogue
<1> QED BY <1>1, <1>2

\* A client that waits for its answers sends a request.
LEMMA SendDialogue ==
  ASSUME Typing, Ledger, NEW c \in Clients, NEW r \in Asked[c], Send(c, r),
         polite[c] => Dialogue(c), polite'[c]
  PROVE  Dialogue(c)'
<1>1. /\ sent'[c] = sent[c] + 1 /\ last'[c] = <<r>> /\ got' = got
      /\ phase' = phase /\ conn' = conn
      /\ net'[c] = net[c] \o Tokens(sent'[c], r)
      /\ polite[c] /\ r.line /\ got[c] = sent[c]
  BY DEF Send, Typing, Ledger
<1>2. Quiet(c)
  BY <1>1 DEF Dialogue
<1>3. sent[c] \in Nat /\ got[c] \in Nat /\ sent'[c] \in Nat /\ r \in AnyRequest
  BY <1>1 DEF Typing, Ledger, AnyRequest
<1> DEFINE toks == Tokens(sent'[c], r)
<1>4. toks \in Seq(Toks) /\ Len(toks) = IF r.len = "body" THEN 3 ELSE 2
  BY <1>1, <1>3, TokensShape
<1> HIDE DEF toks
<1>5. net'[c] = toks
  <2>1. net[c] = <<>>
    BY <1>2 DEF Quiet
  <2>2. net[c] \o toks = toks
    BY <1>4, <2>1
  <2>3. net'[c] = net[c] \o toks
    BY <1>1 DEF toks
  <2> QED BY <2>2, <2>3, Zenon
<1>6. toks = SubSeq(toks, 1, Len(toks)) /\ 0 \in 0 .. Len(toks) - 1
  <2>1. toks = SubSeq(toks, 1, Len(toks))
    BY <1>4, WholeSeq
  <2>2. Len(toks) \in Nat /\ Len(toks) >= 1
    BY <1>4
  <2> QED BY <2>1, <2>2
<1>7. conn'[c].parser = Halfway(toks, 0)
  BY <1>1, <1>2 DEF Quiet, Halfway
<1>8. Unread(conn'[c].parser, net'[c], toks)
  <2>1. 0 + 1 = 1
    OBVIOUS
  <2> QED BY <1>5, <1>6, <1>7, <2>1 DEF Unread
<1>9. Underway(c, r)'
  BY <1>1, <1>2, <1>8 DEF Underway, Quiet, toks
<1> QED BY <1>1, <1>3, <1>9 DEF Dialogue

\* A read of it finds the request unfinished, has it answered or has it wait.
LEMMA ReadDialogue ==
  ASSUME Typing, Ledger, NEW c \in Clients, NEW n \in 1 .. Len(net[c]), Read(c, n),
         Dialogue(c), fate' = "ok"
  PROVE  Dialogue(c)'
<1> DEFINE q == Feed(conn[c].parser, SubSeq(net[c], 1, n))
           i == sent[c]
<1>1. phase[c] = "reading" /\ sent' = sent /\ last' = last /\ got' = got
  BY ReadShape
<1>2. net'[c] = SubSeq(net[c], n + 1, Len(net[c]))
  <2>1. net' = [net EXCEPT ![c] = SubSeq(net[c], n + 1, Len(net[c]))]
    BY DEF Read
  <2> QED BY <2>1 DEF Typing
<1>3. got[c] # sent[c]
  BY DEF Dialogue, Quiet
<1>4. PICK r \in Asked[c] : last[c] = <<r>> /\ r.line /\ Underway(c, r)
  BY <1>3 DEF Dialogue
<1>5. Unread(conn[c].parser, net[c], Tokens(i, r))
  BY <1>1, <1>4 DEF Underway
<1>6. r \in AnyRequest /\ i \in Nat
  BY DEF AnyRequest, Typing
<1>7. \/ q.state \notin {"DONE", "ERROR", "THROWN"} /\ Unread(q, net'[c], Tokens(i, r))
      \/ q.state = "DONE" /\ q.at.id = i /\ q.at.req = r /\ net'[c] = <<>>
      \/ q.state = "THROWN"
  BY <1>2, <1>4, <1>5, <1>6, FeedRequest
<1>8. \/ q.state = "ERROR"
      \/ q.state = "THROWN"
      \/ q.state = "DONE" /\ Dispatch(c, q)
      \/ /\ q.state \notin {"ERROR", "THROWN", "DONE"}
         /\ conn' = [conn EXCEPT ![c].parser = q]
         /\ UNCHANGED <<phase, io>>
  BY ReadShape
<1>9. q.state # "THROWN"
  BY ReadShape
<1> HIDE DEF q
<1>10. conn \in [Clients -> Conns]
  BY DEF Typing
<1>11. CASE /\ Unread(q, net'[c], Tokens(i, r))
            /\ conn' = [conn EXCEPT ![c].parser = q] /\ UNCHANGED <<phase, io>>
  <2>1. conn'[c].parser = q
    BY <1>10, <1>11 DEF Conns
  <2>2. Underway(c, r)'
    BY <1>1, <1>11, <2>1 DEF Underway
  <2> QED BY <1>1, <1>3, <1>4, <2>2 DEF Dialogue
<1>12. CASE q.at.id = i /\ q.at.req = r /\ net'[c] = <<>> /\ Dispatch(c, q)
  <2>1. ASSUME NEW a, Writes(c, q, a), Right(a, i, r) PROVE Underway(c, r)'
    <3>1. conn'[c].answer = <<a>> /\ phase'[c] = "writing"
      BY <1>10, <2>1 DEF Writes, Conns, Ledger
    <3> QED BY <1>1, <1>12, <2>1, <3>1 DEF Underway
  <2>2. ASSUME Stateful(r), phase' = [phase EXCEPT ![c] = "handling"],
               io'.pc = "lookup", io'.c = c, io'.req = i
        PROVE  Underway(c, r)'
    BY <1>1, <1>12, <2>2 DEF Underway, Ledger
  <2>3. Underway(c, r)'
    BY <1>12, <2>1, <2>2, DispatchShape
  <2> QED BY <1>1, <1>3, <1>4, <2>3 DEF Dialogue
<1> QED BY <1>7, <1>8, <1>9, <1>11, <1>12

\* While a handler waits, its client's session is handling.
Handled == io.pc # "idle" => phase[io.c] = "handling"

\* A client that has waited for each answer, as long as its session lives.
Heard(c) == polite[c] /\ phase[c] # "ended" => Dialogue(c)

\* A handler that waits answers its own client.
LEMMA RepliesDialogue ==
  ASSUME Typing, Ledger, io \in Pulls, NEW fault, Replies(fault),
         UNCHANGED <<net, sent, last, got>>,
         NEW c \in Clients, c = io.c, Dialogue(c), phase[c] = "handling"
  PROVE  Dialogue(c)'
<1> DEFINE a == Answer(io.req, 200, fault)
<1>1. c \in Clients /\ conn \in [Clients -> Conns]
  BY DEF Typing
<1>2. got[c] # sent[c]
  BY DEF Dialogue, Quiet
<1>3. PICK r \in Asked[c] : last[c] = <<r>> /\ r.line /\ Underway(c, r)
  BY <1>2 DEF Dialogue
<1>4. net[c] = <<>> /\ io.req = sent[c] /\ Stateful(r)
  BY <1>3 DEF Underway
<1>5. Right(a, sent[c], r)
  BY <1>4 DEF Right, Answer
<1>6. conn' = [conn EXCEPT ![c].parser = conn[c].parser, ![c].answer = <<a>>]
      /\ phase' = [phase EXCEPT ![c] = "writing"]
  BY DEF Replies, Writes
<1> HIDE DEF a
<1>7. conn'[c].answer = <<a>> /\ phase'[c] = "writing"
  BY <1>1, <1>6 DEF Ledger, Conns
<1>8. Underway(c, r)'
  BY <1>4, <1>5, <1>7 DEF Underway
<1> QED BY <1>2, <1>3, <1>8 DEF Dialogue

\* Every step keeps what the clients that wait for their answers rely on.
LEMMA DialogueStep ==
  ASSUME Typing, Ledger, Handled, \A c \in Clients : Heard(c), Step, fate' = "ok"
  PROVE  Ledger' /\ Handled' /\ \A c \in Clients : Heard(c)'
<1> DEFINE Goal == Ledger' /\ Handled' /\ \A c \in Clients : Heard(c)'
<1>1. io.pc # "idle" => io \in Pulls /\ io.c \in Clients
  BY DEF Typing, Pulls, Idle
<1>2. io = Idle => io.pc = "idle"
  BY DEF Idle
<1>3. conn \in [Clients -> Conns] /\ net \in [Clients -> Seq(Toks)] /\ sent \in [Clients -> Nat]
  BY DEF Typing
<1>4. ASSUME NEW d \in Clients, Leave(d) PROVE Goal
  <2>1. \A c \in Clients : conn'[c].parser = conn[c].parser /\ conn'[c].answer = conn[c].answer
    BY <1>3, <1>4 DEF Leave, Conns
  <2>2. UNCHANGED <<net, phase, sent, last, got, polite, io>>
    BY <1>4 DEF Leave
  <2>3. ASSUME NEW c \in Clients PROVE Heard(c)'
    BY <2>1, <2>2, Untouched DEF Heard
  <2> QED BY <2>2, <2>3 DEF Ledger, Handled
<1>5. ASSUME NEW d \in Clients, NEW r \in Asked[d], Send(d, r) PROVE Goal
  <2>1. UNCHANGED <<conn, phase, got, io>>
    BY <1>5 DEF Send
  <2>2. \A c \in Clients \ {d} : /\ net'[c] = net[c] /\ sent'[c] = sent[c] /\ last'[c] = last[c]
                                 /\ polite'[c] = polite[c]
    BY <1>3, <1>5 DEF Send, Ledger
  <2>3. ASSUME NEW c \in Clients, c # d PROVE Heard(c)'
    BY <2>1, <2>2, <2>3, Untouched DEF Heard
  <2>4. ASSUME polite'[d], phase'[d] # "ended" PROVE Dialogue(d)'
    <3>1. polite[d] => Dialogue(d)
      BY <2>1, <2>4 DEF Heard
    <3> QED BY <1>5, <2>4, <3>1, SendDialogue
  <2>5. Heard(d)'
    BY <2>4 DEF Heard
  <2>6. polite' = [polite EXCEPT ![d] = @ /\ r.line /\ got[d] = sent[d]]
        /\ last' = [last EXCEPT ![d] = <<r>>]
    BY <1>5 DEF Send
  <2>7. Ledger'
    <3>1. (polite[d] /\ r.line /\ got[d] = sent[d]) \in BOOLEAN
      OBVIOUS
    <3> QED BY <2>1, <2>6, <3>1 DEF Ledger
  <2> QED BY <2>1, <2>3, <2>5, <2>7 DEF Handled
<1>6. ASSUME NEW d \in Clients, Accept(d) PROVE Goal
  <2>1. fate' # "terminated"
    OBVIOUS
  <2>2. CASE phase' = [phase EXCEPT ![d] = "reading"]
             /\ conn' = [conn EXCEPT ![d].sock = IF @ = "new" THEN "open" ELSE @]
    <3>1. UNCHANGED <<net, sent, last, got, polite, io>> /\ phase[d] = "none" /\ io = Idle
      BY <1>6 DEF Accept
    <3>2. \A c \in Clients : conn'[c].parser = conn[c].parser /\ conn'[c].answer = conn[c].answer
      BY <1>3, <2>2 DEF Conns
    <3>3. ASSUME NEW c \in Clients, c # d PROVE Heard(c)'
      <4>1. phase'[c] = phase[c]
        BY <2>2, <3>3 DEF Ledger
      <4> QED BY <3>1, <3>2, <4>1, Untouched DEF Heard
    <3>4. phase'[d] = "reading"
      BY <2>2 DEF Ledger
    <3>5. Heard(d)'
      <4>1. ASSUME polite[d] PROVE Dialogue(d)'
        <5>1. Dialogue(d)
          BY <3>1, <4>1 DEF Heard
        <5> QED BY <3>1, <3>2, <3>4, <5>1 DEF Dialogue, Quiet, Underway
      <4> QED BY <3>1, <4>1 DEF Heard
    <3> QED BY <1>2, <2>2, <3>1, <3>3, <3>5 DEF Ledger, Handled
  <2> QED BY <1>6, <2>1, <2>2 DEF Accept
<1>7. ASSUME NEW d \in Clients, SessionEnds(d) PROVE Goal
  <2>1. /\ io = Idle /\ phase' = [phase EXCEPT ![d] = "ended"] /\ net' = [net EXCEPT ![d] = <<>>]
        /\ conn' = [conn EXCEPT ![d].parser = NewParser, ![d].answer = <<>>]
        /\ UNCHANGED <<sent, last, got, polite, io>>
    BY <1>7 DEF SessionEnds
  <2>2. ASSUME NEW c \in Clients, c # d PROVE Heard(c)'
    <3>1. conn'[c] = conn[c] /\ phase'[c] = phase[c] /\ net'[c] = net[c]
      BY <1>3, <2>1, <2>2 DEF Ledger
    <3> QED BY <2>1, <3>1, Untouched DEF Heard
  <2>3. Heard(d)'
    BY <2>1 DEF Heard, Ledger
  <2> QED BY <1>2, <2>1, <2>2, <2>3 DEF Ledger, Handled
<1>8. ASSUME NEW d \in Clients, WriteDone(d) PROVE Goal
  <2>1. /\ io = Idle /\ phase' = [phase EXCEPT ![d] = "reading"] /\ phase[d] = "writing"
        /\ conn' = [conn EXCEPT ![d].parser = NewParser, ![d].answer = <<>>]
        /\ got' = [got EXCEPT ![d] = @ + 1] /\ last' = [last EXCEPT ![d] = <<>>]
        /\ UNCHANGED <<net, sent, polite, io>>
    BY <1>8 DEF WriteDone, Reset
  <2>2. ASSUME NEW c \in Clients, c # d PROVE Heard(c)'
    <3>1. conn'[c] = conn[c] /\ phase'[c] = phase[c] /\ got'[c] = got[c] /\ last'[c] = last[c]
      BY <1>3, <2>1, <2>2 DEF Ledger
    <3> QED BY <2>1, <3>1, Untouched DEF Heard
  <2>3. ASSUME polite[d] PROVE Dialogue(d)'
    <3>1. Dialogue(d)
      BY <2>1, <2>3 DEF Heard
    <3>2. sent[d] = got[d] + 1 /\ net[d] = <<>>
      BY <2>1, <3>1 DEF Dialogue, Quiet, Underway
    <3>3. /\ got'[d] = got[d] + 1 /\ last'[d] = <<>> /\ phase'[d] = "reading"
          /\ conn'[d].parser = NewParser
      BY <1>3, <2>1 DEF Ledger, Conns
    <3> QED BY <2>1, <3>2, <3>3 DEF Dialogue, Quiet
  <2>4. Heard(d)'
    BY <2>1, <2>3 DEF Heard
  <2>5. Ledger'
    BY <2>1 DEF Ledger
  <2> QED BY <1>2, <2>1, <2>2, <2>4, <2>5 DEF Handled
<1>9. ASSUME NEW d \in Clients, NEW n \in 1 .. Len(net[d]), Read(d, n) PROVE Goal
  <2> DEFINE q == Feed(conn[d].parser, SubSeq(net[d], 1, n))
  <2>1. /\ io = Idle /\ phase[d] = "reading" /\ UNCHANGED <<sent, last, got, polite>>
        /\ net' = [net EXCEPT ![d] = SubSeq(@, n + 1, Len(@))]
    BY <1>9, ReadShape
  <2>2. \/ q.state = "ERROR" /\ Writes(d, q, Answer(0, 400, FALSE)) /\ io' = io
        \/ q.state = "DONE" /\ Dispatch(d, q)
        \/ conn' = [conn EXCEPT ![d].parser = q] /\ UNCHANGED <<phase, io>>
    BY <1>9, ReadShape
  <2> HIDE DEF q
  <2>3. \/ \E a : Writes(d, q, a) /\ io' = io
        \/ /\ conn' = [conn EXCEPT ![d].parser = q] /\ phase' = [phase EXCEPT ![d] = "handling"]
           /\ io'.pc = "lookup" /\ io'.c = d
        \/ conn' = [conn EXCEPT ![d].parser = q] /\ UNCHANGED <<phase, io>>
    BY <2>2, DispatchShape
  <2>4. DOMAIN phase' = Clients /\ Handled'
    BY <1>2, <2>1, <2>3 DEF Writes, Ledger, Handled
  <2>5. ASSUME NEW c \in Clients, c # d PROVE Heard(c)'
    <3>1. conn'[c] = conn[c] /\ phase'[c] = phase[c]
      BY <1>3, <2>3, <2>5 DEF Writes, Ledger
    <3>2. net'[c] = net[c]
      BY <1>3, <2>1, <2>5
    <3> QED BY <1>2, <2>1, <3>1, <3>2, Untouched DEF Heard
  <2>6. ASSUME polite[d] PROVE Dialogue(d)'
    <3>1. Dialogue(d)
      BY <2>1, <2>6 DEF Heard
    <3> QED BY <1>9, <3>1, ReadDialogue
  <2>7. Heard(d)'
    BY <2>1, <2>6 DEF Heard
  <2> QED BY <2>1, <2>4, <2>5, <2>7 DEF Ledger
<1>10. CASE /\ io.pc # "idle" /\ \E fault : Replies(fault)
            /\ UNCHANGED <<net, sent, last, got, polite>>
  <2>1. io \in Pulls /\ io.c \in Clients /\ phase[io.c] = "handling"
    BY <1>1, <1>10 DEF Handled
  <2>2. PICK fault : Replies(fault)
    BY <1>10
  <2>3. PICK a : /\ conn' = [conn EXCEPT ![io.c].parser = conn[io.c].parser, ![io.c].answer = <<a>>]
                 /\ phase' = [phase EXCEPT ![io.c] = "writing"] /\ io' = Idle
    BY <2>2 DEF Replies, Writes
  <2>4. ASSUME NEW c \in Clients, c # io.c PROVE Heard(c)'
    <3>1. conn'[c] = conn[c] /\ phase'[c] = phase[c]
      BY <1>3, <2>3, <2>4 DEF Ledger
    <3> QED BY <1>10, <2>4, <3>1, Untouched DEF Heard
  <2>5. ASSUME NEW c \in Clients, c = io.c PROVE Heard(c)'
    <3>1. polite[c] => Dialogue(c)'
      BY <1>10, <2>1, <2>2, <2>5, RepliesDialogue DEF Heard
    <3> QED BY <1>10, <3>1 DEF Heard
  <2>6. Handled'
    BY <2>3 DEF Handled, Idle
  <2> QED BY <1>10, <2>3, <2>4, <2>5, <2>6 DEF Ledger
<1>11. CASE /\ io.pc # "idle" /\ io'.pc # "idle" /\ io'.c = io.c /\ io'.req = io.req
            /\ UNCHANGED <<conn, phase, net, sent, last, got, polite>>
  <2>1. ASSUME NEW c \in Clients PROVE Heard(c)'
    BY <1>11, Untouched DEF Heard
  <2> QED BY <1>11, <2>1 DEF Ledger, Handled
<1>12. CASE UNCHANGED <<conn, phase, net, sent, last, got, polite, io>>
  <2>1. ASSUME NEW c \in Clients PROVE Heard(c)'
    BY <1>12, Untouched DEF Heard
  <2> QED BY <1>12, <2>1 DEF Ledger, Handled
<1>13. CASE FindSubscription
  <2>1. io.pc = "lookup" /\ UNCHANGED <<net, sent, last, got, polite>>
    BY <1>13 DEF FindSubscription
  <2>2. CASE Replies(TRUE)
    BY <1>10, <2>1, <2>2
  <2>3. CASE io' = [io EXCEPT !.pc = "found"] /\ UNCHANGED <<conn, phase>>
    <3>1. io'.pc = "found" /\ io'.c = io.c /\ io'.req = io.req
      BY <1>1, <2>1, <2>3 DEF Pulls
    <3> QED BY <1>11, <2>1, <2>3, <3>1
  <2> QED BY <1>13, <2>2, <2>3 DEF FindSubscription
<1>14. CASE PullWakes
  <2>1. io.pc = "found" /\ UNCHANGED <<conn, phase, net, sent, last, got, polite>>
    BY <1>14 DEF PullWakes, WaitEnds
  <2>2. io' = [io EXCEPT !.pc = "popped"]
    BY <1>14 DEF PullWakes
  <2>3. io'.pc = "popped" /\ io'.c = io.c /\ io'.req = io.req
    BY <1>1, <2>1, <2>2 DEF Pulls
  <2> QED BY <1>11, <2>1, <2>3
<1>15. CASE PullReplies
  <2>1. io.pc = "popped" /\ Replies(FALSE) /\ UNCHANGED <<net, sent, last, got, polite>>
    BY <1>15 DEF PullReplies
  <2> QED BY <1>10, <2>1
<1>16. CASE PushEvent
  BY <1>12, <1>16 DEF PushEvent
<1>17. ASSUME NEW id \in 1 .. MaxSubs, Expires(id) PROVE Goal
  BY <1>12, <1>17 DEF Expires
<1> QED BY <1>4, <1>5, <1>6, <1>7, <1>8, <1>9, <1>13, <1>14, <1>15, <1>16, <1>17
        DEF Step, ServerStep

\* What a client that waits for its answers may rely on, until run() returns.
DialogueInv ==
    fate = "ok" => Ledger /\ Handled /\ \A c \in Clients : Heard(c)

\* DialogueInv is an invariant.
LEMMA DialogueInvariant == Spec => []DialogueInv
<1>1. Init => DialogueInv
  <2> SUFFICES ASSUME Init PROVE Ledger /\ Handled /\ \A c \in Clients : Heard(c)
    BY DEF DialogueInv
  <2>1. Ledger /\ Handled
    BY DEF Init, Ledger, Handled, Idle
  <2>2. ASSUME NEW c \in Clients PROVE Heard(c)
    BY DEF Init, Heard, Dialogue, Quiet
  <2> QED BY <2>1, <2>2
<1>2. ServerInv /\ DialogueInv /\ [Next]_vars => DialogueInv'
  <2> SUFFICES ASSUME ServerInv, DialogueInv, [Next]_vars PROVE DialogueInv'
    OBVIOUS
  <2>1. CASE Next
    <3>1. fate = "ok" /\ Step
      BY <2>1 DEF Next
    <3>2. Typing /\ Ledger /\ Handled /\ \A c \in Clients : Heard(c)
      BY <3>1 DEF DialogueInv, ServerInv
    <3>3. fate' = "ok" => Ledger' /\ Handled' /\ \A c \in Clients : Heard(c)'
      BY <3>1, <3>2, DialogueStep
    <3> QED BY <3>3 DEF DialogueInv
  <2>2. CASE UNCHANGED vars
    BY <2>2 DEF vars, DialogueInv, Ledger, Handled, Heard, Dialogue, Quiet, Underway
  <2> QED BY <2>1, <2>2
<1> QED BY <1>1, <1>2, ServerInvariant, PTL DEF Spec

\* A client that waits for each answer, and sends nothing malformed, gets exactly
\* one answer to each request, in order and the right one, in whatever pieces its
\* bytes are read and whatever the other clients do (Parser::feed,
\* Session::do_read, do_write, Router::dispatch).
THEOREM AnswersHolds == Spec => Answers
<1>1. ServerInv /\ DialogueInv /\ [Next]_vars =>
        [\A c \in Clients : got'[c] # got[c] /\ polite[c] =>
            LET a == conn[c].answer[1]
            IN /\ last[c] # <<>> /\ got'[c] = sent[c]
               /\ IF Stateful(last[c][1]) THEN a.req = sent[c] /\ a.status = 200
                  ELSE a = Stateless(sent[c], last[c][1])]_vars
  <2> SUFFICES ASSUME ServerInv, DialogueInv, Next, NEW c \in Clients,
                      got'[c] # got[c], polite[c]
               PROVE  LET a == conn[c].answer[1]
                      IN /\ last[c] # <<>> /\ got'[c] = sent[c]
                         /\ IF Stateful(last[c][1]) THEN a.req = sent[c] /\ a.status = 200
                            ELSE a = Stateless(sent[c], last[c][1])
    BY DEF vars
  <2>1. Step /\ Ledger /\ Heard(c)
    BY DEF Next, DialogueInv
  <2>2. PICK d \in Clients : WriteDone(d)
    BY <2>1 DEF Step, ServerStep, Send, Leave, Accept, SessionEnds, Read, FindSubscription,
                PullWakes, PullReplies, PushEvent, Expires
  <2>3. phase[d] = "writing" /\ got' = [got EXCEPT ![d] = @ + 1]
    BY <2>2 DEF WriteDone
  <2>4. d = c /\ got'[c] = got[c] + 1
    BY <2>1, <2>3 DEF Ledger
  <2>5. Dialogue(c)
    BY <2>1, <2>3, <2>4 DEF Heard
  <2>6. got[c] # sent[c] /\ sent[c] = got[c] + 1
    BY <2>3, <2>4, <2>5 DEF Dialogue, Quiet
  <2>7. PICK r \in Asked[c] : last[c] = <<r>> /\ Underway(c, r)
    BY <2>5, <2>6 DEF Dialogue
  <2>8. Right(conn[c].answer[1], sent[c], r)
    BY <2>3, <2>4, <2>7 DEF Underway
  <2> QED BY <2>4, <2>6, <2>7, <2>8 DEF Right
<1> QED BY <1>1, ServerInvariant, DialogueInvariant, PTL DEF Spec, Answers

-----------------------------------------------------------------------------
(* What the device's answers let a client rely on                          *)


\* The clock: the difference of two times of day that are less than half a
\* day apart is found from them, whichever of the two is past midnight.
LEMMA TimeZoneExact ==
  ASSUME zone \in -719 .. 719, NEW utc \in 0 .. 1439
  PROVE  TimeZone(utc) = zone
<1>1. CASE utc + zone < 0
  <2>1. (utc + zone) % 1440 = utc + zone + 1440
    BY <1>1
  <2> QED BY <1>1, <2>1 DEF TimeZone
<1>2. CASE utc + zone \in 0 .. 1439
  <2>1. (utc + zone) % 1440 = utc + zone
    BY <1>2
  <2> QED BY <1>2, <2>1 DEF TimeZone
<1>3. CASE utc + zone > 1439
  <2>1. (utc + zone) % 1440 = utc + zone - 1440
    BY <1>3
  <2> QED BY <1>3, <2>1 DEF TimeZone
<1> QED BY <1>1, <1>2, <1>3

\* What can be learnt is one of a few addresses and tokens.
Names ==
    {Address(s) : s \in {"device", "media", "events", "subscription"}} \cup BuildProfileToken
        \cup StreamUri

\* No service names anything else.
LEMMA AnswersKnown ==
  ASSUME NEW service \in DOMAIN ServiceAnswers, NEW op \in DOMAIN ServiceAnswers[service]
  PROVE  ServiceAnswers[service][op] \subseteq Names
<1> USE DEF Names, BuildProfileToken, StreamUri
<1>1. CASE service = "device"
  <2>1. ServiceAnswers[service] = DeviceAnswers
    BY <1>1 DEF ServiceAnswers
  <2> QED BY <2>1 DEF DeviceAnswers, Capabilities, Services,
       HandleGetDeviceInformation, HandleGetScopes, HandleGetHostname
<1>2. CASE service = "media"
  <2>1. ServiceAnswers[service] = MediaAnswers
    BY <1>2 DEF ServiceAnswers
  <2> QED BY <2>1 DEF MediaAnswers, HandleGetProfiles, HandleGetProfile, VideoSources,
       HandleGetVideoSourceConfigurations, HandleGetVideoEncoderConfigurations,
       BuildVideoSourceConfiguration, BuildVideoEncoderConfiguration, NoAudio
<1>3. CASE service = "events"
  <2>1. ServiceAnswers[service] = EventsAnswers
    BY <1>3 DEF ServiceAnswers
  <2> QED BY <2>1 DEF EventsAnswers
<1> QED BY <1>1, <1>2, <1>3 DEF ServiceAnswers

\* The device's address as it was given to the client is one more.
Known == Names \cup {[Address("device") EXCEPT !.port = HttpPort]}

DeviceInv ==
    /\ learnt \subseteq Known
    /\ \A r \in request : r.service \in DOMAIN ServiceAnswers
    /\ TimeZoneTold

\* What is known holds, in LearntHolds' sense.
LEMMA KnownHolds == learnt \subseteq Known => LearntHolds
<1> SUFFICES ASSUME NEW x \in Known
             PROVE  /\ x.kind = "address" /\ x.name # "subscription"
                          => x.name \in DOMAIN ServiceAnswers /\ (port = HttpPort => x.port = HttpPort)
                    /\ x.kind \in DOMAIN ListedBy => x \in MediaAnswers[ListedBy[x.kind]]
  BY DEF LearntHolds
<1> USE DEF ServiceAnswers, ListedBy
<1>1. CASE x \in {Address(s) : s \in {"device", "media", "events", "subscription"}}
  BY <1>1 DEF Address
<1>2. CASE x = [Address("device") EXCEPT !.port = HttpPort]
  BY <1>2 DEF Address
<1>3. CASE x \in StreamUri
  BY <1>3 DEF StreamUri
<1>4. CASE x = TokenOf("profile", "Profile_1")
  BY <1>4 DEF TokenOf, MediaAnswers, HandleGetProfiles, BuildProfileToken
<1>5. CASE x = TokenOf("source_configuration", "VideoSourceToken_1")
  BY <1>5 DEF TokenOf, MediaAnswers, HandleGetVideoSourceConfigurations,
     BuildVideoSourceConfiguration
<1>6. CASE x = TokenOf("source", "VideoSource_1")
  BY <1>6 DEF TokenOf, MediaAnswers, VideoSources
<1>7. CASE x = TokenOf("encoder", "VideoEncoderToken_1")
  BY <1>7 DEF TokenOf, MediaAnswers, HandleGetVideoEncoderConfigurations,
     BuildVideoEncoderConfiguration
<1> QED BY <1>1, <1>2, <1>3, <1>4, <1>5, <1>6, <1>7 DEF Known, Names, BuildProfileToken

\* A request's answer names what is known, and the time zone if it was asked.
LEMMA HandleStep ==
  ASSUME DeviceInv, NEW utc \in Times, Handle(utc)
  PROVE  DeviceInv'
<1>1. PICK r \in request : answer' = HandleRequest(r, utc)
  BY DEF Handle
<1>2. UNCHANGED <<port, zone>> /\ request' = {} /\ learnt' = learnt \cup answer'.names
  BY DEF Handle
<1>3. Known' = Known
  BY <1>2 DEF Known, Names, Address, BuildProfileToken, TokenOf, StreamUri, HttpPort
<1>4. answer'.names \subseteq Names
  <2>1. r.service \in DOMAIN ServiceAnswers
    BY <1>1 DEF DeviceInv
  <2>2. CASE services /\ Operation(r) \in DOMAIN ServiceAnswers[r.service]
    <3>1. answer'.names = ServiceAnswers[r.service][Operation(r)]
      BY <1>1, <2>2 DEF HandleRequest
    <3> QED BY <2>1, <2>2, <3>1, AnswersKnown
  <2>3. CASE ~(services /\ Operation(r) \in DOMAIN ServiceAnswers[r.service])
    <3>1. answer'.names = {}
      BY <1>1, <2>3 DEF HandleRequest
    <3> QED BY <3>1
  <2> QED BY <2>2, <2>3
<1>5. TimeZoneTold'
  <2> SUFFICES ASSUME answer'.op = "GetSystemDateAndTime", ~answer'.fault, zone' \in -719 .. 719
               PROVE  answer'.zone = zone'
    BY DEF TimeZoneTold
  <2>1. r.op = "GetSystemDateAndTime" /\ Operation(r) \in DOMAIN ServiceAnswers[r.service]
    BY <1>1 DEF HandleRequest
  <2>2. r.service \in {"device", "media", "events"}
    BY <1>1 DEF DeviceInv, ServiceAnswers
  <2>3. "" \notin DOMAIN ServiceAnswers[r.service]
    <3>1. CASE r.service = "device"
      BY <3>1 DEF ServiceAnswers, DeviceAnswers
    <3>2. CASE r.service = "media"
      BY <3>2 DEF ServiceAnswers, MediaAnswers
    <3>3. CASE r.service = "events"
      BY <3>3 DEF ServiceAnswers, EventsAnswers
    <3> QED BY <2>2, <3>1, <3>2, <3>3
  <2>4. Operation(r) = "GetSystemDateAndTime"
    BY <2>1, <2>3 DEF Operation
  <2>5. answer'.zone = TimeZone(utc)
    BY <1>1, <2>4 DEF HandleRequest
  <2>6. zone' = zone
    BY <1>2
  <2>7. zone \in -719 .. 719
    BY <2>6
  <2>8. utc \in 0 .. 1439
    BY ClockAssumption
  <2>9. TimeZone(utc) = zone
    BY <2>7, <2>8, TimeZoneExact
  <2> QED BY <2>5, <2>6, <2>9
<1> QED BY <1>2, <1>3, <1>4, <1>5 DEF DeviceInv, Known

\* Every other step leaves the answer alone and learns addresses only.
LEMMA DeviceStepKeeps ==
  ASSUME DeviceInv, [DeviceNext]_deviceVars
  PROVE  DeviceInv'
<1>1. CASE \E utc \in Times : Handle(utc)
  BY <1>1, HandleStep
<1>2. ASSUME UNCHANGED <<port, zone, answer>>, learnt' \subseteq Known,
             \A r \in request' : r.service \in DOMAIN ServiceAnswers
      PROVE  DeviceInv'
  <2>1. Known' = Known
    BY <1>2 DEF Known, Names, Address, BuildProfileToken, TokenOf, StreamUri, HttpPort
  <2>2. DOMAIN ServiceAnswers' = DOMAIN ServiceAnswers
    BY DEF ServiceAnswers
  <2> QED BY <1>2, <2>1, <2>2 DEF DeviceInv, TimeZoneTold
<1> USE DEF DeviceInv
<1>3. CASE StartDiscovery \/ DiscoveryFails \/ Serve \/ Signal
  BY <1>3, <1>2 DEF StartDiscovery, DiscoveryFails, Serve, Signal
<1>4. CASE Probe
  BY <1>4, <1>2 DEF Probe, Known, Names
<1>5. CASE Configured
  BY <1>5, <1>2 DEF Configured, Known
<1>6. ASSUME NEW service \in DOMAIN ServiceAnswers, NEW op, Ask(service, op)
      PROVE  DeviceInv'
  BY <1>6, <1>2 DEF Ask
<1>7. CASE UNCHANGED deviceVars
  BY <1>7, <1>2 DEF deviceVars
<1> QED BY <1>1, <1>3, <1>4, <1>5, <1>6, <1>7 DEF DeviceNext, DeviceStep

\* The invariant of the two theorems below.
THEOREM DeviceInvariant == DeviceSpec => []DeviceInv
<1>1. DeviceInit => DeviceInv
  BY DEF DeviceInit, DeviceInv, TimeZoneTold, NoAnswer
<1>2. DeviceInv /\ [DeviceNext]_deviceVars => DeviceInv'
  BY DeviceStepKeeps
<1> QED BY <1>1, <1>2, PTL DEF DeviceSpec

\* Addresses and tokens that answers of DeviceService and MediaService name
\* are those that the services accept and list.
THEOREM LearntHoldsAlways == DeviceSpec => []LearntHolds
<1>1. DeviceInv => LearntHolds
  BY KnownHolds DEF DeviceInv
<1> QED BY <1>1, DeviceInvariant, PTL

\* DeviceService::HandleGetSystemDateAndTime tells the system's zone, at any
\* time of day, in every zone less than half a day from UTC.
THEOREM TimeZoneTrue == DeviceSpec => []TimeZoneTold
<1>1. DeviceInv => TimeZoneTold
  BY DEF DeviceInv
<1> QED BY <1>1, DeviceInvariant, PTL
=============================================================================
