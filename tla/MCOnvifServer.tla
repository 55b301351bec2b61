--------------------------- MODULE MCOnvifServer ---------------------------
(* Requests for the model checker: two services, each operation on the     *)
(* subscriptions, a wrong path, a wrong line and a wrong Content-Length.   *)
EXTENDS OnvifServer, TLC

Soap(path, op, sub, limit) ==
    [line |-> TRUE, method |-> "POST", path |-> path, len |-> "body",
     op |-> op, sub |-> sub, limit |-> limit]

Get(path) ==
    [line |-> TRUE, method |-> "GET", path |-> path, len |-> "none",
     op |-> "none", sub |-> 0, limit |-> 0]

MCAsked ==
    "c1" :> {Soap(Events, "CreatePullPointSubscription", 0, 0),
             Soap(Events, "PullMessages", 0, 1),
             Soap(Events, "Unsubscribe", 1, 0)}
    @@ "c2" :> {Soap(Events, "PullMessages", 1, 2),
                Soap(Media, "GetSnapshotUri", 0, 0),
                Get(Device),
                [Get("/") EXCEPT !.line = FALSE],
                [Soap("/echo", "none", 0, 0) EXCEPT !.len = "bad"]}
MCMaxReq == "c1" :> 2 @@ "c2" :> 1
=============================================================================
