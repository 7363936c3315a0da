----------------------------- MODULE JsonRpcClient -----------------------------
(* The one request the command-line tool sends to an endpoint: getGenesisHash   *)
(* (cli/src/jsonrpc).  Over a web socket it waits for the first connection, and *)
(* for the answer on the connection it was sent on; a connection that closes is *)
(* opened again after a second, the request is neither sent again nor rejected. *)
VARIABLE client  \* the socket of the client, and what became of the request

NoClient == [socket |-> "none", request |-> "none"]

\* new WsJsonRpcClient(endpoint), and send, which awaits isReady.
WsJsonRpcClient ==
    /\ client = NoClient
    /\ client' = [socket |-> "connecting", request |-> "unsent"]

\* An address no socket takes: the error is logged, send then fails for lack of a socket.
WsConnectThrows ==
    /\ client = NoClient
    /\ client' = [socket |-> "none", request |-> "rejected"]

\* The first connection resolves isReady, which sends the request; a later one resolves
\* a promise nobody awaits.
OnOpen ==
    /\ client.socket = "connecting"
    /\ client' = [socket |-> "open",
                  request |-> IF client.request = "unsent" THEN "sent" ELSE client.request]

\* Neither the request that was to go over this connection nor its answer will come.
OnSocketClose ==
    /\ client.socket \in {"connecting", "open"}
    /\ client' = [socket |-> "closed",
                  request |-> IF client.request \in {"unsent", "sent"} THEN "lost"
                              ELSE client.request]

Reconnect ==
    /\ client.socket = "closed"
    /\ client' = [client EXCEPT !.socket = "connecting"]

\* The handler of the request's id: a result, or an error of the endpoint.
OnSocketMessage ==
    /\ client.socket = "open" /\ client.request = "sent"
    /\ \E answer \in {"answered", "rejected"} : client' = [client EXCEPT !.request = answer]

\* Over HTTP: an answer, or an error, the time-out among them.
HttpSend ==
    /\ client = NoClient
    /\ \E answer \in {"answered", "rejected"} :
           client' = [socket |-> "none", request |-> answer]

Send == WsJsonRpcClient \/ WsConnectThrows \/ HttpSend

Connection == OnOpen \/ OnSocketClose \/ Reconnect \/ OnSocketMessage

\* destroy, or the end of the command.
Destroy == client' = NoClient
=============================================================================
