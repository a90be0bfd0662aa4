------------------------------ MODULE RdmaEvents ------------------------------
(***************************************************************************)
(* event_loop of rdma/common.c with the callbacks of rpc.c that it and the *)
(* completion thread call: requests of several clients at one server.      *)
(*                                                                         *)
(* A client runs an event loop for its one request; the server's thread    *)
(* runs one for all of them and takes their events in the order of its     *)
(* channel.  On both sides another thread, poll_cq, handles what arrives.  *)
(* What is in the messages is of no matter here, only whose they are and   *)
(* when a handler sends, disconnects or returns.                           *)
(*                                                                         *)
(* The server reads a message out of an event it has already acknowledged  *)
(* (common.c:193); the memory is assumed to still hold it.                 *)
(***************************************************************************)
EXTENDS Naturals, Sequences

CONSTANTS
    Requests,
    NULL,
    MaxMessages,   \* bound: messages of a request that are answered
    MaxFailures    \* bound: requests whose handshake fails

ASSUME EventsAssumption ==
    NULL \notin Requests /\ MaxMessages \in Nat /\ MaxFailures \in Nat

VARIABLES
    client,    \* where the client's event loop is
    closed,    \* requests for which it has DISCONNECTED (or REJECTED) to take
    serving,   \* the server's event_loop has not returned
    channel,   \* the server's events
    server,    \* the server's connection
    tmp_msg,   \* the slot in event_loop every connection's request_msg points to
    acted,     \* the message on_connection has acted on
    context,   \* the rdma_context of either end
    arrived,   \* the ends a message has arrived at
    handler,   \* on_completion of either end
    answered, failures,
    overtaken, \* requests whose slot was written again while they were pending
    hurried    \* requests whose client has sent and disconnected at once

clientVars == <<client, closed>>
serverVars == <<serving, channel, server, tmp_msg, acted, overtaken>>
exchangeVars == <<arrived, handler, answered, hurried>>
vars == <<clientVars, serverVars, context, exchangeVars, failures>>

Ends == Requests \X {"client", "server"}

Other(e) == <<e[1], IF e[2] = "client" THEN "server" ELSE "client">>

Init ==
    /\ client = [r \in Requests |-> "new"]
    /\ closed = {}
    /\ serving = TRUE
    /\ channel = <<>>
    /\ server = [r \in Requests |-> "none"]
    /\ tmp_msg = NULL
    /\ acted = [r \in Requests |-> NULL]
    /\ context = [e \in Ends |-> "none"]
    /\ arrived = {}
    /\ handler = [e \in Ends |-> "idle"]
    /\ answered = [r \in Requests |-> 0]
    /\ failures = 0
    /\ overtaken = {} /\ hurried = {}

Event(kind, r) == [kind |-> kind, id |-> r]

SetContext(e, v) == context' = [context EXCEPT ![e] = v]

(* The first rc_disconnect of either end gives both DISCONNECTED. *)
Disconnect(r) ==
    IF r \in closed \/ server[r] # "established" \/ client[r] # "connected"
    THEN UNCHANGED <<closed, channel>>
    ELSE /\ closed' = closed \cup {r}
         /\ channel' = IF serving THEN Append(channel, Event("DISCONNECTED", r)) ELSE channel
-----------------------------------------------------------------------------
(* A client *)

AddrResolved(r) ==
    /\ client[r] = "new"
    /\ client' = [client EXCEPT ![r] = "resolved"]
    /\ SetContext(<<r, "client">>, "live")
    /\ UNCHANGED <<closed, serverVars, exchangeVars, failures>>

(* Where nobody listens the request is rejected. *)
RouteResolved(r) ==
    /\ client[r] = "resolved"
    /\ client' = [client EXCEPT ![r] = "connecting"]
    /\ IF serving
       THEN channel' = Append(channel, Event("CONNECT_REQUEST", r)) /\ UNCHANGED closed
       ELSE closed' = closed \cup {r} /\ UNCHANGED channel
    /\ UNCHANGED <<serving, server, tmp_msg, acted, overtaken, context, exchangeVars, failures>>

(* rdma_accept has reached the client and its answer the server. *)
HandshakeDone(r) ==
    /\ client[r] = "connecting" /\ server[r] = "accepted" /\ r \notin closed
    /\ client' = [client EXCEPT ![r] = "connected"]
    /\ channel' = Append(channel, Event("ESTABLISHED", r))
    /\ UNCHANGED <<closed, serving, server, tmp_msg, acted, overtaken, context, exchangeVars,
                   failures>>

(***************************************************************************)
(* An event it does not know (ADDR_ERROR, UNREACHABLE, CONNECT_ERROR ...)  *)
(* ends the client's loop without a callback.  The server hears of it if   *)
(* the client had already asked it.                                        *)
(***************************************************************************)
ClientFails(r) ==
    /\ failures < MaxFailures
    /\ failures' = failures + 1
    /\ client[r] \in {"new", "resolved", "connecting"} /\ r \notin closed
    /\ client' = [client EXCEPT ![r] = "returned"]
    /\ IF client[r] = "connecting" /\ serving
       THEN \E kind \in {"REJECTED", "CONNECT_ERROR"} : channel' = Append(channel, Event(kind, r))
       ELSE UNCHANGED channel
    /\ UNCHANGED <<closed, serving, server, tmp_msg, acted, overtaken, context, exchangeVars>>

(* Plausible bug: the loop goes on after the disconnect. *)
ClientDisconnectedListening(r) ==
    /\ r \in closed
    /\ closed' = closed \ {r}
    /\ SetContext(<<r, "client">>, "freed")
    /\ arrived' = arrived \ {<<r, "client">>}
    /\ UNCHANGED <<client, serverVars, handler, answered, hurried, failures>>

ClientDisconnected(r) ==
    /\ r \in closed /\ client[r] # "returned"
    /\ client' = [client EXCEPT ![r] = "returned"]
    /\ SetContext(<<r, "client">>, "freed")
    /\ arrived' = arrived \ {<<r, "client">>}
    /\ UNCHANGED <<closed, serverVars, handler, answered, hurried, failures>>
-----------------------------------------------------------------------------
(* The server's thread *)

Takes(kind, r) ==
    /\ serving /\ channel # <<>>
    /\ Head(channel) = Event(kind, r)

Pending == {r \in Requests : server[r] = "accepted"}

(* Plausible bug: the slot is only filled for the first request. *)
ConnectRequestUncopied(r) ==
    /\ Takes("CONNECT_REQUEST", r)
    /\ channel' = Tail(channel)
    /\ tmp_msg' = IF tmp_msg = NULL THEN r ELSE tmp_msg
    /\ overtaken' = overtaken \cup Pending
    /\ server' = [server EXCEPT ![r] = "accepted"]
    /\ SetContext(<<r, "server">>, "live")
    /\ UNCHANGED <<clientVars, serving, acted, exchangeVars, failures>>

ConnectRequest(r) ==
    /\ Takes("CONNECT_REQUEST", r)
    /\ channel' = Tail(channel)
    /\ tmp_msg' = r
    /\ overtaken' = overtaken \cup Pending
    /\ server' = [server EXCEPT ![r] = "accepted"]
    /\ SetContext(<<r, "server">>, "live")
    /\ UNCHANGED <<clientVars, serving, acted, exchangeVars, failures>>

(***************************************************************************)
(* on_connection acts on what the slot holds by now: it sends the first    *)
(* message of the exchange or disconnects.                                 *)
(***************************************************************************)
Established(r) ==
    /\ Takes("ESTABLISHED", r)
    /\ acted' = [acted EXCEPT ![r] = tmp_msg]
    /\ server' = [server EXCEPT ![r] = "established"]
    /\ \/ /\ arrived' = arrived \cup {<<r, "client">>}
          /\ channel' = Tail(channel)
          /\ UNCHANGED closed
       \/ /\ closed' = closed \cup {r}
          /\ channel' = Append(Tail(channel), Event("DISCONNECTED", r))
          /\ UNCHANGED arrived
    /\ UNCHANGED <<client, serving, tmp_msg, overtaken, context, handler, answered, hurried,
                   failures>>

(* Plausible bug: exit_on_disconnect is set for the server. *)
DisconnectedExit(r) ==
    /\ Takes("DISCONNECTED", r)
    /\ channel' = <<>>
    /\ serving' = FALSE
    /\ closed' = closed \cup {p \in Requests : client[p] \in {"connecting", "connected"}}
    /\ server' = [server EXCEPT ![r] = "closed"]
    /\ SetContext(<<r, "server">>, "freed")
    /\ arrived' = arrived \ {<<r, "server">>}
    /\ UNCHANGED <<client, tmp_msg, acted, overtaken, handler, answered, hurried, failures>>

(* What has not been polled goes with the queue pair. *)
Disconnected(r) ==
    /\ Takes("DISCONNECTED", r)
    /\ channel' = Tail(channel)
    /\ server' = [server EXCEPT ![r] = "closed"]
    /\ SetContext(<<r, "server">>, "freed")
    /\ arrived' = arrived \ {<<r, "server">>}
    /\ UNCHANGED <<clientVars, serving, tmp_msg, acted, overtaken, handler, answered, hurried,
                   failures>>

(***************************************************************************)
(* After any other event the server's loop returns.  The channel is        *)
(* destroyed, and every connection of it with it.                          *)
(***************************************************************************)
ServerReturns(r) ==
    /\ Takes("REJECTED", r) \/ Takes("CONNECT_ERROR", r)
    /\ serving' = FALSE
    /\ channel' = <<>>
    /\ closed' = closed \cup {p \in Requests : client[p] \in {"connecting", "connected"}}
    /\ IF Takes("REJECTED", r) THEN SetContext(<<r, "server">>, "freed") ELSE UNCHANGED context
    /\ UNCHANGED <<client, server, tmp_msg, acted, overtaken, exchangeVars, failures>>
-----------------------------------------------------------------------------
(* poll_cq: one thread on the server, one on each client *)

Polled(e) ==
    /\ e \in arrived
    /\ e[2] = "server" => \A r \in Requests : handler[<<r, "server">>] = "idle"
    /\ handler[e] = "idle"
    /\ arrived' = arrived \ {e}
    /\ handler' = [handler EXCEPT ![e] = "running"]
    /\ UNCHANGED <<clientVars, serverVars, context, answered, hurried, failures>>

(* A message to an end whose queue pair is gone is lost. *)
Deliver(e) == arrived' = IF context[e] = "live" THEN arrived \cup {e} ELSE arrived

(* Plausible bug: the sender disconnects as well (rpc.c:910). *)
AnswerAndDisconnect(e) ==
    /\ handler[e] = "running"
    /\ answered[e[1]] < MaxMessages
    /\ answered' = [answered EXCEPT ![e[1]] = @ + 1]
    /\ Deliver(Other(e))
    /\ Disconnect(e[1])
    /\ handler' = [handler EXCEPT ![e] = "idle"]
    /\ UNCHANGED <<client, serving, server, tmp_msg, acted, overtaken, context, hurried, failures>>

Answer(e) ==
    /\ handler[e] = "running"
    /\ answered[e[1]] < MaxMessages
    /\ answered' = [answered EXCEPT ![e[1]] = @ + 1]
    /\ Deliver(Other(e))
    /\ handler' = [handler EXCEPT ![e] = "idle"]
    /\ UNCHANGED <<clientVars, serverVars, context, hurried, failures>>

(* rc_disconnect, after which the handler goes on comparing ctx->msg->id *)
Finish(e) ==
    /\ handler[e] = "running"
    /\ Disconnect(e[1])
    /\ handler' = [handler EXCEPT ![e] = "finished"]
    /\ UNCHANGED <<client, serving, server, tmp_msg, acted, overtaken, context, arrived, answered,
                   hurried, failures>>

(* BUT_NOT_PULL: the client sends and disconnects. *)
Decline(e) ==
    /\ e[2] = "client"
    /\ handler[e] = "running"
    /\ Deliver(Other(e))
    /\ Disconnect(e[1])
    /\ hurried' = hurried \cup {e[1]}
    /\ handler' = [handler EXCEPT ![e] = "finished"]
    /\ UNCHANGED <<client, serving, server, tmp_msg, acted, overtaken, context, answered, failures>>

Return(e) ==
    /\ handler[e] = "finished"
    /\ handler' = [handler EXCEPT ![e] = "idle"]
    /\ UNCHANGED <<clientVars, serverVars, context, arrived, answered, hurried, failures>>

Step(r) ==
    \/ AddrResolved(r) \/ RouteResolved(r) \/ HandshakeDone(r) \/ ClientDisconnected(r)
    \/ ConnectRequest(r) \/ Established(r) \/ Disconnected(r) \/ ServerReturns(r)
    \/ \E e \in {<<r, "client">>, <<r, "server">>} :
          Polled(e) \/ Answer(e) \/ Finish(e) \/ Decline(e) \/ Return(e)

Next == \E r \in Requests : Step(r) \/ ClientFails(r)

Fairness == \A r \in Requests : WF_vars(Step(r))

Spec == Init /\ [][Next]_vars /\ Fairness
-----------------------------------------------------------------------------
(***************************************************************************)
(* on_connection acts on the message of the request itself (rpc.c:63).     *)
(***************************************************************************)
OwnMessage == \A r \in Requests : acted[r] \in {NULL, r}

(***************************************************************************)
(* The server takes a request for another one only if that one's connect   *)
(* request came between its own and the end of its handshake.              *)
(***************************************************************************)
OwnMessageUnlessOvertaken ==
    \A r \in Requests : acted[r] \in {NULL, r} \/ r \in overtaken

(***************************************************************************)
(* A handler that has not itself disconnected does not find its context    *)
(* freed by the event loop, except while the client declines a block       *)
(* (rpc.c:915) or when the server's loop has returned.                     *)
(***************************************************************************)
HandlersContextLives ==
    \A e \in Ends :
        handler[e] = "running" => context[e] = "live" \/ e[1] \in hurried \/ ~serving

(***************************************************************************)
(* Where no handshake fails, the server gets round to every request.       *)
(***************************************************************************)
EveryRequestHandled == \A r \in Requests : <>(acted[r] # NULL \/ failures > 0)

(***************************************************************************)
(* Every request ends: its client's loop returns, even when the server's   *)
(* has.                                                                    *)
(***************************************************************************)
RequestsEnd == \A r \in Requests : <>(client[r] = "returned")
=============================================================================
