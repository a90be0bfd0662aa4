--------------------------- MODULE RdmaEventsProofs ---------------------------
(***************************************************************************)
(* With any number of requests, a connection is served with another one's  *)
(* message only if its slot was written again while it was pending, and a  *)
(* completion handler keeps its context until it disconnects itself.       *)
(***************************************************************************)
EXTENDS RdmaEvents, TLAPS

Kinds == {"CONNECT_REQUEST", "ESTABLISHED", "DISCONNECTED", "REJECTED", "CONNECT_ERROR"}

Events == [kind : Kinds, id : Requests]

TypeInv ==
    /\ client \in [Requests -> {"new", "resolved", "connecting", "connected", "returned"}]
    /\ channel \in Seq(Events)
    /\ server \in [Requests -> {"none", "accepted", "established", "closed"}]
    /\ acted \in [Requests -> Requests \cup {NULL}]
    /\ tmp_msg \in Requests \cup {NULL}
    /\ overtaken \subseteq Requests

(* How far client and server have come when an event of theirs waits in the channel. *)
InOrder(kind, c, s) ==
    /\ kind = "CONNECT_REQUEST" => s = "none" /\ c \in {"connecting", "returned"}
    /\ kind = "ESTABLISHED" => s = "accepted" /\ c \in {"connected", "returned"}
    /\ kind = "DISCONNECTED" => s \in {"established", "closed"} /\ c \in {"connected", "returned"}

ChannelInOrder ==
    \A i \in 1..Len(channel) :
        LET e == channel[i] IN InOrder(e.kind, client[e.id], server[e.id])

(* A connection is asked for once and established once. *)
Once ==
    \A i, j \in 1..Len(channel) :
        channel[i] = channel[j] /\ channel[i].kind \in {"CONNECT_REQUEST", "ESTABLISHED"} => i = j

(* Before a client has connected the server knows nothing of it. *)
Unknown == \A r \in Requests : client[r] \in {"new", "resolved"} => server[r] = "none"

SlotIsOwn == \A r \in Requests : server[r] = "accepted" => tmp_msg = r \/ r \in overtaken

IInv ==
    /\ TypeInv /\ ChannelInOrder /\ Once /\ Unknown /\ SlotIsOwn
    /\ OwnMessageUnlessOvertaken
-----------------------------------------------------------------------------
(* An event goes to the end of the channel. *)
LEMMA AppendEvent ==
    ASSUME channel \in Seq(Events), NEW e \in Events, channel' = Append(channel, e)
    PROVE  /\ channel' \in Seq(Events)
           /\ Len(channel') = Len(channel) + 1 /\ Len(channel) \in Nat
           /\ \A i \in 1..Len(channel) : channel'[i] = channel[i]
           /\ channel'[Len(channel) + 1] = e
  OBVIOUS

(* The event at the head is taken out of the channel. *)
LEMMA TailEvent ==
    ASSUME channel \in Seq(Events), channel # <<>>, channel' = Tail(channel)
    PROVE  /\ channel' \in Seq(Events)
           /\ Head(channel) = channel[1] /\ 1 \in 1..Len(channel)
           /\ Len(channel') = Len(channel) - 1 /\ Len(channel) \in Nat
           /\ \A i \in 1..Len(channel') : i + 1 \in 1..Len(channel) /\ channel'[i] = channel[i + 1]
  OBVIOUS

(* An event has a kind and a request. *)
LEMMA EventFields ==
    ASSUME NEW k \in Kinds, NEW r \in Requests
    PROVE  /\ Event(k, r) \in Events
           /\ Event(k, r).kind = k /\ Event(k, r).id = r
  BY DEF Event, Events

(* A client that goes on while the channel stays as it is disturbs nothing. *)
LEMMA ClientMoves ==
    ASSUME IInv, NEW r \in Requests,
           NEW s \in {"resolved", "connecting", "returned"},
           client' = [client EXCEPT ![r] = s],
           s = "resolved" => client[r] = "new",
           s = "connecting" => client[r] = "resolved",
           UNCHANGED serverVars
    PROVE  IInv'
  <1> USE DEF IInv, TypeInv, serverVars
  <1>1. TypeInv'
    OBVIOUS
  <1>2. \A i \in 1..Len(channel) : channel[i] \in Events
    OBVIOUS
  <1>3. ChannelInOrder'
    BY <1>2 DEF ChannelInOrder, InOrder, Events
  <1>4. Once' /\ SlotIsOwn' /\ OwnMessageUnlessOvertaken'
    BY DEF Once, SlotIsOwn, OwnMessageUnlessOvertaken
  <1>5. Unknown'
    BY DEF Unknown
  <1> QED
    BY <1>1, <1>3, <1>4, <1>5

(* An event is appended after its client, and nobody else, has gone on. *)
LEMMA Appended ==
    ASSUME IInv, NEW r \in Requests, NEW k \in Kinds,
           NEW s \in {"connecting", "connected", "returned"},
           client' = [client EXCEPT ![r] = s],
           channel' = Append(channel, Event(k, r)),
           UNCHANGED <<server, tmp_msg, acted, overtaken>>,
           InOrder(k, s, server[r]),
           \A i \in 1..Len(channel) :
               channel[i].id = r => InOrder(channel[i].kind, s, server[r]),
           k \in {"CONNECT_REQUEST", "ESTABLISHED"} =>
               \A i \in 1..Len(channel) : channel[i] # Event(k, r)
    PROVE  IInv'
  <1> DEFINE e == Event(k, r)
  <1>0. e \in Events /\ e.kind = k /\ e.id = r
    BY EventFields
  <1> HIDE DEF e
  <1>00. channel' = Append(channel, e)
    BY DEF e
  <1>1. /\ channel' \in Seq(Events)
        /\ Len(channel') = Len(channel) + 1 /\ Len(channel) \in Nat
        /\ \A i \in 1..Len(channel) : channel'[i] = channel[i]
        /\ channel'[Len(channel) + 1] = e
    BY <1>0, <1>00, AppendEvent DEF IInv, TypeInv
  <1>2. TypeInv'
    BY <1>1 DEF IInv, TypeInv
  <1>3. ChannelInOrder'
    <2> SUFFICES ASSUME NEW i \in 1..Len(channel')
                 PROVE  InOrder(channel'[i].kind, client'[channel'[i].id], server'[channel'[i].id])
      BY DEF ChannelInOrder
    <2>1. CASE i = Len(channel) + 1
      BY <2>1, <1>0, <1>1 DEF IInv, TypeInv
    <2>2. CASE i # Len(channel) + 1
      <3>1. i \in 1..Len(channel) /\ channel'[i] = channel[i] /\ channel[i] \in Events
        BY <2>2, <1>1 DEF IInv, TypeInv
      <3>2. CASE channel[i].id = r
        BY <3>1, <3>2 DEF IInv, TypeInv
      <3>3. CASE channel[i].id # r
        <4>1. channel[i].id \in Requests
          BY <3>1 DEF Events
        <4>2. InOrder(channel[i].kind, client[channel[i].id], server[channel[i].id])
          BY <3>1 DEF IInv, ChannelInOrder
        <4>3. client'[channel[i].id] = client[channel[i].id]
          BY <4>1, <3>3 DEF IInv, TypeInv
        <4> QED
          BY <3>1, <4>2, <4>3
      <3> QED
        BY <3>2, <3>3
    <2> QED
      BY <2>1, <2>2
  <1>4. Once'
    <2> SUFFICES ASSUME NEW i \in 1..Len(channel'), NEW j \in 1..Len(channel'),
                        channel'[i] = channel'[j],
                        channel'[i].kind \in {"CONNECT_REQUEST", "ESTABLISHED"}, i # j
                 PROVE  FALSE
      BY DEF Once
    <2>1. \A n \in 1..Len(channel') :
             \/ n = Len(channel) + 1 /\ channel'[n] = e
             \/ n \in 1..Len(channel) /\ channel'[n] = channel[n]
      BY <1>1
    <2>2. e.kind \in {"CONNECT_REQUEST", "ESTABLISHED"} =>
             \A n \in 1..Len(channel) : channel[n] # e
      BY <1>0 DEF e
    <2> QED
      BY <2>1, <2>2 DEF IInv, Once
  <1>5. Unknown' /\ SlotIsOwn' /\ OwnMessageUnlessOvertaken'
    BY DEF IInv, TypeInv, Unknown, SlotIsOwn, OwnMessageUnlessOvertaken
  <1> QED
    BY <1>2, <1>3, <1>4, <1>5 DEF IInv

(* The server takes an event and brings its connection to state s. *)
LEMMA Taken ==
    ASSUME IInv, NEW r \in Requests, NEW k \in Kinds,
           NEW s \in {"accepted", "established", "closed"},
           Takes(k, r),
           \/ channel' = Tail(channel)
           \/ /\ channel' = Append(Tail(channel), Event("DISCONNECTED", r))
              /\ InOrder("DISCONNECTED", client[r], s),
           server' = [server EXCEPT ![r] = s],
           UNCHANGED client,
           \A kind \in Kinds :
               (/\ InOrder(kind, client[r], server[r])
                /\ ~(kind = k /\ k \in {"CONNECT_REQUEST", "ESTABLISHED"}))
               => InOrder(kind, client[r], s)
    PROVE  channel' \in Seq(Events) /\ ChannelInOrder' /\ Once'
  <1> DEFINE d == Event("DISCONNECTED", r)
             e == Event(k, r)
  <1>1. /\ d \in Events /\ d.kind = "DISCONNECTED" /\ d.id = r
        /\ e \in Events /\ e.kind = k /\ e.id = r
    BY EventFields DEF Kinds
  <1>2. channel \in Seq(Events) /\ channel # <<>> /\ Head(channel) = e
    BY DEF Takes, IInv, TypeInv
  <1>3. channel' = Tail(channel) \/ channel' = Append(Tail(channel), d)
    OBVIOUS
  <1>4. channel' = Append(Tail(channel), d) =>
            InOrder("DISCONNECTED", client[r], s) \/ channel' = Tail(channel)
    OBVIOUS
  <1> HIDE DEF d, e
  <1>5. /\ channel' \in Seq(Events)
        /\ channel[1] = e /\ 1 \in 1..Len(channel)
        /\ \A i \in 1..Len(channel') :
              \/ i + 1 \in 1..Len(channel) /\ channel'[i] = channel[i + 1]
              \/ channel' # Tail(channel) /\ channel'[i] = d
    <2> DEFINE t == Tail(channel)
    <2>1. /\ t \in Seq(Events) /\ Len(t) = Len(channel) - 1 /\ Len(channel) \in Nat
          /\ channel[1] = e /\ 1 \in 1..Len(channel)
          /\ \A i \in 1..Len(t) : i + 1 \in 1..Len(channel) /\ t[i] = channel[i + 1]
      BY <1>2
    <2> HIDE DEF t
    <2>2. CASE channel' = t
      BY <2>1, <2>2
    <2>3. CASE channel' = Append(t, d) /\ channel' # t
      <3>1. /\ channel' \in Seq(Events) /\ Len(channel') = Len(t) + 1 /\ Len(t) \in Nat
            /\ \A i \in 1..Len(t) : channel'[i] = t[i]
            /\ channel'[Len(t) + 1] = d
        BY <2>1, <2>3, <1>1
      <3>2. channel' # Tail(channel)
        BY <2>3 DEF t
      <3> QED
        BY <2>1, <3>1, <3>2
    <2> QED
      BY <2>2, <2>3, <1>3 DEF t
  <1>6. \A i \in 1..Len(channel) : i # 1 =>
           ~(channel[i] = e /\ k \in {"CONNECT_REQUEST", "ESTABLISHED"})
    BY <1>1, <1>5 DEF IInv, Once
  <1>7. ChannelInOrder'
    <2> SUFFICES ASSUME NEW i \in 1..Len(channel')
                 PROVE  InOrder(channel'[i].kind, client'[channel'[i].id], server'[channel'[i].id])
      BY DEF ChannelInOrder
    <2>1. CASE channel' # Tail(channel) /\ channel'[i] = d
      BY <2>1, <1>1, <1>3, <1>4 DEF IInv, TypeInv
    <2>2. CASE i + 1 \in 1..Len(channel) /\ channel'[i] = channel[i + 1]
      <3> DEFINE f == channel[i + 1]
      <3>1. f \in Events /\ f.id \in Requests /\ f.kind \in Kinds
        <4>1. f \in Events
          BY <2>2, <1>2
        <4> QED
          BY <4>1 DEF Events
      <3>2. InOrder(f.kind, client[f.id], server[f.id])
        BY <2>2 DEF IInv, ChannelInOrder
      <3>3. CASE f.id # r
        BY <2>2, <3>1, <3>2, <3>3 DEF IInv, TypeInv
      <3>4. CASE f.id = r
        <4>1. ~(f.kind = k /\ k \in {"CONNECT_REQUEST", "ESTABLISHED"})
          <5>1. f.kind = k => f = e
            BY <3>1, <3>4 DEF e, Event, Events
          <5> QED
            BY <5>1, <1>6, <2>2
        <4> QED
          BY <2>2, <3>1, <3>2, <3>4, <4>1 DEF IInv, TypeInv
      <3> QED
        BY <3>3, <3>4
    <2> QED
      BY <2>1, <2>2, <1>5
  <1>8. Once'
    <2> SUFFICES ASSUME NEW i \in 1..Len(channel'), NEW j \in 1..Len(channel'),
                        channel'[i] = channel'[j],
                        channel'[i].kind \in {"CONNECT_REQUEST", "ESTABLISHED"}
                 PROVE  i = j
      BY DEF Once
    <2>1. /\ i + 1 \in 1..Len(channel) /\ channel'[i] = channel[i + 1]
          /\ j + 1 \in 1..Len(channel) /\ channel'[j] = channel[j + 1]
      BY <1>1, <1>5
    <2>2. i + 1 = j + 1
      BY <2>1 DEF IInv, Once
    <2> QED
      BY <2>2
  <1> QED
    BY <1>5, <1>7, <1>8

(* on_connect_request writes the slot and accepts: from here on it may be overtaken. *)
LEMMA ConnectRequestKeeps ==
    ASSUME IInv, NEW r \in Requests, ConnectRequest(r)
    PROVE  IInv'
  <1> USE DEF ConnectRequest
  <1>1. channel' \in Seq(Events) /\ ChannelInOrder' /\ Once'
    <2>1. InOrder("CONNECT_REQUEST", client[r], server[r])
      <3>1. /\ channel[1] = Event("CONNECT_REQUEST", r)
            /\ 1 \in 1..Len(channel)
        BY DEF Takes, IInv, TypeInv
      <3> QED
        BY <3>1 DEF IInv, ChannelInOrder, Event
    <2>2. client' = client
      BY DEF clientVars
    <2> QED
      BY <2>1, <2>2, Taken DEF Kinds, InOrder
  <1>2. TypeInv'
    BY <1>1 DEF IInv, TypeInv, clientVars, Pending
  <1>3. Unknown'
    <2>1. client[r] \in {"connecting", "returned"}
      <3>1. /\ channel[1] = Event("CONNECT_REQUEST", r)
            /\ 1 \in 1..Len(channel)
        BY DEF Takes, IInv, TypeInv
      <3> QED
        BY <3>1 DEF IInv, ChannelInOrder, Event, InOrder
    <2> QED
      BY <2>1 DEF IInv, TypeInv, Unknown, clientVars
  <1>4. SlotIsOwn'
    BY DEF IInv, TypeInv, SlotIsOwn, Pending
  <1>5. OwnMessageUnlessOvertaken'
    BY DEF IInv, OwnMessageUnlessOvertaken
  <1> QED
    BY <1>1, <1>2, <1>3, <1>4, <1>5 DEF IInv

(* on_connection takes whose message is in the slot. *)
LEMMA EstablishedKeeps ==
    ASSUME IInv, NEW r \in Requests, Established(r)
    PROVE  IInv'
  <1> USE DEF Established
  <1>1. InOrder("ESTABLISHED", client[r], server[r])
    <2>1. /\ channel[1] = Event("ESTABLISHED", r)
          /\ 1 \in 1..Len(channel)
      BY DEF Takes, IInv, TypeInv
    <2> QED
      BY <2>1 DEF IInv, ChannelInOrder, Event
  <1>2. channel' \in Seq(Events) /\ ChannelInOrder' /\ Once'
    BY <1>1, Taken DEF Kinds, InOrder
  <1>3. TypeInv'
    BY <1>2 DEF IInv, TypeInv
  <1>4. Unknown' /\ SlotIsOwn'
    BY <1>1 DEF IInv, TypeInv, Unknown, SlotIsOwn, InOrder
  <1>5. OwnMessageUnlessOvertaken'
    BY <1>1 DEF IInv, TypeInv, SlotIsOwn, OwnMessageUnlessOvertaken, InOrder
  <1> QED
    BY <1>2, <1>3, <1>4, <1>5 DEF IInv

(* A disconnect is the last event of its request. *)
LEMMA DisconnectedKeeps ==
    ASSUME IInv, NEW r \in Requests, Disconnected(r)
    PROVE  IInv'
  <1> USE DEF Disconnected
  <1>1. InOrder("DISCONNECTED", client[r], server[r])
    <2>1. /\ channel[1] = Event("DISCONNECTED", r)
          /\ 1 \in 1..Len(channel)
      BY DEF Takes, IInv, TypeInv
    <2> QED
      BY <2>1 DEF IInv, ChannelInOrder, Event
  <1>2. client' = client
    BY DEF clientVars
  <1>3. channel' \in Seq(Events) /\ ChannelInOrder' /\ Once'
    BY <1>1, <1>2, Taken DEF Kinds, InOrder
  <1>4. TypeInv'
    BY <1>2, <1>3 DEF IInv, TypeInv
  <1>5. Unknown' /\ SlotIsOwn' /\ OwnMessageUnlessOvertaken'
    BY <1>1, <1>2 DEF IInv, TypeInv, Unknown, SlotIsOwn, OwnMessageUnlessOvertaken, InOrder
  <1> QED
    BY <1>3, <1>4, <1>5 DEF IInv

(* A server loop that returns drops its events and acts on none. *)
LEMMA ServerReturnsKeeps ==
    ASSUME IInv, NEW r \in Requests, ServerReturns(r)
    PROVE  IInv'
  <1>1. channel' = <<>> /\ UNCHANGED <<client, server, tmp_msg, acted, overtaken>>
    BY DEF ServerReturns
  <1>2. ChannelInOrder' /\ Once'
    BY <1>1 DEF ChannelInOrder, Once
  <1>3. TypeInv'
    BY <1>1 DEF IInv, TypeInv
  <1>4. Unknown' /\ SlotIsOwn' /\ OwnMessageUnlessOvertaken'
    BY <1>1 DEF IInv, Unknown, SlotIsOwn, OwnMessageUnlessOvertaken
  <1> QED
    BY <1>2, <1>3, <1>4 DEF IInv

(* A step elsewhere. *)
LEMMA Unchanged ==
    ASSUME IInv, UNCHANGED <<client, channel, server, tmp_msg, acted, overtaken>>
    PROVE  IInv'
  BY DEF IInv, TypeInv, ChannelInOrder, Once, Unknown, SlotIsOwn, OwnMessageUnlessOvertaken

(* What is asked of Appended of the events of r that wait already, when client r goes on. *)
LEMMA Waiting ==
    ASSUME IInv, NEW r \in Requests, NEW i \in 1..Len(channel), channel[i].id = r
    PROVE  InOrder(channel[i].kind, client[r], server[r])
  BY DEF IInv, ChannelInOrder

(* An end that disconnects puts an event in the channel at most. *)
LEMMA DisconnectKeeps ==
    ASSUME IInv, NEW r \in Requests, Disconnect(r),
           UNCHANGED <<client, server, tmp_msg, acted, overtaken>>
    PROVE  IInv'
  <1>1. CASE channel' = channel
    BY <1>1, Unchanged
  <1>2. CASE channel' # channel
    <2>1. /\ server[r] = "established" /\ client[r] = "connected"
          /\ channel' = Append(channel, Event("DISCONNECTED", r))
      BY <1>2 DEF Disconnect
    <2>2. client' = [client EXCEPT ![r] = "connected"]
      BY <2>1 DEF IInv, TypeInv
    <2>3. InOrder("DISCONNECTED", "connected", server[r]) /\ "DISCONNECTED" \in Kinds
      BY <2>1 DEF InOrder, Kinds
    <2>4. \A i \in 1..Len(channel) :
             channel[i].id = r => InOrder(channel[i].kind, "connected", server[r])
      BY <2>1, Waiting
    <2> QED
      BY <2>1, <2>2, <2>3, <2>4, Appended
  <1> QED
    BY <1>1, <1>2

(* A client asks for its connection once. *)
LEMMA RouteResolvedKeeps ==
    ASSUME IInv, NEW r \in Requests, RouteResolved(r)
    PROVE  IInv'
  <1> USE DEF RouteResolved
  <1>1. CASE serving
    <2>1. server[r] = "none"
      BY DEF IInv, Unknown
    <2>2. \A i \in 1..Len(channel) : channel[i].id = r =>
            channel[i].kind \notin {"CONNECT_REQUEST", "ESTABLISHED", "DISCONNECTED"}
      BY Waiting DEF InOrder
    <2>3. InOrder("CONNECT_REQUEST", "connecting", server[r]) /\ "CONNECT_REQUEST" \in Kinds
      BY <2>1 DEF InOrder, Kinds
    <2>4. \A i \in 1..Len(channel) :
             channel[i].id = r => InOrder(channel[i].kind, "connecting", server[r])
      BY <2>2 DEF InOrder
    <2>5. \A i \in 1..Len(channel) : channel[i] # Event("CONNECT_REQUEST", r)
      BY <2>2 DEF Event
    <2> QED
      BY <1>1, <2>3, <2>4, <2>5, Appended
  <1>2. CASE ~serving
    BY <1>2, ClientMoves DEF serverVars
  <1> QED
    BY <1>1, <1>2

(* The establishment comes after the request has been accepted. *)
LEMMA HandshakeDoneKeeps ==
    ASSUME IInv, NEW r \in Requests, HandshakeDone(r)
    PROVE  IInv'
  <1> USE DEF HandshakeDone
  <1>1. \A i \in 1..Len(channel) : channel[i].id = r =>
            channel[i].kind \notin {"CONNECT_REQUEST", "ESTABLISHED", "DISCONNECTED"}
    BY Waiting DEF InOrder
  <1>2. InOrder("ESTABLISHED", "connected", server[r]) /\ "ESTABLISHED" \in Kinds
    BY DEF InOrder, Kinds
  <1>3. \A i \in 1..Len(channel) :
           channel[i].id = r => InOrder(channel[i].kind, "connected", server[r])
    BY <1>1 DEF InOrder
  <1>4. \A i \in 1..Len(channel) : channel[i] # Event("ESTABLISHED", r)
    BY <1>1 DEF Event
  <1> QED
    BY <1>2, <1>3, <1>4, Appended

(* A client that fails leaves its events in the channel. *)
LEMMA ClientFailsKeeps ==
    ASSUME IInv, NEW r \in Requests, ClientFails(r)
    PROVE  IInv'
  <1>1. client' = [client EXCEPT ![r] = "returned"]
        /\ UNCHANGED <<server, tmp_msg, acted, overtaken>>
    BY DEF ClientFails
  <1>2. CASE channel' = channel
    BY <1>1, <1>2, ClientMoves DEF ClientFails, serverVars
  <1>3. CASE channel' # channel
    <2>1. PICK kind \in {"REJECTED", "CONNECT_ERROR"} : channel' = Append(channel, Event(kind, r))
      BY <1>3 DEF ClientFails
    <2>2. InOrder(kind, "returned", server[r]) /\ kind \in Kinds
      BY DEF InOrder, Kinds
    <2>3. \A i \in 1..Len(channel) :
             channel[i].id = r => InOrder(channel[i].kind, "returned", server[r])
      BY Waiting DEF InOrder
    <2> QED
      BY <1>1, <2>1, <2>2, <2>3, Appended
  <1> QED
    BY <1>2, <1>3

(* Handler by handler, the invariant holds throughout. *)
LEMMA InductiveInvariant == Spec => []IInv
  <1>1. Init => IInv
    BY DEF Init, IInv, TypeInv, ChannelInOrder, Once, Unknown, SlotIsOwn, OwnMessageUnlessOvertaken
  <1>2. IInv /\ [Next]_vars => IInv'
    <2> SUFFICES ASSUME IInv, [Next]_vars PROVE IInv'
      OBVIOUS
    <2>1. CASE UNCHANGED vars
      BY <2>1, Unchanged DEF vars, clientVars, serverVars
    <2>2. ASSUME NEW r \in Requests, ClientFails(r) PROVE IInv'
      BY <2>2, ClientFailsKeeps
    <2>3. ASSUME NEW r \in Requests, Step(r) PROVE IInv'
      <3>1. CASE AddrResolved(r)
        BY <3>1, ClientMoves DEF AddrResolved
      <3>2. CASE RouteResolved(r)
        BY <3>2, RouteResolvedKeeps
      <3>3. CASE HandshakeDone(r)
        BY <3>3, HandshakeDoneKeeps
      <3>4. CASE ClientDisconnected(r)
        BY <3>4, ClientMoves DEF ClientDisconnected
      <3>5. CASE ConnectRequest(r)
        BY <3>5, ConnectRequestKeeps
      <3>6. CASE Established(r)
        BY <3>6, EstablishedKeeps
      <3>7. CASE Disconnected(r)
        BY <3>7, DisconnectedKeeps
      <3>8. CASE ServerReturns(r)
        BY <3>8, ServerReturnsKeeps
      <3>9. ASSUME NEW e \in {<<r, "client">>, <<r, "server">>},
                   Polled(e) \/ Answer(e) \/ Finish(e) \/ Decline(e) \/ Return(e)
            PROVE  IInv'
        <4>1. CASE Polled(e) \/ Answer(e) \/ Return(e)
          BY <4>1, Unchanged DEF Polled, Answer, Return, clientVars, serverVars
        <4>2. CASE Finish(e) \/ Decline(e)
          <5>1. e[1] = r
            BY <3>9
          <5> QED
            BY <4>2, <5>1, DisconnectKeeps DEF Finish, Decline
        <4> QED
          BY <3>9, <4>1, <4>2
      <3> QED
        BY <2>3, <3>1, <3>2, <3>3, <3>4, <3>5, <3>6, <3>7, <3>8, <3>9 DEF Step
    <2> QED
      BY <2>1, <2>2, <2>3 DEF Next
  <1> QED
    BY <1>1, <1>2, PTL DEF Spec

(***************************************************************************)
(* event_loop keeps every message in one slot: for any number of clients a *)
(* connection is served with another one's message only where another      *)
(* connect request came in between (common.c:193).                         *)
(***************************************************************************)
THEOREM SlotCorrect == Spec => []OwnMessageUnlessOvertaken
  <1>1. IInv => OwnMessageUnlessOvertaken
    BY DEF IInv
  <1> QED
    BY <1>1, InductiveInvariant, PTL

-----------------------------------------------------------------------------
(* An end with a message to handle, or whose handler runs. *)
Busy(e) == e \in arrived \/ handler[e] = "running"

(***************************************************************************)
(* How the two ends of a request take turns: nothing is handled before the *)
(* handshake or after the disconnect, and only one end is busy.            *)
(***************************************************************************)
TakeTurns(r) ==
    LET c == <<r, "client">>
        s == <<r, "server">>
    IN  /\ server[r] \in {"none", "accepted"} => r \notin closed
        /\ server[r] = "closed" => r \in closed
        /\ r \in closed => ~Busy(c) /\ ~Busy(s)
        /\ Busy(c) \/ Busy(s) => server[r] = "established" /\ client[r] = "connected"
        /\ ~(Busy(c) /\ Busy(s))
        /\ \A e \in {c, s} : ~(e \in arrived /\ handler[e] = "running")
        /\ client[r] \in {"resolved", "connecting", "connected"} => context[c] = "live"
        /\ server[r] \in {"accepted", "established"} => context[s] = "live"

(* What an event in the channel says of its request. *)
Says(e) ==
    /\ e.kind = "DISCONNECTED" => e.id \in closed
    /\ e.kind = "ESTABLISHED" => client[e.id] = "connected" \/ e.id \in closed

InChannel == {channel[i] : i \in 1..Len(channel)}

Functions == context \in [Ends -> {"none", "live", "freed"}]
             /\ handler \in [Ends -> {"idle", "running", "finished"}]

(* The server's loop still runs and the client has not declined. *)
Regular(r) == serving /\ r \notin hurried

TInv ==
    /\ Functions
    /\ \A r \in Requests : Regular(r) => TakeTurns(r)
    /\ \A e \in InChannel : Regular(e.id) => Says(e)
-----------------------------------------------------------------------------
(* A step that is about request r only. *)
SameFor(q) ==
    /\ server'[q] = server[q] /\ client'[q] = client[q]
    /\ q \in closed' <=> q \in closed
    /\ q \in hurried' <=> q \in hurried
    /\ \A e \in {<<q, "client">>, <<q, "server">>} :
          /\ handler'[e] = handler[e] /\ context'[e] = context[e]
          /\ e \in arrived' <=> e \in arrived

(* A step about request r: what is to show of r, and what must be left of the others. *)
LEMMA StepOf ==
    ASSUME IInv, TInv, NEW r \in Requests, Functions',
           \A q \in Requests \ {r} : SameFor(q),
           serving' => serving, hurried \subseteq hurried', closed \subseteq closed',
           \A e \in InChannel' : e \in InChannel \/ e.id = r,
           Regular(r)' => TakeTurns(r)',
           \A e \in InChannel' : e.id = r /\ Regular(r)' => Says(e)'
    PROVE  TInv'
  <1>1. ASSUME NEW q \in Requests, Regular(q)' PROVE TakeTurns(q)'
    <2>1. CASE q = r
      BY <1>1, <2>1
    <2>2. CASE q # r
      <3>1. SameFor(q) /\ Regular(q)
        BY <1>1, <2>2 DEF SameFor, Regular
      <3>2. TakeTurns(q)
        BY <3>1 DEF TInv
      <3>3. /\ Busy(<<q, "client">>)' <=> Busy(<<q, "client">>)
            /\ Busy(<<q, "server">>)' <=> Busy(<<q, "server">>)
        BY <3>1 DEF SameFor, Busy
      <3> QED
        BY <3>1, <3>2, <3>3 DEF TakeTurns, SameFor
    <2> QED
      BY <2>1, <2>2
  <1>2. ASSUME NEW e \in InChannel', Regular(e.id)' PROVE Says(e)'
    <2>1. CASE e.id = r
      BY <1>2, <2>1
    <2>2. CASE e.id # r
      <3>1. e \in InChannel
        BY <2>2
      <3>2. e.id \in Requests
        <4>1. \A i \in 1..Len(channel) : channel[i] \in Events
          BY DEF IInv, TypeInv
        <4> QED
          BY <3>1, <4>1 DEF InChannel, Events
      <3>3. SameFor(e.id)
        BY <3>2, <2>2
      <3>4. Regular(e.id)
        BY <1>2, <3>3 DEF SameFor, Regular
      <3>5. Says(e)
        BY <3>1, <3>4 DEF TInv
      <3> QED
        BY <3>3, <3>5 DEF SameFor, Says
    <2> QED
      BY <2>1, <2>2
  <1> QED
    BY <1>1, <1>2 DEF TInv

(* The events that wait after one has been taken or added. *)
LEMMA ChannelSets ==
    ASSUME IInv
    PROVE  /\ channel # <<>> /\ channel' = Tail(channel) =>
                Head(channel) \in InChannel /\ InChannel' \subseteq InChannel
           /\ \A e \in Events : channel' = Append(channel, e) =>
                InChannel' = InChannel \cup {e}
           /\ \A e \in Events : channel # <<>> /\ channel' = Append(Tail(channel), e) =>
                InChannel' \subseteq InChannel \cup {e}
           /\ channel' = channel => InChannel' = InChannel
           /\ channel' = <<>> => InChannel' = {}
  <1> USE DEF InChannel
  <1>0. channel \in Seq(Events)
    BY DEF IInv, TypeInv
  <1>1. ASSUME channel # <<>>, channel' = Tail(channel)
        PROVE  Head(channel) \in InChannel /\ InChannel' \subseteq InChannel
    BY <1>0, <1>1, TailEvent
  <1>2. ASSUME NEW e \in Events, channel' = Append(channel, e)
        PROVE  InChannel' = InChannel \cup {e}
    <2>1. /\ Len(channel') = Len(channel) + 1 /\ Len(channel) \in Nat
          /\ \A i \in 1..Len(channel) : channel'[i] = channel[i]
          /\ channel'[Len(channel) + 1] = e
      BY <1>0, <1>2, AppendEvent
    <2>2. \A i \in 1..Len(channel') : i = Len(channel) + 1 \/ i \in 1..Len(channel)
      BY <2>1
    <2>3. \A i \in 1..Len(channel) : i \in 1..Len(channel')
      BY <2>1
    <2>4. Len(channel) + 1 \in 1..Len(channel')
      BY <2>1
    <2> QED
      BY <2>1, <2>2, <2>3, <2>4
  <1>3. ASSUME NEW e \in Events, channel # <<>>, channel' = Append(Tail(channel), e)
        PROVE  InChannel' \subseteq InChannel \cup {e}
    <2> DEFINE t == Tail(channel)
    <2>1. /\ t \in Seq(Events) /\ Len(t) = Len(channel) - 1 /\ Len(t) \in Nat
          /\ \A i \in 1..Len(t) : i + 1 \in 1..Len(channel) /\ t[i] = channel[i + 1]
      BY <1>0, <1>3
    <2> HIDE DEF t
    <2>2. channel' = Append(t, e)
      BY <1>3 DEF t
    <2>3. /\ Len(channel') = Len(t) + 1
          /\ \A i \in 1..Len(t) : channel'[i] = t[i]
          /\ channel'[Len(t) + 1] = e
      BY <2>1, <2>2
    <2>4. \A i \in 1..Len(channel') : i = Len(t) + 1 \/ i \in 1..Len(t)
      BY <2>1, <2>3
    <2> QED
      BY <2>1, <2>3, <2>4
  <1>4. ASSUME channel' = <<>> PROVE InChannel' = {}
    BY <1>4
  <1>5. ASSUME channel' = channel PROVE InChannel' = InChannel
    BY <1>5
  <1> HIDE DEF InChannel
  <1> QED
    BY <1>1, <1>2, <1>3, <1>4, <1>5
-----------------------------------------------------------------------------
(* Each request has two ends of its own. *)
LEMMA EndsOf ==
    ASSUME NEW r \in Requests
    PROVE  /\ <<r, "client">> \in Ends /\ <<r, "server">> \in Ends
           /\ <<r, "client">> # <<r, "server">>
           /\ \A q \in Requests \ {r} :
                 {<<q, "client">>, <<q, "server">>} \cap {<<r, "client">>, <<r, "server">>} = {}
           /\ Other(<<r, "client">>) = <<r, "server">>
           /\ Other(<<r, "server">>) = <<r, "client">>
  BY DEF Ends, Other

(* The first event of the channel is told the truth about. *)
LEMMA Taking ==
    ASSUME IInv, TInv, NEW r \in Requests, NEW k \in Kinds, Takes(k, r)
    PROVE  /\ serving /\ channel # <<>> /\ Head(channel) = Event(k, r)
           /\ InOrder(k, client[r], server[r])
           /\ Regular(r) => Says(Event(k, r)) /\ TakeTurns(r)
  <1>1. serving /\ channel # <<>> /\ Head(channel) = Event(k, r)
    BY DEF Takes
  <1>2. Event(k, r) \in InChannel /\ Event(k, r).id = r /\ Event(k, r).kind = k
    <2>1. Head(channel) \in InChannel
      BY <1>1 DEF InChannel, IInv, TypeInv
    <2> QED
      BY <2>1, <1>1, EventFields
  <1>3. InOrder(k, client[r], server[r])
    BY <1>2 DEF InChannel, IInv, ChannelInOrder
  <1> QED
    BY <1>1, <1>2, <1>3 DEF TInv

(* The client gets its context. *)
LEMMA AddrResolvedKeepsTurns ==
    ASSUME IInv, TInv, NEW r \in Requests, AddrResolved(r)
    PROVE  TInv'
  <1> USE DEF AddrResolved, SetContext, serverVars, exchangeVars
  <1>1. Functions'
    BY EndsOf DEF TInv, Functions
  <1>2. ASSUME NEW q \in Requests \ {r} PROVE SameFor(q)
    BY EndsOf DEF SameFor, IInv, TypeInv, TInv, Functions
  <1>3. InChannel' = InChannel
    BY ChannelSets
  <1>4. ASSUME Regular(r)' PROVE TakeTurns(r)'
    <2>1. TakeTurns(r)
      BY <1>4 DEF Regular, TInv
    <2> QED
      BY <2>1, EndsOf DEF TakeTurns, Busy, IInv, TypeInv, TInv, Functions
  <1>5. ASSUME NEW e \in InChannel', e.id = r, Regular(r)' PROVE Says(e)'
    <2>1. Says(e)
      BY <1>3, <1>5 DEF Regular, TInv
    <2> QED
      BY <2>1, <1>5 DEF Says, IInv, TypeInv
  <1> QED
    BY <1>1, <1>2, <1>3, <1>4, <1>5, StepOf

(* The client asks, neither end being busy. *)
LEMMA RouteResolvedKeepsTurns ==
    ASSUME IInv, TInv, NEW r \in Requests, RouteResolved(r)
    PROVE  TInv'
  <1> USE DEF RouteResolved, exchangeVars
  <1> DEFINE e == Event("CONNECT_REQUEST", r)
  <1>0. e \in Events /\ e.kind = "CONNECT_REQUEST" /\ e.id = r
    BY EventFields DEF Kinds
  <1>1. Functions'
    BY DEF TInv, Functions
  <1>2. ASSUME NEW q \in Requests \ {r} PROVE SameFor(q)
    BY DEF SameFor, IInv, TypeInv
  <1>3. InChannel' = InChannel \/ InChannel' = InChannel \cup {e}
    BY <1>0, ChannelSets
  <1>4. ASSUME Regular(r)' PROVE TakeTurns(r)'
    <2>1. TakeTurns(r) /\ UNCHANGED closed
      BY <1>4 DEF Regular, TInv
    <2> QED
      BY <2>1 DEF TakeTurns, Busy, IInv, TypeInv
  <1>5. ASSUME NEW f \in InChannel', f.id = r, Regular(r)' PROVE Says(f)'
    <2>0. \A g \in InChannel : g.id = r => Says(g)
      BY <1>5 DEF Regular, TInv
    <2>1. f = e \/ Says(f)
      BY <1>3, <1>5, <2>0
    <2>2. UNCHANGED closed
      BY <1>5 DEF Regular
    <2> HIDE DEF e
    <2> QED
      BY <2>1, <2>2, <1>0, <1>5 DEF Says, IInv, TypeInv
  <1> QED
    BY <1>0, <1>1, <1>2, <1>3, <1>4, <1>5, StepOf

(* The client has connected; the server hears of it later. *)
LEMMA HandshakeDoneKeepsTurns ==
    ASSUME IInv, TInv, NEW r \in Requests, HandshakeDone(r)
    PROVE  TInv'
  <1> USE DEF HandshakeDone, exchangeVars
  <1> DEFINE e == Event("ESTABLISHED", r)
  <1>0. e \in Events /\ e.kind = "ESTABLISHED" /\ e.id = r
    BY EventFields DEF Kinds
  <1>1. Functions'
    BY DEF TInv, Functions
  <1>2. ASSUME NEW q \in Requests \ {r} PROVE SameFor(q)
    BY DEF SameFor, IInv, TypeInv
  <1>3. InChannel' = InChannel \cup {e}
    BY <1>0, ChannelSets
  <1>4. ASSUME Regular(r)' PROVE TakeTurns(r)'
    <2>1. TakeTurns(r)
      BY <1>4 DEF Regular, TInv
    <2> QED
      BY <2>1 DEF TakeTurns, Busy, IInv, TypeInv
  <1>5. ASSUME NEW f \in InChannel', f.id = r, Regular(r)' PROVE Says(f)'
    <2>0. \A g \in InChannel : g.id = r => Says(g)
      BY <1>5 DEF Regular, TInv
    <2>1. f = e \/ Says(f)
      BY <1>3, <1>5, <2>0
    <2> HIDE DEF e
    <2> QED
      BY <2>1, <1>0, <1>5 DEF Says, IInv, TypeInv
  <1> QED
    BY <1>0, <1>1, <1>2, <1>3, <1>4, <1>5, StepOf

(* A client that fails is in no turn. *)
LEMMA ClientFailsKeepsTurns ==
    ASSUME IInv, TInv, NEW r \in Requests, ClientFails(r)
    PROVE  TInv'
  <1> USE DEF ClientFails, exchangeVars
  <1>1. Functions'
    BY DEF TInv, Functions
  <1>2. ASSUME NEW q \in Requests \ {r} PROVE SameFor(q)
    BY DEF SameFor, IInv, TypeInv
  <1>3. \E k \in {"REJECTED", "CONNECT_ERROR"} :
           InChannel' \subseteq InChannel \cup {Event(k, r)}
    BY EventFields, ChannelSets DEF Kinds
  <1>4. ASSUME Regular(r)' PROVE TakeTurns(r)'
    <2>1. TakeTurns(r)
      BY <1>4 DEF Regular, TInv
    <2> QED
      BY <2>1 DEF TakeTurns, Busy, IInv, TypeInv
  <1>5. ASSUME NEW f \in InChannel', f.id = r, Regular(r)' PROVE Says(f)'
    <2>0. \A g \in InChannel : g.id = r => Says(g)
      BY <1>5 DEF Regular, TInv
    <2>1. PICK k \in {"REJECTED", "CONNECT_ERROR"} :
             f = Event(k, r) \/ Says(f)
      BY <1>3, <1>5, <2>0
    <2>2. Event(k, r).kind = k
      BY EventFields DEF Kinds
    <2> QED
      BY <2>1, <2>2, <1>5 DEF Says, IInv, TypeInv
  <1>6. \A f \in InChannel' : f \in InChannel \/ f.id = r
    BY <1>3, EventFields DEF Kinds
  <1> QED
    BY <1>1, <1>2, <1>4, <1>5, <1>6, StepOf

(* The client frees its context, when no handler of it runs. *)
LEMMA ClientDisconnectedKeepsTurns ==
    ASSUME IInv, TInv, NEW r \in Requests, ClientDisconnected(r)
    PROVE  TInv'
  <1> USE DEF ClientDisconnected, SetContext, serverVars
  <1>1. Functions'
    BY EndsOf DEF TInv, Functions
  <1>2. ASSUME NEW q \in Requests \ {r} PROVE SameFor(q)
    BY EndsOf DEF SameFor, IInv, TypeInv, TInv, Functions
  <1>3. InChannel' = InChannel
    BY ChannelSets
  <1>4. ASSUME Regular(r)' PROVE TakeTurns(r)'
    <2>1. TakeTurns(r)
      BY <1>4 DEF Regular, TInv
    <2> QED
      BY <2>1, EndsOf DEF TakeTurns, Busy, IInv, TypeInv, TInv, Functions
  <1>5. ASSUME NEW e \in InChannel', e.id = r, Regular(r)' PROVE Says(e)'
    BY <1>5 DEF Says
  <1> QED
    BY <1>1, <1>2, <1>3, <1>4, <1>5, StepOf
-----------------------------------------------------------------------------
(* The server gets its context. *)
LEMMA ConnectRequestKeepsTurns ==
    ASSUME IInv, TInv, NEW r \in Requests, ConnectRequest(r)
    PROVE  TInv'
  <1> USE DEF ConnectRequest, SetContext, exchangeVars, clientVars
  <1>0. channel # <<>> /\ server[r] = "none" /\ (Regular(r) => TakeTurns(r))
    BY Taking DEF Kinds, InOrder
  <1>1. Functions'
    BY EndsOf DEF TInv, Functions
  <1>2. ASSUME NEW q \in Requests \ {r} PROVE SameFor(q)
    BY EndsOf DEF SameFor, IInv, TypeInv, TInv, Functions
  <1>3. InChannel' \subseteq InChannel
    BY <1>0, ChannelSets
  <1>4. ASSUME Regular(r)' PROVE TakeTurns(r)'
    <2>1. TakeTurns(r)
      BY <1>0, <1>4 DEF Regular
    <2> QED
      BY <1>0, <2>1, EndsOf DEF TakeTurns, Busy, IInv, TypeInv, TInv, Functions
  <1>5. ASSUME NEW e \in InChannel', e.id = r, Regular(r)' PROVE Says(e)'
    <2>1. Says(e)
      BY <1>3, <1>5 DEF Regular, TInv
    <2> QED
      BY <2>1 DEF Says
  <1> QED
    BY <1>1, <1>2, <1>3, <1>4, <1>5, StepOf

(* The first message: from here on the ends take turns. *)
LEMMA EstablishedKeepsTurns ==
    ASSUME IInv, TInv, NEW r \in Requests, Established(r)
    PROVE  TInv'
  <1> USE DEF Established
  <1> DEFINE d == Event("DISCONNECTED", r)
             k == Event("ESTABLISHED", r)
  <1>0. /\ channel # <<>> /\ server[r] = "accepted"
        /\ Regular(r) => Says(k) /\ TakeTurns(r)
    BY Taking DEF Kinds, InOrder
  <1>00. /\ d \in Events /\ d.kind = "DISCONNECTED" /\ d.id = r
         /\ k.kind = "ESTABLISHED" /\ k.id = r
    BY EventFields DEF Kinds
  <1>1. Functions'
    BY DEF TInv, Functions
  <1>2. ASSUME NEW q \in Requests \ {r} PROVE SameFor(q)
    BY EndsOf DEF SameFor, IInv, TypeInv
  <1>3. /\ InChannel' \subseteq InChannel \cup {d}
        /\ r \in closed' \/ InChannel' \subseteq InChannel
    BY <1>0, <1>00, ChannelSets
  <1>4. ASSUME Regular(r)' PROVE TakeTurns(r)'
    <2>1. TakeTurns(r) /\ Says(k)
      BY <1>0, <1>4 DEF Regular
    <2>2. client[r] = "connected" /\ r \notin closed
      BY <1>0, <1>00, <2>1 DEF TakeTurns, Says
    <2>3. server' = [server EXCEPT ![r] = "established"]
          /\ UNCHANGED <<client, context, handler>>
      OBVIOUS
    <2>4. CASE arrived' = arrived \cup {<<r, "client">>} /\ UNCHANGED closed
      BY <1>0, <2>1, <2>2, <2>3, <2>4, EndsOf DEF TakeTurns, Busy, IInv, TypeInv
    <2>5. CASE closed' = closed \cup {r} /\ UNCHANGED arrived
      BY <1>0, <2>1, <2>2, <2>3, <2>5, EndsOf DEF TakeTurns, Busy, IInv, TypeInv
    <2> QED
      BY <2>4, <2>5
  <1>5. ASSUME NEW f \in InChannel', f.id = r, Regular(r)' PROVE Says(f)'
    <2>0. \A g \in InChannel : g.id = r => Says(g)
      BY <1>5 DEF Regular, TInv
    <2>1. f \notin InChannel => f = d /\ r \in closed'
      BY <1>3, <1>5
    <2> HIDE DEF d
    <2> QED
      BY <2>0, <2>1, <1>00, <1>5 DEF Says
  <1> QED
    BY <1>00, <1>1, <1>2, <1>3, <1>4, <1>5, StepOf

(* The server frees its context, when no handler of it runs. *)
LEMMA DisconnectedKeepsTurns ==
    ASSUME IInv, TInv, NEW r \in Requests, Disconnected(r)
    PROVE  TInv'
  <1> USE DEF Disconnected, SetContext, clientVars
  <1> DEFINE d == Event("DISCONNECTED", r)
  <1>0. channel # <<>> /\ (Regular(r) => r \in closed /\ TakeTurns(r))
    <2>1. d.kind = "DISCONNECTED" /\ d.id = r
      BY EventFields DEF Kinds
    <2> QED
      BY <2>1, Taking DEF Kinds, Says
  <1>1. Functions'
    BY EndsOf DEF TInv, Functions
  <1>2. ASSUME NEW q \in Requests \ {r} PROVE SameFor(q)
    BY EndsOf DEF SameFor, IInv, TypeInv, TInv, Functions
  <1>3. InChannel' \subseteq InChannel
    BY <1>0, ChannelSets
  <1>4. ASSUME Regular(r)' PROVE TakeTurns(r)'
    <2>1. TakeTurns(r) /\ r \in closed
      BY <1>0, <1>4 DEF Regular
    <2> QED
      BY <2>1, EndsOf DEF TakeTurns, Busy, IInv, TypeInv, TInv, Functions
  <1>5. ASSUME NEW e \in InChannel', e.id = r, Regular(r)' PROVE Says(e)'
    <2>1. Says(e)
      BY <1>3, <1>5 DEF Regular, TInv
    <2> QED
      BY <2>1 DEF Says
  <1> QED
    BY <1>1, <1>2, <1>3, <1>4, <1>5, StepOf

(* Nothing is claimed once the server loop has returned. *)
LEMMA ServerReturnsKeepsTurns ==
    ASSUME IInv, TInv, NEW r \in Requests, ServerReturns(r)
    PROVE  TInv'
  <1>1. Functions'
    BY EndsOf DEF ServerReturns, SetContext, exchangeVars, TInv, Functions
  <1>2. \A q : ~Regular(q)'
    BY DEF ServerReturns, Regular
  <1> QED
    BY <1>1, <1>2 DEF TInv
-----------------------------------------------------------------------------
(* One end's message is handled, while the channel and the server stay as they are. *)
LEMMA QuietHandling ==
    ASSUME IInv, TInv, NEW r \in Requests,
           NEW e \in {<<r, "client">>, <<r, "server">>},
           Polled(e) \/ Answer(e) \/ Return(e)
    PROVE  TInv'
  <1> USE DEF clientVars, serverVars
  <1>0. UNCHANGED <<client, closed, serving, channel, server, context, hurried>>
    BY DEF Polled, Answer, Return
  <1>1. e \in Ends /\ e[1] = r /\ Other(e) \in {<<r, "client">>, <<r, "server">>} /\ Other(e) # e
    <2>1. CASE e = <<r, "client">>
      <3>1. e[1] = r
        BY <2>1
      <3> QED
        BY <2>1, <3>1, EndsOf, Zenon
    <2>2. CASE e = <<r, "server">>
      <3>1. e[1] = r
        BY <2>2
      <3> QED
        BY <2>2, <3>1, EndsOf, Zenon
    <2> QED
      BY <2>1, <2>2
  <1>2. Functions'
    BY <1>0, <1>1 DEF TInv, Functions, Polled, Answer, Return
  <1>3. ASSUME NEW q \in Requests \ {r} PROVE SameFor(q)
    <2>1. \A f \in {<<q, "client">>, <<q, "server">>} : f # e /\ f # Other(e) /\ f \in Ends
      BY <1>1, EndsOf
    <2>2. \A f \in {<<q, "client">>, <<q, "server">>} :
             handler'[f] = handler[f] /\ (f \in arrived' <=> f \in arrived)
      BY <2>1 DEF Polled, Answer, Return, Deliver, TInv, Functions
    <2> QED
      BY <1>0, <2>2 DEF SameFor
  <1>4. InChannel' = InChannel
    BY <1>0, ChannelSets
  <1>5. ASSUME Regular(r)' PROVE TakeTurns(r)'
    <2>1. TakeTurns(r)
      BY <1>0, <1>5 DEF Regular, TInv
    <2>2. CASE e = <<r, "client">>
      BY <1>0, <2>1, <2>2, EndsOf
      DEF TakeTurns, Busy, Polled, Answer, Return, Deliver, TInv, Functions
    <2>3. CASE e = <<r, "server">>
      BY <1>0, <2>1, <2>3, EndsOf
      DEF TakeTurns, Busy, Polled, Answer, Return, Deliver, TInv, Functions
    <2> QED
      BY <2>2, <2>3
  <1>6. ASSUME NEW f \in InChannel', f.id = r, Regular(r)' PROVE Says(f)'
    <2>1. Says(f)
      BY <1>0, <1>4, <1>6 DEF Regular, TInv
    <2> QED
      BY <1>0, <2>1 DEF Says
  <1> QED
    BY <1>0, <1>2, <1>3, <1>4, <1>5, <1>6, StepOf

(* A handler that disconnects. *)
LEMMA LastHandling ==
    ASSUME IInv, TInv, NEW r \in Requests,
           NEW e \in {<<r, "client">>, <<r, "server">>},
           Finish(e) \/ Decline(e)
    PROVE  TInv'
  <1> DEFINE d == Event("DISCONNECTED", r)
  <1>0. UNCHANGED <<client, serving, server, context>> /\ hurried \subseteq hurried'
        /\ handler' = [handler EXCEPT ![e] = "finished"] /\ handler[e] = "running"
    BY DEF Finish, Decline
  <1>1. e \in Ends /\ e[1] = r /\ Other(e) \in {<<r, "client">>, <<r, "server">>} /\ Other(e) # e
    <2>1. CASE e = <<r, "client">>
      <3>1. e[1] = r
        BY <2>1
      <3> QED
        BY <2>1, <3>1, EndsOf, Zenon
    <2>2. CASE e = <<r, "server">>
      <3>1. e[1] = r
        BY <2>2
      <3> QED
        BY <2>2, <3>1, EndsOf, Zenon
    <2> QED
      BY <2>1, <2>2
  <1>2. Functions'
    BY <1>0, <1>1 DEF TInv, Functions
  <1>00. d \in Events /\ d.kind = "DISCONNECTED" /\ d.id = r
    BY EventFields DEF Kinds
  <1>3. Disconnect(r)
    BY <1>1 DEF Finish, Decline
  <1>4. /\ closed \subseteq closed' /\ closed' \subseteq closed \cup {r}
        /\ InChannel' \subseteq InChannel \cup {d}
        /\ InChannel' \subseteq InChannel \/ r \in closed'
    BY <1>3, <1>00, ChannelSets DEF Disconnect
  <1>5. ASSUME NEW q \in Requests \ {r} PROVE SameFor(q)
    <2>1. \A f \in {<<q, "client">>, <<q, "server">>} : f # e /\ f # Other(e) /\ f \in Ends
      BY <1>1, EndsOf
    <2>2. \A f \in {<<q, "client">>, <<q, "server">>} :
             handler'[f] = handler[f] /\ (f \in arrived' <=> f \in arrived)
      BY <1>0, <2>1 DEF Finish, Decline, Deliver, TInv, Functions
    <2>3. q \in hurried' <=> q \in hurried
      BY <1>1 DEF Finish, Decline
    <2> QED
      BY <1>0, <1>4, <2>2, <2>3 DEF SameFor
  <1>6. ASSUME Regular(r)' PROVE TakeTurns(r)'
    <2>1. TakeTurns(r)
      BY <1>0, <1>6 DEF Regular, TInv
    <2>2. Finish(e) /\ UNCHANGED arrived
      BY <1>1, <1>6 DEF Finish, Decline, Regular
    <2>3. server[r] = "established" /\ client[r] = "connected" /\ r \notin closed
      BY <1>0, <2>1 DEF TakeTurns, Busy
    <2>4. r \in closed'
      BY <1>3, <2>3 DEF Disconnect
    <2>5. CASE e = <<r, "client">>
      BY <1>0, <2>1, <2>2, <2>3, <2>4, <2>5, EndsOf DEF TakeTurns, Busy, TInv, Functions
    <2>6. CASE e = <<r, "server">>
      BY <1>0, <2>1, <2>2, <2>3, <2>4, <2>6, EndsOf DEF TakeTurns, Busy, TInv, Functions
    <2> QED
      BY <2>5, <2>6
  <1>7. ASSUME NEW f \in InChannel', f.id = r, Regular(r)' PROVE Says(f)'
    <2>0. \A g \in InChannel : g.id = r => Says(g)
      BY <1>0, <1>7 DEF Regular, TInv
    <2>1. f \notin InChannel => f = d /\ r \in closed'
      BY <1>4, <1>7
    <2> HIDE DEF d
    <2> QED
      BY <2>0, <2>1, <1>0, <1>00, <1>4, <1>7 DEF Says
  <1> QED
    BY <1>0, <1>00, <1>2, <1>4, <1>5, <1>6, <1>7, StepOf
-----------------------------------------------------------------------------
(* Every step keeps the turns. *)
LEMMA TInvInductive == IInv /\ TInv /\ [Next]_vars => TInv'
  <1> SUFFICES ASSUME IInv, TInv, [Next]_vars PROVE TInv'
    OBVIOUS
  <1>1. CASE UNCHANGED vars
    BY <1>1 DEF vars, clientVars, serverVars, exchangeVars, TInv, Functions, Regular, TakeTurns,
                Busy, Says, InChannel
  <1>2. ASSUME NEW r \in Requests, ClientFails(r) PROVE TInv'
    BY <1>2, ClientFailsKeepsTurns
  <1>3. ASSUME NEW r \in Requests, Step(r) PROVE TInv'
    <2>1. ASSUME NEW e \in {<<r, "client">>, <<r, "server">>},
                 Polled(e) \/ Answer(e) \/ Finish(e) \/ Decline(e) \/ Return(e)
          PROVE  TInv'
      BY <2>1, QuietHandling, LastHandling
    <2> QED
      BY <1>3, <2>1, AddrResolvedKeepsTurns, RouteResolvedKeepsTurns, HandshakeDoneKeepsTurns,
         ClientDisconnectedKeepsTurns, ConnectRequestKeepsTurns, EstablishedKeepsTurns,
         DisconnectedKeepsTurns, ServerReturnsKeepsTurns DEF Step
  <1> QED
    BY <1>1, <1>2, <1>3 DEF Next

(***************************************************************************)
(* on_completion uses its context to the end (rpc.c:659) although the      *)
(* event loop frees contexts: for any number of requests it is still there *)
(* until the handler disconnects, but for a client that declines and a     *)
(* server whose loop has returned.                                         *)
(***************************************************************************)
THEOREM ContextCorrect == Spec => []HandlersContextLives
  <1>1. Init => TInv
    BY DEF Init, TInv, Functions, Regular, TakeTurns, Busy, InChannel, Ends
  <1>2. TInv => HandlersContextLives
    <2> SUFFICES ASSUME TInv, NEW e \in Ends, handler[e] = "running", serving,
                        e[1] \notin hurried
                 PROVE  context[e] = "live"
      BY DEF HandlersContextLives
    <2>1. PICK r \in Requests : e = <<r, "client">> \/ e = <<r, "server">>
      BY DEF Ends
    <2>2. e[1] = r
      BY <2>1
    <2>3. TakeTurns(r)
      BY <2>2 DEF TInv, Regular
    <2> QED
      BY <2>1, <2>3 DEF TakeTurns, Busy
  <1> QED
    BY <1>1, <1>2, TInvInductive, InductiveInvariant, PTL DEF Spec
=============================================================================
