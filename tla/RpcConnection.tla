--------------------------- MODULE RpcConnection ---------------------------
(***************************************************************************)
(* One JSON-RPC connection: handle_connection in rpc/server.rs, dispatch   *)
(* in rpc/handler.rs, the client at the other end of the socket, and the   *)
(* bounded broadcast channel that carries the store's events.              *)
(*                                                                         *)
(* The task is a loop around select! with three arms (request line, event, *)
(* cancellation).  A line to the client is written inside an arm, so while *)
(* it is being written the task polls nothing else.                        *)
(***************************************************************************)
EXTENDS Integers, Sequences, FiniteSetsExt

CONSTANTS
  Key,          \* the keys of the store
  Requests,     \* the requests the client may send
  None,         \* "nothing there"
  Capacity,     \* event_channel_capacity
  OutCap,       \* lines the socket buffers hold for a client that is not reading
  MaxRequests,  \* bound: requests in a behaviour
  MaxEvents     \* bound: events in a behaviour

(***************************************************************************)
(* A request is reduced to what dispatch tells apart.  "read" stands for   *)
(* every method that changes nothing and for every error that names the    *)
(* request (unknown method, missing params); "malformed" for a line that   *)
(* is no request.  prefix is the set of keys that start with the prefix    *)
(* param (all keys when there is none); id says whether there is an id.    *)
(***************************************************************************)
Request == [method : {"read", "set", "subscribe", "malformed", "blank"},
            key : Key, prefix : SUBSET Key, id : BOOLEAN]

ASSUME ConnectionAssumption ==
  /\ Requests \subseteq Request
  /\ {Capacity, OutCap} \subseteq Nat \ {0}
  /\ {MaxRequests, MaxEvents} \subseteq Nat

VARIABLES
  events,        \* the key of every event sent on the channel, by position
  sent,          \* the requests of the client, by number
  half,          \* what the client has written of a request it has not ended
  net,           \* segments on their way to the server
  eof,           \* the client has closed its side
  line,          \* what the read_line under way has taken, None when nothing
  subscription,  \* the receiver and sub_prefix, None before state.subscribe
  writing,       \* the line that write_line is busy with, None when it is not
  wire,          \* the lines written to the socket
  consumed,      \* how many of them the client has read
  cancelled,     \* the CancellationToken
  open,          \* handle_connection has not returned
  due            \* history: events sent while a subscription asked for them

vars == <<events, sent, half, net, eof, line, subscription, writing, wire,
          consumed, cancelled, open, due>>

client  == <<sent, half, eof, consumed>>
channel == <<events, due>>

\* A request reaches the server in one piece, or in two: cut inside the JSON
\* text, or between the text and its newline.
Segment == [req : Nat, part : {"whole", "head", "tail", "body", "newline"}]

Line == [kind : {"response", "subscribed"}, req : Nat]
          \cup [kind : {"update"}, seq : Nat]
          \cup [kind : {"lag"}, dropped : Nat]
          \cup [kind : {"parse_error"}]

ASSUME NoneIsNoLine == None \notin Line

\* The receiver's position is next; start is where it began (history).
Subscription == [start : Nat, next : Nat, prefix : SUBSET Key]

\* RpcResponse::ok, RpcError::new without an id, state_update and lag.
Response(i) == [kind |-> "response", req |-> i]
UnnamedError == [kind |-> "parse_error"]
Update(s) == [kind |-> "update", seq |-> s]
Lag(n) == [kind |-> "lag", dropped |-> n]

tail == Len(events)

-----------------------------------------------------------------------------
(***************************************************************************)
(* The store sends an event (a set() or merge_delta() of any other task).  *)
(***************************************************************************)
Wanted(sub, k) == sub # None /\ k \in sub.prefix

Emit(k) ==
  /\ events' = Append(events, k)
  /\ due' = IF Wanted(subscription, k) THEN due \cup {tail + 1} ELSE due

Publish(k) ==
  /\ tail < MaxEvents
  /\ Emit(k)
  /\ UNCHANGED <<client, net, line, subscription, writing, wire, cancelled, open>>

(***************************************************************************)
(* The client.  It may send requests without waiting for answers, and is   *)
(* free to stop in the middle of one.                                      *)
(***************************************************************************)
ClientSend(r, part) ==
  /\ ~eof /\ half = None /\ Len(sent) < MaxRequests
  /\ part \in {"whole", "head", "body"}
  /\ sent' = Append(sent, r)
  /\ half' = IF part = "whole" THEN None ELSE part
  /\ net' = Append(net, [req |-> Len(sent) + 1, part |-> part])
  /\ UNCHANGED <<channel, eof, consumed, line, subscription, writing, wire,
                 cancelled, open>>

ClientEndsLine ==
  /\ ~eof /\ half # None
  /\ net' = Append(net, [req |-> Len(sent),
                         part |-> IF half = "head" THEN "tail" ELSE "newline"])
  /\ half' = None
  /\ UNCHANGED <<channel, sent, eof, consumed, line, subscription, writing, wire,
                 cancelled, open>>

ClientReads ==
  /\ consumed < Len(wire)
  /\ consumed' = consumed + 1
  /\ UNCHANGED <<channel, sent, half, eof, net, line, subscription, writing, wire,
                 cancelled, open>>

ClientClose ==
  /\ ~eof
  /\ eof' = TRUE
  /\ UNCHANGED <<channel, sent, half, consumed, net, line, subscription, writing,
                 wire, cancelled, open>>

Shutdown ==
  /\ ~cancelled
  /\ cancelled' = TRUE
  /\ UNCHANGED <<channel, client, net, line, subscription, writing, wire, open>>

-----------------------------------------------------------------------------
\* Faults to test the properties with (here and below): the reply names the
\* newest request; a subscribed connection gets no replies.
Reply_Newest(i) ==
  IF sent[i].id THEN Response(Len(sent)) ELSE None

Reply_Unsubscribed(i) ==
  IF sent[i].id /\ subscription = None THEN Response(i) ELSE None

(***************************************************************************)
(* dispatch.  The reply is in writing' when there is one.                  *)
(***************************************************************************)
Reply(i) == IF sent[i].id THEN Response(i) ELSE None

ParseError ==
  /\ writing' = UnnamedError
  /\ UNCHANGED <<channel, subscription>>

handle_read(i) ==
  /\ sent[i].method = "read"
  /\ writing' = Reply(i)
  /\ UNCHANGED <<channel, subscription>>

\* store.set sends the event before the reply is written.
handle_state_set(i) ==
  /\ sent[i].method = "set"
  /\ Emit(sent[i].key)
  /\ writing' = Reply(i)
  /\ UNCHANGED subscription

\* Fault: a new receiver starts with the first event ever.
handle_subscribe_Replays(i) ==
  /\ sent[i].method = "subscribe"
  /\ subscription' = [start |-> tail, next |-> 0, prefix |-> sent[i].prefix]
  /\ writing' = [kind |-> "subscribed", req |-> i]
  /\ UNCHANGED channel

\* A new receiver starts behind the newest event and replaces the old one; the
\* reply is sent whether or not the request has an id.
handle_subscribe(i) ==
  /\ sent[i].method = "subscribe"
  /\ subscription' = [start |-> tail, next |-> tail, prefix |-> sent[i].prefix]
  /\ writing' = [kind |-> "subscribed", req |-> i]
  /\ UNCHANGED channel

Ignore ==
  /\ writing' = None
  /\ UNCHANGED <<channel, subscription>>

dispatch(i) ==
  \/ sent[i].method = "malformed" /\ ParseError
  \/ sent[i].method = "blank" /\ Ignore
  \/ handle_read(i)
  \/ handle_state_set(i)
  \/ handle_subscribe(i)

-----------------------------------------------------------------------------
(***************************************************************************)
(* The select! loop.                                                       *)
(***************************************************************************)
Selecting == open /\ writing = None

\* Arm 1, not finished: read_line takes the piece that is there and waits for
\* the rest of the line.
ReadPart ==
  /\ Selecting
  /\ net # <<>> /\ Head(net).part \in {"head", "body"}
  /\ line' = Head(net)
  /\ net' = Tail(net)
  /\ UNCHANGED <<channel, client, subscription, writing, wire, cancelled, open>>

\* Arm 1, finished: the line ends.  When the piece before it was lost, what is
\* left is no request (the tail of one) or a blank line (the newline alone).
ReadLine ==
  /\ Selecting
  /\ net # <<>> /\ Head(net).part \in {"whole", "tail", "newline"}
  /\ \/ (Head(net).part = "whole" \/ line # None) /\ dispatch(Head(net).req)
     \/ Head(net).part = "tail" /\ line = None /\ ParseError
     \/ Head(net).part = "newline" /\ line = None /\ Ignore
  /\ line' = None
  /\ net' = Tail(net)
  /\ UNCHANGED <<client, wire, cancelled, open>>

\* Arm 1 at the end of the stream: an unfinished line is dispatched as it is,
\* and the next read_line returns 0.
ReadLastLine ==
  /\ Selecting
  /\ eof /\ net = <<>> /\ line # None
  /\ IF line.part = "body" THEN dispatch(line.req) ELSE ParseError
  /\ line' = None
  /\ UNCHANGED <<client, net, wire, cancelled, open>>

\* handle_connection returns, and what it owns is dropped, the receiver too.
Close ==
  /\ open' = FALSE
  /\ line' = None /\ subscription' = None /\ writing' = None
  /\ UNCHANGED <<channel, client, net, wire, cancelled>>

\* The line that ends next need not be UTF-8: one that is no request, or the tail
\* of one, which may begin inside a character.
MaybeNotUtf8 ==
  /\ net # <<>> /\ Head(net).part \in {"whole", "tail", "newline"}
  /\ IF Head(net).part = "whole" \/ line # None
     THEN sent[Head(net).req].method = "malformed"
     ELSE Head(net).part = "tail"

\* Arm 1: the stream has ended; the read fails because the client is gone, or
\* because read_line finds bytes that are not UTF-8.
ReadEof   == Selecting /\ eof /\ net = <<>> /\ line = None /\ Close
ReadError == Selecting /\ (eof \/ MaybeNotUtf8) /\ Close

\* Faults: an event is forwarded only when there is no prefix; the count of
\* missed events is taken backwards, or is one short.
matches_NoPrefix(k) == subscription.prefix = Key
Missed_Backwards == subscription.next - (tail - Capacity)
Missed_Short == tail - Capacity - subscription.next - 1

\* sub_prefix lets the event through.
matches(k) == k \in subscription.prefix

\* What the channel reports to a receiver that has lagged.
Missed == tail - Capacity - subscription.next

\* poll_subscription is ready: never without a subscription, and otherwise when
\* the channel holds something the receiver has not had.  The channel is never
\* closed, because the handler keeps the store.
Ready == subscription # None /\ subscription.next < tail

\* Arm 2.  When it wins, the read_line future is dropped together with what it
\* has taken from the stream: read_line is not cancellation safe.
RecvEvent ==
  /\ Selecting /\ Ready
  /\ tail - subscription.next =< Capacity
  /\ LET seq == subscription.next + 1 IN
     /\ subscription' = [subscription EXCEPT !.next = seq]
     /\ writing' = IF matches(events[seq]) THEN Update(seq) ELSE None
  /\ line' = None
  /\ UNCHANGED <<channel, client, net, wire, cancelled, open>>

\* The channel keeps the last Capacity events.  A receiver that is further
\* behind is moved to the oldest one and told how many it has missed.
RecvLagged ==
  /\ Selecting /\ Ready
  /\ tail - subscription.next > Capacity
  /\ subscription' = [subscription EXCEPT !.next = tail - Capacity]
  /\ writing' = Lag(Missed)
  /\ line' = None
  /\ UNCHANGED <<channel, client, net, wire, cancelled, open>>

\* Fault: a subscribed connection does not watch the token.
Cancel_Unsubscribed == Selecting /\ cancelled /\ subscription = None /\ Close

\* Arm 3.
Cancel == Selecting /\ cancelled /\ Close

\* write_line waits while the socket buffers are full; it fails when the client
\* is gone, and the connection ends.
WriteLine ==
  /\ open /\ writing # None
  /\ Len(wire) - consumed < OutCap
  /\ wire' = Append(wire, writing)
  /\ writing' = None
  /\ UNCHANGED <<channel, client, net, line, subscription, cancelled, open>>

WriteFails == open /\ writing # None /\ eof /\ Close

-----------------------------------------------------------------------------
Init ==
  /\ events = <<>> /\ sent = <<>> /\ net = <<>> /\ wire = <<>>
  /\ half = None /\ line = None /\ subscription = None /\ writing = None
  /\ consumed = 0
  /\ eof = FALSE /\ cancelled = FALSE /\ open = TRUE
  /\ due = {}

Arms ==
  \/ ReadPart \/ ReadLine \/ ReadLastLine \/ ReadEof \/ ReadError
  \/ RecvEvent \/ RecvLagged
  \/ Cancel

Write == WriteLine \/ WriteFails

ClientSteps ==
  \/ \E r \in Requests, part \in {"whole", "head", "body"} : ClientSend(r, part)
  \/ ClientEndsLine
  \/ ClientReads
  \/ ClientClose

Next ==
  \/ \E k \in Key : Publish(k)
  \/ ClientSteps
  \/ Shutdown
  \/ Arms
  \/ Write

Spec == Init /\ [][Next]_vars

\* The task is scheduled again whenever an arm of its select! or its write can
\* go on, and the client reads what it is sent.
FairSpec == Spec /\ WF_vars(Arms) /\ WF_vars(Write) /\ WF_vars(ClientReads)

-----------------------------------------------------------------------------
(***************************************************************************)
(* Properties                                                              *)
(***************************************************************************)

\* Every variable keeps its type; a lag notice never carries a negative count.
TypeOK ==
  /\ events \in Seq(Key)
  /\ sent \in Seq(Requests)
  /\ half \in {None, "head", "body"}
  /\ net \in Seq(Segment)
  /\ line \in [req : Nat, part : {"head", "body"}] \cup {None}
  /\ subscription \in Subscription \cup {None}
  /\ writing \in Line \cup {None}
  /\ wire \in Seq(Line)
  /\ consumed \in 0 .. Len(wire)
  /\ {eof, cancelled, open} \subseteq BOOLEAN
  /\ due \in SUBSET (1 .. Len(events))

\* What the client has been, or is being, sent.
Out == IF writing = None THEN wire ELSE Append(wire, writing)

Is(i, kind) == i \in DOMAIN Out /\ Out[i].kind = kind

\* Updates come in the order of the channel, none twice, whatever requests,
\* lags and new subscriptions come between, and only after the reply to the
\* subscribe request.
UpdatesInOrder ==
  \A i \in DOMAIN Out : Is(i, "update") =>
    /\ \A j \in 1 .. i - 1 : Is(j, "update") => Out[j].seq < Out[i].seq
    /\ \E j \in 1 .. i - 1 : Is(j, "subscribed")

\* Replies come in the order of the requests, no request has two, and a
\* subscription's updates never stand in for one: the client can match the
\* replies it gets with the requests it pipelined.
RepliesInOrder ==
  \A i, j \in DOMAIN Out :
    (i < j /\ "req" \in DOMAIN Out[i] /\ "req" \in DOMAIN Out[j])
      => Out[i].req < Out[j].req

LastAck == Max({i \in DOMAIN Out : Is(i, "subscribed")})

Dropped(i) == IF Is(i, "lag") THEN Out[i].dropped ELSE 0

\* What the lag notices up to line i of the latest subscription come to.
Told[i \in LastAck .. Len(Out)] ==
  IF i = LastAck THEN 0 ELSE Told[i - 1] + Dropped(i)

ToldDropped == Told[Len(Out)]

Updated(s) == \E i \in DOMAIN Out : Out[i] = Update(s)

Passed == (subscription.start + 1) .. subscription.next

\* The lag notices of a subscription add up: they count at least the wanted
\* events it has passed over, and at most those it did not deliver.
LagAddsUp ==
  subscription # None =>
    /\ Cardinality({s \in Passed : events[s] \in subscription.prefix /\ ~Updated(s)})
         =< ToldDropped
    /\ ToldDropped =< Cardinality({s \in Passed : ~Updated(s)})

Answered(i) == \E j \in DOMAIN wire : "req" \in DOMAIN wire[j] /\ wire[j].req = i

InOnePiece(i) == \E j \in DOMAIN net : net[j].req = i /\ net[j].part = "whole"

\* A request that has an id and arrives in one piece is answered, or the
\* connection ends: events and lags never starve or swallow it.
WholeRequestsAnswered ==
  \A i \in 1 .. MaxRequests :
    (InOnePiece(i) /\ sent[i].id /\ sent[i].method \notin {"malformed", "blank"})
      ~> (Answered(i) \/ ~open)

\* The receiver has gone past event s, and a lag notice has reached the client.
PassedWithNotice(s) ==
  /\ subscription # None /\ subscription.next >= s
  /\ \E j \in DOMAIN wire : wire[j].kind = "lag"

Resubscribed(s) == subscription # None /\ subscription.start >= s

\* A wanted event reaches the client, or a lag notice stands for it, or the
\* client has made a newer subscription, or the connection ends.
EventsDelivered ==
  \A s \in 1 .. MaxEvents + MaxRequests :
    (subscription # None /\ s \in due)
      ~> \/ \E j \in DOMAIN wire : wire[j] = Update(s)
         \/ PassedWithNotice(s)
         \/ Resubscribed(s)
         \/ ~open

\* After the cancellation the connection ends, even in the middle of a backlog
\* of events and requests.
ShutdownEnds == cancelled ~> ~open

\* "Clients always know when they've missed events" (rpc/server.rs): a wanted
\* event that can no longer come has been counted by a lag notice.
NoSilentMiss ==
  (subscription # None /\ \A i \in DOMAIN Out : ~Is(i, "lag")) =>
    \A s \in due : s =< subscription.next => Updated(s)

\* "The client knows exactly how many events it missed" (README.md of the engine):
\* the lag notices of a subscription come to the number of events that it asked for
\* and that were passed over.
LagExact ==
  subscription # None =>
    ToldDropped =
      Cardinality({s \in Passed : events[s] \in subscription.prefix /\ ~Updated(s)})

\* "Server responds with one JSON line per request" (rpc/server.rs), however
\* the request is cut into segments.
EveryRequestAnswered ==
  \A i \in 1 .. MaxRequests :
    (i \in DOMAIN sent /\ half = None /\ sent[i].id
       /\ sent[i].method \notin {"malformed", "blank"})
      ~> (Answered(i) \/ ~open)
=============================================================================
