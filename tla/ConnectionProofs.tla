-------------------------- MODULE ConnectionProofs --------------------------
(***************************************************************************)
(* Theorems about one JSON-RPC connection, for every set of keys and       *)
(* requests, every capacity of the channel and of the socket, and any      *)
(* number of requests and events.                                          *)
(***************************************************************************)
EXTENDS RpcConnection, FiniteSetTheorems, TLAPS

LEMMA Constants ==
  /\ Requests \subseteq Request
  /\ Capacity \in Nat \ {0} /\ OutCap \in Nat \ {0}
  /\ MaxRequests \in Nat /\ MaxEvents \in Nat
BY ConnectionAssumption

Final == {"whole", "tail", "newline"}

\* The steps of Next, one disjunct for each action.
LEMMA Actions ==
  ASSUME [Next]_vars
  PROVE  \/ \E k \in Key : Publish(k)
         \/ \E r \in Requests, part \in {"whole", "head", "body"} : ClientSend(r, part)
         \/ ClientEndsLine \/ ClientReads \/ ClientClose \/ Shutdown
         \/ ReadPart \/ ReadLine \/ ReadLastLine
         \/ RecvEvent \/ RecvLagged
         \/ WriteLine
         \/ Close
         \/ UNCHANGED vars
BY DEF Next, ClientSteps, Arms, Write, ReadEof, ReadError, Cancel, WriteFails

-----------------------------------------------------------------------------
(***************************************************************************)
(* Types.  They rest on segments and the line under way belonging to       *)
(* requests that the client really sent.                                   *)
(***************************************************************************)
Numbered ==
  /\ \A p \in DOMAIN net : net[p].req \in DOMAIN sent
  /\ line # None => line.req \in DOMAIN sent
  /\ half # None => Len(sent) \in DOMAIN sent

\* The stream without its first segment.
LEMMA NetTail ==
  ASSUME net \in Seq(Segment), net # <<>>
  PROVE  /\ Head(net) \in Segment /\ Head(net) = net[1] /\ 1 \in DOMAIN net
         /\ Tail(net) \in Seq(Segment)
         /\ \A p \in DOMAIN Tail(net) : p + 1 \in DOMAIN net /\ p + 1 > 1
                                        /\ Tail(net)[p] = net[p + 1]
OBVIOUS

LEMMA LineTypes ==
  ASSUME NEW i \in Nat
  PROVE  /\ Response(i) \in Line /\ UnnamedError \in Line
         /\ Update(i) \in Line /\ Lag(i) \in Line
         /\ [kind |-> "subscribed", req |-> i] \in Line
BY DEF Response, UnnamedError, Update, Lag, Line

\* What the channel may grow by.
LEMMA EmitTypes ==
  ASSUME TypeOK, NEW k \in Key, Emit(k)
  PROVE  /\ events' \in Seq(Key) /\ due' \in SUBSET (1 .. Len(events'))
         /\ events' = Append(events, k)
<1>1. events \in Seq(Key) /\ due \in SUBSET (1 .. Len(events))
  BY DEF TypeOK
<1>2. events' = Append(events, k) /\ due' \subseteq due \cup {Len(events) + 1}
  BY DEF Emit, tail
<1>3. events' \in Seq(Key) /\ Len(events') = Len(events) + 1 /\ Len(events) \in Nat
  BY <1>1, <1>2
<1> QED BY <1>1, <1>2, <1>3

\* A step of dispatch, whatever the request.
LEMMA DispatchTypes ==
  ASSUME TypeOK, NEW i \in DOMAIN sent, dispatch(i)
  PROVE  /\ events' \in Seq(Key) /\ due' \in SUBSET (1 .. Len(events'))
         /\ subscription' \in Subscription \cup {None}
         /\ writing' \in Line \cup {None}
<1>0. /\ i \in Nat /\ sent[i] \in Requests
      /\ events \in Seq(Key) /\ due \in SUBSET (1 .. Len(events))
      /\ subscription \in Subscription \cup {None} /\ tail \in Nat
  BY DEF TypeOK, tail
<1>1. sent[i].key \in Key /\ sent[i].prefix \in SUBSET Key
  BY <1>0, Constants DEF Request
<1>2. Reply(i) \in Line \cup {None}
  BY <1>0, LineTypes DEF Reply
<1>3. CASE ParseError \/ Ignore \/ handle_read(i)
  BY <1>0, <1>2, <1>3, LineTypes DEF ParseError, Ignore, handle_read, channel
<1>4. CASE handle_state_set(i)
  BY <1>0, <1>1, <1>2, <1>4, EmitTypes DEF handle_state_set
<1>5. CASE handle_subscribe(i)
  <2>1. [start |-> tail, next |-> tail, prefix |-> sent[i].prefix] \in Subscription
    BY <1>0, <1>1 DEF Subscription
  <2> QED BY <1>0, <1>5, <2>1, LineTypes DEF handle_subscribe, channel
<1> QED BY <1>3, <1>4, <1>5 DEF dispatch

LEMMA TypesKept ==
  ASSUME TypeOK, Numbered, [Next]_vars
  PROVE  TypeOK' /\ Numbered'
<1>0. /\ net \in Seq(Segment) /\ sent \in Seq(Requests) /\ wire \in Seq(Line)
      /\ Len(sent) \in Nat /\ Len(wire) \in Nat /\ tail \in Nat
  BY DEF TypeOK, tail
<1>1. ASSUME NEW k \in Key, Publish(k) PROVE TypeOK' /\ Numbered'
  BY <1>1, EmitTypes DEF Publish, client, TypeOK, Numbered
<1>2. ASSUME NEW r \in Requests, NEW part \in {"whole", "head", "body"}, ClientSend(r, part)
      PROVE  TypeOK' /\ Numbered'
  <2> DEFINE seg == [req |-> Len(sent) + 1, part |-> part]
  <2>1. seg \in Segment
    BY <1>0 DEF Segment
  <2>2. net' = Append(net, seg) /\ sent' = Append(sent, r)
    BY <1>2 DEF ClientSend
  <2>3. net' \in Seq(Segment) /\ sent' \in Seq(Requests)
    BY <1>0, <2>1, <2>2
  <2>4. \A p \in DOMAIN net' : net'[p].req \in DOMAIN sent'
    BY <1>0, <2>1, <2>2 DEF Numbered
  <2>5. DOMAIN sent \subseteq DOMAIN sent'
    BY <1>0, <2>2
  <2>6. half' \in {None, "head", "body"} /\ Len(sent') \in DOMAIN sent'
    BY <1>0, <1>2, <2>2 DEF ClientSend
  <2> QED BY <1>2, <2>3, <2>4, <2>5, <2>6 DEF ClientSend, channel, TypeOK, Numbered
<1>3. CASE ClientEndsLine
  <2> DEFINE seg == [req |-> Len(sent), part |-> IF half = "head" THEN "tail" ELSE "newline"]
  <2>1. seg \in Segment
    BY <1>0 DEF Segment
  <2>2. net' = Append(net, seg) /\ half # None
    BY <1>3 DEF ClientEndsLine
  <2>3. net' \in Seq(Segment)
    BY <1>0, <2>1, <2>2
  <2>4. Len(sent) \in DOMAIN sent
    BY <2>2 DEF Numbered
  <2>5. \A p \in DOMAIN net' : net'[p].req \in DOMAIN sent
    BY <1>0, <2>1, <2>2, <2>4 DEF Numbered
  <2> QED BY <1>3, <2>3, <2>5 DEF ClientEndsLine, channel, TypeOK, Numbered
<1>4. CASE ClientReads \/ ClientClose \/ Shutdown
  <2>1. consumed' \in 0 .. Len(wire)
    BY <1>0, <1>4 DEF ClientReads, ClientClose, Shutdown, client, TypeOK
  <2>2. {eof', cancelled', open'} \subseteq BOOLEAN
    BY <1>4 DEF ClientReads, ClientClose, Shutdown, client, TypeOK
  <2> QED BY <1>4, <2>1, <2>2
          DEF ClientReads, ClientClose, Shutdown, channel, client, TypeOK, Numbered
<1>5. CASE ReadPart
  <2>1. /\ line' = Head(net) /\ net' = Tail(net) /\ net # <<>>
        /\ Head(net).part \in {"head", "body"}
    BY <1>5 DEF ReadPart
  <2>2. line' \in [req : Nat, part : {"head", "body"}]
    BY <1>0, <2>1, NetTail DEF Segment
  <2>3. /\ net' \in Seq(Segment) /\ line'.req \in DOMAIN sent
        /\ \A p \in DOMAIN net' : net'[p].req \in DOMAIN sent
    BY <1>0, <2>1, NetTail DEF Numbered
  <2> QED BY <1>5, <2>2, <2>3 DEF ReadPart, channel, client, TypeOK, Numbered
<1>6. CASE ReadLine
  <2>1. /\ line' = None /\ net' = Tail(net) /\ net # <<>>
        /\ dispatch(Head(net).req) \/ ParseError \/ Ignore
        /\ UNCHANGED <<client, wire, cancelled, open>>
    BY <1>6 DEF ReadLine
  <2>2. /\ net' \in Seq(Segment) /\ Head(net).req \in DOMAIN sent
        /\ \A p \in DOMAIN net' : net'[p].req \in DOMAIN sent
    BY <1>0, <2>1, NetTail DEF Numbered
  <2>3. /\ events' \in Seq(Key) /\ due' \in SUBSET (1 .. Len(events'))
        /\ subscription' \in Subscription \cup {None}
        /\ writing' \in Line \cup {None}
    BY <2>1, <2>2, DispatchTypes, LineTypes DEF ParseError, Ignore, channel, TypeOK
  <2> QED BY <2>1, <2>2, <2>3 DEF client, TypeOK, Numbered
<1>7. CASE ReadLastLine
  <2>1. /\ line' = None /\ line # None
        /\ dispatch(line.req) \/ ParseError
        /\ UNCHANGED <<client, net, wire, cancelled, open>>
    BY <1>7 DEF ReadLastLine
  <2>2. line.req \in DOMAIN sent
    BY <2>1 DEF Numbered
  <2>3. /\ events' \in Seq(Key) /\ due' \in SUBSET (1 .. Len(events'))
        /\ subscription' \in Subscription \cup {None}
        /\ writing' \in Line \cup {None}
    BY <2>1, <2>2, DispatchTypes, LineTypes DEF ParseError, channel, TypeOK
  <2> QED BY <2>1, <2>3 DEF client, TypeOK, Numbered
<1>8. CASE RecvEvent
  <2>1. /\ subscription # None /\ subscription \in Subscription
        /\ subscription' = [subscription EXCEPT !.next = subscription.next + 1]
        /\ writing' \in {Update(subscription.next + 1), None}
        /\ line' = None
        /\ UNCHANGED <<channel, client, net, wire, cancelled, open>>
    BY <1>8 DEF RecvEvent, Ready, TypeOK
  <2>2. subscription' \in Subscription /\ subscription.next + 1 \in Nat
    BY <2>1 DEF Subscription
  <2>3. writing' \in Line \cup {None}
    BY <2>1, <2>2, LineTypes
  <2> QED BY <2>1, <2>2, <2>3 DEF channel, client, TypeOK, Numbered
<1>9. CASE RecvLagged
  <2>1. /\ subscription # None /\ subscription \in Subscription
        /\ tail - subscription.next > Capacity
        /\ subscription' = [subscription EXCEPT !.next = tail - Capacity]
        /\ writing' = Lag(tail - Capacity - subscription.next)
        /\ line' = None
        /\ UNCHANGED <<channel, client, net, wire, cancelled, open>>
    BY <1>9 DEF RecvLagged, Ready, Missed, TypeOK
  <2>2. tail - Capacity \in Nat /\ tail - Capacity - subscription.next \in Nat
    BY <1>0, <2>1, Constants DEF Subscription
  <2>3. subscription' \in Subscription /\ writing' \in Line
    BY <2>1, <2>2, LineTypes DEF Subscription
  <2> QED BY <2>1, <2>3 DEF channel, client, TypeOK, Numbered
<1>10. CASE WriteLine
  <2>1. /\ wire' = Append(wire, writing) /\ writing' = None /\ writing \in Line
        /\ UNCHANGED <<channel, client, net, line, subscription, cancelled, open>>
    BY <1>10 DEF WriteLine, TypeOK
  <2>2. wire' \in Seq(Line) /\ Len(wire') = Len(wire) + 1
    BY <1>0, <2>1
  <2>3. consumed' \in 0 .. Len(wire')
    BY <1>0, <2>1, <2>2 DEF client, TypeOK
  <2> QED BY <2>1, <2>2, <2>3 DEF channel, client, TypeOK, Numbered
<1>11. CASE Close
  BY <1>11 DEF Close, channel, client, TypeOK, Numbered
<1>12. CASE UNCHANGED vars
  BY <1>12 DEF vars, TypeOK, Numbered
<1> QED BY <1>1, <1>2, <1>3, <1>4, <1>5, <1>6, <1>7, <1>8, <1>9, <1>10, <1>11, <1>12,
           Actions

LEMMA TypesInvariant == Spec => [](TypeOK /\ Numbered)
<1>1. Init => TypeOK /\ Numbered
  <2> SUFFICES ASSUME Init PROVE TypeOK /\ Numbered
    OBVIOUS
  <2>1. /\ events \in Seq(Key) /\ sent \in Seq(Requests) /\ net \in Seq(Segment)
        /\ wire \in Seq(Line) /\ consumed \in 0 .. Len(wire)
    BY DEF Init
  <2>2. {eof, cancelled, open} \subseteq BOOLEAN
    BY DEF Init
  <2>3. Numbered
    BY DEF Init, Numbered
  <2> QED BY <2>1, <2>2, <2>3 DEF Init, TypeOK
<1> QED BY <1>1, TypesKept, PTL DEF Spec

\* The connection, its client and the channel keep their types; in particular a
\* lag notice never carries a negative count.
THEOREM ConnectionTypes == Spec => []TypeOK
BY TypesInvariant, PTL

-----------------------------------------------------------------------------
(***************************************************************************)
(* What a step does to the lines for the client, to the subscription and   *)
(* to the channel.                                                         *)
(***************************************************************************)
Grown == events' = events \/ \E k \in Key : events' = Append(events, k)

\* Nothing new for the client; an event may have been sent.
Silent == Out' = Out /\ UNCHANGED subscription /\ Grown

\* A reply or an error, and not to a subscribe request.
Replies ==
  /\ \E l \in Line : l.kind \in {"response", "parse_error"} /\ Out' = Append(Out, l)
  /\ UNCHANGED subscription
  /\ Grown

Subscribes ==
  /\ \E i \in Nat : Out' = Append(Out, [kind |-> "subscribed", req |-> i])
  /\ \E pre \in SUBSET Key :
       subscription' = [start |-> tail, next |-> tail, prefix |-> pre]
  /\ UNCHANGED events

Forwards ==
  LET seq == subscription.next + 1 IN
  /\ subscription # None /\ subscription \in Subscription
  /\ seq \in 1 .. tail
  /\ subscription' = [subscription EXCEPT !.next = seq]
  /\ \/ events[seq] \in subscription.prefix /\ Out' = Append(Out, Update(seq))
     \/ events[seq] \notin subscription.prefix /\ Out' = Out
  /\ UNCHANGED events

Lagging ==
  /\ subscription # None /\ subscription \in Subscription
  /\ subscription.next < tail - Capacity
  /\ subscription' = [subscription EXCEPT !.next = tail - Capacity]
  /\ Out' = Append(Out, Lag(tail - Capacity - subscription.next))
  /\ UNCHANGED events

Closing ==
  /\ Out' = wire /\ subscription' = None
  /\ UNCHANGED <<events, wire>>

LEMMA OutTypes ==
  ASSUME TypeOK
  PROVE  /\ Out \in Seq(Line) /\ wire \in Seq(Line)
         /\ Len(wire) =< Len(Out) /\ \A i \in DOMAIN wire : i \in DOMAIN Out /\ Out[i] = wire[i]
BY DEF TypeOK, Out

\* The loop is at its select!, so all lines so far have been written.
LEMMA SelectingOut ==
  ASSUME TypeOK, writing = None, wire' = wire
  PROVE  /\ Out = wire
         /\ writing' = None => Out' = Out
         /\ writing' # None => Out' = Append(Out, writing')
BY DEF Out

LEMMA DispatchOut ==
  ASSUME TypeOK, NEW i \in DOMAIN sent, dispatch(i), writing = None, wire' = wire
  PROVE  /\ Silent \/ Replies \/ Subscribes
         /\ Out' = Out \/ \E l \in Line : /\ Out' = Append(Out, l)
                                          /\ "req" \in DOMAIN l => l.req = i
<1>0. i \in Nat /\ sent[i] \in Requests /\ sent[i].key \in Key /\ sent[i].prefix \in SUBSET Key
  BY Constants DEF TypeOK, Request
<1>1. CASE ParseError
  <2>1. /\ writing' = UnnamedError /\ UnnamedError \in Line /\ UnnamedError # None
        /\ UnnamedError.kind = "parse_error" /\ "req" \notin DOMAIN UnnamedError
        /\ UNCHANGED <<events, subscription>>
    BY <1>1, NoneIsNoLine DEF ParseError, UnnamedError, Line, channel
  <2> QED BY <2>1, SelectingOut DEF Replies, Grown
<1>2. CASE Ignore
  BY <1>2, SelectingOut DEF Ignore, channel, Silent, Grown
<1>3. ASSUME writing' = Reply(i), UNCHANGED subscription, Grown
      PROVE  /\ Silent \/ Replies
             /\ Out' = Out \/ \E l \in Line : /\ Out' = Append(Out, l)
                                              /\ "req" \in DOMAIN l => l.req = i
  <2>1. CASE Reply(i) = None
    BY <1>3, <2>1, SelectingOut DEF Silent
  <2>2. CASE Reply(i) # None
    <3>1. /\ writing' = Response(i) /\ Response(i) \in Line /\ writing' # None
          /\ Response(i).kind = "response" /\ Response(i).req = i
      BY <1>0, <1>3, <2>2, LineTypes DEF Reply, Response
    <3> QED BY <1>3, <3>1, SelectingOut DEF Replies
  <2> QED BY <2>1, <2>2
<1>4. CASE handle_read(i)
  BY <1>3, <1>4 DEF handle_read, channel, Grown
<1>5. CASE handle_state_set(i)
  BY <1>0, <1>3, <1>5 DEF handle_state_set, Emit, Grown
<1>6. CASE handle_subscribe(i)
  <2> DEFINE l == [kind |-> "subscribed", req |-> i]
  <2>1. l \in Line /\ l # None /\ l.req = i /\ writing' = l
    BY <1>0, <1>6, LineTypes, NoneIsNoLine DEF handle_subscribe
  <2>2. Out' = Append(Out, l)
    BY <2>1, SelectingOut
  <2>3. Subscribes
    BY <1>0, <1>6, <2>2 DEF Subscribes, handle_subscribe, channel
  <2> QED BY <2>1, <2>2, <2>3
<1> QED BY <1>1, <1>2, <1>4, <1>5, <1>6 DEF dispatch

LEMMA Effects ==
  ASSUME TypeOK, Numbered, [Next]_vars
  PROVE  Silent \/ Replies \/ Subscribes \/ Forwards \/ Lagging \/ Closing
<1>0. net \in Seq(Segment) /\ tail \in Nat /\ subscription \in Subscription \cup {None}
  BY DEF TypeOK, tail
<1>1. ASSUME NEW k \in Key, Publish(k) PROVE Silent
  BY <1>1 DEF Publish, Emit, Silent, Grown, Out
<1>2. ASSUME NEW r \in Requests, NEW part \in {"whole", "head", "body"}, ClientSend(r, part)
      PROVE  Silent
  BY <1>2 DEF ClientSend, channel, Silent, Grown, Out
<1>3. CASE ClientEndsLine \/ ClientReads \/ ClientClose \/ Shutdown \/ ReadPart
  BY <1>3 DEF ClientEndsLine, ClientReads, ClientClose, Shutdown, ReadPart, channel,
              Silent, Grown, Out
<1>4. CASE ReadLine
  <2>1. /\ writing = None /\ wire' = wire /\ net # <<>>
        /\ dispatch(Head(net).req) \/ ParseError \/ Ignore
    BY <1>4 DEF ReadLine, Selecting
  <2>2. Head(net).req \in DOMAIN sent
    BY <1>0, <2>1, NetTail DEF Numbered
  <2>3. CASE dispatch(Head(net).req)
    BY <2>1, <2>2, <2>3, DispatchOut
  <2>4. CASE Ignore
    BY <2>1, <2>4, SelectingOut DEF Ignore, channel, Silent, Grown
  <2>5. CASE ParseError
    BY <2>1, <2>5, SelectingOut, LineTypes, NoneIsNoLine
       DEF ParseError, UnnamedError, channel, Replies, Grown
  <2> QED BY <2>1, <2>3, <2>4, <2>5
<1>5. CASE ReadLastLine
  <2>1. /\ writing = None /\ wire' = wire /\ line # None
        /\ dispatch(line.req) \/ ParseError
    BY <1>5 DEF ReadLastLine, Selecting
  <2>2. line.req \in DOMAIN sent
    BY <2>1 DEF Numbered
  <2>3. CASE dispatch(line.req)
    BY <2>1, <2>2, <2>3, DispatchOut
  <2>4. CASE ParseError
    BY <2>1, <2>4, SelectingOut, LineTypes, NoneIsNoLine
       DEF ParseError, UnnamedError, channel, Replies, Grown
  <2> QED BY <2>1, <2>3, <2>4
<1>6. CASE RecvEvent
  <2> DEFINE seq == subscription.next + 1
  <2>1. /\ writing = None /\ wire' = wire /\ UNCHANGED events
        /\ subscription # None /\ subscription.next < tail
        /\ subscription' = [subscription EXCEPT !.next = seq]
        /\ writing' = IF events[seq] \in subscription.prefix THEN Update(seq) ELSE None
    BY <1>6 DEF RecvEvent, Selecting, Ready, matches, channel
  <2>2. subscription \in Subscription /\ seq \in 1 .. tail /\ seq \in Nat
    BY <1>0, <2>1 DEF Subscription
  <2>3. Update(seq) # None
    BY <2>2, LineTypes, NoneIsNoLine
  <2>4. \/ events[seq] \in subscription.prefix /\ Out' = Append(Out, Update(seq))
        \/ events[seq] \notin subscription.prefix /\ Out' = Out
    BY <2>1, <2>3, SelectingOut
  <2> QED BY <2>1, <2>2, <2>4 DEF Forwards
<1>7. CASE RecvLagged
  <2>1. /\ writing = None /\ wire' = wire /\ UNCHANGED events
        /\ subscription # None /\ tail - subscription.next > Capacity
        /\ subscription' = [subscription EXCEPT !.next = tail - Capacity]
        /\ writing' = Lag(tail - Capacity - subscription.next)
    BY <1>7 DEF RecvLagged, Selecting, Ready, Missed, channel
  <2>2. /\ subscription \in Subscription /\ subscription.next < tail - Capacity
        /\ tail - Capacity - subscription.next \in Nat
    BY <1>0, <2>1, Constants DEF Subscription
  <2>3. writing' # None
    BY <2>1, <2>2, LineTypes, NoneIsNoLine
  <2> QED BY <2>1, <2>2, <2>3, SelectingOut DEF Lagging
<1>8. CASE WriteLine
  BY <1>8 DEF WriteLine, channel, Silent, Grown, Out
<1>9. CASE Close
  BY <1>9 DEF Close, channel, Closing, Out
<1>10. CASE UNCHANGED vars
  BY <1>10 DEF vars, Silent, Grown, Out
<1> QED BY <1>1, <1>2, <1>3, <1>4, <1>5, <1>6, <1>7, <1>8, <1>9, <1>10, Actions

-----------------------------------------------------------------------------
(***************************************************************************)
(* Updates in order.  The receiver is at or past every update that was     *)
(* sent, also those of earlier subscriptions: a new receiver starts at the *)
(* end of the channel.                                                     *)
(***************************************************************************)
Positioned ==
  subscription # None =>
    /\ subscription.start =< subscription.next /\ subscription.next =< tail
    /\ \E j \in DOMAIN Out : Out[j].kind = "subscribed"

UpdatesPassed ==
  \A i \in DOMAIN Out : Out[i].kind = "update" =>
    /\ Out[i].seq =< tail
    /\ subscription # None => Out[i].seq =< subscription.next

UpdatesInv == Positioned /\ UpdatesPassed /\ UpdatesInOrder

LEMMA LineFields ==
  \A l \in Line :
    /\ l.kind = "update" => l.seq \in Nat
    /\ l.kind = "lag" => l.dropped \in Nat
    /\ "req" \in DOMAIN l <=> l.kind \in {"response", "subscribed"}
    /\ "req" \in DOMAIN l => l.req \in Nat
BY DEF Line

LEMMA AppendOut ==
  ASSUME TypeOK, NEW l \in Line, Out' = Append(Out, l)
  PROVE  /\ Len(Out) \in Nat /\ Len(Out') = Len(Out) + 1
         /\ DOMAIN Out = 1 .. Len(Out) /\ DOMAIN Out' = 1 .. Len(Out) + 1
         /\ \A i \in DOMAIN Out : Out'[i] = Out[i] /\ Out[i] \in Line
         /\ Out'[Len(Out) + 1] = l
<1>1. Out \in Seq(Line)
  BY OutTypes
<1> QED BY <1>1

LEMMA GrownTail ==
  ASSUME TypeOK, Grown
  PROVE  /\ tail \in Nat /\ tail' \in Nat /\ tail =< tail'
         /\ \A p \in 1 .. tail : events'[p] = events[p]
BY DEF TypeOK, Grown, tail

\* Appending a line other than an update keeps the updates in order.
LEMMA OrderKept ==
  ASSUME TypeOK, UpdatesInOrder, NEW l \in Line, Out' = Append(Out, l),
         l.kind = "update" =>
           /\ \A j \in DOMAIN Out : Out[j].kind = "update" => Out[j].seq < l.seq
           /\ \E j \in DOMAIN Out : Out[j].kind = "subscribed"
  PROVE  UpdatesInOrder'
<1> SUFFICES ASSUME NEW i \in DOMAIN Out', Out'[i].kind = "update"
             PROVE  /\ \A j \in 1 .. i - 1 : Out'[j].kind = "update" => Out'[j].seq < Out'[i].seq
                    /\ \E j \in 1 .. i - 1 : j \in DOMAIN Out' /\ Out'[j].kind = "subscribed"
  BY DEF UpdatesInOrder, Is
<1>0. /\ Len(Out) \in Nat /\ DOMAIN Out = 1 .. Len(Out) /\ DOMAIN Out' = 1 .. Len(Out) + 1
      /\ \A j \in DOMAIN Out : Out'[j] = Out[j]
      /\ Out'[Len(Out) + 1] = l
  BY AppendOut
<1>1. CASE i = Len(Out) + 1
  <2>1. \A j \in 1 .. i - 1 : j \in DOMAIN Out /\ j \in DOMAIN Out'
    BY <1>0, <1>1
  <2>2. PICK j \in DOMAIN Out : Out[j].kind = "subscribed"
    BY <1>0, <1>1
  <2>3. j \in 1 .. i - 1
    BY <1>0, <1>1
  <2> QED BY <1>0, <1>1, <2>1, <2>2, <2>3
<1>2. CASE i # Len(Out) + 1
  <2>1. i \in DOMAIN Out /\ \A j \in 1 .. i - 1 : j \in DOMAIN Out /\ j \in DOMAIN Out'
    BY <1>0, <1>2
  <2>2. /\ \A j \in 1 .. i - 1 : Out[j].kind = "update" => Out[j].seq < Out[i].seq
        /\ \E j \in 1 .. i - 1 : Out[j].kind = "subscribed"
    BY <1>0, <2>1 DEF UpdatesInOrder, Is
  <2> QED BY <1>0, <2>1, <2>2
<1> QED BY <1>1, <1>2

LEMMA UpdatesKept ==
  ASSUME TypeOK, TypeOK', Numbered, UpdatesInv, [Next]_vars
  PROVE  UpdatesInv'
<1>0. tail \in Nat /\ subscription \in Subscription \cup {None} /\ Out \in Seq(Line)
  BY OutTypes DEF TypeOK, tail
<1>1. CASE Silent
  BY <1>0, <1>1, GrownTail, LineFields
     DEF Silent, UpdatesInv, Positioned, UpdatesPassed, UpdatesInOrder, Is, Subscription
<1>2. ASSUME NEW l \in Line, l.kind \in {"response", "parse_error"}, Out' = Append(Out, l),
             UNCHANGED subscription, Grown
      PROVE  UpdatesInv'
  <2>1. UpdatesInOrder'
    BY <1>2, OrderKept DEF UpdatesInv
  <2>2. Positioned'
    BY <1>0, <1>2, AppendOut, GrownTail DEF UpdatesInv, Positioned, Subscription
  <2>3. UpdatesPassed'
    <3> SUFFICES ASSUME NEW i \in DOMAIN Out', Out'[i].kind = "update"
                 PROVE  /\ Out'[i].seq =< tail'
                        /\ subscription' # None => Out'[i].seq =< subscription'.next
      BY DEF UpdatesPassed
    <3>1. i \in DOMAIN Out /\ Out'[i] = Out[i] /\ Out[i] \in Line
      BY <1>2, AppendOut
    <3>2. Out[i].seq =< tail /\ (subscription # None => Out[i].seq =< subscription.next)
          /\ Out[i].seq \in Nat
      BY <3>1, LineFields DEF UpdatesInv, UpdatesPassed
    <3> QED BY <1>2, <3>1, <3>2, GrownTail
  <2> QED BY <2>1, <2>2, <2>3 DEF UpdatesInv
<1>3. CASE Subscribes
  <2>1. PICK n \in Nat : Out' = Append(Out, [kind |-> "subscribed", req |-> n])
    BY <1>3 DEF Subscribes
  <2> DEFINE l == [kind |-> "subscribed", req |-> n]
  <2>2. l \in Line /\ l.kind = "subscribed"
    BY LineTypes
  <2>3. PICK pre \in SUBSET Key :
          subscription' = [start |-> tail, next |-> tail, prefix |-> pre]
    BY <1>3 DEF Subscribes
  <2>4. events' = events /\ tail' = tail
    BY <1>3 DEF Subscribes, tail
  <2> HIDE DEF l
  <2>5. Out' = Append(Out, l)
    BY <2>1 DEF l
  <2>6. UpdatesInOrder'
    BY <2>2, <2>5, OrderKept DEF UpdatesInv
  <2>7. Positioned'
    BY <1>0, <2>2, <2>3, <2>4, <2>5, AppendOut DEF Positioned
  <2>8. UpdatesPassed'
    BY <1>0, <2>2, <2>3, <2>4, <2>5, AppendOut DEF UpdatesInv, UpdatesPassed
  <2> QED BY <2>6, <2>7, <2>8 DEF UpdatesInv
<1>4. CASE Forwards
  <2> DEFINE n == subscription.next + 1
  <2>1. /\ subscription # None /\ n \in 1 .. tail /\ n \in Nat
        /\ subscription.next \in Nat /\ subscription.start \in Nat
        /\ subscription'.next = n /\ subscription'.start = subscription.start
        /\ Out' = Append(Out, Update(n)) \/ Out' = Out
        /\ events' = events /\ tail' = tail
    BY <1>4 DEF Forwards, Subscription, tail
  <2>2. \A i \in DOMAIN Out : Out[i].kind = "update" =>
          Out[i].seq =< subscription.next /\ Out[i].seq \in Nat
    BY <1>0, <2>1, LineFields DEF UpdatesInv, UpdatesPassed
  <2>3. /\ \E j \in DOMAIN Out : Out[j].kind = "subscribed"
        /\ subscription.start =< subscription.next
    BY <2>1 DEF UpdatesInv, Positioned
  <2>4. CASE Out' = Append(Out, Update(n))
    <3>1. Update(n) \in Line /\ Update(n).kind = "update" /\ Update(n).seq = n
      BY <2>1, LineTypes DEF Update
    <3>2. UpdatesInOrder'
      BY <2>1, <2>2, <2>3, <2>4, <3>1, OrderKept DEF UpdatesInv
    <3>3. Positioned'
      BY <2>1, <2>3, <2>4, <3>1, AppendOut DEF Positioned
    <3>4. UpdatesPassed'
      <4> HIDE DEF n
      <4>1. \A i \in DOMAIN Out' : Out'[i].kind = "update" => Out'[i].seq =< n
        <5> SUFFICES ASSUME NEW i \in DOMAIN Out', Out'[i].kind = "update"
                     PROVE  Out'[i].seq =< n
          OBVIOUS
        <5>1. CASE i \in DOMAIN Out
          BY <2>1, <2>2, <2>4, <3>1, <5>1, AppendOut DEF n
        <5>2. CASE i = Len(Out) + 1
          BY <2>1, <2>4, <3>1, <5>2, AppendOut
        <5> QED BY <2>4, <3>1, <5>1, <5>2, AppendOut
      <4> QED BY <1>0, <2>1, <2>4, <3>1, <4>1, AppendOut, LineFields DEF UpdatesPassed
    <3> QED BY <3>2, <3>3, <3>4 DEF UpdatesInv
  <2>5. CASE Out' = Out
    BY <2>1, <2>2, <2>3, <2>5 DEF UpdatesInv, UpdatesInOrder, Is, Positioned, UpdatesPassed
  <2> QED BY <2>1, <2>4, <2>5
<1>5. CASE Lagging
  <2> DEFINE d == tail - Capacity - subscription.next
             l == Lag(d)
  <2>1. /\ subscription # None /\ d \in Nat
        /\ tail - Capacity =< tail /\ subscription.next < tail - Capacity
        /\ subscription.next \in Nat /\ subscription.start \in Nat
        /\ subscription'.next = tail - Capacity
        /\ subscription'.start = subscription.start
        /\ events' = events /\ tail' = tail
    BY <1>0, <1>5, Constants DEF Lagging, Subscription, tail
  <2>2. l \in Line /\ l.kind = "lag"
    BY <2>1, LineTypes DEF Lag
  <2>3. Out' = Append(Out, l)
    BY <1>5 DEF Lagging
  <2> HIDE DEF l
  <2>4. UpdatesInOrder'
    BY <2>2, <2>3, OrderKept DEF UpdatesInv
  <2>5. Positioned'
    BY <1>0, <2>1, <2>2, <2>3, AppendOut, Constants DEF UpdatesInv, Positioned
  <2>6. UpdatesPassed'
    BY <1>0, <2>1, <2>2, <2>3, AppendOut, LineFields, Constants DEF UpdatesInv, UpdatesPassed
  <2> QED BY <2>4, <2>5, <2>6 DEF UpdatesInv
<1>6. CASE Closing
  <2>1. /\ Out' = wire /\ subscription' = None /\ tail' = tail
        /\ Len(wire) \in Nat /\ DOMAIN wire = 1 .. Len(wire)
        /\ \A i \in DOMAIN wire : i \in DOMAIN Out /\ Out[i] = wire[i]
    BY <1>6, OutTypes DEF Closing, tail
  <2>2. \A i \in DOMAIN wire : \A j \in 1 .. i - 1 : j \in DOMAIN wire
    BY <2>1
  <2>3. UpdatesInOrder'
    BY <2>1, <2>2 DEF UpdatesInv, UpdatesInOrder, Is
  <2> QED BY <2>1, <2>3 DEF UpdatesInv, Positioned, UpdatesPassed
<1> QED BY <1>1, <1>2, <1>3, <1>4, <1>5, <1>6, Effects DEF Replies

LEMMA UpdatesInvariant == Spec => []UpdatesInv
<1>1. Init => UpdatesInv
  BY DEF Init, UpdatesInv, Positioned, UpdatesPassed, UpdatesInOrder, Out
<1> QED BY <1>1, UpdatesKept, TypesInvariant, PTL DEF Spec

\* Updates reach the client in the order of the channel, none twice and none
\* before its subscribe request is answered, for every capacity of the channel
\* and any mixture of requests, lags and new subscriptions.
THEOREM UpdatesAreInOrder == Spec => []UpdatesInOrder
BY UpdatesInvariant, PTL DEF UpdatesInv

-----------------------------------------------------------------------------
(***************************************************************************)
(* Replies in order.  The stream carries the requests in their order, and  *)
(* everything that is still in it, or half read, or half written, belongs  *)
(* to a request above all those already answered.                          *)
(***************************************************************************)
AnswersBelow(out, n) ==
  \A i \in DOMAIN out : "req" \in DOMAIN out[i] => out[i].req < n

StreamOrdered ==
  /\ \A p, q \in DOMAIN net : p < q =>
       /\ net[p].req =< net[q].req
       /\ net[p].part \in Final => net[p].req < net[q].req
  /\ line # None => \A p \in DOMAIN net : line.req =< net[p].req

\* The client is in the middle of its last request.
InMiddle == half # None /\ ~eof

LastUnfinished ==
  InMiddle => \A p \in DOMAIN net : net[p].part \in Final => net[p].req < Len(sent)

AnswersBehind ==
  /\ AnswersBelow(Out, Len(sent) + 1)
  /\ InMiddle => AnswersBelow(Out, Len(sent))
  /\ \A p \in DOMAIN net : AnswersBelow(Out, net[p].req)
  /\ line # None => AnswersBelow(Out, line.req)

RepliesInv == StreamOrdered /\ LastUnfinished /\ AnswersBehind /\ RepliesInOrder

LEMMA NumberTypes ==
  ASSUME TypeOK
  PROVE  /\ Len(sent) \in Nat /\ \A p \in DOMAIN net : net[p].req \in Nat
         /\ line # None => line.req \in Nat
<1>1. sent \in Seq(Requests) /\ net \in Seq(Segment)
      /\ line \in [req : Nat, part : {"head", "body"}] \cup {None}
  BY DEF TypeOK
<1>2. Len(sent) \in Nat /\ (line # None => line.req \in Nat)
  BY <1>1
<1>3. ASSUME NEW p \in DOMAIN net PROVE net[p].req \in Nat
  <2>1. net[p] \in Segment
    BY <1>1, <1>3
  <2> QED BY <2>1 DEF Segment
<1> QED BY <1>2, <1>3

LEMMA BelowMore ==
  ASSUME NEW out \in Seq(Line), NEW m \in Nat, NEW n \in Nat, m =< n, AnswersBelow(out, m)
  PROVE  AnswersBelow(out, n)
BY LineFields DEF AnswersBelow

LEMMA BelowAppend ==
  ASSUME NEW out \in Seq(Line), NEW l \in Line, NEW n \in Nat, AnswersBelow(out, n),
         "req" \in DOMAIN l => l.req < n
  PROVE  AnswersBelow(Append(out, l), n)
BY DEF AnswersBelow

\* A line that answers nothing, or a request above all that are answered, keeps
\* the replies in order.
LEMMA RepliesAppend ==
  ASSUME TypeOK, RepliesInOrder, NEW l \in Line, Out' = Append(Out, l),
         "req" \in DOMAIN l => AnswersBelow(Out, l.req)
  PROVE  RepliesInOrder'
<1> SUFFICES ASSUME NEW i \in DOMAIN Out', NEW j \in DOMAIN Out', i < j,
                    "req" \in DOMAIN Out'[i], "req" \in DOMAIN Out'[j]
             PROVE  Out'[i].req < Out'[j].req
  BY DEF RepliesInOrder
<1>0. /\ Len(Out) \in Nat /\ DOMAIN Out = 1 .. Len(Out) /\ DOMAIN Out' = 1 .. Len(Out) + 1
      /\ \A p \in DOMAIN Out : Out'[p] = Out[p]
      /\ Out'[Len(Out) + 1] = l
  BY AppendOut
<1>1. i \in DOMAIN Out /\ (j \in DOMAIN Out \/ j = Len(Out) + 1)
  BY <1>0
<1>2. CASE j \in DOMAIN Out
  BY <1>0, <1>1, <1>2 DEF RepliesInOrder
<1>3. CASE j = Len(Out) + 1
  BY <1>0, <1>1, <1>3 DEF AnswersBelow
<1> QED BY <1>1, <1>2, <1>3

\* The lines for the client as a step leaves them that answers no request.
Unanswering ==
  \/ Out' = Out
  \/ Out' = wire
  \/ \E l \in Line : "req" \notin DOMAIN l /\ Out' = Append(Out, l)

LEMMA UnansweringKeeps ==
  ASSUME TypeOK, RepliesInOrder, Unanswering
  PROVE  /\ RepliesInOrder'
         /\ \A n \in Nat : AnswersBelow(Out, n) => AnswersBelow(Out', n)
<1>0. Out \in Seq(Line) /\ \A i \in DOMAIN wire : i \in DOMAIN Out /\ Out[i] = wire[i]
  BY OutTypes
<1>1. CASE Out' = Out
  BY <1>1 DEF RepliesInOrder
<1>2. CASE Out' = wire
  BY <1>0, <1>2 DEF RepliesInOrder, AnswersBelow
<1>3. ASSUME NEW l \in Line, "req" \notin DOMAIN l, Out' = Append(Out, l)
      PROVE  /\ RepliesInOrder'
             /\ \A n \in Nat : AnswersBelow(Out, n) => AnswersBelow(Out', n)
  BY <1>0, <1>3, RepliesAppend, BelowAppend
<1> QED BY <1>1, <1>2, <1>3 DEF Unanswering

\* A step that answers nothing and leaves the stream alone.
LEMMA StreamIdle ==
  ASSUME TypeOK, Numbered, RepliesInv, UNCHANGED <<sent, half, net>>,
         eof' = eof \/ eof' = TRUE, line' = line \/ line' = None, Unanswering
  PROVE  RepliesInv'
<1>0. /\ Len(sent) \in Nat /\ \A p \in DOMAIN net : net[p].req \in Nat
      /\ line # None => line.req \in Nat
  BY NumberTypes
<1>1. /\ RepliesInOrder'
      /\ \A n \in Nat : AnswersBelow(Out, n) => AnswersBelow(Out', n)
  BY UnansweringKeeps DEF RepliesInv
<1>2. StreamOrdered' /\ LastUnfinished'
  BY DEF RepliesInv, StreamOrdered, LastUnfinished, InMiddle
<1>3. AnswersBehind'
  <2>1. AnswersBelow(Out', Len(sent) + 1) /\ (InMiddle => AnswersBelow(Out', Len(sent)))
    BY <1>0, <1>1 DEF RepliesInv, AnswersBehind
  <2>2. /\ \A p \in DOMAIN net : AnswersBelow(Out', net[p].req)
        /\ line # None => AnswersBelow(Out', line.req)
    BY <1>0, <1>1 DEF RepliesInv, AnswersBehind
  <2> QED BY <2>1, <2>2 DEF AnswersBehind, InMiddle
<1> QED BY <1>1, <1>2, <1>3 DEF RepliesInv

LEMMA SendKeeps ==
  ASSUME TypeOK, Numbered, RepliesInv, NEW r, NEW part \in {"whole", "head", "body"},
         ClientSend(r, part)
  PROVE  RepliesInv'
<1> DEFINE n == Len(sent) + 1
           seg == [req |-> n, part |-> part]
<1>0. /\ net \in Seq(Segment) /\ sent \in Seq(Requests) /\ Len(sent) \in Nat /\ n \in Nat
      /\ Out \in Seq(Line)
      /\ \A p \in DOMAIN net : net[p].req \in Nat /\ net[p].req < n
      /\ line # None => line.req \in Nat /\ line.req < n
  BY OutTypes DEF TypeOK, Numbered, Segment
<1>1. /\ net' = Append(net, seg) /\ Len(sent') = n
      /\ half' = IF part = "whole" THEN None ELSE part
      /\ line' = line /\ Out' = Out
  BY <1>0 DEF ClientSend, Out
<1>2. /\ Len(net) \in Nat /\ DOMAIN net = 1 .. Len(net) /\ DOMAIN net' = 1 .. Len(net) + 1
      /\ \A p \in DOMAIN net : net'[p] = net[p]
      /\ net'[Len(net) + 1] = seg /\ seg.req = n /\ seg.part = part
  BY <1>0, <1>1
<1> HIDE DEF n, seg
<1>3. StreamOrdered'
  <2>1. line' # None => \A p \in DOMAIN net' : line'.req =< net'[p].req
    BY <1>0, <1>1, <1>2 DEF RepliesInv, StreamOrdered
  <2>2. ASSUME NEW p \in DOMAIN net', NEW q \in DOMAIN net', p < q
        PROVE  net'[p].req =< net'[q].req /\ (net'[p].part \in Final => net'[p].req < net'[q].req)
    <3>1. p \in DOMAIN net /\ (q \in DOMAIN net \/ q = Len(net) + 1)
      BY <1>2, <2>2
    <3>2. CASE q \in DOMAIN net
      BY <1>2, <2>2, <3>1, <3>2 DEF RepliesInv, StreamOrdered
    <3>3. CASE q = Len(net) + 1
      BY <1>0, <1>2, <3>1, <3>3
    <3> QED BY <3>1, <3>2, <3>3
  <2> QED BY <2>1, <2>2 DEF StreamOrdered
<1>4. LastUnfinished'
  BY <1>0, <1>1, <1>2 DEF LastUnfinished, InMiddle, Final
<1>5. AnswersBelow(Out, n) /\ AnswersBelow(Out, n + 1)
  BY <1>0, BelowMore DEF RepliesInv, AnswersBehind, n
<1>6. \A p \in DOMAIN net' : AnswersBelow(Out, net'[p].req)
  BY <1>2, <1>5 DEF RepliesInv, AnswersBehind
<1>7. AnswersBehind'
  BY <1>1, <1>5, <1>6 DEF RepliesInv, AnswersBehind
<1>8. RepliesInOrder'
  BY <1>1 DEF RepliesInv, RepliesInOrder
<1> QED BY <1>3, <1>4, <1>7, <1>8 DEF RepliesInv

LEMMA EndLineKeeps ==
  ASSUME TypeOK, Numbered, RepliesInv, ClientEndsLine
  PROVE  RepliesInv'
<1> DEFINE n == Len(sent)
           seg == [req |-> n, part |-> IF half = "head" THEN "tail" ELSE "newline"]
<1>0. /\ net \in Seq(Segment) /\ n \in Nat
      /\ Out \in Seq(Line) /\ InMiddle
      /\ \A p \in DOMAIN net : net[p].req \in Nat /\ net[p].req =< n
      /\ line # None => line.req \in Nat /\ line.req =< n
  BY OutTypes DEF TypeOK, Numbered, Segment, ClientEndsLine, InMiddle
<1>1. /\ net' = Append(net, seg) /\ sent' = sent /\ half' = None
      /\ line' = line /\ Out' = Out
  BY <1>0 DEF ClientEndsLine, Out
<1>2. /\ Len(net) \in Nat /\ DOMAIN net = 1 .. Len(net) /\ DOMAIN net' = 1 .. Len(net) + 1
      /\ \A p \in DOMAIN net : net'[p] = net[p]
      /\ net'[Len(net) + 1] = seg /\ seg.req = n
  BY <1>0, <1>1
<1> HIDE DEF n, seg
<1>3. StreamOrdered'
  <2>1. line' # None => \A p \in DOMAIN net' : line'.req =< net'[p].req
    BY <1>0, <1>1, <1>2 DEF RepliesInv, StreamOrdered
  <2>2. ASSUME NEW p \in DOMAIN net', NEW q \in DOMAIN net', p < q
        PROVE  net'[p].req =< net'[q].req /\ (net'[p].part \in Final => net'[p].req < net'[q].req)
    <3>1. p \in DOMAIN net /\ (q \in DOMAIN net \/ q = Len(net) + 1)
      BY <1>2, <2>2
    <3>2. CASE q \in DOMAIN net
      BY <1>2, <2>2, <3>1, <3>2 DEF RepliesInv, StreamOrdered
    <3>3. CASE q = Len(net) + 1
      BY <1>0, <1>2, <3>1, <3>3 DEF RepliesInv, LastUnfinished, n
    <3> QED BY <3>1, <3>2, <3>3
  <2> QED BY <2>1, <2>2 DEF StreamOrdered
<1>4. LastUnfinished'
  BY <1>1 DEF LastUnfinished, InMiddle
<1>5. AnswersBelow(Out, n)
  BY <1>0 DEF RepliesInv, AnswersBehind, n
<1>6. \A p \in DOMAIN net' : AnswersBelow(Out, net'[p].req)
  BY <1>2, <1>5 DEF RepliesInv, AnswersBehind
<1>7. AnswersBehind'
  BY <1>1, <1>6 DEF RepliesInv, AnswersBehind, InMiddle
<1>8. RepliesInOrder'
  BY <1>1 DEF RepliesInv, RepliesInOrder
<1> QED BY <1>3, <1>4, <1>7, <1>8 DEF RepliesInv

\* The first segment is taken from the stream.
LEMMA StreamTaken ==
  ASSUME TypeOK, RepliesInv, net # <<>>, net' = Tail(net), UNCHANGED <<sent, half, eof>>
  PROVE  /\ \A p, q \in DOMAIN net' : p < q =>
              /\ net'[p].req =< net'[q].req
              /\ net'[p].part \in Final => net'[p].req < net'[q].req
         /\ LastUnfinished'
         /\ \A p \in DOMAIN net' :
              /\ net'[p].req \in Nat /\ Head(net).req =< net'[p].req
              /\ Head(net).part \in Final => Head(net).req < net'[p].req
              /\ AnswersBelow(Out, net'[p].req)
         /\ Head(net).req \in Nat /\ AnswersBelow(Out, Head(net).req)
         /\ (InMiddle /\ Head(net).part \in Final) => Head(net).req < Len(sent)
<1>1. /\ Head(net) = net[1] /\ 1 \in DOMAIN net
      /\ \A p \in DOMAIN net' : p + 1 \in DOMAIN net /\ p + 1 > 1 /\ net'[p] = net[p + 1]
  BY NetTail DEF TypeOK
<1>2. \A p \in DOMAIN net : net[p].req \in Nat
  BY NumberTypes
<1>3. \A p, q \in DOMAIN net' : p < q => p + 1 < q + 1
  BY DEF TypeOK
<1>4. \A p, q \in DOMAIN net' : p < q =>
         /\ net'[p].req =< net'[q].req
         /\ net'[p].part \in Final => net'[p].req < net'[q].req
  BY <1>1, <1>3 DEF RepliesInv, StreamOrdered
<1>5. LastUnfinished'
  BY <1>1 DEF RepliesInv, LastUnfinished, InMiddle
<1>6. \A p \in DOMAIN net' :
        /\ net'[p].req \in Nat /\ Head(net).req =< net'[p].req
        /\ Head(net).part \in Final => Head(net).req < net'[p].req
        /\ AnswersBelow(Out, net'[p].req)
  BY <1>1, <1>2 DEF RepliesInv, StreamOrdered, AnswersBehind
<1>7. /\ Head(net).req \in Nat /\ AnswersBelow(Out, Head(net).req)
      /\ (InMiddle /\ Head(net).part \in Final) => Head(net).req < Len(sent)
  BY <1>1, <1>2 DEF RepliesInv, AnswersBehind, LastUnfinished
<1> QED BY <1>4, <1>5, <1>6, <1>7

LEMMA ReadPartKeeps ==
  ASSUME TypeOK, RepliesInv, ReadPart
  PROVE  RepliesInv'
<1>1. /\ net # <<>> /\ net' = Tail(net) /\ line' = Head(net) /\ Out' = Out
      /\ UNCHANGED <<sent, half, eof>>
  BY DEF ReadPart, client, Out
<1>2. StreamOrdered' /\ LastUnfinished'
  BY <1>1, StreamTaken DEF StreamOrdered
<1>3. AnswersBehind'
  BY <1>1, StreamTaken DEF RepliesInv, AnswersBehind, InMiddle
<1>4. RepliesInOrder'
  BY <1>1 DEF RepliesInv, RepliesInOrder
<1> QED BY <1>2, <1>3, <1>4 DEF RepliesInv

\* What dispatch, or the handling of a line that is no request, may add for the
\* client when it is at work on request i.
AnswersOnly(i) ==
  \/ Out' = Out
  \/ \E l \in Line : Out' = Append(Out, l) /\ ("req" \in DOMAIN l => l.req = i)

LEMMA AnswersKeep ==
  ASSUME TypeOK, NEW i \in Nat, AnswersOnly(i), RepliesInOrder, AnswersBelow(Out, i)
  PROVE  /\ RepliesInOrder'
         /\ \A n \in Nat : (i < n /\ AnswersBelow(Out, n)) => AnswersBelow(Out', n)
<1>0. Out \in Seq(Line)
  BY OutTypes
<1>1. CASE Out' = Out
  BY <1>1 DEF RepliesInOrder
<1>2. ASSUME NEW l \in Line, Out' = Append(Out, l), "req" \in DOMAIN l => l.req = i
      PROVE  /\ RepliesInOrder'
             /\ \A n \in Nat : (i < n /\ AnswersBelow(Out, n)) => AnswersBelow(Out', n)
  <2>1. RepliesInOrder'
    BY <1>2, RepliesAppend
  <2>2. ASSUME NEW n \in Nat, i < n, AnswersBelow(Out, n) PROVE AnswersBelow(Out', n)
    BY <1>0, <1>2, <2>2, BelowAppend
  <2> QED BY <2>1, <2>2
<1> QED BY <1>1, <1>2 DEF AnswersOnly

LEMMA NoRequestAnswers ==
  ASSUME TypeOK, writing = None, wire' = wire, ParseError \/ Ignore, NEW i \in Nat
  PROVE  AnswersOnly(i)
<1>1. CASE Ignore
  BY <1>1, SelectingOut DEF Ignore, AnswersOnly
<1>2. CASE ParseError
  <2>1. /\ writing' = UnnamedError /\ UnnamedError \in Line /\ UnnamedError # None
        /\ "req" \notin DOMAIN UnnamedError
    BY <1>2, NoneIsNoLine DEF ParseError, UnnamedError, Line
  <2> QED BY <2>1, SelectingOut DEF AnswersOnly
<1> QED BY <1>1, <1>2

LEMMA ReadLineKeeps ==
  ASSUME TypeOK, Numbered, RepliesInv, ReadLine
  PROVE  RepliesInv'
<1> DEFINE i == Head(net).req
<1>1. /\ net # <<>> /\ net' = Tail(net) /\ line' = None /\ Head(net).part \in Final
      /\ UNCHANGED <<sent, half, eof, wire>> /\ writing = None
      /\ dispatch(i) \/ ParseError \/ Ignore
  BY DEF ReadLine, Selecting, client, Final
<1>2. i \in DOMAIN sent /\ i \in Nat /\ Len(sent) \in Nat /\ i =< Len(sent)
  BY <1>1, NetTail DEF Numbered, TypeOK
<1>3. AnswersOnly(i)
  BY <1>1, <1>2, DispatchOut, NoRequestAnswers DEF AnswersOnly
<1>4. /\ AnswersBelow(Out, i) /\ (InMiddle => i < Len(sent))
      /\ \A p \in DOMAIN net' :
           net'[p].req \in Nat /\ i < net'[p].req /\ AnswersBelow(Out, net'[p].req)
      /\ LastUnfinished'
  BY <1>1, StreamTaken
<1>5. StreamOrdered'
  BY <1>1, StreamTaken DEF StreamOrdered
<1> HIDE DEF i
<1>6. /\ RepliesInOrder'
      /\ \A n \in Nat : (i < n /\ AnswersBelow(Out, n)) => AnswersBelow(Out', n)
  BY <1>2, <1>3, <1>4, AnswersKeep DEF RepliesInv
<1>7. /\ AnswersBelow(Out', Len(sent) + 1)
      /\ InMiddle => AnswersBelow(Out', Len(sent))
      /\ \A p \in DOMAIN net' : AnswersBelow(Out', net'[p].req)
  BY <1>2, <1>4, <1>6 DEF RepliesInv, AnswersBehind
<1>8. AnswersBehind'
  BY <1>1, <1>7 DEF AnswersBehind, InMiddle
<1> QED BY <1>4, <1>5, <1>6, <1>8 DEF RepliesInv

LEMMA ReadLastLineKeeps ==
  ASSUME TypeOK, Numbered, RepliesInv, ReadLastLine
  PROVE  RepliesInv'
<1> DEFINE i == line.req
<1>1. /\ eof /\ net = <<>> /\ line # None /\ line' = None
      /\ UNCHANGED <<sent, half, eof, net, wire>> /\ writing = None
      /\ dispatch(i) \/ ParseError
  BY DEF ReadLastLine, Selecting, client
<1>2. i \in DOMAIN sent /\ i \in Nat /\ Len(sent) \in Nat /\ i =< Len(sent)
  BY <1>1 DEF Numbered, TypeOK
<1>3. AnswersOnly(i)
  BY <1>1, <1>2, DispatchOut, NoRequestAnswers DEF AnswersOnly
<1>4. AnswersBelow(Out, i) /\ AnswersBelow(Out, Len(sent) + 1)
  BY <1>1 DEF RepliesInv, AnswersBehind
<1> HIDE DEF i
<1>5. /\ RepliesInOrder'
      /\ \A n \in Nat : (i < n /\ AnswersBelow(Out, n)) => AnswersBelow(Out', n)
  BY <1>2, <1>3, <1>4, AnswersKeep DEF RepliesInv
<1>6. AnswersBelow(Out', Len(sent) + 1)
  BY <1>2, <1>4, <1>5
<1>7. AnswersBehind' /\ StreamOrdered' /\ LastUnfinished'
  BY <1>1, <1>6 DEF AnswersBehind, StreamOrdered, LastUnfinished, InMiddle
<1> QED BY <1>5, <1>7 DEF RepliesInv

LEMMA RepliesKept ==
  ASSUME TypeOK, Numbered, RepliesInv, [Next]_vars
  PROVE  RepliesInv'
<1>1. CASE \E k \in Key : Publish(k)
  BY <1>1, StreamIdle DEF Publish, client, Unanswering, Out
<1>2. CASE ClientReads \/ ClientClose \/ Shutdown
  BY <1>2, StreamIdle DEF ClientReads, ClientClose, Shutdown, client, Unanswering, Out
<1>3. CASE WriteLine
  BY <1>3, StreamIdle DEF WriteLine, client, Unanswering, Out
<1>4. CASE Close
  BY <1>4, StreamIdle DEF Close, client, Unanswering, Out
<1>5. CASE UNCHANGED vars
  BY <1>5, StreamIdle DEF vars, Unanswering, Out
<1>6. CASE RecvEvent \/ RecvLagged
  <2>1. /\ UNCHANGED <<sent, half, net, eof, wire>> /\ line' = None /\ writing = None
        /\ \/ writing' = None \/ writing' = Update(subscription.next + 1)
           \/ writing' = Lag(tail - Capacity - subscription.next)
    BY <1>6 DEF RecvEvent, RecvLagged, Selecting, Missed, client
  <2>2. \A n : "req" \notin DOMAIN Update(n) /\ "req" \notin DOMAIN Lag(n)
    BY DEF Update, Lag
  <2>3. writing' \in Line \cup {None}
    BY TypesKept DEF TypeOK
  <2>4. Unanswering
    BY <2>1, <2>2, <2>3, SelectingOut DEF Unanswering
  <2> QED BY <2>1, <2>4, StreamIdle
<1> QED BY <1>1, <1>2, <1>3, <1>4, <1>5, <1>6, Actions, SendKeeps, EndLineKeeps,
           ReadPartKeeps, ReadLineKeeps, ReadLastLineKeeps

LEMMA RepliesInvariant == Spec => []RepliesInv
<1>1. Init => RepliesInv
  BY DEF Init, RepliesInv, StreamOrdered, LastUnfinished, AnswersBehind, AnswersBelow,
         RepliesInOrder, InMiddle, Out
<1> QED BY <1>1, RepliesKept, TypesInvariant, PTL DEF Spec

\* The client can match replies with the requests it pipelined: they come in the
\* order of the requests and none twice, however the requests are cut into
\* segments, whatever a winning event arm drops of them, and at the end of the
\* stream too.
THEOREM RepliesAreInOrder == Spec => []RepliesInOrder
BY RepliesInvariant, PTL DEF RepliesInv

-----------------------------------------------------------------------------
(***************************************************************************)
(* The lag notices add up.  Told is defined by recursion; ComesTo says     *)
(* what its last value is by a function that satisfies the recursion, so   *)
(* that a step can extend it by one line.                                  *)
(***************************************************************************)
Notice(l) == IF l.kind = "lag" THEN l.dropped ELSE 0

Totals(f, a, out) ==
  f = [i \in a .. Len(out) |-> IF i = a THEN 0 ELSE f[i - 1] + Notice(out[i])]

\* The lag notices after line a of out come to n.
ComesTo(a, out, n) == \E f : Totals(f, a, out) /\ f[Len(out)] = n

LEMMA LeastOf ==
  ASSUME NEW S \in SUBSET Nat, S # {}
  PROVE  \E m \in S : \A y \in S : m =< y
<1> DEFINE R == OpToRel(<, Nat)
<1>1. IsWellFoundedOn(R, Nat)
  BY NatLessThanWellFounded, Zenon
<1>2. \A x, y \in Nat : <<y, x>> \in R <=> y < x
  BY DEF OpToRel
<1> HIDE DEF R
<1>3. PICK m \in S : \A y \in S : ~(<<y, m>> \in R)
  BY <1>1, WFMin
<1>4. ASSUME NEW y \in S PROVE m =< y
  <2>1. m \in Nat /\ y \in Nat
    OBVIOUS
  <2>2. ~(y < m)
    BY <1>2, <1>3, <2>1
  <2> QED BY <2>1, <2>2
<1> QED BY <1>4

\* The recursion has one solution.
LEMMA TotalsUnique ==
  ASSUME NEW out \in Seq(Line), NEW a \in DOMAIN out, NEW f, NEW g,
         Totals(f, a, out), Totals(g, a, out)
  PROVE  f = g
<1> DEFINE D == {i \in a .. Len(out) : f[i] # g[i]}
<1>0. a \in Nat /\ Len(out) \in Nat
  OBVIOUS
<1>1. /\ f = [i \in a .. Len(out) |-> f[i]] /\ g = [i \in a .. Len(out) |-> g[i]]
  BY Zenon DEF Totals
<1>2. \A i \in a .. Len(out) :
        /\ f[i] = IF i = a THEN 0 ELSE f[i - 1] + Notice(out[i])
        /\ g[i] = IF i = a THEN 0 ELSE g[i - 1] + Notice(out[i])
  BY Zenon DEF Totals
<1>3. ASSUME D # {} PROVE FALSE
  <2>1. D \in SUBSET Nat
    BY <1>0
  <2>2. PICK m \in D : \A y \in D : m =< y
    BY <1>3, <2>1, LeastOf
  <2>3. m \in a .. Len(out) /\ f[m] # g[m]
    OBVIOUS
  <2>4. m # a
    BY <1>2, <2>3
  <2>5. m - 1 \in a .. Len(out) /\ ~(m =< m - 1)
    BY <1>0, <2>3, <2>4
  <2>6. f[m - 1] = g[m - 1]
    BY <2>2, <2>5
  <2> QED BY <1>2, <2>3, <2>4, <2>6
<1>4. \A i \in a .. Len(out) : f[i] = g[i]
  BY <1>3
<1> QED BY <1>1, <1>4

LEMMA ComesToNothing ==
  ASSUME NEW out \in Seq(Line), NEW a \in DOMAIN out, a = Len(out)
  PROVE  ComesTo(a, out, 0)
<1> DEFINE f == [i \in a .. Len(out) |-> 0]
<1>1. \A i \in a .. Len(out) : i = a
  OBVIOUS
<1>2. Totals(f, a, out) /\ f[Len(out)] = 0
  BY <1>1 DEF Totals
<1> QED BY <1>2 DEF ComesTo

LEMMA ComesToMore ==
  ASSUME NEW out \in Seq(Line), NEW a \in DOMAIN out, NEW n, ComesTo(a, out, n),
         NEW l \in Line
  PROVE  ComesTo(a, Append(out, l), n + Notice(l))
<1> DEFINE out2 == Append(out, l)
           m == Len(out) + 1
<1>1. PICK f : Totals(f, a, out) /\ f[Len(out)] = n
  BY DEF ComesTo
<1>2. /\ a \in Nat /\ Len(out) \in Nat /\ Len(out2) = m /\ a =< Len(out) /\ a > 0
      /\ \A i \in 1 .. Len(out) : out2[i] = out[i]
      /\ out2[m] = l
  OBVIOUS
<1> DEFINE g == [i \in a .. m |-> IF i = m THEN n + Notice(l) ELSE f[i]]
<1>3. \A i \in a .. Len(out) : f[i] = IF i = a THEN 0 ELSE f[i - 1] + Notice(out[i])
  BY <1>1, Zenon DEF Totals
<1> HIDE DEF out2
<1>4. \A i \in a .. m : g[i] = IF i = a THEN 0 ELSE g[i - 1] + Notice(out2[i])
  <2> SUFFICES ASSUME NEW i \in a .. m
               PROVE  g[i] = IF i = a THEN 0 ELSE g[i - 1] + Notice(out2[i])
    OBVIOUS
  <2>1. CASE i = m
    <3>1. i # a /\ i - 1 = Len(out) /\ i - 1 \in a .. m /\ i - 1 # m
      BY <1>2, <2>1
    <3>2. g[i - 1] = n /\ g[i] = n + Notice(l)
      BY <1>1, <2>1, <3>1
    <3> QED BY <1>2, <2>1, <3>1, <3>2
  <2>2. CASE i # m
    <3>1. i \in a .. Len(out) /\ i \in 1 .. Len(out) /\ g[i] = f[i]
      BY <1>2, <2>2
    <3>2. CASE i = a
      BY <1>3, <3>1, <3>2
    <3>3. CASE i # a
      <4>1. i - 1 \in a .. m /\ i - 1 # m
        BY <1>2, <2>2, <3>3
      <4>2. g[i - 1] = f[i - 1]
        BY <4>1
      <4> QED BY <1>2, <1>3, <3>1, <3>3, <4>2
    <3> QED BY <3>2, <3>3
  <2> QED BY <2>1, <2>2
<1>5. g = [i \in a .. m |-> g[i]] /\ m \in a .. m
  BY <1>2
<1>6. g[m] = n + Notice(l)
  BY <1>5
<1> HIDE DEF g
<1>7. Totals(g, a, out2)
  BY <1>2, <1>4, <1>5 DEF Totals
<1> QED BY <1>2, <1>6, <1>7 DEF ComesTo, out2

\* Line a of out answers a subscribe request, and none behind it does.
IsLastAck(a, out) ==
  /\ a \in DOMAIN out /\ out[a].kind = "subscribed"
  /\ \A j \in DOMAIN out : out[j].kind = "subscribed" => j =< a

LEMMA ComesToTold ==
  ASSUME TypeOK, NEW a, NEW n, IsLastAck(a, Out), ComesTo(a, Out, n)
  PROVE  ToldDropped = n
<1> DEFINE S == {i \in DOMAIN Out : Is(i, "subscribed")}
<1>0. Out \in Seq(Line) /\ a \in DOMAIN Out /\ a \in Nat /\ Len(Out) \in Nat
  BY OutTypes DEF IsLastAck
<1>1. a \in S /\ (\A y \in S : a >= y) /\ \A x \in S : x \in Nat
  BY <1>0 DEF IsLastAck, Is
<1>2. LastAck = a
  <2>1. LastAck = CHOOSE x \in S : \A y \in S : x >= y
    BY DEF LastAck, Max
  <2> HIDE DEF S
  <2>2. \A x \in S : (\A y \in S : x >= y) => x = a
    BY <1>1
  <2> QED BY <1>1, <2>1, <2>2
<1>3. PICK f : Totals(f, a, Out) /\ f[Len(Out)] = n
  BY DEF ComesTo
<1>4. \A i \in a .. Len(Out) : i # a => Dropped(i) = Notice(Out[i])
  BY <1>0 DEF Dropped, Notice, Is
<1> DEFINE P(g) == g = [i \in LastAck .. Len(Out) |->
                          IF i = LastAck THEN 0 ELSE g[i - 1] + Dropped(i)]
<1>5. \A g : P(g) <=> Totals(g, a, Out)
  <2> SUFFICES ASSUME NEW g PROVE P(g) <=> Totals(g, a, Out)
    OBVIOUS
  <2>1. [i \in LastAck .. Len(Out) |-> IF i = LastAck THEN 0 ELSE g[i - 1] + Dropped(i)]
          = [i \in a .. Len(Out) |-> IF i = a THEN 0 ELSE g[i - 1] + Notice(Out[i])]
    BY <1>2, <1>4
  <2> QED BY <2>1 DEF Totals
<1>6. P(f)
  BY <1>3, <1>5
<1>7. P(Told)
  <2>1. Told = CHOOSE g : P(g)
    BY DEF Told
  <2> HIDE DEF P
  <2> QED BY <1>6, <2>1
<1>8. Told = f
  <2> HIDE DEF P
  <2> QED BY <1>0, <1>3, <1>5, <1>7, TotalsUnique
<1> QED BY <1>3, <1>8 DEF ToldDropped

Undelivered == {s \in Passed : ~Updated(s)}
Missing == {s \in Passed : events[s] \in subscription.prefix /\ ~Updated(s)}

LagInv ==
  subscription # None =>
    \E a \in DOMAIN Out, n \in Nat :
      /\ IsLastAck(a, Out) /\ ComesTo(a, Out, n)
      /\ Cardinality(Missing) =< n /\ n =< Cardinality(Undelivered)

LEMMA Finite ==
  ASSUME TypeOK, subscription # None
  PROVE  /\ IsFiniteSet(Missing) /\ IsFiniteSet(Undelivered)
         /\ Cardinality(Missing) \in Nat /\ Cardinality(Undelivered) \in Nat
<1>1. subscription.start \in Nat /\ subscription.next \in Nat
  BY DEF TypeOK, Subscription
<1>2. IsFiniteSet(Passed)
  BY <1>1, FS_Interval DEF Passed
<1>3. Missing \in SUBSET Passed /\ Undelivered \in SUBSET Passed
  BY DEF Missing, Undelivered
<1>4. IsFiniteSet(Missing) /\ IsFiniteSet(Undelivered)
  BY <1>2, <1>3, FS_Subset
<1> QED BY <1>4, FS_CardinalityType

\* One more line makes at most the event it carries delivered.
LEMMA UpdatedAppend ==
  ASSUME TypeOK, NEW l \in Line, Out' = Append(Out, l)
  PROVE  \A s : Updated(s)' <=> Updated(s) \/ l = Update(s)
<1> SUFFICES ASSUME NEW s PROVE Updated(s)' <=> Updated(s) \/ l = Update(s)
  OBVIOUS
<1>1. /\ DOMAIN Out = 1 .. Len(Out) /\ DOMAIN Out' = 1 .. Len(Out) + 1 /\ Len(Out) \in Nat
      /\ \A i \in DOMAIN Out : Out'[i] = Out[i]
      /\ Out'[Len(Out) + 1] = l
  BY AppendOut
<1>2. \A i \in DOMAIN Out' : i \in DOMAIN Out \/ i = Len(Out) + 1
  BY <1>1
<1>3. DOMAIN Out \subseteq DOMAIN Out' /\ Len(Out) + 1 \in DOMAIN Out'
  BY <1>1
<1> QED BY <1>1, <1>2, <1>3 DEF Updated, Update

\* No event behind the receiver's position has been forwarded.
LEMMA NothingAhead ==
  ASSUME TypeOK, UpdatesInv, subscription # None, NEW s \in Nat, s > subscription.next
  PROVE  ~Updated(s)
<1> SUFFICES ASSUME NEW i \in DOMAIN Out, Out[i] = Update(s) PROVE FALSE
  BY DEF Updated
<1>1. Out[i].kind = "update" /\ Out[i].seq = s
  BY DEF Update
<1>2. s =< subscription.next /\ subscription.next \in Nat
  BY <1>1 DEF UpdatesInv, UpdatesPassed, TypeOK, Subscription
<1> QED BY <1>2

LEMMA AckAppend ==
  ASSUME NEW out \in Seq(Line), NEW a \in DOMAIN out, NEW l \in Line,
         l.kind # "subscribed", IsLastAck(a, out)
  PROVE  IsLastAck(a, Append(out, l)) /\ a \in DOMAIN Append(out, l)
<1> DEFINE out2 == Append(out, l)
<1>1. /\ \A i \in DOMAIN out2 : i \in DOMAIN out \/ i = Len(out) + 1
      /\ \A i \in DOMAIN out : i \in DOMAIN out2 /\ out2[i] = out[i]
      /\ out2[Len(out) + 1] = l
  OBVIOUS
<1> HIDE DEF out2
<1>2. IsLastAck(a, out2) /\ a \in DOMAIN out2
  BY <1>1 DEF IsLastAck
<1> QED BY <1>2 DEF out2

\* A line that is neither a notice nor the answer to a subscribe request.
LEMMA LagIdle ==
  ASSUME TypeOK,
         NEW a \in DOMAIN Out, NEW n \in Nat, IsLastAck(a, Out), ComesTo(a, Out, n),
         \/ Out' = Out
         \/ \E l \in Line : l.kind \notin {"subscribed", "lag"} /\ Out' = Append(Out, l),
         Cardinality(Missing') =< n, n =< Cardinality(Undelivered')
  PROVE  LagInv'
<1>0. Out \in Seq(Line)
  BY OutTypes
<1>1. CASE Out' = Out
  BY <1>1 DEF LagInv
<1>2. ASSUME NEW l \in Line, l.kind \notin {"subscribed", "lag"}, Out' = Append(Out, l)
      PROVE  LagInv'
  <2>1. IsLastAck(a, Out') /\ a \in DOMAIN Out'
    BY <1>0, <1>2, AckAppend
  <2>2. ComesTo(a, Out', n + Notice(l)) /\ n + Notice(l) = n
    BY <1>0, <1>2, ComesToMore DEF Notice
  <2> QED BY <2>1, <2>2 DEF LagInv
<1> QED BY <1>1, <1>2

LEMMA ForwardKeepsLag ==
  ASSUME TypeOK, TypeOK', UpdatesInv, LagInv, Forwards
  PROVE  LagInv'
<1> DEFINE m == subscription.next + 1
<1>1. /\ subscription # None /\ subscription.next \in Nat /\ subscription.start \in Nat
      /\ subscription.start =< subscription.next
      /\ subscription'.next = m /\ subscription'.start = subscription.start
      /\ subscription'.prefix = subscription.prefix
      /\ events' = events /\ m \in Nat /\ m > subscription.next
  BY DEF Forwards, Subscription, UpdatesInv, Positioned
<1>2. PICK a \in DOMAIN Out, n \in Nat :
        /\ IsLastAck(a, Out) /\ ComesTo(a, Out, n)
        /\ Cardinality(Missing) =< n /\ n =< Cardinality(Undelivered)
  BY <1>1 DEF LagInv
<1>3. Passed' = Passed \cup {m} /\ m \notin Passed
  BY <1>1 DEF Passed
<1>4. \A s \in Passed : s # m
  BY <1>3
<1>5. ~Updated(m)
  BY <1>1, NothingAhead
<1>7. Update(m) \in Line /\ Update(m).kind = "update"
      /\ \A s : s # m => Update(m) # Update(s)
  BY <1>1, LineTypes DEF Update
<1>8. CASE Out' = Append(Out, Update(m)) /\ events[m] \in subscription.prefix
  <2>1. \A s : Updated(s)' <=> Updated(s) \/ Update(m) = Update(s)
    BY <1>7, <1>8, UpdatedAppend
  <2>2. Missing' = Missing /\ Undelivered' = Undelivered
    BY <1>1, <1>3, <1>4, <1>7, <2>1 DEF Missing, Undelivered
  <2> QED BY <1>2, <1>7, <1>8, <2>2, LagIdle
<1>9. CASE Out' = Out /\ events[m] \notin subscription.prefix
  <2>1. \A s : Updated(s)' <=> Updated(s)
    BY <1>9 DEF Updated
  <2>2. Missing' = Missing /\ Undelivered' = Undelivered \cup {m} /\ m \notin Undelivered
    BY <1>1, <1>3, <1>5, <1>9, <2>1 DEF Missing, Undelivered
  <2>3. Cardinality(Undelivered') = Cardinality(Undelivered) + 1
    BY <1>1, <2>2, Finite, FS_AddElement
  <2>4. n =< Cardinality(Undelivered')
    BY <1>1, <1>2, <2>3, Finite
  <2> QED BY <1>2, <1>9, <2>2, <2>4, LagIdle
<1> QED BY <1>8, <1>9 DEF Forwards

\* A finite set and the b+1 .. t that it does not meet.
LEMMA WithRange ==
  ASSUME NEW b \in Nat, NEW t \in Nat, b < t,
         NEW S, IsFiniteSet(S), S \cap ((b + 1) .. t) = {}
  PROVE  /\ IsFiniteSet(S \cup ((b + 1) .. t))
         /\ Cardinality(S \cup ((b + 1) .. t)) = Cardinality(S) + (t - b)
<1> DEFINE c == b + 1
<1>1. c \in Int /\ t \in Int /\ ~(c > t) /\ t - c + 1 = t - b
  OBVIOUS
<1>2. Cardinality(S) \in Nat /\ Cardinality({}) = 0
  BY FS_CardinalityType, FS_EmptySet
<1> HIDE DEF c
<1>3. IsFiniteSet(c .. t) /\ Cardinality(c .. t) = t - b
  BY <1>1, FS_Interval
<1>4. S \cap (c .. t) = {}
  BY DEF c
<1>5. /\ IsFiniteSet(S \cup (c .. t))
      /\ Cardinality(S \cup (c .. t)) = Cardinality(S) + Cardinality(c .. t) - Cardinality({})
  <2> DEFINE G == c .. t
  <2>1. IsFiniteSet(G) /\ S \cap G = {}
    BY <1>3, <1>4
  <2> HIDE DEF G
  <2>2. /\ IsFiniteSet(S \cup G)
        /\ Cardinality(S \cup G) = Cardinality(S) + Cardinality(G) - Cardinality(S \cap G)
    BY <2>1, FS_Union, Zenon
  <2>3. /\ IsFiniteSet(S \cup G)
        /\ Cardinality(S \cup G) = Cardinality(S) + Cardinality(G) - Cardinality({})
    BY <2>1, <2>2
  <2> QED BY <2>3 DEF G
<1>6. Cardinality(S \cup (c .. t)) = Cardinality(S) + (t - b)
  BY <1>1, <1>2, <1>3, <1>5
<1> QED BY <1>5, <1>6 DEF c

LEMMA LagKeepsLag ==
  ASSUME TypeOK, TypeOK', UpdatesInv, LagInv, Lagging
  PROVE  LagInv'
<1> DEFINE b == subscription.next
           t == tail - Capacity
           d == t - b
           gap == (b + 1) .. t
           l == Lag(d)
<1>0. tail \in Nat /\ Out \in Seq(Line)
  BY OutTypes DEF TypeOK, tail
<1>1. /\ subscription # None /\ b \in Nat /\ subscription.start \in Nat
      /\ subscription.start =< b /\ t \in Nat /\ b < t /\ d \in Nat
      /\ subscription'.next = t /\ subscription'.start = subscription.start
      /\ subscription'.prefix = subscription.prefix
      /\ events' = events
  BY <1>0, Constants DEF Lagging, Subscription, UpdatesInv, Positioned
<1>2. PICK a \in DOMAIN Out, n \in Nat :
        /\ IsLastAck(a, Out) /\ ComesTo(a, Out, n)
        /\ Cardinality(Missing) =< n /\ n =< Cardinality(Undelivered)
  BY <1>1 DEF LagInv
<1>3. Passed' = Passed \cup gap /\ Passed \cap gap = {}
  BY <1>1 DEF Passed
<1>4. l \in Line /\ l.kind = "lag" /\ l.dropped = d /\ \A s : l # Update(s)
  BY <1>1, LineTypes DEF Lag, Update
<1>5. Out' = Append(Out, l)
  BY DEF Lagging
<1> HIDE DEF l
<1>6. \A s : Updated(s)' <=> Updated(s)
  BY <1>4, <1>5, UpdatedAppend
<1>7. \A s \in gap : ~Updated(s)
  BY <1>1, NothingAhead
<1>8. /\ IsFiniteSet(Missing) /\ IsFiniteSet(Undelivered)
      /\ Cardinality(Missing) \in Nat /\ Cardinality(Undelivered) \in Nat
  BY <1>1, Finite
<1>9. \A S : (IsFiniteSet(S) /\ S \cap gap = {}) =>
               IsFiniteSet(S \cup gap) /\ Cardinality(S \cup gap) = Cardinality(S) + d
  <2> HIDE DEF b, t
  <2> QED BY <1>1, WithRange
<1> HIDE DEF gap, d
<1>10. Cardinality(Undelivered') = Cardinality(Undelivered) + d
  <2>1. Undelivered' = Undelivered \cup gap /\ Undelivered \cap gap = {}
    BY <1>3, <1>6, <1>7 DEF Undelivered
  <2> QED BY <1>8, <1>9, <2>1
<1>11. Cardinality(Missing') \in Nat /\ Cardinality(Missing') =< Cardinality(Missing) + d
  <2>1. Missing' \in SUBSET (Missing \cup gap)
    BY <1>1, <1>3, <1>6 DEF Missing
  <2>2. Missing \cap gap = {}
    BY <1>3 DEF Missing
  <2>3. IsFiniteSet(Missing \cup gap) /\ Cardinality(Missing \cup gap) = Cardinality(Missing) + d
    BY <1>8, <1>9, <2>2
  <2>4. IsFiniteSet(Missing') /\ Cardinality(Missing') =< Cardinality(Missing) + d
    BY <2>1, <2>3, FS_Subset
  <2> QED BY <2>4, FS_CardinalityType
<1>12. Notice(l) = d
  BY <1>4 DEF Notice
<1>13. IsLastAck(a, Out') /\ a \in DOMAIN Out' /\ ComesTo(a, Out', n + d)
  BY <1>0, <1>2, <1>4, <1>5, <1>12, AckAppend, ComesToMore
<1>14. n + d \in Nat /\ Cardinality(Missing') =< n + d /\ n + d =< Cardinality(Undelivered')
  BY <1>1, <1>2, <1>8, <1>10, <1>11
<1> QED BY <1>13, <1>14 DEF LagInv

LEMMA LagKept ==
  ASSUME TypeOK, TypeOK', Numbered, UpdatesInv, LagInv, [Next]_vars
  PROVE  LagInv'
<1>0. tail \in Nat /\ Out \in Seq(Line)
  BY OutTypes DEF TypeOK, tail
<1>1. ASSUME UNCHANGED subscription, Grown, subscription # None,
             \A s : Updated(s)' <=> Updated(s)
      PROVE  Missing' = Missing /\ Undelivered' = Undelivered
  <2>1. Passed' = Passed /\ \A s \in Passed : s \in 1 .. tail
    BY <1>0, <1>1 DEF Passed, UpdatesInv, Positioned, TypeOK, Subscription
  <2>2. \A s \in Passed : events'[s] = events[s]
    BY <1>1, <2>1, GrownTail
  <2> QED BY <1>1, <2>1, <2>2 DEF Missing, Undelivered
<1>2. CASE Silent
  <2> SUFFICES ASSUME subscription # None PROVE LagInv'
    BY <1>2 DEF Silent, LagInv
  <2>1. Out' = Out /\ UNCHANGED subscription /\ Grown /\ \A s : Updated(s)' <=> Updated(s)
    BY <1>2 DEF Silent, Updated
  <2>2. Missing' = Missing /\ Undelivered' = Undelivered
    BY <1>1, <2>1
  <2> QED BY <2>1, <2>2, LagIdle DEF LagInv
<1>3. ASSUME NEW l \in Line, l.kind \in {"response", "parse_error"}, Out' = Append(Out, l),
             UNCHANGED subscription, Grown
      PROVE  LagInv'
  <2> SUFFICES ASSUME subscription # None PROVE LagInv'
    BY <1>3 DEF LagInv
  <2>1. \A s : l # Update(s)
    BY <1>3 DEF Update
  <2>2. \A s : Updated(s)' <=> Updated(s)
    BY <1>3, <2>1, UpdatedAppend
  <2>3. Missing' = Missing /\ Undelivered' = Undelivered
    BY <1>1, <1>3, <2>2
  <2>4. l.kind \notin {"subscribed", "lag"}
    BY <1>3
  <2> QED BY <1>3, <2>3, <2>4, LagIdle DEF LagInv
<1>4. CASE Subscribes
  <2>1. PICK i \in Nat : Out' = Append(Out, [kind |-> "subscribed", req |-> i])
    BY <1>4 DEF Subscribes
  <2>2. subscription'.start = tail /\ subscription'.next = tail
    BY <1>4 DEF Subscribes
  <2>3. Passed' = {}
    BY <1>0, <2>2 DEF Passed
  <2>4. Missing' = {} /\ Undelivered' = {}
    BY <2>3 DEF Missing, Undelivered
  <2>5. Cardinality(Missing') = 0 /\ Cardinality(Undelivered') = 0
    BY <2>4, FS_EmptySet
  <2> DEFINE l == [kind |-> "subscribed", req |-> i]
             a == Len(Out')
  <2>6. l \in Line /\ l.kind = "subscribed" /\ Out' = Append(Out, l)
    BY <2>1, LineTypes
  <2> HIDE DEF l
  <2>7. /\ Out' \in Seq(Line) /\ a \in DOMAIN Out' /\ Out'[a] = l
        /\ \A j \in DOMAIN Out' : j =< a
    BY <1>0, <2>6
  <2>8. IsLastAck(a, Out') /\ ComesTo(a, Out', 0)
    BY <2>6, <2>7, ComesToNothing DEF IsLastAck
  <2>9. 0 \in Nat /\ 0 =< 0
    OBVIOUS
  <2> QED BY <2>5, <2>7, <2>8, <2>9 DEF LagInv
<1>5. CASE Closing
  BY <1>5 DEF Closing, LagInv
<1> QED BY <1>2, <1>3, <1>4, <1>5, ForwardKeepsLag, LagKeepsLag, Effects DEF Replies

LEMMA LagInvariant == Spec => []LagInv
<1>1. Init => LagInv
  BY DEF Init, LagInv
<1> QED BY <1>1, LagKept, TypesInvariant, UpdatesInvariant, PTL DEF Spec

LEMMA LagEnough ==
  ASSUME TypeOK, LagInv
  PROVE  LagAddsUp
BY ComesToTold DEF LagInv, LagAddsUp, Missing, Undelivered

\* For every subscription, however often it lags and whatever it filters out,
\* the lag notices the client has been sent count at least the wanted events
\* that were passed over and at most the events that were not delivered.
THEOREM LagNoticesAddUp == Spec => []LagAddsUp
BY LagInvariant, LagEnough, TypesInvariant, PTL

\* The subscription has been told of no loss.
ToldOfNothing == subscription # None /\ ToldDropped = 0

\* "Clients always know when they've missed events" (rpc/server.rs), as far as it
\* is true: a client told of no loss since its latest subscribe request has
\* been sent every wanted event that its receiver has gone past.  The events that
\* waited for an earlier subscription of the connection are the exception.
THEOREM NoNoticeNoLoss ==
  Spec => [](ToldOfNothing =>
               \A s \in Passed : events[s] \in subscription.prefix => Updated(s))
<1>1. ASSUME TypeOK, LagInv, ToldOfNothing
      PROVE  \A s \in Passed : events[s] \in subscription.prefix => Updated(s)
  <2>1. subscription # None /\ ToldDropped = 0
    BY <1>1 DEF ToldOfNothing
  <2>2. Cardinality(Missing) =< 0
    BY <1>1, <2>1, LagEnough DEF LagAddsUp, Missing
  <2>3. IsFiniteSet(Missing) /\ Cardinality(Missing) \in Nat
    BY <1>1, <2>1, Finite
  <2>4. Cardinality(Missing) = 0
    BY <2>2, <2>3
  <2>5. Missing = {}
    BY <2>3, <2>4, FS_EmptySet
  <2> QED BY <2>5 DEF Missing
<1> QED BY <1>1, LagInvariant, TypesInvariant, PTL

\* The client "knows exactly how many events it missed" (README.md of the engine),
\* as far as it is true: when its subscription has no prefix.  With one, the notices
\* count the events it did not ask for as well.
THEOREM ExactWithoutPrefix ==
  Spec => [](subscription # None /\ subscription.prefix = Key => LagExact)
<1>1. ASSUME TypeOK, UpdatesInv, LagInv, subscription # None, subscription.prefix = Key
      PROVE  LagExact
  <2>1. Passed \subseteq 1 .. tail
    <3>1. /\ subscription.start \in Nat /\ subscription.next \in Nat /\ tail \in Nat
          /\ subscription.next =< tail
      BY <1>1 DEF TypeOK, Subscription, UpdatesInv, Positioned, tail
    <3> QED BY <3>1 DEF Passed
  <2>2. \A s \in Passed : events[s] \in Key
    BY <1>1, <2>1 DEF TypeOK, tail
  <2>3. Missing = Undelivered
    BY <1>1, <2>2 DEF Missing, Undelivered
  <2>4. PICK n \in Nat : ToldDropped = n
    BY <1>1, ComesToTold DEF LagInv
  <2>5. Cardinality(Missing) =< n /\ n =< Cardinality(Undelivered)
    BY <1>1, <2>4, LagEnough DEF LagAddsUp, Missing, Undelivered
  <2>6. n = Cardinality(Missing)
    BY <1>1, <2>3, <2>5, Finite
  <2> QED BY <2>4, <2>6 DEF LagExact, Missing
<1> QED BY <1>1, LagInvariant, UpdatesInvariant, TypesInvariant, PTL
=============================================================================
