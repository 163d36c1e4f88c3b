-------------------------- MODULE EventStreamsProofs --------------------------
(***************************************************************************)
(* Proofs about EventStreams for any registrations, any capacity of a      *)
(* stream's queue and any number of broadcasts.                            *)
(***************************************************************************)
EXTENDS EventStreams, FiniteSetTheorems, TLAPS

-----------------------------------------------------------------------------
(* How many playback notifications a queue holds: none, or one. *)

NonePlayback(q) == \A i \in 1..Len(q) : q[i] # "playback"
OnePlayback(q)  == \E i \in 1..Len(q) :
                     q[i] = "playback" /\ \A j \in 1..Len(q) : q[j] = "playback" => j = i

\* The queue that draining or registering leaves behind.
LEMMA ShortQueues ==
    /\ <<>> \in Seq(Events) /\ NonePlayback(<<>>)
    /\ <<"state">> \in Seq(Events) /\ NonePlayback(<<"state">>)
    /\ <<"playback">> \in Seq(Events) /\ OnePlayback(<<"playback">>)
  BY DEF NonePlayback, OnePlayback, Events

\* What appending an event does to the count.
LEMMA Appending ==
    ASSUME NEW q \in Seq(Events)
    PROVE  /\ \A event \in Events : /\ Append(q, event) \in Seq(Events)
                                    /\ Len(Append(q, event)) = Len(q) + 1
           /\ NonePlayback(q) => NonePlayback(Append(q, "state"))
           /\ OnePlayback(q) => OnePlayback(Append(q, "state"))
           /\ NonePlayback(q) => OnePlayback(Append(q, "playback"))
<1>0. \A event \in Events : /\ Append(q, event) \in Seq(Events)
                            /\ Len(Append(q, event)) = Len(q) + 1
  OBVIOUS
<1>1. /\ Len(q) \in Nat /\ "state" \in Events /\ "playback" \in Events
      /\ \A event \in Events : \A i \in 1..Len(q) : Append(q, event)[i] = q[i]
      /\ \A event \in Events : Append(q, event)[Len(q) + 1] = event
  BY DEF Events
<1>2. NonePlayback(q) => NonePlayback(Append(q, "state"))
  BY <1>0, <1>1 DEF NonePlayback
<1>3. ASSUME OnePlayback(q) PROVE OnePlayback(Append(q, "state"))
  <2>1. PICK i \in 1..Len(q) : q[i] = "playback" /\ \A j \in 1..Len(q) : q[j] = "playback" => j = i
    BY <1>3 DEF OnePlayback
  <2>2. i \in 1..Len(Append(q, "state")) /\ Append(q, "state")[i] = "playback"
    BY <1>0, <1>1, <2>1
  <2>3. \A j \in 1..Len(Append(q, "state")) : Append(q, "state")[j] = "playback" => j = i
    BY <1>0, <1>1, <2>1
  <2> QED BY <2>2, <2>3 DEF OnePlayback
<1>4. ASSUME NonePlayback(q) PROVE OnePlayback(Append(q, "playback"))
  <2>1. Len(q) + 1 \in 1..Len(Append(q, "playback"))
        /\ Append(q, "playback")[Len(q) + 1] = "playback"
    BY <1>0, <1>1
  <2>2. \A j \in 1..Len(Append(q, "playback")) :
          Append(q, "playback")[j] = "playback" => j = Len(q) + 1
    BY <1>0, <1>1, <1>4 DEF NonePlayback
  <2> QED BY <2>1, <2>2 DEF OnePlayback
<1> QED BY <1>0, <1>2, <1>3, <1>4

\* What taking the oldest event does to the count.
LEMMA Taking ==
    ASSUME NEW q \in Seq(Events), q # <<>>
    PROVE  /\ Head(q) \in Events /\ Tail(q) \in Seq(Events) /\ Len(Tail(q)) = Len(q) - 1
           /\ NonePlayback(q) => Head(q) # "playback" /\ NonePlayback(Tail(q))
           /\ OnePlayback(q) /\ Head(q) = "playback" => NonePlayback(Tail(q))
           /\ OnePlayback(q) /\ Head(q) # "playback" => OnePlayback(Tail(q))
<1>0. Head(q) \in Events /\ Tail(q) \in Seq(Events) /\ Len(Tail(q)) = Len(q) - 1
  OBVIOUS
<1>1. /\ Len(q) \in Nat \ {0} /\ Head(q) = q[1]
      /\ \A i \in 1..Len(Tail(q)) : Tail(q)[i] = q[i + 1] /\ i + 1 \in 1..Len(q) /\ i + 1 # 1
  OBVIOUS
<1>2. NonePlayback(q) => Head(q) # "playback" /\ NonePlayback(Tail(q))
  BY <1>1 DEF NonePlayback
<1>3. OnePlayback(q) /\ Head(q) = "playback" => NonePlayback(Tail(q))
  BY <1>1 DEF OnePlayback, NonePlayback
<1>4. ASSUME OnePlayback(q), Head(q) # "playback" PROVE OnePlayback(Tail(q))
  <2>1. PICK i \in 1..Len(q) : q[i] = "playback" /\ \A j \in 1..Len(q) : q[j] = "playback" => j = i
    BY <1>4 DEF OnePlayback
  <2>2. i # 1
    BY <1>1, <1>4, <2>1
  <2>3. i - 1 \in 1..Len(Tail(q)) /\ Tail(q)[i - 1] = "playback"
    BY <1>0, <1>1, <2>1, <2>2
  <2>4. \A j \in 1..Len(Tail(q)) : Tail(q)[j] = "playback" => j = i - 1
    BY <1>1, <2>1
  <2> QED BY <2>3, <2>4 DEF OnePlayback
<1> QED BY <1>0, <1>2, <1>3, <1>4

-----------------------------------------------------------------------------
(* One stream: its registration, and what its thread has in hand. *)

Clients == [registered : BOOLEAN, queue : Seq(Events), pending : BOOLEAN, revision : 0..MaxPlayback]

\* The suppressed notification is in the queue or in hand, and nowhere else.
Consistent(k, h) ==
    /\ Len(k.queue) <= Capacity
    /\ k.pending  => \/ h = "playback" /\ NonePlayback(k.queue)
                     \/ h # "playback" /\ OnePlayback(k.queue)
    /\ ~k.pending => h # "playback" /\ NonePlayback(k.queue)

\* A state change is queued and keeps a stream consistent, also when the queue is full.
LEMMA StateQueued ==
    ASSUME NEW k \in Clients, NEW h, Consistent(k, h)
    PROVE  LET l == Enqueued(k, "state")
           IN  /\ l \in Clients /\ Consistent(l, h)
               /\ l.registered = k.registered /\ l.revision = k.revision /\ (l.pending => k.pending)
<1>0. k.queue \in Seq(Events) /\ Capacity \in Nat \ {0} /\ "state" \in Events /\ Len(k.queue) \in Nat
  BY CapacityAssumption DEF Clients, Events
<1>1. CASE Len(k.queue) < Capacity
  <2> DEFINE l == [k EXCEPT !.queue = Append(@, "state")]
  <2>1. Enqueued(k, "state") = l
    BY <1>1 DEF Enqueued
  <2>2. /\ l.queue = Append(k.queue, "state") /\ l.pending = k.pending /\ l.registered = k.registered
        /\ l.revision = k.revision
    BY DEF Clients
  <2>3. l \in Clients
    BY <1>0, Appending DEF Clients
  <2>4. Consistent(l, h)
    BY <1>0, <1>1, <2>2, Appending DEF Consistent
  <2> QED BY <2>1, <2>2, <2>3, <2>4
<1>2. CASE ~(Len(k.queue) < Capacity)
  <2> DEFINE l == [k EXCEPT !.queue = <<"state">>, !.pending = @ /\ ~HasPlayback(k.queue)]
  <2>1. Enqueued(k, "state") = l
    BY <1>2 DEF Enqueued
  <2>2. /\ l.queue = <<"state">> /\ l.pending = (k.pending /\ ~HasPlayback(k.queue))
        /\ l.registered = k.registered /\ l.revision = k.revision
    BY DEF Clients
  <2>3. (k.pending /\ ~HasPlayback(k.queue)) \in BOOLEAN
    BY DEF Clients
  <2>4. l \in Clients
    BY <2>3, ShortQueues DEF Clients
  <2>5. HasPlayback(k.queue) = ~NonePlayback(k.queue)
    BY DEF HasPlayback, NonePlayback
  <2>6. OnePlayback(k.queue) => ~NonePlayback(k.queue)
    BY DEF OnePlayback, NonePlayback
  <2>7. Len(<<"state">>) <= Capacity
    BY <1>0
  <2>8. Consistent(l, h)
    BY <2>2, <2>5, <2>6, <2>7, ShortQueues DEF Consistent
  <2> QED BY <2>1, <2>2, <2>4, <2>8
<1> QED BY <1>1, <1>2

\* After a playback change a notification with its revision is under way.
LEMMA PlaybackNotified ==
    ASSUME NEW k \in Clients, NEW h, Consistent(k, h), NEW r \in 0..MaxPlayback
    PROVE  LET l == Notified(k, r)
           IN  l \in Clients /\ Consistent(l, h) /\ l.registered = k.registered /\ l.revision = r
<1>0. k.queue \in Seq(Events) /\ Capacity \in Nat \ {0} /\ "playback" \in Events /\ Len(k.queue) \in Nat
  BY CapacityAssumption DEF Clients, Events
<1>1. CASE k.pending
  <2> DEFINE l == [k EXCEPT !.revision = r]
  <2>1. Notified(k, r) = l
    BY <1>1 DEF Notified
  <2>2. /\ l.queue = k.queue /\ l.pending = k.pending /\ l.registered = k.registered /\ l.revision = r
        /\ l \in Clients
    BY DEF Clients
  <2> QED BY <2>1, <2>2 DEF Consistent
<1>2. CASE ~k.pending
  <2> DEFINE m == Enqueued(k, "playback")
             l == [m EXCEPT !.pending = TRUE, !.revision = r]
  <2>1. Notified(k, r) = l
    BY <1>2 DEF Notified
  <2>2. /\ m \in Clients /\ m.registered = k.registered
        /\ OnePlayback(m.queue) /\ Len(m.queue) <= Capacity
    <3>1. CASE Len(k.queue) < Capacity
      <4>1. m = [k EXCEPT !.queue = Append(@, "playback")]
        BY <3>1 DEF Enqueued
      <4>2. m.queue = Append(k.queue, "playback") /\ m.registered = k.registered
        BY <4>1 DEF Clients
      <4>3. m \in Clients
        BY <1>0, <4>1, Appending DEF Clients
      <4>4. OnePlayback(Append(k.queue, "playback")) /\ Len(Append(k.queue, "playback")) <= Capacity
        BY <1>0, <1>2, <3>1, Appending DEF Consistent
      <4> HIDE DEF m
      <4> QED BY <4>2, <4>3, <4>4
    <3>2. CASE ~(Len(k.queue) < Capacity)
      <4>1. m = [k EXCEPT !.queue = <<"playback">>, !.pending = @ /\ ~HasPlayback(k.queue)]
        BY <3>2 DEF Enqueued
      <4>2. m.queue = <<"playback">> /\ m.registered = k.registered
        BY <4>1 DEF Clients
      <4>3. (k.pending /\ ~HasPlayback(k.queue)) \in BOOLEAN
        BY DEF Clients
      <4>4. m \in Clients
        BY <4>1, <4>3, ShortQueues DEF Clients
      <4>5. Len(<<"playback">>) <= Capacity
        BY <1>0
      <4> QED BY <4>2, <4>4, <4>5, ShortQueues
    <3> QED BY <3>1, <3>2
  <2> HIDE DEF m
  <2>3. /\ l.queue = m.queue /\ l.pending /\ l.registered = m.registered /\ l.revision = r
        /\ l \in Clients
    BY <2>2 DEF Clients
  <2>4. h # "playback"
    BY <1>2 DEF Consistent
  <2>5. Consistent(l, h)
    BY <2>2, <2>3, <2>4 DEF Consistent
  <2> HIDE DEF l
  <2> QED BY <2>1, <2>2, <2>3, <2>5
<1> QED BY <1>1, <1>2

-----------------------------------------------------------------------------
(* All streams. *)

Typed ==
    /\ client \in [Streams -> Clients]
    /\ hand \in [Streams -> Events \cup {Nothing}]
    /\ page \in [Streams -> {"closed", "reading", "fetching", "left"}]
    /\ changes \in [state : 0..MaxState, playback : 0..MaxPlayback]
    /\ seen \in [Streams -> [state : 0..MaxState, playback : 0..MaxPlayback]]

\* Every registered stream is consistent and its suppressed notification is the latest; a
\* released one has nothing.
StreamsInv ==
    \A c \in Streams :
        /\ client[c].registered =>
             /\ Consistent(client[c], hand[c])
             /\ client[c].pending => client[c].revision = changes.playback
        /\ ~client[c].registered => client[c] = Released /\ hand[c] = Nothing

IInv == Typed /\ StreamsInv

LEMMA FreshClients ==
    /\ NewClient \in Clients /\ Released \in Clients /\ NewClient.registered /\ ~Released.registered
    /\ Released.queue = <<>>
    /\ Consistent(NewClient, Nothing) /\ ~NewClient.pending
<1>0. 0 \in 0..MaxPlayback /\ <<>> \in Seq(Events)
  BY ShortQueues, BoundsAssumption
<1>1. /\ NewClient \in Clients /\ NewClient.registered /\ ~NewClient.pending /\ NewClient.queue = <<>>
      /\ Released \in Clients /\ ~Released.registered /\ Released.queue = <<>>
  <2>1. NewClient \in Clients
    BY <1>0, Zenon DEF NewClient, Clients
  <2>2. NewClient.registered /\ ~NewClient.pending /\ NewClient.queue = <<>>
    BY DEF NewClient
  <2>3. Released \in Clients /\ ~Released.registered /\ Released.queue = <<>>
    BY <2>1, <2>2 DEF Released, Clients
  <2> QED BY <2>1, <2>2, <2>3
<1>2. Len(<<>>) <= Capacity
  BY CapacityAssumption
<1> QED BY <1>1, <1>2, ShortQueues, NothingAssumption DEF Consistent

LEMMA InvInit == Init => IInv
<1> SUFFICES ASSUME Init PROVE IInv
  OBVIOUS
<1>1. Typed
  BY FreshClients, BoundsAssumption DEF Init, Typed, None
<1>2. StreamsInv
  BY FreshClients DEF Init, StreamsInv
<1> QED BY <1>1, <1>2 DEF IInv

\* Every step keeps every stream consistent.
LEMMA InvNext == IInv /\ [Next]_vars => IInv'
<1> SUFFICES ASSUME IInv, [Next]_vars PROVE IInv'
  OBVIOUS
<1>0. Typed /\ StreamsInv
  BY DEF IInv
<1>1. CASE BroadcastState
  <2>1. Typed'
    <3>1. \A c \in Registered : Enqueued(client[c], "state") \in Clients
      BY <1>0, StateQueued DEF Typed, StreamsInv, Registered
    <3>2. client' \in [Streams -> Clients]
      BY <1>0, <1>1, <3>1 DEF BroadcastState, Typed
    <3>3. changes' \in [state : 0..MaxState, playback : 0..MaxPlayback]
      BY <1>0, <1>1, BoundsAssumption DEF BroadcastState, Typed
    <3> QED BY <1>0, <1>1, <3>2, <3>3 DEF BroadcastState, Typed
  <2>2. changes'.playback = changes.playback
    BY <1>0, <1>1 DEF BroadcastState, Typed
  <2>3. ASSUME NEW c \in Streams, client[c].registered
        PROVE  /\ client'[c].registered /\ Consistent(client'[c], hand'[c])
               /\ client'[c].pending => client'[c].revision = changes'.playback
    <3>1. client'[c] = Enqueued(client[c], "state") /\ hand'[c] = hand[c]
      BY <1>1, <2>3 DEF BroadcastState, Registered
    <3>2. client[c] \in Clients /\ Consistent(client[c], hand[c])
          /\ (client[c].pending => client[c].revision = changes.playback)
      BY <1>0, <2>3 DEF Typed, StreamsInv
    <3> QED BY <2>2, <2>3, <3>1, <3>2, StateQueued
  <2>4. ASSUME NEW c \in Streams, ~client[c].registered
        PROVE  client'[c] = client[c] /\ hand'[c] = hand[c]
    BY <1>1, <2>4 DEF BroadcastState, Registered
  <2> QED BY <1>0, <2>1, <2>3, <2>4 DEF IInv, StreamsInv
<1>2. CASE BroadcastPlayback
  <2>0. changes.playback + 1 \in 0..MaxPlayback /\ changes'.playback = changes.playback + 1
    BY <1>0, <1>2, BoundsAssumption DEF BroadcastPlayback, Typed
  <2>1. Typed'
    <3>1. \A c \in Registered : Notified(client[c], changes.playback + 1) \in Clients
      BY <1>0, <2>0, PlaybackNotified DEF Typed, StreamsInv, Registered
    <3>2. client' \in [Streams -> Clients]
      BY <1>0, <1>2, <3>1 DEF BroadcastPlayback, Typed
    <3>3. changes' \in [state : 0..MaxState, playback : 0..MaxPlayback]
      BY <1>0, <1>2, <2>0 DEF BroadcastPlayback, Typed
    <3> QED BY <1>0, <1>2, <3>2, <3>3 DEF BroadcastPlayback, Typed
  <2>3. ASSUME NEW c \in Streams, client[c].registered
        PROVE  /\ client'[c].registered /\ Consistent(client'[c], hand'[c])
               /\ client'[c].pending => client'[c].revision = changes'.playback
    <3>1. client'[c] = Notified(client[c], changes.playback + 1) /\ hand'[c] = hand[c]
      BY <1>2, <2>3 DEF BroadcastPlayback, Registered
    <3>2. client[c] \in Clients /\ Consistent(client[c], hand[c])
      BY <1>0, <2>3 DEF Typed, StreamsInv
    <3> QED BY <2>0, <2>3, <3>1, <3>2, PlaybackNotified
  <2>4. ASSUME NEW c \in Streams, ~client[c].registered
        PROVE  client'[c] = client[c] /\ hand'[c] = hand[c]
    BY <1>2, <2>4 DEF BroadcastPlayback, Registered
  <2> QED BY <1>0, <2>1, <2>3, <2>4 DEF IInv, StreamsInv
<1>O. ASSUME NEW c \in Streams, Typed', changes' = changes,
             \A d \in Streams \ {c} : client'[d] = client[d] /\ hand'[d] = hand[d],
             client'[c].registered =>
               /\ Consistent(client'[c], hand'[c])
               /\ client'[c].pending => client'[c].revision = changes.playback,
             ~client'[c].registered => client'[c] = Released /\ hand'[c] = Nothing
      PROVE  IInv'
  BY <1>0, <1>O DEF IInv, StreamsInv
<1>3. ASSUME NEW c \in Streams, Register(c) PROVE IInv'
  <2>1. /\ client'[c] = NewClient /\ hand'[c] = Nothing /\ changes' = changes
        /\ \A d \in Streams \ {c} : client'[d] = client[d] /\ hand'[d] = hand[d]
    BY <1>0, <1>3 DEF Register, Typed, StreamsInv
  <2>2. Typed'
    BY <1>0, <1>3, FreshClients, BoundsAssumption DEF Register, Typed, None
  <2> QED BY <1>O, <2>1, <2>2, FreshClients
<1>4. ASSUME NEW c \in Streams, Take(c) PROVE IInv'
  <2> DEFINE k == client[c]
             l == [k EXCEPT !.queue = Tail(@)]
  <2>0. k \in Clients /\ k.queue \in Seq(Events) /\ k.queue # <<>> /\ Consistent(k, hand[c])
        /\ hand[c] # "playback" /\ k.registered /\ (k.pending => k.revision = changes.playback)
    BY <1>0, <1>4, NothingAssumption DEF Take, Typed, StreamsInv, Clients
  <2>1. /\ client'[c] = l /\ hand'[c] = Head(k.queue) /\ changes' = changes
        /\ \A d \in Streams \ {c} : client'[d] = client[d] /\ hand'[d] = hand[d]
    BY <1>0, <1>4 DEF Take, Typed
  <2>2. /\ l.queue = Tail(k.queue) /\ l.pending = k.pending /\ l.registered /\ l.revision = k.revision
        /\ l \in Clients
    BY <2>0, Taking DEF Clients
  <2>3. Typed'
    <3>1. client' = [client EXCEPT ![c] = l] /\ hand' = [hand EXCEPT ![c] = Head(k.queue)]
      BY <1>0, <1>4 DEF Take, Typed
    <3> QED BY <1>0, <1>4, <2>0, <2>2, <3>1, Taking DEF Take, Typed
  <2>4. Consistent(l, Head(k.queue))
    <3>1. Len(Tail(k.queue)) <= Capacity
      <4>1. Len(k.queue) \in Nat /\ Len(k.queue) <= Capacity /\ Capacity \in Nat
        BY <2>0, CapacityAssumption DEF Consistent
      <4> QED BY <2>0, <4>1, Taking
    <3> QED BY <2>0, <2>2, <3>1, Taking DEF Consistent
  <2> HIDE DEF l
  <2> QED BY <1>O, <2>0, <2>1, <2>2, <2>3, <2>4
<1>5. ASSUME NEW c \in Streams, Write(c) PROVE IInv'
  <2>0. client[c] \in Clients /\ Consistent(client[c], hand[c]) /\ client[c].registered
        /\ (client[c].pending => client[c].revision = changes.playback)
    BY <1>0, <1>5 DEF Write, Typed, StreamsInv
  <2>1. /\ hand'[c] = Nothing /\ changes' = changes
        /\ \A d \in Streams \ {c} : client'[d] = client[d] /\ hand'[d] = hand[d]
    BY <1>0, <1>5 DEF Write, Typed
  <2>2. CASE hand[c] = "playback"
    <3> DEFINE l == [client[c] EXCEPT !.pending = FALSE]
    <3>1. client' = [client EXCEPT ![c] = l]
      BY <1>0, <1>5, <2>2 DEF Write, Typed
    <3>2. l.queue = client[c].queue /\ ~l.pending /\ l.registered /\ l \in Clients
      BY <2>0 DEF Clients
    <3>3. Consistent(l, Nothing)
      BY <2>0, <2>2, <3>2, NothingAssumption DEF Consistent
    <3>4. Typed' /\ client'[c] = l
      BY <1>0, <1>5, <3>1, <3>2 DEF Write, Typed
    <3> HIDE DEF l
    <3> QED BY <1>O, <2>1, <3>2, <3>3, <3>4
  <2>3. CASE hand[c] # "playback"
    <3>1. client' = client
      BY <1>5, <2>3 DEF Write
    <3>2. Consistent(client[c], Nothing)
      BY <2>0, <2>3, NothingAssumption DEF Consistent
    <3>3. Typed'
      BY <1>0, <1>5, <3>1 DEF Write, Typed
    <3> QED BY <1>O, <2>0, <2>1, <3>1, <3>2, <3>3
  <2> QED BY <2>2, <2>3
<1>6. ASSUME NEW c \in Streams, Fetch(c) \/ Leave(c) PROVE IInv'
  <2>1. Typed' /\ UNCHANGED <<client, hand, changes>>
    BY <1>0, <1>6 DEF Fetch, Leave, Typed
  <2> QED BY <1>0, <2>1 DEF IInv, StreamsInv
<1>7. ASSUME NEW c \in Streams, Release(c) PROVE IInv'
  <2>1. /\ client'[c] = Released /\ hand'[c] = Nothing /\ changes' = changes
        /\ \A d \in Streams \ {c} : client'[d] = client[d] /\ hand'[d] = hand[d]
    BY <1>0, <1>7 DEF Release, Typed
  <2>2. Typed'
    BY <1>0, <1>7, FreshClients DEF Release, Typed
  <2> QED BY <1>O, <2>1, <2>2, FreshClients
<1>8. CASE UNCHANGED vars
  BY <1>0, <1>8 DEF IInv, StreamsInv, Typed, vars
<1> QED BY <1>1, <1>2, <1>3, <1>4, <1>5, <1>6, <1>7, <1>8 DEF Next

LEMMA InvAlways == Spec => []IInv
  BY InvInit, InvNext, PTL DEF Spec

\* In every run every variable has its type and no queue exceeds its capacity.
THEOREM TypeCorrect == Spec => []TypeOK
<1>1. IInv => TypeOK
  <2> SUFFICES ASSUME IInv PROVE TypeOK
    OBVIOUS
  <2>1. ASSUME NEW c \in Streams PROVE Len(client[c].queue) <= Capacity
    <3>1. CASE client[c].registered
      BY <3>1 DEF IInv, StreamsInv, Consistent
    <3>2. CASE ~client[c].registered
      BY <3>2, FreshClients, CapacityAssumption DEF IInv, StreamsInv
    <3> QED BY <3>1, <3>2
  <2> QED BY <2>1 DEF IInv, Typed, TypeOK, StreamsInv, Clients
<1> QED BY <1>1, InvAlways, PTL

\* The number of playback notifications in a queue, as the property counts them.
LEMMA Counting ==
    ASSUME NEW q \in Seq(Events)
    PROVE  LET at == {i \in 1..Len(q) : q[i] = "playback"}
           IN  /\ NonePlayback(q) => Cardinality(at) = 0
               /\ OnePlayback(q) => Cardinality(at) = 1
<1> DEFINE at == {i \in 1..Len(q) : q[i] = "playback"}
<1>1. ASSUME NonePlayback(q) PROVE Cardinality(at) = 0
  <2>1. at = {}
    BY <1>1 DEF NonePlayback
  <2> QED BY <2>1, FS_EmptySet
<1>2. ASSUME OnePlayback(q) PROVE Cardinality(at) = 1
  <2>1. PICK i \in 1..Len(q) : q[i] = "playback" /\ \A j \in 1..Len(q) : q[j] = "playback" => j = i
    BY <1>2 DEF OnePlayback
  <2>2. at = {i}
    BY <2>1
  <2> HIDE DEF at
  <2> QED BY <2>2, FS_Singleton
<1> QED BY <1>1, <1>2

\* In every run a suppressed playback notification is under way exactly once, with the
\* latest revision.
THEOREM NotificationUnderWay == Spec => []PendingIsUnderWay
<1>1. IInv => PendingIsUnderWay
  <2> SUFFICES ASSUME IInv, NEW c \in Registered
               PROVE  /\ PlaybackUnderWay(c) = IF client[c].pending THEN 1 ELSE 0
                      /\ client[c].pending => client[c].revision = changes.playback
    BY DEF PendingIsUnderWay
  <2>1. /\ Consistent(client[c], hand[c]) /\ client[c].queue \in Seq(Events)
        /\ client[c].pending => client[c].revision = changes.playback
    BY DEF IInv, Typed, StreamsInv, Registered, Clients
  <2> DEFINE n == Cardinality({i \in 1..Len(client[c].queue) : client[c].queue[i] = "playback"})
  <2>2. /\ NonePlayback(client[c].queue) => n = 0
        /\ OnePlayback(client[c].queue) => n = 1
    BY <2>1, Counting
  <2>3. PlaybackUnderWay(c) = n + (IF hand[c] = "playback" THEN 1 ELSE 0)
    BY DEF PlaybackUnderWay
  <2> HIDE DEF n
  <2> QED BY <2>1, <2>2, <2>3 DEF Consistent
<1> QED BY <1>1, InvAlways, PTL

=============================================================================
