---------------------------- MODULE EventStreams ----------------------------
(***************************************************************************)
(* The server's fan-out of notifications to event streams                  *)
(* (RussoundHTTPServer in web/russound_server.py): one bounded queue per   *)
(* registered stream, state-change events that are all queued,             *)
(* playback-change events of which each stream holds at most one, and the  *)
(* stream's own thread, which takes an event from the queue without the    *)
(* lock and marks it delivered under the lock afterwards.                  *)
(*                                                                         *)
(* The pages are Rooms pages (web/static/app.js), which fetch on either    *)
(* event and when their stream opens; their five-second poll is left out,  *)
(* so that what is shown here holds without it.                            *)
(***************************************************************************)
EXTENDS Naturals, Sequences, FiniteSets

CONSTANTS
    Streams,    \* registrations; one is used again after it was released
    MaxStreams, \* _max_event_streams
    Capacity,   \* EVENT_QUEUE_MAXSIZE
    MaxState,   \* bound: broadcasts of state changes
    MaxPlayback,\* bound: broadcasts of playback changes
    Nothing

ASSUME StreamsAssumption == IsFiniteSet(Streams) /\ MaxStreams \in Nat
ASSUME CapacityAssumption == Capacity \in Nat \ {0}
ASSUME BoundsAssumption == MaxState \in Nat /\ MaxPlayback \in Nat
ASSUME NothingAssumption == Nothing \notin {"state", "playback"}

VARIABLES
    client,    \* _event_clients: the registrations and their queues
    hand,      \* the event a stream's thread took and has not written yet
    page,      \* the browser at the other end, and whether it is about to fetch
    changes,   \* how many state and playback changes were broadcast
    seen       \* how many of them the page's last fetch included

vars == <<client, hand, page, changes, seen>>

Events == {"state", "playback"}
None == [state |-> 0, playback |-> 0]
NewClient == [registered |-> TRUE, queue |-> <<>>, pending |-> FALSE, revision |-> 0]
Released  == [NewClient EXCEPT !.registered = FALSE]

Init ==
    /\ client = [c \in Streams |-> Released]
    /\ hand = [c \in Streams |-> Nothing]
    /\ page = [c \in Streams |-> "closed"]
    /\ changes = None
    /\ seen = [c \in Streams |-> None]

Registered == {c \in Streams : client[c].registered}

\* register_event_client; the page fetches when its stream opens.
Register(c) ==
    /\ ~client[c].registered
    /\ Cardinality(Registered) < MaxStreams
    /\ client' = [client EXCEPT ![c] = NewClient]
    /\ page' = [page EXCEPT ![c] = "fetching"]
    /\ seen' = [seen EXCEPT ![c] = None]
    /\ UNCHANGED <<hand, changes>>

HasPlayback(queue) == \E i \in 1..Len(queue) : queue[i] = "playback"

OverflowKeepsPending(k, event) ==   \* mutant of Enqueued: the drained notification stays pending
    IF Len(k.queue) < Capacity
    THEN [k EXCEPT !.queue = Append(@, event)]
    ELSE [k EXCEPT !.queue = <<event>>]
OverflowOneLate(k, event) ==        \* mutant of Enqueued: full is noticed one event late
    IF Len(k.queue) <= Capacity
    THEN [k EXCEPT !.queue = Append(@, event)]
    ELSE [k EXCEPT !.queue = <<event>>, !.pending = @ /\ ~HasPlayback(k.queue)]
\* _enqueue_event_locked: a full queue is drained first.
Enqueued(k, event) ==
    IF Len(k.queue) < Capacity
    THEN [k EXCEPT !.queue = Append(@, event)]
    ELSE [k EXCEPT !.queue = <<event>>, !.pending = @ /\ ~HasPlayback(k.queue)]

BroadcastState ==
    /\ changes.state < MaxState
    /\ changes' = [changes EXCEPT !.state = @ + 1]
    /\ client' = [c \in Streams |->
         IF c \in Registered THEN Enqueued(client[c], "state") ELSE client[c]]
    /\ UNCHANGED <<hand, page, seen>>

\* broadcast_playback_change: a pending notification only gets the new revision.
Notified(k, revision) ==
    IF k.pending THEN [k EXCEPT !.revision = revision]
    ELSE [Enqueued(k, "playback") EXCEPT !.pending = TRUE, !.revision = revision]

BroadcastPlayback ==
    /\ changes.playback < MaxPlayback
    /\ changes' = [changes EXCEPT !.playback = @ + 1]
    /\ client' = [c \in Streams |->
         IF c \in Registered THEN Notified(client[c], changes.playback + 1) ELSE client[c]]
    /\ UNCHANGED <<hand, page, seen>>

\* The stream's thread takes the oldest event; queue.Queue has its own lock.
Take(c) ==
    /\ client[c].registered /\ hand[c] = Nothing /\ client[c].queue # <<>>
    /\ hand' = [hand EXCEPT ![c] = Head(client[c].queue)]
    /\ client' = [client EXCEPT ![c].queue = Tail(@)]
    /\ UNCHANGED <<page, changes, seen>>

\* It marks a playback notification delivered, and writes the event.
Write(c) ==
    /\ hand[c] # Nothing
    /\ client' = IF hand[c] = "playback" THEN [client EXCEPT ![c].pending = FALSE] ELSE client
    /\ hand' = [hand EXCEPT ![c] = Nothing]
    /\ page' = IF page[c] = "left" THEN page ELSE [page EXCEPT ![c] = "fetching"]
    /\ UNCHANGED <<changes, seen>>

\* The page's GET /api/rooms.
Fetch(c) ==
    /\ page[c] = "fetching"
    /\ page' = [page EXCEPT ![c] = "reading"]
    /\ seen' = [seen EXCEPT ![c] = changes]
    /\ UNCHANGED <<client, hand, changes>>

\* The browser hides or closes the page, or goes to sleep.
Leave(c) ==
    /\ page[c] \in {"reading", "fetching"}
    /\ page' = [page EXCEPT ![c] = "left"]
    /\ UNCHANGED <<client, hand, changes, seen>>

ReleaseAtDeadline(c) ==             \* mutant of Release: a broken write does not unregister
    /\ client[c].registered /\ hand[c] = Nothing /\ page[c] # "left"
    /\ client' = [client EXCEPT ![c] = Released]
    /\ page' = [page EXCEPT ![c] = "closed"]
    /\ UNCHANGED <<hand, changes, seen>>
\* The stream reaches its deadline, or writing to a page that left fails.
Release(c) ==
    /\ client[c].registered /\ hand[c] = Nothing
    /\ client' = [client EXCEPT ![c] = Released]
    /\ page' = [page EXCEPT ![c] = "closed"]
    /\ UNCHANGED <<hand, changes, seen>>

Next ==
    \/ BroadcastState \/ BroadcastPlayback
    \/ \E c \in Streams :
        Register(c) \/ Take(c) \/ Write(c) \/ Fetch(c) \/ Leave(c) \/ Release(c)

Spec == Init /\ [][Next]_vars

\* The stream's thread runs, the page gets its answer; a stream whose page left
\* ends at its next ping or at its deadline.
Fairness ==
    \A c \in Streams :
        /\ WF_vars(Take(c)) /\ WF_vars(Write(c)) /\ WF_vars(Fetch(c))
        /\ SF_vars(page[c] = "left" /\ Release(c))
FairSpec == Spec /\ Fairness

--------------------------------------------------------------------------
TypeOK ==
    /\ client \in [Streams -> [registered : BOOLEAN, queue : Seq(Events), pending : BOOLEAN,
                               revision : 0..MaxPlayback]]
    /\ hand \in [Streams -> Events \cup {Nothing}]
    /\ page \in [Streams -> {"closed", "reading", "fetching", "left"}]
    /\ changes \in [state : 0..MaxState, playback : 0..MaxPlayback]
    /\ seen \in [Streams -> [state : 0..MaxState, playback : 0..MaxPlayback]]
    /\ \A c \in Streams : Len(client[c].queue) <= Capacity
    /\ \A c \in Streams : ~client[c].registered => hand[c] = Nothing

PlaybackUnderWay(c) ==
    Cardinality({i \in 1..Len(client[c].queue) : client[c].queue[i] = "playback"})
    + (IF hand[c] = "playback" THEN 1 ELSE 0)

\* "Per client, at most one playback-change is queued at a time", and a stream
\* for which notifications are suppressed has that one, with the latest
\* revision: otherwise playback changes would never reach the page again.
PendingIsUnderWay ==
    \A c \in Registered :
        /\ PlaybackUnderWay(c) = IF client[c].pending THEN 1 ELSE 0
        /\ client[c].pending => client[c].revision = changes.playback

\* A page on an open stream catches up with the broadcasts, without polling.
CatchesUp == \A c \in Streams : []<>(page[c] \in {"left", "closed"} \/ seen[c] = changes)

\* The slot of a page that left is given back, even when the page never reads.
SlotsReturn == \A c \in Streams : page[c] = "left" ~> ~client[c].registered
=============================================================================
