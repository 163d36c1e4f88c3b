----------------------------- MODULE RoomsSync -----------------------------
(***************************************************************************)
(* How the Rooms page stays in step with the server: the web server's      *)
(* publication of view payloads under state_lock and _state_payload_lock   *)
(* with (epoch, revision) pairs (web/russound_server.py), and the page's   *)
(* fetches, mutation responses, optimistic zone values and event stream    *)
(* (web/static/app.js).                                                    *)
(*                                                                         *)
(* A job is a command of the page or a change the server makes by itself   *)
(* (a poll, a keypad, another browser).  A payload is the number of the    *)
(* state it shows: log[n] is the value the n-th change gave the zone.      *)
(* HTTP answers travel on connections of their own and arrive in any       *)
(* order; the server restarts and loses what it had not answered.          *)
(***************************************************************************)
EXTENDS Naturals, Sequences, FiniteSets

CONSTANTS
    ZoneUpdates,    \* the page's changes of one zone setting
    SharedCommands, \* the page's system power, source and shortcut commands
    Background,     \* changes the server finds or makes without this page
    MaxSilent,      \* bound: changes nobody publishes (the gateway link drops)
    MaxRestarts,    \* bound: restarts of the server
    MaxJobs,        \* bound: jobs that begin
    MaxEvents,      \* bound: all of these together
    Nobody

Commands == ZoneUpdates \cup SharedCommands
Jobs     == Commands \cup Background

ASSUME JobsAssumption ==
    /\ IsFiniteSet(Jobs) /\ Nobody \notin Jobs
    /\ ZoneUpdates \cap SharedCommands = {} /\ Commands \cap Background = {}
ASSUME BoundsAssumption == {MaxSilent, MaxRestarts, MaxJobs, MaxEvents} \subseteq Nat

VARIABLES
    log,      \* the states so far: log[n] is the job that gave the zone its value
    server,   \* epoch, revision, the payload published last, the state_lock's holder
    job,      \* where each job is, and the revision and payload it published
    stream,   \* the page's event stream: open, and the notifications under way
    fetch,    \* the page's GET /api/rooms: phase, snapshot, update count at its start
    queued,   \* a fetch was asked for while one was in flight
    updates,  \* zoneUpdateRevision
    pending,  \* the newest zone update that is not answered
    view,     \* what the page shows, with the epoch and revision it came from
    silent    \* how many silent changes happened

pageVars == <<stream, fetch, queued, updates, pending, view>>
vars == <<log, server, job, stream, fetch, queued, updates, pending, view, silent>>

Truth == Len(log)

Snapshots == [epoch : Nat, revision : Nat, payload : Nat]
NoSnapshot == [epoch |-> 0, revision |-> 0, payload |-> 0]

NewJob == [pc |-> "new", answer |-> NoSnapshot, told |-> 0]
Showing(snapshot, value) ==
    [epoch |-> snapshot.epoch, revision |-> snapshot.revision, payload |-> snapshot.payload,
     shown |-> value]

Init ==
    /\ log = <<Nobody>>
    /\ server = [epoch |-> 1, revision |-> 0, payload |-> 1, holder |-> Nobody]
    /\ job = [j \in Jobs |-> NewJob]
    /\ stream = [open |-> FALSE, notes |-> {}]
    /\ fetch = [phase |-> "sent", at |-> 0, answer |-> NoSnapshot]
    /\ queued = FALSE /\ updates = 0 /\ pending = Nobody /\ silent = 0
    /\ view = Showing(NoSnapshot, Nobody)

--------------------------------------------------------------------------
\* The server.

At(j, pc) == job[j].pc = pc
Goto(j, pc) == job' = [job EXCEPT ![j].pc = pc]
Finish(j) == job' = [job EXCEPT ![j] = [NewJob EXCEPT !.pc = "done"]]

RevisionOfAll(payload) == server.revision + 1   \* mutant of RevisionOf: always bumped
RevisionOfNone(payload) == server.revision      \* mutant of RevisionOf: left to broadcasts
\* _publish_state_payload: a payload that differs gets a revision of its own.
RevisionOf(payload) ==
    IF payload # server.payload THEN server.revision + 1 ELSE server.revision
Publish(payload) == [server EXCEPT !.revision = RevisionOf(payload), !.payload = payload]

Begun == Cardinality({j \in Jobs : job[j].pc # "new"})
WithinBounds == Begun + silent + server.epoch <= MaxEvents
MayBegin == Begun < MaxJobs /\ WithinBounds

\* A job takes state_lock and talks to the hardware.
Start(j) ==
    /\ IF j \in Commands THEN At(j, "sent") ELSE At(j, "new") /\ MayBegin
    /\ server.holder = Nobody
    /\ server' = [server EXCEPT !.holder = j]
    /\ Goto(j, "busy")
    /\ UNCHANGED <<log, pageVars, silent>>

\* The hardware took the change and persist_state saved it.
Store(j) ==
    /\ At(j, "busy")
    /\ log' = Append(log, j)
    /\ Goto(j, "stored")
    /\ UNCHANGED <<server, pageVars, silent>>

\* The payload is published before state_lock is released.
PublishStored(j) ==
    /\ At(j, "stored")
    /\ LET s == Publish(Truth) IN
       /\ server' = [s EXCEPT !.holder = Nobody]
       /\ job' = [job EXCEPT ![j].pc = "published", ![j].answer =
            [epoch |-> s.epoch, revision |-> s.revision, payload |-> s.payload]]
    /\ UNCHANGED <<log, pageVars, silent>>

\* A poll that finds nothing new publishes all the same, and tells nobody.
NothingNew(j) ==
    /\ j \in Background /\ At(j, "busy")
    /\ server' = [Publish(Truth) EXCEPT !.holder = Nobody]
    /\ Finish(j)
    /\ UNCHANGED <<log, pageVars, silent>>

\* A command fails: 404 or 502, and nothing is published.
Fail(j) ==
    /\ j \in Commands /\ At(j, "busy")
    /\ server' = [server EXCEPT !.holder = Nobody]
    /\ Goto(j, "failed")
    /\ UNCHANGED <<log, pageVars, silent>>

BumpLocally(j) ==   \* mutant of Bump: the incremented revision is not stored
    /\ At(j, "published")
    /\ job' = [job EXCEPT ![j].pc = "bumped", ![j].told = server.revision + 1]
    /\ UNCHANGED <<log, server, pageVars, silent>>
\* broadcast_state_change: the revision is taken first, then the clients are told.
Bump(j) ==
    /\ At(j, "published")
    /\ server' = [server EXCEPT !.revision = @ + 1]
    /\ job' = [job EXCEPT ![j].pc = "bumped", ![j].told = server.revision + 1]
    /\ UNCHANGED <<log, pageVars, silent>>

Note(j) == [epoch |-> server.epoch, revision |-> job[j].told,
            payload |-> job[j].answer.payload]
Broadcast(j) ==
    /\ At(j, "bumped")
    /\ stream' = IF stream.open THEN [stream EXCEPT !.notes = @ \cup {Note(j)}] ELSE stream
    /\ IF j \in Commands
       THEN job' = [job EXCEPT ![j].pc = "answered", ![j].told = 0]
       ELSE Finish(j)
    /\ UNCHANGED <<log, server, fetch, queued, updates, pending, view, silent>>

\* GET /api/rooms: publish first unless somebody holds state_lock.
AnswerFetch ==
    /\ fetch.phase = "sent"
    /\ LET s == IF server.holder = Nobody THEN Publish(Truth) ELSE server IN
       /\ server' = s
       /\ fetch' = [fetch EXCEPT !.phase = "answered", !.answer =
            [epoch |-> s.epoch, revision |-> s.revision, payload |-> s.payload]]
    /\ UNCHANGED <<log, job, stream, queued, updates, pending, view, silent>>

\* backend_status changes on its own (the link to the gateway drops or returns).
SilentChange ==
    /\ silent < MaxSilent /\ WithinBounds
    /\ silent' = silent + 1
    /\ log' = Append(log, log[Truth])
    /\ UNCHANGED <<server, job, pageVars>>

\* The process restarts: unanswered requests break, answers under way do not.
Restart ==
    /\ server.epoch <= MaxRestarts /\ WithinBounds
    /\ server' = [epoch |-> server.epoch + 1, revision |-> 0, payload |-> Truth,
                  holder |-> Nobody]
    /\ job' = [j \in Jobs |->
         IF job[j].pc \in {"new", "answered", "failed", "broken", "done"} THEN job[j]
         ELSE [NewJob EXCEPT !.pc = IF j \in Commands THEN "broken" ELSE "done"]]
    /\ stream' = [open |-> FALSE, notes |-> {}]
    /\ fetch' = [fetch EXCEPT !.phase = IF @ = "sent" THEN "broken" ELSE @]
    /\ UNCHANGED <<log, queued, updates, pending, view, silent>>

--------------------------------------------------------------------------
\* The page.

StaleNever(snapshot) == FALSE   \* mutant of Stale: revisions are not compared
StaleOrEqual(snapshot) ==       \* mutant of Stale: the same revision is refused as well
    snapshot.epoch = view.epoch /\ snapshot.revision <= view.revision
\* isStalePayload: only a lower revision of the same epoch is refused.
Stale(snapshot) ==
    snapshot.epoch = view.epoch /\ snapshot.revision < view.revision

OverlaidNot(value, update) == value   \* mutant of Overlaid
\* applyPendingZoneUpdates: an unanswered update keeps its value on the page.
Overlaid(value, update) == IF update # Nobody THEN update ELSE value

\* applyPayload
Apply(snapshot) ==
    IF Stale(snapshot) THEN view
    ELSE Showing(snapshot, Overlaid(log[snapshot.payload], pending'))

\* fetchState: one request at a time, one more is remembered.
NewFetch == [phase |-> "sent", at |-> updates', answer |-> NoSnapshot]
FetchState ==
    IF fetch.phase = "none"
    THEN fetch' = NewFetch /\ UNCHANGED queued
    ELSE queued' = TRUE /\ UNCHANGED fetch
EndFetch ==
    IF queued
    THEN fetch' = NewFetch /\ queued' = FALSE
    ELSE fetch' = [fetch EXCEPT !.phase = "none", !.answer = NoSnapshot, !.at = 0] /\ UNCHANGED queued

\* An answer that crossed a zone update is dropped.
TakeFetch ==
    /\ fetch.phase = "answered"
    /\ UNCHANGED <<log, server, job, stream, updates, pending, silent>>
    /\ view' = IF fetch.at = updates THEN Apply(fetch.answer) ELSE view
    /\ EndFetch
FetchFails ==
    /\ fetch.phase = "broken"
    /\ UNCHANGED <<log, server, job, stream, updates, pending, view, silent>>
    /\ EndFetch

\* updateZone: the value is shown before the request is sent.
UpdateZone(j) ==
    /\ j \in ZoneUpdates /\ At(j, "new") /\ MayBegin
    /\ pending' = j /\ updates' = updates + 1
    /\ view' = IF view.epoch # 0 THEN [view EXCEPT !.shown = j] ELSE view
    /\ Goto(j, "sent")
    /\ UNCHANGED <<log, server, stream, fetch, queued, silent>>

SendShared(j) ==
    /\ j \in SharedCommands /\ At(j, "new") /\ MayBegin
    /\ Goto(j, "sent")
    /\ UNCHANGED <<log, server, pageVars, silent>>

\* updateZone's finally: the update is no longer pending, unless a newer one is.
Settle(j) ==
    IF j \in ZoneUpdates
    THEN /\ pending' = IF pending = j THEN Nobody ELSE pending
         /\ updates' = updates + 1
    ELSE UNCHANGED <<pending, updates>>

TakeAnswer(j) ==
    /\ At(j, "answered")
    /\ Settle(j)
    /\ view' = Apply(job[j].answer)
    /\ Finish(j)
    /\ UNCHANGED <<log, server, stream, fetch, queued, silent>>

\* An error answer makes updateZone fetch; the other commands ignore it.
TakeError(j) ==
    /\ At(j, "failed")
    /\ Settle(j)
    /\ IF j \in ZoneUpdates THEN FetchState ELSE UNCHANGED <<fetch, queued>>
    /\ Finish(j)
    /\ UNCHANGED <<log, server, stream, view, silent>>

\* A broken connection throws out of updateZone after its finally.
RequestBreaks(j) ==
    /\ At(j, "broken")
    /\ Settle(j)
    /\ Finish(j)
    /\ UNCHANGED <<log, server, stream, fetch, queued, view, silent>>

StreamOpens ==
    /\ ~stream.open
    /\ stream' = [stream EXCEPT !.open = TRUE]
    /\ UNCHANGED <<log, server, job, updates, pending, view, silent>>
    /\ FetchState
\* Expiry after 300 s, or a network failure: what was under way is lost.
StreamEnds ==
    /\ stream.open
    /\ stream' = [open |-> FALSE, notes |-> {}]
    /\ UNCHANGED <<log, server, job, fetch, queued, updates, pending, view, silent>>
TakeNote(n) ==
    /\ n \in stream.notes
    /\ stream' = [stream EXCEPT !.notes = @ \ {n}]
    /\ UNCHANGED <<log, server, job, updates, pending, view, silent>>
    /\ FetchState

\* startStatePolling: every five seconds.
Poll ==
    /\ UNCHANGED <<log, server, job, stream, updates, pending, view, silent>>
    /\ FetchState

--------------------------------------------------------------------------
ServerStep(j) ==
    Start(j) \/ Store(j) \/ PublishStored(j) \/ NothingNew(j) \/ Fail(j) \/ Bump(j) \/ Broadcast(j)
PageStep(j) ==
    UpdateZone(j) \/ SendShared(j) \/ TakeAnswer(j) \/ TakeError(j) \/ RequestBreaks(j)
Next ==
    \/ \E j \in Jobs : ServerStep(j) \/ PageStep(j)
    \/ AnswerFetch \/ TakeFetch \/ FetchFails
    \/ StreamOpens \/ StreamEnds \/ \E n \in stream.notes : TakeNote(n)
    \/ Poll \/ SilentChange \/ Restart

Spec == Init /\ [][Next]_vars

\* The server's threads run, answers and errors arrive, the poll timer fires.
\* Nothing is assumed of the event stream, nor that anybody uses the page.
Fairness ==
    /\ \A j \in Jobs : WF_vars(Store(j) \/ PublishStored(j) \/ Fail(j) \/ Bump(j) \/ Broadcast(j))
    /\ \A j \in Commands : WF_vars(Start(j)) /\ WF_vars(TakeAnswer(j) \/ TakeError(j) \/ RequestBreaks(j))
    /\ WF_vars(AnswerFetch) /\ WF_vars(TakeFetch \/ FetchFails) /\ WF_vars(Poll)
FairSpec == Spec /\ Fairness

--------------------------------------------------------------------------
\* The type invariant; a revision counts changed payloads and broadcasts only,
\* however often the page fetches.
MaxRevision == 2 * Begun + silent
TypeOK ==
    /\ log \in Seq(Jobs \cup {Nobody})
    /\ server \in [epoch : 1..MaxRestarts + 1, revision : 0..MaxRevision, payload : 1..Truth,
                   holder : Jobs \cup {Nobody}]
    /\ job \in [Jobs -> [pc : {"new", "sent", "busy", "stored", "published", "bumped", "answered",
                              "failed", "broken", "done"}, answer : Snapshots, told : Nat]]
    /\ stream \in [open : BOOLEAN, notes : SUBSET Snapshots]
    /\ fetch \in [phase : {"none", "sent", "answered", "broken"}, at : Nat, answer : Snapshots]
    /\ queued \in BOOLEAN /\ updates \in Nat /\ silent \in 0..MaxSilent
    /\ pending \in ZoneUpdates \cup {Nobody}
    /\ view \in [epoch : Nat, revision : Nat, payload : Nat, shown : Jobs \cup {Nobody}]

\* Every snapshot the server has handed out: under way, or on the page.
HandedOut ==
    {job[j].answer : j \in {i \in Jobs : At(i, "answered")}}
    \cup {fetch.answer, [epoch |-> view.epoch, revision |-> view.revision, payload |-> view.payload],
          [epoch |-> server.epoch, revision |-> server.revision, payload |-> server.payload]}

\* Revisions tell payloads of one server apart and order them: what the page
\* concludes from comparing two revisions is true, whichever threads published.
RevisionsOrderPayloads ==
    \A a, b \in HandedOut :
        a.epoch = b.epoch /\ a.revision <= b.revision => a.payload <= b.payload

\* "refetched snapshots are never ordered before the event": the server has the
\* change an event under way announces, and whatever is not ordered before the
\* event shows that change.
AnnouncedIsPublished ==
    \A n \in stream.notes :
        /\ n.revision <= server.revision /\ n.payload <= server.payload
        /\ \A s \in HandedOut :
            s.epoch = n.epoch /\ s.revision >= n.revision => s.payload >= n.payload

\* No payload, fetched or answered, takes back a value the user just set and
\* the server has not answered yet.
PendingValueShows == pending # Nobody /\ view.epoch # 0 => view.shown = pending

\* Within one server's life the page never goes back to an older state.
NeverBackInTime == [][view'.epoch = view.epoch => view'.payload >= view.payload]_vars

\* Once commands and changes stop, the page shows the server's state and no
\* leftover of an optimistic value, even if its event stream never works.
Converges ==
    <>[](view.epoch = server.epoch /\ view.payload = Truth /\ view.shown = log[Truth])

=============================================================================
