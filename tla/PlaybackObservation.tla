------------------------- MODULE PlaybackObservation -------------------------
(***************************************************************************)
(* What a playback page shows and edits, from the files and MPD to the     *)
(* browser: the agent's AgentObserver and PlaybackCollector                *)
(* (lib/playbackagent.py, lib/playbackstatus.py), the web server's         *)
(* PlaybackStatusClient (web/playback_status.py) and the page              *)
(* (web/static/playback.js).                                               *)
(*                                                                         *)
(* No step of the way holds a lock over two reads: a tick of the observer  *)
(* reads its files one after another, and a poll asks the agent twice.  A  *)
(* page decides a command on what came out of that and names the revisions *)
(* it was shown.                                                           *)
(*                                                                         *)
(* One agent with commands enabled and one output.  A version of           *)
(* playback.json stands for its favorites, stations and gains.             *)
(***************************************************************************)
EXTENDS Naturals

CONSTANTS
    MaxEvents,   \* bound: changes of the files and of MPD, commands, faults
    None

ASSUME BoundsAssumption == MaxEvents \in Nat
ASSUME NoneAssumption == None \notin Nat

VARIABLES
    disk,       \* config.json and playback.json
    mpd,        \* what MPD would report
    agent,      \* the observer: where its tick is, what it has read
    collector,  \* its PlaybackCollector
    job,        \* the playback job of the output
    pub,        \* _cache
    web,        \* the poller's status, error and snapshot
    poll,       \* the outputs its round has read
    page,       \* the page: its fetch, what it shows, the revision it waits for
    edit,       \* its command
    events      \* how many changes, commands and faults there were

vars == <<disk, mpd, agent, collector, job, pub, web, poll, page, edit, events>>
world    == <<disk, mpd>>
observer == <<agent, collector, job, pub>>
browser  == <<page, edit>>

Event == events < MaxEvents /\ events' = events + 1

Pending == [status |-> "pending", value |-> None, known |-> None]
Snapshot(config, control, since, streams, list, probe) ==
    [config |-> config, control |-> control, since |-> since, streams |-> streams, list |-> list, probe |-> probe]

\* The readings of the last tick; since is when it began.
Resting == [phase |-> "rest", config |-> None, since |-> None, list |-> None, control |-> None]
NoEdit == [phase |-> "none", seen |-> None, done |-> FALSE]

Init ==
    /\ disk = [config |-> 0, valid |-> TRUE, control |-> 0]
    /\ mpd = [up |-> TRUE, music |-> 0]
    /\ agent = Resting /\ collector = None /\ job = "idle" /\ pub = None
    /\ web = [status |-> "unavailable", code |-> "pending", snapshot |-> None]
    /\ poll = None
    /\ page = [shown |-> None, available |-> FALSE, waits |-> None, told |-> FALSE]
    /\ edit = NoEdit
    /\ events = 0

-----------------------------------------------------------------------------
(* The world. *)

AdminEdits ==
    /\ Event
    /\ \E valid \in BOOLEAN : disk' = [disk EXCEPT !.config = @ + 1, !.valid = valid]
    /\ UNCHANGED <<mpd, observer, web, poll, browser>>

\* Another page, the command line or the supervisor.
OthersWrite ==
    /\ disk.valid
    /\ Event
    /\ disk' = [disk EXCEPT !.control = @ + 1]
    /\ UNCHANGED <<mpd, observer, web, poll, browser>>

MusicChanges ==
    /\ Event
    /\ mpd' \in {[mpd EXCEPT !.music = @ + 1], [mpd EXCEPT !.up = ~@]}
    /\ UNCHANGED <<disk, observer, web, poll, browser>>

Restart ==
    /\ Event
    /\ agent' = Resting /\ collector' = None /\ job' = "idle" /\ pub' = None
    /\ UNCHANGED <<world, web, poll, browser>>

\* An exception tick does not expect ends the observer's thread; the HTTP server stays.
ObserverStops ==
    /\ agent.phase # "stopped"
    /\ Event
    /\ agent' = [agent EXCEPT !.phase = "stopped"] /\ pub' = None
    /\ UNCHANGED <<world, collector, job, web, poll, browser>>

-----------------------------------------------------------------------------
(* A tick of the observer. *)

\* An unreadable configuration: the publication is withdrawn before the collector is
\* closed.
Withdraw ==
    /\ pub' = None /\ collector' = None
    /\ agent' = [Resting EXCEPT !.phase = IF collector = None THEN "rest" ELSE "closing"]

Reads(phase, next) ==
    /\ agent.phase = phase
    /\ IF disk.valid THEN agent' = next /\ UNCHANGED <<collector, pub>> ELSE Withdraw
    /\ UNCHANGED <<world, job, web, poll, browser, events>>

ReadStreams == Reads("rest", [agent EXCEPT !.phase = "favorites", !.since = disk.control])
ReadFavorites == Reads("favorites", [agent EXCEPT !.phase = "controls", !.list = disk.control])
ReadControls == Reads("controls", [agent EXCEPT !.phase = "collect", !.config = disk.config, !.control = disk.control])

Published(c) == Snapshot(c.config, agent.control, agent.since, c.streams, agent.list, c.probe)

SameConfiguration == collector # None /\ collector.config = agent.config

\* A new collector reads the files itself; the one at hand adopts what the tick has read.
NewCollector == [config |-> disk.config, streams |-> disk.control, probe |-> Pending]

KeepCollector ==
    /\ agent.phase = "collect" /\ SameConfiguration
    /\ collector' = [collector EXCEPT !.streams = agent.since]
    /\ agent' = [agent EXCEPT !.phase = "observe"]
    /\ UNCHANGED <<world, job, pub, web, poll, browser, events>>

ReplaceCollector ==
    /\ agent.phase = "collect" /\ ~SameConfiguration
    /\ IF disk.valid
       THEN /\ collector' = NewCollector
            /\ pub' = Published(collector')
            /\ agent' = [agent EXCEPT !.phase = IF collector = None THEN "observe" ELSE "closing"]
       ELSE Withdraw
    /\ UNCHANGED <<world, job, web, poll, browser, events>>

\* close waits for the job of the collector it retires, whose result is dropped.
Closed ==
    /\ agent.phase = "closing" /\ job = "idle"
    /\ agent' = [agent EXCEPT !.phase = IF collector = None THEN "rest" ELSE "observe"]
    /\ UNCHANGED <<world, collector, job, pub, web, poll, browser, events>>

\* At most one job per output.
Started(due) == IF due THEN "busy" ELSE job

\* The end of every tick; an output is due after an interval or its back-off.
Observe(due) ==
    /\ agent.phase \in {"rest", "observe"} /\ collector # None
    /\ pub' = Published(collector)
    /\ job' = Started(due)
    /\ agent' = [agent EXCEPT !.phase = "rest"]
    /\ UNCHANGED <<world, collector, web, poll, browser, events>>

-----------------------------------------------------------------------------
(* The playback job: read_playback reports what MPD was doing at one moment, or fails *)
(* when MPD does not answer or does not settle.                                       *)

FailedKeepsValue(probe) == [probe EXCEPT !.status = "error"]   \* mutant

Failed(probe) ==
    [status |-> "error", value |-> None, known |-> IF probe.value # None THEN probe.value ELSE probe.known]
Succeeded(value) == [status |-> "ok", value |-> value, known |-> None]

ReadPlayback(probe) == IF mpd.up THEN Succeeded(mpd.music) ELSE Failed(probe)

FinishJob ==
    /\ job = "busy"
    /\ job' = "idle"
    /\ collector' = IF agent.phase = "closing" \/ collector = None THEN collector
                    ELSE [collector EXCEPT !.probe = ReadPlayback(@)]
    /\ UNCHANGED <<world, agent, pub, web, poll, browser, events>>

-----------------------------------------------------------------------------
(* A round of the web server's poller: the outputs, then the favorites. *)

Errs(code) == web' = [web EXCEPT !.status = "unavailable", !.code = code]
Accepts(snapshot) == web' = [status |-> "ok", code |-> None, snapshot |-> snapshot]
ChangedSnapshot == web'.snapshot # web.snapshot   \* mutant

Changed == web'.status # web.status \/ web'.code # web.code \/ web'.snapshot # web.snapshot

\* A round that changed something is announced to the pages by the same thread.
EndRound ==
    /\ poll' = None
    /\ page' = IF Changed THEN [page EXCEPT !.told = TRUE] ELSE page

\* GET /v1/outputs of the agent, an error without a publication.
Inventory == pub

PollOutputs ==
    /\ poll = None
    /\ IF Inventory = None THEN Errs("http") /\ EndRound
       ELSE poll' = Inventory /\ UNCHANGED <<web, page>>
    /\ UNCHANGED <<world, observer, edit, events>>

FavoritesOnce ==   \* mutant
    IF pub = None THEN None ELSE IF web.snapshot # None THEN web.snapshot.list ELSE pub.list

\* The favorites of a later publication, or none at all.
Favorites == IF pub = None THEN None ELSE pub.list

PollFavorites ==
    /\ poll # None
    /\ Accepts([poll EXCEPT !.list = Favorites])
    /\ EndRound
    /\ UNCHANGED <<world, observer, edit, events>>

\* No answer, or one that names another agent or is not well-formed.
Unreachable == Errs("unreachable")
Invalid == Errs("invalid")

PollFails ==
    /\ Event
    /\ Unreachable \/ Invalid
    /\ EndRound
    /\ UNCHANGED <<world, observer, edit>>

-----------------------------------------------------------------------------
(* The page. *)

\* The page fetches when it is told of a change; a change during a fetch queues another,
\* so the last fetch begins after the last announcement.  What the timer adds while
\* fetches succeed is left out.
Waits(shown) ==
    IF shown.snapshot # None /\ shown.snapshot.control # page.waits THEN None ELSE page.waits

\* GET /api/playback answers at any time with what the poller has.
Answer == web

Fetch ==
    /\ page.told \/ ~page.available
    /\ page' = [page EXCEPT !.told = FALSE, !.shown = Answer, !.available = TRUE, !.waits = Waits(Answer)]
    /\ UNCHANGED <<world, observer, web, poll, edit, events>>

FetchFails ==
    /\ page.told
    /\ Event
    /\ page' = [page EXCEPT !.told = FALSE, !.available = FALSE]
    /\ UNCHANGED <<world, observer, web, poll, edit>>

CanWrite ==
    /\ page.available /\ page.waits = None
    /\ page.shown.status = "ok"

Submit ==
    /\ CanWrite /\ edit.phase = "none"
    /\ Event
    /\ edit' = [phase |-> "sent", seen |-> [page.shown.snapshot EXCEPT !.probe = None], done |-> FALSE]
    /\ UNCHANGED <<world, observer, web, poll, page>>

\* The agent's command ledger executes the command once, or refuses it (see
\* PlaybackOperations).
RevisionsHold(seen) == disk.valid /\ seen.config = disk.config /\ seen.control = disk.control
Accepted == edit.done \/ RevisionsHold(edit.seen)

Execute ==
    /\ disk' = IF edit.done THEN disk ELSE [disk EXCEPT !.control = @ + 1]
    /\ edit' = [edit EXCEPT !.phase = "applied", !.done = TRUE]
    /\ UNCHANGED events

\* The outcome is unknown to the page when the request or its answer is lost, and when the
\* web server does not pass it on.
Unknown == edit' = [edit EXCEPT !.phase = "unknown"] /\ UNCHANGED disk
LoseAnswer ==
    /\ Event /\ ~edit.done
    /\ disk' = [disk EXCEPT !.control = @ + 1]
    /\ edit' = [edit EXCEPT !.phase = "unknown", !.done = TRUE]

Refuse ==
    /\ edit' = NoEdit
    /\ UNCHANGED <<disk, events>>

Arrive ==
    /\ edit.phase = "sent"
    /\ IF web.status # "ok" THEN Unknown /\ UNCHANGED events
       ELSE IF Accepted THEN Execute \/ LoseAnswer ELSE Refuse
    /\ UNCHANGED <<mpd, observer, web, poll, page>>

LoseRequest ==
    /\ edit.phase = "sent" /\ Event /\ Unknown
    /\ UNCHANGED <<mpd, observer, web, poll, page>>

\* Only the identical submission may be repeated.
Retry ==
    /\ edit.phase = "unknown" /\ CanWrite
    /\ edit' = [edit EXCEPT !.phase = "sent"]
    /\ UNCHANGED <<world, observer, web, poll, page, events>>

\* A gain that was saved keeps the controls locked while its revision is still shown.
Confirmed ==
    /\ edit.phase = "applied"
    /\ edit' = NoEdit
    /\ page' = IF page.shown.snapshot.control = edit.seen.control
               THEN [page EXCEPT !.waits = edit.seen.control] ELSE page
    /\ UNCHANGED <<world, observer, web, poll, events>>

-----------------------------------------------------------------------------

World == AdminEdits \/ OthersWrite \/ MusicChanges \/ Restart \/ ObserverStops
Tick  == ReadStreams \/ ReadFavorites \/ ReadControls \/ KeepCollector \/ ReplaceCollector \/ Closed
Round == PollOutputs \/ PollFavorites
Command == Arrive \/ Confirmed

Next ==
    \/ World \/ Tick \/ (\E due \in BOOLEAN : Observe(due)) \/ FinishJob
    \/ Round \/ PollFails
    \/ Fetch \/ FetchFails \/ Submit \/ LoseRequest \/ Retry \/ Command

Spec == Init /\ [][Next]_vars

\* The observer reads its files again and again, and goes on with a tick it began; the
\* output's due times come; a job, a round, a fetch and a command end.
FairSpec ==
    /\ Spec
    /\ WF_vars(Tick \/ (agent.phase = "observe" /\ Observe(FALSE)))
    /\ SF_vars(Observe(TRUE) /\ job = "idle")
    /\ WF_vars(FinishJob) /\ WF_vars(Round) /\ WF_vars(Fetch) /\ WF_vars(Command)

-----------------------------------------------------------------------------

Versions == 0..MaxEvents
Probes ==
    [status : {"pending"}, value : {None}, known : {None}]
    \cup [status : {"ok"}, value : Versions, known : {None}]
    \cup [status : {"error"}, value : {None}, known : Versions \cup {None}]
Snapshots ==
    [config : Versions, control : Versions, since : Versions, streams : Versions,
     list : Versions \cup {None}, probe : Probes]
Views ==
    [status : {"unavailable"}, code : {"pending", "http", "unreachable", "invalid"}, snapshot : Snapshots \cup {None}]
    \cup [status : {"ok"}, code : {None}, snapshot : Snapshots]

\* An observation has a value when it succeeded, and what it knew before only when it
\* failed; a publication names both revisions; a poller that is well has a snapshot and
\* no error.
TypeOK ==
    /\ disk \in [config : Versions, valid : BOOLEAN, control : Versions]
    /\ agent.phase \in {"rest", "favorites", "controls", "collect", "closing", "observe", "stopped"}
    /\ job \in {"idle", "busy"}
    /\ collector = None \/ collector.probe \in Probes
    /\ pub \in Snapshots \cup {None}
    /\ web \in Views
    /\ poll \in Snapshots \cup {None}
    /\ page.shown \in Views \cup {None}
    /\ page.waits \in Versions \cup {None}
    /\ edit.phase \in {"none", "sent", "unknown", "applied"} /\ (edit.seen = None \/ edit.seen.control \in Versions)

\* A command that passes the check of its revisions was decided on favorites, stations
\* and gains no older than the tick that read the revision it names: what others wrote
\* before that tick, its author saw, whatever the polls and restarts in between.  What
\* is written during the tick may be missing although the check passes.
EditsSawTheirTick ==
    edit.phase = "sent" /\ RevisionsHold(edit.seen) =>
        /\ edit.seen.streams >= edit.seen.since
        /\ edit.seen.list # None => edit.seen.list >= edit.seen.since

Tells(view) ==
    IF agent.phase = "stopped" \/ ~disk.valid THEN view.status = "unavailable"
    ELSE /\ view.status = "ok" /\ page.waits = None
         /\ view.snapshot.config = disk.config
         /\ {view.snapshot.control, view.snapshot.streams, view.snapshot.list} = {disk.control}
         /\ IF mpd.up THEN view.snapshot.probe = Succeeded(mpd.music) ELSE view.snapshot.probe.status = "error"

\* Once nothing changes and nothing fails, the page comes to show the files and MPD as
\* they are, on the announcements alone, and its controls are not left locked; an agent
\* that cannot observe is shown as unavailable.
Settles == <>[](page.available /\ Tells(page.shown))

=============================================================================
