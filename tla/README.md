# A TLA+ model of MPDRussoundPi

MPDRussoundPi drives a Russound CAA66 multi-room amplifier from a Raspberry Pi.
Two programs run on the host:

* the **playback side** (`src/mpdrussoundpi/russound`): one MPD per output, whose
  station, gain and play/pause/stop intention are kept in `playback.json`; a
  **supervisor** process that restores those intentions and watches for stalls; an
  HTTP **agent** that executes manual commands and publishes observations;
* the **web server** (`src/web`): the only owner of the RNet serial gateway and of
  the rooms' state, with a JSON API, an event stream and the browser pages.

They share nothing but the agent's HTTP API. On the playback side the agent, the
supervisor and the command line exclude each other with one file lock
(`mpd_control.lock`) and communicate through `playback.json`. In the web server the
HTTP threads, the full poll, the listener of keypad updates and the playback poller
share one `RussoundState` under `state_lock`, one published payload under
`_state_payload_lock`, and the queues of the event streams under `_events_lock`.

This directory holds TLA+ modules of the parts where order, failure and
concurrency decide about correctness, TLC configurations that check them on small
instances, and TLAPS proofs of the most important properties for every instance.

## Inventory

| Component | State it keeps | Operations | What is hard | What makes it correct |
|---|---|---|---|---|
| Ledger and worker (`lib/playbackoperations.py`, `lib/mpdbackend.py`) | SQLite rows, worker thread, stop and failure flags | submit, run, report progress, expire, supersede, prune, recover | the lock is never waited for; a crash between a save and its record; retries | what a row claims is true of the host; nothing runs twice; no lost update |
| Managed queue (`lib/mpdbackend.py`) | the managed entry, its persisted id and URL, the player | start, stop, pause, select, reconcile | MPD calls that fail half-way; a queue shared with other clients; MPD restarts | one own entry; foreign entries survive; sound only on the right sink; play is restored |
| Supervisor and stall watchdog (`mpdsupervisor.py`, `lib/playbackwatchdog.py`) | back-off, tracking, restart windows | start, reconcile, probe, restart, escalate | stale detections, budgets, deferral | limits hold; only stalls restart; play returns |
| Rooms publication (`web/russound_server.py`) | epoch, revision, published payload | publish, answer, broadcast | two locks, cached answers | revisions order payloads; events announce what is published |
| Rooms page (`web/static/app.js`) | revision seen, pending values, fetch in flight | apply, fetch, update | answers overtaken by answers and events | never back in time; converges |
| Event streams (`web/russound_server.py`) | a bounded queue per stream | register, broadcast, take, write, release | slow pages, full queues, sleepers | nobody is left behind; slots return |
| Zone control (`web/russound_controller.py`, `russound_state.py`, `zone.py`) | rooms, inputs, `russound_state.json` | zone update, system power, shared source, shortcut, read | writes to several zones, some of which fail; a state loaded before and saved after | the saved state becomes the hardware's; nobody's change is overwritten |
| Gateway connection and change watcher (`web/russound_backend.py`, `russound_server.py`) | socket, back-off, generation, zones to refresh, two events, health | connect, listen, keypad update, debounce, poll, reconfigure | wake-ups between two threads, old listeners, overlapping reconfigurations | every keypad change is read; old connections are ignored; the health becomes true |
| RNet connector (`web/russound_connector.py`) | receive buffer, pending frames, queue of updates | request, response, listener | answers without request numbers, late, lost or of another controller; frames in pieces, or damaged | notifications once and in order; wrong answers do not last; damage stays local |
| Agent observer (`lib/playbackagent.py`, `lib/playbackstatus.py`) | readings of a tick, collector, published snapshot | tick, replace the collector, publish, withdraw | files read one after another without a lock | what is published is not older than its tick; nothing stale stays |
| Playback poller and page (`web/playback_status.py`, `playback.js`) | last snapshot and error, the page's fetch and command | poll, announce, fetch, submit, repeat | two requests per poll, lost answers | the page ends up true; a command was decided on what its revisions name |

Left aside altogether: station resolution over HTTP and the packet filter,
audio device discovery and the WirePlumber policy, one-shot setup programs,
measuring programs, the capture tool, the form of the configuration page, Ansible,
Docker and CI. `PROJECT.json`
lists every component with its status.

## Modules

| Module | Of | Composition |
|---|---|---|
| `OperationLifecycle` | what the agent promises about one command | abstract specification |
| `PlaybackOperations` | ledger, worker, lock, revisions, crashes | implements `OperationLifecycle` (`ImplementsLifecycle`) |
| `PlaybackOperationsProofs` | proofs about it | extends it |
| `ManagedQueue` | one output's MPD queue and player | the holder of the lock of `PlaybackOperations`, seen from inside |
| `ManagedQueueProofs` | proofs about it | extends it |
| `PlaybackWatchdog` | the supervisor's loop with the watchdog | `reconcile` is one step here; `ManagedQueue` takes it apart |
| `PlaybackWatchdogProofs` | proofs about it | extends it |
| `RoomsSync` | publication and Rooms page together | both ends of `/api/rooms` |
| `RoomsSyncProofs` | proofs about it | extends it |
| `EventStreams` | fan-out of notifications | the transport that `RoomsSync` takes as lossy |
| `EventStreamsProofs` | proofs about it | extends it |
| `RoomControl` | commands, listener, watcher, connection and configuration changes | what a job of `RoomsSync` does under `state_lock`, and who else saves |
| `RoomControlProofs` | proofs about it | extends it |
| `RnetTransactions` | one connection, frame by frame | the reads and writes that are single steps of `RoomControl` |
| `RnetFraming` | from bytes to frames, and the listener's thread | the frames that `RnetTransactions` begins with |
| `RnetProofs` | proofs about both | extends both, whose states and names are disjoint |
| `PlaybackObservation` | observer, poller and page | where the revisions named in `PlaybackOperations` come from |
| `PlaybackObservationProofs` | proofs about it | extends it |
| `MC...` | instances for TLC | extend the modules |

Definitions named "mutant of X" stand before X: each is X with a plausible bug, and
shows that the property named in `PROJECT.json` fails when X is wrong in that way.
No specification uses them.

### PlaybackOperations

A row of the SQLite ledger is spread over `request`, `status`, `phase`, `persisted`
and `applied`; these survive a crash. `worker` is the program counter of the one
worker thread in `run_once`, `manual_operation` and `favorites_operation`. `lock` is
`mpd_control.lock`. `control` and `config` stand for the two revisions: the code
compares hashes over a file's identity and content, which only equality and change
matter of, so a counter of writes replaces them. `accepted` and `committed` are
history. One action is one SQLite transaction, one lock operation or one replacement
of `playback.json`; between any two of them the process may be killed (`Crash`),
asked to stop (`Close`), the supervisor may take the lock and write
(`OtherAcquires`, `OtherReleases`), the administrator may edit the configuration
(`AdminEdits`) and time may pass (`Tick`). What MPD answers is not modelled here:
`Apply` succeeds or fails.

### ManagedQueue

`saved` is the output's row of `playback.json`; `queue`, `player`, `nextId`, `routed`
are MPD and PipeWire; `live` is the version of the URL each station resolves to now;
`holder` is whoever holds the lock, with the local variables of `reconcile`,
`_start_stream` and `_start_managed_stream`. One action is one call to MPD or one
write. A call may fail with or without its effect (`Fault`), and a restart of MPD
breaks the connection (`linked`). Refusals before the queue is touched end the
operation without a change. Another client may add any URL, a station's own too; the
code takes a single entry with the saved URL for the one to manage, whoever added it
(`Adopted`), and `owner` tells the backend's own entries, adopted ones and others apart.
PipeWire may move the stream at any time (`RouteLost`), also in the five seconds that
`SetGain` may take between the verified route and `setvol(100)`; `holder.moved` notes it.

### PlaybackWatchdog

Time advances one unit per iteration of the supervisor's loop (`Sleep`); every time
the code stores is kept as the time left or elapsed, no further than it is asked for,
so the state space is finite and behaviours need not end. A visit of an output
(`Reconcile`, then `Ignore`, `Observe` or one of the actions of `Act`) is one step;
the world may act between visits. `listed` is the list of outputs read at the start
of the iteration, which may be out of date when it is used. Restarts take no time
in the model; a restart that times out is `RestartFails`, which may leave the output as it
was, stopped or down. An escalation fails as a whole or half-way (`HalfEscalated`): each
output restarted, down, or left by a restarted PipeWire without its sink.

### RoomsSync

A payload is the number of the state it shows; `log[n]` is the job that gave the zone
its value in state `n`. `server` is epoch, revision, the published payload and the
holder of `state_lock`; `job` follows each command or background change through
`state_lock`, the hardware, publication, the revision of the broadcast, the broadcast
and its answer, as separate steps. The page's variables are those of `app.js`:
`fetch` and `queued` (`fetchInFlight`, `fetchQueued`), `updates`
(`zoneUpdateRevision`), `pending` (`pendingZoneUpdates`), `view`. Answers travel on
connections of their own, so that they arrive in any order. The page is visible
throughout; hiding it is the closing of its stream. `app.js` keeps a zone's settings
apart: one setting of one zone is modelled.

### EventStreams

`client` is `_event_clients`; `hand` is the event that a stream's thread took from its
queue and has not written, because `queue.Queue.get` happens outside `_events_lock`
and `playback_pending` is cleared under it later. `page` is the browser: it fetches
when its stream opens and on each event. The five-second poll is left out on purpose:
what holds here holds without it.

### RoomControl

`saved` is `russound_state.json`, `hw` the amplifier. Whoever works on the saved state
loads it, writes to or reads from the hardware zone by zone, and saves: `cmd` is a command
between its `Begin` and its `SaveCommand`, with what it has still to write (`todo`) and what
it will save (`target`); `watcher` is the watcher's thread with the zones it has to read and
the copy it fills. `lock` is `state_lock`. The connection (`link`) is opened, lost, refused and
replaced independently of it, and so do keypads change the amplifier. The listener's thread
takes updates from `wire` and handles one at a time (`busy`); it goes on with what it has read of a
lost connection until that is replaced (`Dropped`), and threads of earlier connections
may still handle their last one (`late`), each with the generation it began under. Each write asks
for a connection, but those of a change of system power, which keep the client of the first (`Kept`). `refresh`, `wake` and
`full` are `_zone_refresh_addresses` and the two events, set and cleared one by one as in the
code. `editor` follows a configuration change after it released the lock, through closing the old
connection, clearing `_backend_reconfiguring` and waking the watcher. A zone is its power and its
source.

### RnetTransactions

One connection to the gateway: `inbox` are requests on their way to the hardware, `wire` frames on
their way back, `pending` and `updates` the connector's `_pending_frames` and
`_pending_zone_updates`. A frame has a kind, a zone and a value; matching compares kind and the
zone's *number*, which zones of several controllers share. That an answer arrives, is late, or is
lost are separate steps, and so are the listener's collecting under the lock and its delivery outside
it (`batch`), which goes on for a lost connection until that is replaced and its listener stopped
(`Abandon`). `issued` and `told` count notifications of each connection (history). The
hardware is an amplifier's controller or the dummy gateway, which answers without header and
reports differently.

### RnetFraming

`line` is a sequence of bytes, `rx`, `pendingFrames` and `pendingUpdates` are the connector's buffer and
queues, `heard` is what it told. Its specification is `FramingSpec`, so that its proofs can stand beside
those of `RnetTransactions`. `Read(k)` receives any number of bytes, takes the complete frames and sorts
them, whether the listener (`Listen`), a request (`ReadAnswer`) or a set does it: a set knows no
signature and takes the first frame that waits for its response (`ReadAny`; `taken` is the history of it).
A frame is F0, address, message
type, value and F7: what the parsers find at fixed offsets of 24 or more bytes stands at fixed positions of
five, and every byte knows the frame it was sent in, so that a value taken from the wrong frame is seen.
`Overrun` removes bytes, which may join frames; `Cut` opens the line again within a frame with a new
connector. Callbacks are called at once (`RnetTransactions` takes that apart). `received` and `frames` are
the history of the present connector, `FramesOf` the reference they are compared with.

### PlaybackObservation

`disk` counts the versions of `config.json` and `playback.json`, `mpd` what MPD would report. `agent`
is the program counter of `AgentObserver.tick` with what each of its reads returned: one action is
one read, and anything may be written in between. `collector` and `job` are the `PlaybackCollector`
and its background reading, `pub` the publication, `poll` and `web` the poller's round and view,
`page` and `edit` the browser's fetch and its one command, which may get lost on the way there or
back and is repeated identically. `since` is the version at the beginning of the tick (history).
Reading MPD's state is one step although `read_playback` asks three times and compares.

## Runs

Every run below finishes; "violation" runs show a disagreement (see Findings).

| Run | Bounds | Shows |
|---|---|---|
| `operations_lane` | 3 commands on one output, capacity and ledger of 2, times 0 to 2, deadline 1, retention 0, 1 edit of the configuration, no other writer, symmetry on interchangeable values | the row limits, keys used again after pruning and not before, superseding |
| `operations_actions` | 2 commands, one action of each kind, an output and the favorites lane, contention, crashes, fairness | what the ledger claims is true, no lost update and one write per revision with the supervisor writing too, the lifecycle is implemented, every accepted command gets an outcome |
| `queue` | 2 commands, 3 faults, 1 URL change, 1 restart of MPD, 1 foreign entry, fairness | one own entry, foreign entries survive unless adopted or mistaken after a restart, sound starts right as far as the code looks, playing is restored or refused for a reason |
| `queue_orphan` | 1 command, 1 fault, 1 URL change | violation of `PlayIsRestored` |
| `rooms` | any 2 of 2 changes of one setting, 1 shared command, 1 background change; with them 1 silent change or 1 restart (3 events in all), fairness | announced is published, pending values show, revisions order payloads, never back in time, convergence |
| `streams` | 2 streams, queue of 2, 2 + 2 changes, fairness | a suppressed notification is under way, pages catch up, slots return |
| `watchdog` | 2 outputs, threshold 2, limit 1 in 4, escalation window 6, 2 faults, 1 failed restart, 2 commands, fairness | limits hold, stalls are observed, playback returns |
| `watchdog_stale` | 1 output | violation of `OnlyStalledRestart` |
| `room_control` | 2 zones (one disabled), 1 input, 2 editors, 3 events, fairness | nothing is overwritten, wake-ups are kept, old connections are ignored, state and health end up true |
| `rnet` | 2 zones of one number on two controllers, 1 command, 2 events, fairness | notifications once and in order, the saved state becomes the hardware's |
| `framing` | 3 frames of either kind, 1 run of lost bytes, 1 lost connection, reads of any size | frames do not depend on the reads, damage stays local, values keep their address, nothing is lost by a listener that stops, and an answer only to a set |
| `observation` | 2 events of any kind, fairness | commands were decided on lists of their tick, the page ends up true |

Why the bounds are enough: two commands are what superseding, revision conflicts and
reuse of a key need, and a third one makes them meet a full ledger; a row of time 0 is pruned by a submission
at time 1, which may take its key, while time 2 is left for that one's deadline. A queue holds at
most one own entry unless something is wrong, so one foreign entry and three faults
allow a fault in the operation, in its repair and in the repair of the repair. Two
answers overtake each other with two changes, and every pair of jobs meets a restart or a silent change
between any two steps; a queue of two overflows with three
events, with a playback notification in it, before it and after it. A restart limit of
one with a window longer than threshold and grace is reached, and so is the escalation
after it. Longer windows repeat the same decisions. In `room_control` three events are a
keypad change, a command and a configuration change or a failure at once, which is what the lock,
the generation and the two events are for; the second zone is what a poll has read before or
after a change of the first, and two editors may both be between their save and the end of
their change. In `rnet` two zones of one number are what it takes to take an
answer for another's. In `framing` one run of lost bytes can shorten a frame below its header, join two
frames, or leave a rest without start behind a cut; the third frame is the one that must arrive. In `observation` every pair of an edit, a change, a command, a lost message
and a restart is reached between any two reads.

Deadlock is checked in every run but the two of the ledger, where it is switched
off because the clock is bounded and the agent stops there for good when nothing is
left to do; without that bound `Tick` would always be possible.

## Fairness

* `PlaybackOperations`: weak fairness of the worker's thread, of the release of the
  lock by others (their MPD and file operations have timeouts), of time, and of the
  end of an agent that is being closed. Nothing is assumed of clients, of restarts or
  of who gets the lock: a command that never gets it expires or fails. `EveryCommandEnds`
  asks for an agent that is up with a live worker from some time on; a worker that died
  takes no commands until the service is restarted, and then its row becomes
  `outcome_unknown`.
* `ManagedQueue`: the holder goes on, and the supervisor comes back to the output. Both
  are one loop with at most 30 s of back-off. `RestoredOrRefused` speaks of the time after
  the last fault, because faults are bounded.
* `RoomsSync`: the server's threads run, requests are answered or fail, the page's
  timer polls. Nothing of the event stream, which may never work.
* `EventStreams`: the stream's thread and the page's fetch. `Release` of a stream whose
  page left is strongly fair, because a take or a write can come in between: the ping every
  few seconds fails on a closed connection, and at the latest the stream's deadline ends it.
* `PlaybackWatchdog`: the loop runs, and a lost USB card returns. Without the latter
  nothing could play.
* `RoomControl`: the holder of the lock, the watcher and an editor's thread go on, back-offs end,
  and a poll that is due again and again takes place however often the watcher is woken (strong
  fairness of `PollDue`): the watcher waits with a timeout and a page is open. Nothing of users,
  keypads, hardware or the listener: push updates may be missed altogether.
* `RnetTransactions`: calls end and the hardware answers or not; polls are a second apart, the
  listener comes every 50 ms, so that late answers, the listener and its callbacks find time between
  two of them again and again (strong fairness at rest).
* `PlaybackObservation`: the tick goes on, an output becomes due again and again, jobs, rounds, fetches
  and commands end. The page's timer is not needed while fetches succeed.

## Proofs

TLAPS proves, for any sets and any bounds that satisfy the assumptions of the modules:

`PlaybackOperationsProofs` (assumptions `LanesAssumption`, `ActionsAssumption`,
`LimitsAssumption`, `NoneAssumption`)

* `TypeCorrect`; `CommitsAreSerialized`; `LedgerIsTruthful`; `RetriesAreSafe`;
  `NewestTargetRuns`; `NothingIsReplayed`; `NoLostUpdate`; `LimitsHold`; and
  `LedgerImplementsLifecycle`, the refinement of `OperationLifecycle`.
* Argument: none of the properties is inductive. `IInv` adds that the worker's program
  counter tells whether its operation has been saved and which phase it reported last
  (`WorkerInv`: without it a failure could be recorded as "not applied" after the save),
  that the lock is the worker's from `checked` to `leaving` with the revision its author
  saw, and that every saved command named a revision below the present one (`RowInv`:
  without it two commands could have named the same). `LaneInv` says that a queued row is
  the newest of its lane, `KeyInv` that keys of present rows differ and that pruned rows are
  old. `LaneAndKeyInductive` proves those two from how rows move (`RowSteps`, `AcceptRows`), and
  `LimitNext` from the same that room is counted and taken in one transaction, for infinitely many
  identities too, because the rows present are finitely many at any time.

`RoomsSyncProofs` (assumption `JobsAssumption`, `BoundsAssumption`)

* `RevisionsAreAnOrder`, `AnnouncementsAreTrue`, `PendingIsShown`, `TimeMovesOn`, `TypeCorrect`.
* Argument: consider every snapshot anybody holds (`Held`). No one is ahead of the server
  it came from (`NoneAhead`), and they are in order (`HeldInOrder`). Every action hands out
  nothing but the server's new snapshot, which stays, is published anew, is counted up by a
  broadcast, or begins a new epoch (`SnapshotSteps`); such steps keep the order
  (`OrderKept`). Announcements are followed from the moment the revision is taken, when no
  snapshot has it yet (`AnnouncementSteps`, `AnnouncementsKept`). Never going back in time
  is then the revision check of the page together with the order.
* `RevisionsOrderPayloads` alone is not inductive: it says nothing of answers that are
  published and not sent, nor that no snapshot is ahead of the server's revision.
* `TypeCorrect` says more than types: that revisions stay below `MaxRevision` however often the page
  fetches. `CountInv` is what is inductive: every revision so far, and the one that a changed payload
  will need, was made for a job that changed the state (`Changed`), for one that announced it (`Told`)
  or for a silent change. Jobs only go forward (`Forward`, `CountsGrow`).

`RoomControlProofs` (assumptions `NobodyAssumption`, `ZonesAssumption`, `BoundsAssumption`)

* `WakeUps`, `NothingIsOverwritten`, `OldConnectionsAreIgnored`, `TypeCorrect`.
* Argument: `WakeUpsAreKept` is inductive as it stands, because it follows a wake-up through all
  three places it can be in: the event, the watcher between clearing the event and taking the zones,
  and a listener that has added a zone and not yet set the event, on the present connection or a lost
  one. `NoLostUpdate` needs `LockInv`: the lock is the watcher's exactly while it reads, and who holds
  it keeps the state it loaded. The same invariant leaves the listener as the only one who saves while
  the lock is free, and its second check of the generation gives `PresentConnectionOnly`.
* `TypeCorrect` needs that a command has no setting of a zone twice in what is left to write (`OnceEach`),
  or the next write would not be the one its target counts, and that updates nobody has taken up belong to
  the shared connection, open or lost. The first is a statement about the sequence of any command, shown from what each request
  appends. `ZonesAssumption` asks for an input (`Sources # {}`): an amplifier has six.

`PlaybackObservationProofs` (assumptions `NoneAssumption`, `BoundsAssumption`)

* `AuthorsAreInformed`, `TypeCorrect`.
* Argument: every snapshot on its way, in the publication, the poller's round, the web server, the page
  and the command, was read no earlier than its tick began (`Sound`). The favorites come from a later
  request than the rest, so the publication and the tick under way must not be older than what a round
  has read (`RoundInv`, `NoneOlder`), through a replaced collector, a withdrawn publication and a restart.
* `TypeCorrect` rests on `CountInv`: a command under way was counted when it was submitted and writes
  `playback.json` once, however often its request or its answer is lost and it is repeated. On the way
  from the tick to the command, what each step has read is what the next one needs (`AgentTypes`,
  `RoundTypes`, `PageTypes`).

`ManagedQueueProofs` (assumption `StationsAssumption`, `BoundsAssumption`)

* `TypeCorrect`; `OneEntry`; `SoundStarts`; `ForeignEntriesStay`.
* Argument: a call that failed may have taken effect, so the queue can be anything a holder left behind;
  what is invariant is what the present holder knows. `SourceInv`: a holder that is to play works for
  the saved station and URL (types need it too: without a station there is no URL to resolve).
  `OwnInv`: no entry of the backend, added or adopted, is there when one is about to be added. `SoundInv`: the
  entry is there before it is started unless MPD restarted, what plays on the way to the unmute is the wanted
  URL, and the unmute follows the route: what plays then is on the right sink, or PipeWire has moved it since
  (`moved`). `IdInv`: until MPD restarts, no id that `playback.json` or the holder remembers is one of an entry
  of another client that was not adopted, because new ids are above all that were given; adoption changes
  nothing but the owner of an entry (`AdoptedEntries`).

`EventStreamsProofs` (all four assumptions)

* `TypeCorrect`, `NotificationUnderWay`.
* Argument: `Consistent` says of one stream that its suppressed notification is either the only one in
  the queue or in the hand of the stream's thread, and that nothing is in either while none is
  suppressed. Two lemmas show it of the two broadcasts, also when the full queue is drained
  (`StateQueued`, `PlaybackNotified`), from what appending and taking do to a queue with one
  notification or none (`Appending`, `Taking`). `Counting` links it to the cardinality of the property.

`PlaybackWatchdogProofs` (assumption `ConfigAssumption`)

* `StallsObserved`, `RestartsLimited`, `TypeCorrect`.
* Argument for the first: `DetectionInv`, that neither the first failed probe nor the last progress of an
  output is noted as longer ago than its last sign of life, whatever the configuration. Probes keep it
  (`Probing`), a sign of life renews both (`Observing`), and time passes for all three alike up to the
  same cap (`SleepSteps`).
* Argument for the second: the watchdog drops old restarts only when it is about to act, so that its list
  may hold more than the window. `WindowInv` says that what `InWindow` would leave of it are the attempts of
  the window, in order. Ageing keeps a list sorted, and filtering it later drops what filtering it
  earlier would have dropped; who acts has counted what is left. A restart that fails may leave the output in
  any of its states, and changes no tracking but by the attempt (`FailedRestarts`).

`RnetProofs`, about `RnetTransactions` (assumptions `ZonesAssumption`, `BoundsAssumption`)

* `StaysOrderly`, of which `TypeCorrect` and `NotificationsInOrder` are the parts.
* Argument: `UnderWay` is what the listener has taken, what waits in the queue and what is on the wire,
  reduced to notifications. A read, by the listener or by a call that waits for an answer, moves frames from
  the wire to the queue and changes nothing of that (`OrderRead`); collecting moves them on and puts other
  frames among them (`OrderCollect`); telling takes the first (`OrderTold`, `HeadFirst`); a notification that is
  sent joins at the end (`OrderNotices`); a lost connection leaves what the listener holds, which belongs to
  that connection (`OrderLost`), and a listener that is stopped drops what nothing follows (`OrderAbandoned`).
* Filtering distributes over concatenation (`NewsConcat`): the induction over sequences it needs is done
  without an induction theorem, from the least length at which the statement fails (`Smallest`, from the
  well-foundedness of `<` on the naturals), and so is the existence of the recursive function in `OfKinds`
  (`UpTo`, `SequencesGrow`).

`RnetProofs`, about `RnetFraming` (no assumption, any bounds)

* `StreamUnderstood` and `ValuesAreHeard`: the two invariants of the module, `StreamIsUnderstood` and `HeardAsSent`.
* Argument for the first (`StreamInv`): the buffer is what follows the last end of the whole stream, and the
  frames taken from it so far are those of the whole stream. A frame that ends later starts after the last end, so that
  the frames of two parts together are the first one's and those of its remainder with the second
  (`FramesConcat`, from `FramesAppend`, one byte at a time). What the loop of the code extracts is what the
  reference says, by taking the greatest cursor from which they would differ (`ExtractedIs`, `Largest`).
  A whole frame at the end of which nothing has been lost ends one of these frames, and nothing
  between the previous end and its F0 is taken for its beginning (`IntactIsFrame`).
* Argument for the second: each byte of an undamaged frame, but its F7, is followed by the next one of the
  same frame, in what has been received together with what is on the line (`FlowInv`: overruns damage the frames
  they take bytes from, and a cut keeps only what follows it). So a value found after an address is its own (`ThenValue`).
  A frame that is due is sorted into the queue or kept, and what is removed from there is
  told, taken as the answer by someone who takes no other, or, if it is no notification, taken by a set (`KeptInv`).

Only model-checked: `OnlyStalledRestart` and `PlayIsRestored`, which do not hold; and all liveness, which is
beyond the prover.

## Findings

* `queue_orphan`: `addid` takes effect and its reply, or the save of the new id, is lost;
  the TuneIn URL changes before the next attempt. `reconcile` saves the new URL, refuses its
  own leftover entry as unmanaged, and goes on refusing: the documents promise that the
  supervisor's reconciliation recovers from both. `RestoredOrRefused` says what is true.
* `watchdog_stale`: once a stall is latched and its action waits, nobody probes any more; an
  output that has recovered meanwhile is stopped by the restart, or by the escalation. The plan
  (`mpd_open_playback-stall-watchdog.md:256-262`) chooses the latch for the audio gate, and the "only" of
  the deployment guide scopes the service that is restarted; that a restart which timed out and worked, or a
  recovery by hand during a hold, is followed by another restart is documented nowhere.

Observations without a run:

* Publication and streams. An answer of the previous epoch that arrives after the page has seen the
  new one is applied (`app.js:84` compares revisions within an epoch only), although
  `software-architecture.md:316` says that late answers never overwrite; the next poll repairs it
  (`Converges`). A dropped fetch, and an answer refused because a fetch overtook it, leave the page
  stale or with an optimistic value until the five-second poll; the event has been used up. Changes of
  the gateway's health are published by the next reader, not broadcast (`SilentChange`). What an
  overflow leaves in a stream's queue may be a playback notification alone, although
  `web/API.md:331` promises the latest state notification; every page fetches on both or polls.
* Queue. Song ids start again when MPD restarts, so an entry of another client may get the persisted id
  and be taken for the backend's own: `ForeignEntriesSurvive` states this exception. A single entry with the
  saved URL is adopted whoever added it, and deleted when another URL is wanted (`mpdbackend.py:356`, `431`,
  `370`); the documents allow the adoption (`mpd-playback-operations-api.md:206`), of the selected station's
  URL, while line 431 compares the URL saved before the selection. When PipeWire moves the stream after
  `recover_route` and before `setvol(100)`, it becomes audible on the wrong sink until the next
  reconciliation: nothing looks at the route again (`SoundStartsRight` states this exception).
* Zone control. `set_shared_source` and `apply_shortcut` ignore failed writes, while section 3.2 of
  `software-architecture.md` says that hardware errors become HTTP 502. A setting is saved unwritten when
  there is no shared backend and the gateway refuses a connection; a silent controller accepts every
  write. System power saves disabled zones as off. `Settles` says that a poll repairs all of it.
* Configuration. A change that keeps the endpoint, or a second editor, clears `_backend_reconfiguring`
  while another one is still closing its connection. A full poll that is requested during the debounce of a
  keypad update waits for its schedule. A listener of the old connection may finish an update after
  the new one exists; its generation then fails the second check.
* Connector. Answers are matched by message type and zone number only, so that a late answer, or one of
  another controller's zone with the same number, is taken for the answer; what notifications tell
  is not affected (`EventsOnceInOrder`), and a later poll repairs the saved state (`Converges`). A frame of two to seven bytes
  with F0, as lost bytes leave it, raises IndexError in `_parse_zone_updates`, which has made sure of two bytes
  when it reads the eighth. It ends the listener's thread with the connection open. `HeardAsSent` says that
  nothing is lost by that, but until the next call of the backend attaches another thread keypad changes are not
  heard; without a page nobody may call. Received checksums are not compared, so that the damaged frame itself
  may tell a wrong value. Where lost bytes have joined the head of one answer to the signature of another one
  that breaks off too, a read takes the frame for its answer and tells nothing: it takes three runs of lost
  bytes, and `Due` states this exception. A set (power, volume, source, displays) has no signature and discards
  the first frame that waits, for instance a late answer nobody has told yet (`russound_connector.py:781`); it
  may not be a notification, which waits elsewhere. `FramesAreHeard` states this exception too. The
  fallback reads of `read_zone` save a power that did not answer as off, and a source as the first input
  (`ZonePartly`).
* Observation. `favorites()` promises a list with its revision, and reads them one after the other; TLC
  finds an accepted edit on an older list when `EditsSawTheirTick` asks for the list of the very revision.
  What it does ask for is what holds. An exception in the observer's thread leaves the agent
  unavailable until its service is restarted.

## Not modelled

Time is discrete everywhere, and durations of calls are not counted. JSON, SQL, HTTP and
MPD's protocol are represented by what they do to the state. Gains, favorites and names
are data no property tells apart. The watchdog's probe is its result. Sleeping and hidden pages
are modelled in `EventStreams` only. In `RoomControl` and `RnetTransactions` a zone is its power, or its
power and source: volume, tone and the other settings are written and read in the same way and their
failures are the same. Left out of the connector are the checksum and the pacing of what it sends, escapes
(removed for the log only), the texts sent to displays, user parameters and the opening of devices. In
`PlaybackObservation` there is one output of one agent; audio probes, and the ages that turn an
observation stale on the page, are left out. Resolution of stations, device discovery, one-shot setup
programs, measuring programs, the capture tool and deployment keep no state that the running system shares
with others, or are input and output; `PROJECT.json` gives the reason for each component.

## Plan

What further work would add, in this order:

1. Ages and staleness: when a page calls an observation stale, with clocks of the agent and the server.
2. Several agents and outputs in `PlaybackObservation`, and its composition with `PlaybackOperations` in
   place of `Execute`.
3. Conversions of user parameters between the wire, the saved state and the page, with their roundings.
4. That `RnetFraming` implements the arrivals of `RnetTransactions`: its frames come or do not, and keep their order.
